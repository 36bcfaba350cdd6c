\* Two requests, three generations and three faults of the manager; two HTTP requests
\* on two generations; updates to two generations of settings with two providers, one
\* of which only tests ask; two restarts, two mishaps and two turns of the server.
SPECIFICATION MCSpec
CONSTANTS
  Requests = {r1, r2}
  MaxGeneration = 3
  MaxFaults = 3
  LastGeneration = 2
  Callers = {c1, c2}
  MaxTurns = 2
  MaxMishaps = 2
  MaxRestarts = 2
  Providers = {p1, p2}
  Unlisted = {p2}
  Testers = {t1}
  LastPublished = 2
  Followed = {{c1, "stop"}, {c2, "retired"}}
INVARIANTS
  UseIsSafe
  NothingLost
  ClosedOwnsNothing
  LeasesOutliveBodies
  AdminSeesTruth
  ServerInOrder
PROPERTIES
  LeaseDiscipline
  GenerationsEnd
  ServingEnds
CHECK_DEADLOCK FALSE
