\* Three of eight messages in two chats, or a scene of four; two notes and a command; three
\* versions of the store; two runners at one session, or one runner with two.
SPECIFICATION MCSpec
CONSTANTS
  Turns = {t1, t2}
  Stops = {s1}
  Clears = {c1, c2}
  ReplyClears = {rc1, rc2}
  Notices = {n1}
  Chats = {"chat", "home"}
  ChatOf <- MCChatOf
  Nobody = Nobody
  Crowd = 4
  MaxRefusals = 1
  Notes = {v1, v2}
  Commands = {k1}
  MaxVersion = 3
  MaxFaults = 1
  Runners = {r1, r2}
  Sessions = {x1, x2}
  RealIds = {i1, i2}
  None = None
  MaxFailures = 1
  SecondRunner = r2
  SecondSession = x2
  SecondId = i2
  Followed = {{r1, v1, "unsaved"}, {k1, Nobody}}
  Firsts = {t1, c1, rc1}
  Scenes = {{t1, t2, rc1, s1}, {t1, t2, rc1, c1}, {t1, rc1, rc2, c1}}
INVARIANTS
  Boundaries
  ClearsAreThorough
  ProcessesOwned
  NotesOwned
PROPERTIES
  DiskKeepsPromises
  MessagingEnds
CHECK_DEADLOCK FALSE
