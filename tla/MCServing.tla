-------------------------------- MODULE MCServing --------------------------------
(* Serving: the generations of providers, the responses and their leases, the       *)
(* administration, and the server process. Four independent models in one run, of   *)
(* which the initial state chooses the one that moves.                              *)
EXTENDS ProviderGenerations, ResponseStreams, AdminConfig, ServerSupervisor

CONSTANTS
  Followed                  \* sets of which each has at most one member of each model

VARIABLE focus

allVars == <<vars, servingVars, adminVars, serverVars, focus>>

MCInit ==
  /\ focus \in {"generations", "responses", "admin", "server"}
  /\ Init /\ ResponsesInit /\ AdminInit /\ ServerInit
  /\ focus # "server" => owned = {"providers"}
  /\ focus # "admin" => ~supervised /\ file.providers = {} /\ catalog = {}

MCNext ==
  /\ UNCHANGED focus
  /\ \/ focus = "generations" /\ Next /\ UNCHANGED <<servingVars, adminVars, serverVars>>
     \/ focus = "responses" /\ ResponsesNext /\ UNCHANGED <<vars, adminVars, serverVars>>
     \/ focus = "admin" /\ AdminNext /\ UNCHANGED <<vars, servingVars, serverVars>>
     \/ focus = "server" /\ ServerNext /\ UNCHANGED <<vars, servingVars, adminVars>>

\* The fairness of each specification, for the model that moves; that of the
\* generations asks nothing of a manager in its initial state.
ResponseMoves(A) == focus = "responses" /\ A
ServerMoves(A) == focus = "server" /\ A

MCSpec ==
  /\ MCInit /\ [][MCNext]_allVars
  /\ Fairness
  /\ \A c \in Callers : WF_servingVars(ResponseMoves(ServesRequest(c)))
  /\ \A g \in Ids : WF_servingVars(ResponseMoves(Close(g) /\ UNCHANGED responseVars))
  /\ WF_serverVars(ServerMoves(WorkerSteps))
  /\ WF_serverVars(ServerMoves(TurnsMove))

\* Something that has begun: a request that holds a lease, a generation that is
\* retired, a process that was told to stop.
Begun(w) ==
  \/ w \in Callers /\ step[w] \notin {"idle", "over"}
  \/ w = "retired" /\ \E g \in Ids : phase[g] = "retired"
  \/ w = "stop" /\ stopWanted /\ worker # "dead"

\* What has begun ends: requests give their leases back however their client leaves,
\* which closes the generations that are retired; and a process that is told to stop
\* joins its worker.
ServingEnds ==
  \A W \in Followed : (\E w \in W : Begun(w)) ~> \A w \in W : ~Begun(w)
=============================================================================
