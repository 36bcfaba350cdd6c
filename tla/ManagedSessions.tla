----------------------------- MODULE ManagedSessions -----------------------------
(* The managed CLI sessions of the messaging bridge: the manager's maps, the        *)
(* sessions' processes, and the node runners that use them. A runner asks for the   *)
(* session of its parent turn, reads the CLI's events, learns the real session id   *)
(* from one of them, and removes the session when it leaves; a stop of everything   *)
(* may come at any time and a runner may be cancelled at each of its awaits.        *)
EXTENDS Naturals, FiniteSets

CONSTANTS
  Runners,                  \* node runners at work at once
  Sessions,                 \* bound: session objects ever made
  RealIds,                  \* session ids the CLI reports
  None,
  MaxFailures               \* bound: kills that fail

VARIABLES
  registered,               \* _sessions: the session of a real id
  pending,                  \* _pending_sessions: the session of a temporary id
  tempToReal, realToTemp,
  closing,                  \* _closing_sessions
  managerLock,              \* who holds _lock across an await
  proc,                     \* the process of each session
  closed,                   \* the sessions with _closed set
  lifecycle,                \* who holds each _lifecycle_lock across an await
  cli,                      \* who holds each _cli_lock
  runner,                   \* where each node runner is
  got, captured, temp,      \* its session, captured_session_id, temp_session_id
  rescue,                   \* the shielded stop of a cancelled start_task
  stopAll, todo,            \* where stop_all is, and the sessions it has left
  failures                  \* history: kills that failed

maps == <<registered, pending, tempToReal, realToTemp, closing>>
processes == <<proc, closed, lifecycle, cli, rescue>>
runners == <<runner, got, captured, temp>>
stopping == <<stopAll, todo, failures>>
sessionVars == <<maps, managerLock, processes, runners, stopping>>

\* A session made without a parent has an id of its own for a key.
TempIds == RealIds \cup Sessions
Live == {"launching", "running"}
Everything == "stop_all"
Rescuer == "rescue"
Generator == "generator"

ASSUME SessionsAssumption ==
  /\ None \notin Sessions \cup RealIds /\ MaxFailures \in Nat
  /\ Sessions \cap RealIds = {}
  /\ None \notin {Everything, Rescuer, Generator}
  /\ Runners \cap {Everything, Rescuer, Generator, None} = {}

\* The manager, before a session is made.
ManagerInit ==
  /\ registered = [i \in RealIds |-> None] /\ pending = [t \in TempIds |-> None]
  /\ tempToReal = [t \in TempIds |-> None] /\ realToTemp = [i \in RealIds |-> None]
  /\ closing = {} /\ managerLock = None
  /\ lifecycle = [s \in Sessions |-> None] /\ cli = [s \in Sessions |-> None]
  /\ rescue = [s \in Sessions |-> "none"]
  /\ runner = [r \in Runners |-> "idle"] /\ got = [r \in Runners |-> None]
  /\ captured = [r \in Runners |-> None] /\ temp = [r \in Runners |-> None]
  /\ stopAll = "idle" /\ todo = {} /\ failures = 0

SessionsInit ==
  ManagerInit /\ proc = [s \in Sessions |-> "unmade"] /\ closed = {}

Runs(r, from, to) == runner[r] = from /\ runner' = [runner EXCEPT ![r] = to]

\* The runner is over, and its variables with it.
Over(r) ==
  /\ runner' = [runner EXCEPT ![r] = "idle"]
  /\ got' = [got EXCEPT ![r] = None]
  /\ captured' = [captured EXCEPT ![r] = None] /\ temp' = [temp EXCEPT ![r] = None]

-----------------------------------------------------------------------------
(* The manager's maps *)

Alias(id) == IF tempToReal[id] # None THEN tempToReal[id] ELSE id

\* _session_for_id
SessionFor(id) ==
  LET a == Alias(id) IN
  IF a \in RealIds /\ registered[a] # None THEN registered[a] ELSE pending[a]

Owned ==
  ({registered[i] : i \in RealIds} \cup {pending[t] : t \in TempIds} \cup closing) \ {None}

\* _forget_session: out of every map, aliases included.
Forget(s) ==
  LET gone == {i \in RealIds : registered[i] = s} IN
  /\ pending' = [t \in TempIds |-> IF pending[t] = s THEN None ELSE pending[t]]
  /\ registered' = [i \in RealIds |-> IF i \in gone THEN None ELSE registered[i]]
  /\ realToTemp' = [i \in RealIds |-> IF i \in gone THEN None ELSE realToTemp[i]]
  /\ tempToReal' = [t \in TempIds |->
                      IF \E i \in gone : realToTemp[i] = t THEN None ELSE tempToReal[t]]
  /\ closing' = closing \ {s}

\* get_or_create_session of the parent's id, or of none: an existing session, shared.
Reuse(r, parent) ==
  /\ managerLock = None /\ parent # None /\ SessionFor(parent) # None
  /\ SessionFor(parent) \notin closing
  /\ Runs(r, "idle", "have")
  /\ got' = [got EXCEPT ![r] = SessionFor(parent)]
  /\ captured' = [captured EXCEPT ![r] = Alias(parent)]
  /\ temp' = [temp EXCEPT ![r] = None]
  /\ UNCHANGED <<maps, managerLock, processes, stopping>>

\* ... or a new one, under the parent's id or one of its own. The session of a parent
\* that is closing is refused, which leaves everything as it is.
Create(r, parent) ==
  /\ managerLock = None /\ (parent # None => SessionFor(parent) = None)
  /\ \E s \in Sessions :
       LET key == IF parent = None THEN s ELSE parent IN
       /\ proc[s] = "unmade" /\ proc' = [proc EXCEPT ![s] = "none"]
       /\ pending' = [pending EXCEPT ![key] = s]
       /\ Runs(r, "idle", "have")
       /\ got' = [got EXCEPT ![r] = s]
       /\ temp' = [temp EXCEPT ![r] = key]
       /\ captured' = [captured EXCEPT ![r] = None]
  /\ UNCHANGED <<registered, tempToReal, realToTemp, closing, managerLock, closed,
                 lifecycle, cli, rescue, stopping>>

-----------------------------------------------------------------------------
(* start_task *)

Begin(r) ==
  /\ Runs(r, "have", "entering") /\ cli[got[r]] = None
  /\ cli' = [cli EXCEPT ![got[r]] = r]
  /\ UNCHANGED <<maps, managerLock, proc, closed, lifecycle, rescue, got, captured, temp,
                 stopping>>

\* Mutant of Launch: whether the session is closed is not looked at.
LaunchClosed(r) ==
  /\ Runs(r, "entering", "launching")
  /\ lifecycle[got[r]] = None
  /\ proc' = [proc EXCEPT ![got[r]] = "launching"]
  /\ lifecycle' = [lifecycle EXCEPT ![got[r]] = r]
  /\ UNCHANGED <<maps, managerLock, closed, cli, rescue, got, captured, temp, stopping>>

Launch(r) ==
  /\ Runs(r, "entering", "launching")
  /\ lifecycle[got[r]] = None /\ got[r] \notin closed
  /\ proc' = [proc EXCEPT ![got[r]] = "launching"]
  /\ lifecycle' = [lifecycle EXCEPT ![got[r]] = r]
  /\ UNCHANGED <<maps, managerLock, closed, cli, rescue, got, captured, temp, stopping>>

LaunchRefused(r) ==
  /\ Runs(r, "entering", "leaving")
  /\ lifecycle[got[r]] = None /\ got[r] \in closed
  /\ cli' = [cli EXCEPT ![got[r]] = None]
  /\ UNCHANGED <<maps, managerLock, proc, closed, lifecycle, rescue, got, captured, temp,
                 stopping>>

Launched(r) ==
  /\ Runs(r, "launching", "reading")
  /\ proc' = [proc EXCEPT ![got[r]] = "running"]
  /\ lifecycle' = [lifecycle EXCEPT ![got[r]] = None]
  /\ UNCHANGED <<maps, managerLock, closed, cli, rescue, got, captured, temp, stopping>>

\* The launch raises, or is cancelled: there is no process.
LaunchFails(r) ==
  /\ Runs(r, "launching", "leaving")
  /\ proc' = [proc EXCEPT ![got[r]] = "none"]
  /\ lifecycle' = [lifecycle EXCEPT ![got[r]] = None]
  /\ cli' = [cli EXCEPT ![got[r]] = None]
  /\ UNCHANGED <<maps, managerLock, closed, rescue, got, captured, temp, stopping>>

\* A session that is closing, or an id another session has, is refused.
MayRegister(s, real) ==
  s # None /\ s \notin closing /\ SessionFor(real) \in {None, s}

\* A session_info event with the real id: the session changes maps.
Register(r, real) ==
  /\ runner[r] = "reading" /\ temp[r] # None /\ managerLock = None
  /\ LET t == temp[r]  s == pending[t] IN
       /\ MayRegister(s, real)
       /\ pending' = [pending EXCEPT ![t] = None]
       /\ registered' = [registered EXCEPT ![real] = s]
       /\ tempToReal' = [tempToReal EXCEPT ![t] = real]
       /\ realToTemp' = [realToTemp EXCEPT ![real] = t]
  /\ captured' = [captured EXCEPT ![r] = real] /\ temp' = [temp EXCEPT ![r] = None]
  /\ UNCHANGED <<closing, managerLock, processes, runner, got, stopping>>

\* A generator whose runner leaves it between two events keeps the lock.
Abandons(r) == cli' = [cli EXCEPT ![got[r]] = Generator]

\* The registration is refused and the runner fails.
RegisterRefused(r, real) ==
  /\ Runs(r, "reading", "leaving")
  /\ temp[r] # None /\ managerLock = None /\ ~MayRegister(pending[temp[r]], real)
  /\ Abandons(r)
  /\ UNCHANGED <<maps, managerLock, proc, closed, lifecycle, rescue, got, captured, temp,
                 stopping>>

ProcessExits(s) ==
  /\ proc[s] = "running" /\ proc' = [proc EXCEPT ![s] = "exited"]
  /\ UNCHANGED <<maps, managerLock, closed, lifecycle, cli, rescue, runners, stopping>>

\* The CLI's output has ended.
Finish(r) ==
  /\ Runs(r, "reading", "leaving") \/ Runs(r, "rescued", "leaving")
  /\ proc[got[r]] = "exited"
  /\ cli' = [cli EXCEPT ![got[r]] = None]
  /\ UNCHANGED <<maps, managerLock, proc, closed, lifecycle, rescue, got, captured, temp,
                 stopping>>

\* A generator its runner has left is finalized when the process has ended.
Finalized(s) ==
  /\ cli[s] = Generator /\ proc[s] = "exited"
  /\ cli' = [cli EXCEPT ![s] = None]
  /\ UNCHANGED <<maps, managerLock, proc, closed, lifecycle, rescue, runners, stopping>>

-----------------------------------------------------------------------------
(* Stopping a session, under its lifecycle lock, for one of three reasons *)

\* stop() by actor a has the lock: the session is closed, and if there is a process
\* the kill begins.
StopEnters(a, s) ==
  /\ lifecycle[s] = None /\ closed' = closed \cup {s}
  /\ lifecycle' = [lifecycle EXCEPT ![s] = IF proc[s] = "running" THEN a ELSE None]

\* The process is gone and stop() returns True, at once or after the kill.
StopSucceeds(a, s) ==
  \/ StopEnters(a, s) /\ proc[s] # "running" /\ UNCHANGED proc
  \/ lifecycle[s] = a /\ lifecycle' = [lifecycle EXCEPT ![s] = None]
     /\ proc' = [proc EXCEPT ![s] = "exited"] /\ UNCHANGED closed

\* The kill raises and stop() returns False.
StopFails(a, s) ==
  /\ lifecycle[s] = a /\ lifecycle' = [lifecycle EXCEPT ![s] = None]
  /\ failures < MaxFailures /\ failures' = failures + 1
  /\ UNCHANGED <<proc, closed>>

KillBegins(a, s) ==
  /\ proc[s] = "running" /\ StopEnters(a, s)
  /\ UNCHANGED <<maps, managerLock, proc, cli, rescue, runners, stopping>>

\* remove_session by a runner that leaves, by the id it has last learned.
LeavingId(r) == IF captured[r] # None THEN captured[r] ELSE temp[r]

RemoveBegins(r) ==
  /\ runner[r] = "leaving" /\ managerLock = None
  /\ IF SessionFor(LeavingId(r)) = None
     THEN Over(r) /\ UNCHANGED <<closing, managerLock>>
     ELSE /\ Runs(r, "leaving", "removing")
          /\ managerLock' = r
          /\ got' = [got EXCEPT ![r] = SessionFor(LeavingId(r))]
          /\ closing' = closing \cup {SessionFor(LeavingId(r))}
          /\ UNCHANGED <<captured, temp>>
  /\ UNCHANGED <<registered, pending, tempToReal, realToTemp, processes, stopping>>

Removed(r) ==
  /\ runner[r] = "removing" /\ StopSucceeds(r, got[r]) /\ Forget(got[r]) /\ Over(r)
  /\ managerLock' = None
  /\ UNCHANGED <<cli, rescue, stopping>>

RemoveFails(r) ==
  /\ runner[r] = "removing" /\ StopFails(r, got[r]) /\ Over(r)
  /\ managerLock' = None
  /\ UNCHANGED <<maps, cli, rescue, stopAll, todo>>

\* stop_all: under the manager's lock, session by session.
StopAllBegins ==
  /\ stopAll = "idle" /\ managerLock = None
  /\ stopAll' = "stopping" /\ managerLock' = Everything
  /\ todo' = Owned /\ closing' = closing \cup Owned
  /\ UNCHANGED <<registered, pending, tempToReal, realToTemp, processes, runners, failures>>

StopsOne(s) ==
  /\ stopAll = "stopping" /\ s \in todo /\ todo' = todo \ {s}
  /\ \/ StopSucceeds(Everything, s) /\ Forget(s) /\ UNCHANGED failures
     \/ StopFails(Everything, s) /\ UNCHANGED maps
  /\ UNCHANGED <<managerLock, cli, rescue, runners, stopAll>>

\* What could not be stopped is still closing, and stop_all raises.
StopAllEnds ==
  /\ stopAll = "stopping" /\ todo = {}
  /\ stopAll' = "idle" /\ managerLock' = None
  /\ UNCHANGED <<maps, processes, runners, todo, failures>>

\* The shielded stop goes on whatever becomes of its runner.
Rescued(s) ==
  /\ rescue[s] = "waiting" /\ rescue' = [rescue EXCEPT ![s] = "none"]
  /\ \/ StopSucceeds(Rescuer, s) /\ UNCHANGED failures
     \/ StopFails(Rescuer, s)
  /\ UNCHANGED <<maps, managerLock, cli, runners, stopAll, todo>>

-----------------------------------------------------------------------------
(* Cancellation of a runner *)

\* While it waits for a lock, or reads, or is between two events.
CancelWaiting(r) ==
  /\ \/ Runs(r, "have", "leaving") /\ UNCHANGED <<cli, rescue>>
     \/ /\ Runs(r, "entering", "leaving") \/ Runs(r, "rescued", "leaving")
        /\ cli' = [cli EXCEPT ![got[r]] = None] /\ UNCHANGED rescue
     \/ Runs(r, "reading", "leaving") /\ Abandons(r) /\ UNCHANGED rescue
     \/ Runs(r, "reading", "rescued") /\ UNCHANGED cli
        /\ rescue' = [rescue EXCEPT ![got[r]] = "waiting"]
  /\ UNCHANGED <<maps, managerLock, proc, closed, lifecycle, got, captured, temp, stopping>>

\* Before its removal has begun: the session stays.
CancelLeaving(r) ==
  /\ runner[r] = "leaving" /\ Over(r)
  /\ UNCHANGED <<maps, managerLock, processes, stopping>>

\* In the middle of stop(): the locks are released, the session stays closing.
CancelRemoving(r) ==
  /\ runner[r] = "removing" /\ managerLock' = None /\ Over(r)
  /\ lifecycle' = [s \in Sessions |-> IF lifecycle[s] = r THEN None ELSE lifecycle[s]]
  /\ UNCHANGED <<maps, proc, closed, cli, rescue, stopping>>

Kills ==
  \/ \E r \in Runners : runner[r] = "removing" /\ KillBegins(r, got[r])
  \/ \E s \in todo : /\ \A other \in todo : lifecycle[other] # Everything
                    /\ KillBegins(Everything, s)
  \/ \E s \in Sessions : rescue[s] = "waiting" /\ KillBegins(Rescuer, s)

\* Nothing more can be made: the bound on sessions is reached.
AllMade ==
  /\ \A s \in Sessions : proc[s] # "unmade"
  /\ \A r \in Runners : runner[r] = "idle"
  /\ UNCHANGED sessionVars

TaskSteps(r) ==
  \/ Begin(r) \/ Launch(r) \/ LaunchRefused(r) \/ Launched(r) \/ LaunchFails(r)
  \/ Finish(r) \/ RemoveBegins(r) \/ Removed(r) \/ RemoveFails(r)

StopSteps == Kills \/ StopAllEnds \/ \E s \in Sessions : StopsOne(s) \/ Rescued(s)

SessionsNext ==
  \/ \E r \in Runners :
       \/ \E parent \in RealIds \cup {None} : Reuse(r, parent) \/ Create(r, parent)
       \/ \E real \in RealIds : Register(r, real) \/ RegisterRefused(r, real)
       \/ TaskSteps(r) \/ CancelWaiting(r) \/ CancelLeaving(r)
       \/ CancelRemoving(r)
  \/ \E s \in Sessions : ProcessExits(s) \/ Finalized(s)
  \/ StopAllBegins \/ StopSteps \/ AllMade

(* A CLI process ends by itself, ready tasks run, and asyncio's locks are granted   *)
(* in order. Nobody has to start, stop or cancel anything.                          *)
SessionsSpec ==
  /\ SessionsInit /\ [][SessionsNext]_sessionVars
  /\ \A r \in Runners : SF_sessionVars(TaskSteps(r))
  /\ \A s \in Sessions : WF_sessionVars(ProcessExits(s)) /\ WF_sessionVars(Finalized(s))
  /\ SF_sessionVars(StopSteps)

-----------------------------------------------------------------------------
(* Properties *)

SessionsTypeOK ==
  /\ registered \in [RealIds -> Sessions \cup {None}]
  /\ pending \in [TempIds -> Sessions \cup {None}]
  /\ tempToReal \in [TempIds -> RealIds \cup {None}]
  /\ realToTemp \in [RealIds -> TempIds \cup {None}]
  /\ closing \subseteq Sessions /\ closed \subseteq Sessions
  /\ managerLock \in Runners \cup {Everything, None}
  /\ proc \in [Sessions -> Live \cup {"unmade", "none", "exited"}]
  /\ lifecycle \in [Sessions -> Runners \cup {Everything, Rescuer, None}]
  /\ cli \in [Sessions -> Runners \cup {Generator, None}]
  /\ rescue \in [Sessions -> {"none", "waiting"}]
  /\ runner \in [Runners -> {"idle", "have", "entering", "launching", "reading",
                             "rescued", "leaving", "removing"}]
  /\ got \in [Runners -> Sessions \cup {None}]
  /\ captured \in [Runners -> TempIds \cup {None}] /\ temp \in [Runners -> TempIds \cup {None}]
  /\ stopAll \in {"idle", "stopping"} /\ todo \subseteq Sessions
  /\ failures \in 0 .. MaxFailures

\* A live process always belongs to a session the manager still owns, so that a stop
\* of everything reaches it and leaves none behind when it succeeds; a session that
\* was given up is closed for good; a session has one id at most; and the two alias
\* maps agree with each other and with the sessions.
ProcessesOwned ==
  /\ \A s \in Sessions : proc[s] \in Live => s \in Owned
  /\ \A s \in Sessions : proc[s] = "unmade" \/ s \in Owned \cup closed
  /\ \A s \in Sessions :
       Cardinality({i \in RealIds : registered[i] = s} \cup
                   {t \in Sessions : pending[t] = s}) <= 1
  /\ \A t \in TempIds, i \in RealIds : tempToReal[t] = i <=> realToTemp[i] = t
  /\ \A i \in RealIds : realToTemp[i] # None <=> registered[i] # None

\* A runner always gets through: none is stuck behind a session, a kill or a lock.
RunnersLeave == \A r \in Runners : runner[r] # "idle" ~> runner[r] = "idle"

=============================================================================
