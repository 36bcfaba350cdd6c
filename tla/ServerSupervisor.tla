---------------------------- MODULE ServerSupervisor ----------------------------
(* The desktop process: a tray on the main thread, and a worker thread on which the *)
(* supervisor runs one server after another, each with an application runtime of    *)
(* its own. Restarts are asked for by the tray and by the Admin API of the running  *)
(* server, stops by the tray; every field of the supervisor is guarded by its lock, *)
(* but between two acquisitions anything may have been asked.                       *)
(*                                                                                  *)
(* `fcc-server` is the same worker without a tray. Of uvicorn the model takes that  *)
(* it looks at should_exit after startup and then while it serves, and shuts the    *)
(* application down only in the second case.                                        *)
EXTENDS AppLifecycle

CONSTANTS
  MaxRestarts               \* bound: restarts that are asked for

VARIABLES
  scheduled,                \* _run_scheduled
  running,                  \* _running
  stopWanted,               \* _stop_requested
  wanted,                   \* _restart_generation
  noted,                    \* the restart generation the loop has read
  installed,                \* _server is set
  exit,                     \* should_exit of that server
  worker,                   \* where the worker thread is
  tray                      \* where a click of the tray is

supervisorVars == <<scheduled, running, stopWanted, wanted, noted, installed, exit,
                    worker, tray>>
serverVars == <<supervisorVars, lifeVars>>

SupervisorInit ==
  /\ scheduled = FALSE /\ running = FALSE /\ stopWanted = FALSE
  /\ wanted = 0 /\ noted = 0
  /\ installed = FALSE /\ exit = FALSE
  /\ worker = "dead" /\ tray = "starting"

ServerInit == LifeInit /\ SupervisorInit

-----------------------------------------------------------------------------------
(* Requests, each under the lock *)

\* should_exit belongs to the installed server.
AsksToExit == exit' = (exit \/ installed)

RequestRestart ==
  /\ wanted < MaxRestarts
  /\ IF ~stopWanted /\ (scheduled \/ running)
       THEN /\ wanted' = wanted + 1
            /\ IF scheduled THEN UNCHANGED exit ELSE AsksToExit
       ELSE UNCHANGED <<wanted, exit>>
  /\ UNCHANGED <<scheduled, running, stopWanted, noted, installed, worker, lifeVars>>

RequestStop ==
  /\ stopWanted' = TRUE /\ scheduled' = FALSE
  /\ AsksToExit
  /\ UNCHANGED <<running, wanted, noted, installed, worker, lifeVars>>

-----------------------------------------------------------------------------------
(* The tray *)

\* _start_server, under the controller's own lock: the thread that is started finds
\* the run reserved, unless a stop has come between.
StartServer ==
  /\ tray = "starting" /\ tray' = "idle"
  /\ IF worker = "dead" /\ ~stopWanted /\ ~scheduled /\ ~running
       THEN scheduled' = TRUE /\ worker' = "entering"
       ELSE UNCHANGED <<scheduled, worker>>
  /\ UNCHANGED <<running, stopWanted, wanted, noted, installed, exit, lifeVars>>

\* restart_server looks whether the thread is alive, and acts on what it saw.
ClickRestart ==
  /\ tray = "idle"
  /\ tray' = IF worker # "dead" THEN "asking" ELSE "starting"
  /\ UNCHANGED <<scheduled, running, stopWanted, wanted, noted, installed, exit,
                 worker, lifeVars>>

AskRestart == tray = "asking" /\ tray' = "idle" /\ RequestRestart

\* quit, or the end of the tray loop; a click may still be under way.
Quit == ~stopWanted /\ RequestStop /\ UNCHANGED tray

-----------------------------------------------------------------------------------
(* The worker *)

Works(from, to) == worker = from /\ worker' = to

RunEnters ==
  /\ worker = "entering"
  /\ scheduled' = FALSE
  /\ IF stopWanted THEN worker' = "dead" /\ UNCHANGED running
                   ELSE worker' = "testing" /\ running' = TRUE
  /\ UNCHANGED <<stopWanted, wanted, noted, installed, exit, tray, lifeVars>>

LoopTests ==
  /\ Works("testing", IF stopWanted THEN "leaving" ELSE "noting")
  /\ UNCHANGED <<scheduled, running, stopWanted, wanted, noted, installed, exit, tray,
                 lifeVars>>

NotesRestarts ==
  /\ Works("noting", "building")
  /\ noted' = wanted
  /\ UNCHANGED <<scheduled, running, stopWanted, wanted, installed, exit, tray, lifeVars>>

\* Mutant of LateRequest: a restart is looked for when the server ends only.
StopCame == stopWanted

\* What was asked for while the settings were read and the application was built.
LateRequest == stopWanted \/ wanted # noted

\* A new application runtime, and the server that will run it.
InstallsServer ==
  /\ Works("building", "running")
  /\ \E voice \in SUBSET {"transcriber"} :
       /\ boot' = "warming" /\ gate' = "none" /\ turns' = 0 /\ isClosed' = FALSE
       /\ owned' = {"providers"} \cup voice
       /\ part' = [p \in Parts |-> IF p \in owned' THEN "open" ELSE "none"]
  /\ installed' = TRUE
  /\ exit' = LateRequest
  /\ UNCHANGED <<mishaps, scheduled, running, stopWanted, wanted, noted, tray>>

Lives(step) == worker \in {"running", "serving"} /\ step /\ UNCHANGED supervisorVars

\* Startup is over and nobody has asked for an exit so far.
Serves ==
  /\ boot = "started" /\ ~exit
  /\ Works("running", "serving")
  /\ UNCHANGED <<scheduled, running, stopWanted, wanted, noted, installed, exit, tray,
                 lifeVars>>

\* The Admin API commits a change and asks for a restart.
AdminRestarts == worker = "serving" /\ RequestRestart /\ UNCHANGED tray

\* A signal, or a failure of the server, ends it.
Interrupted ==
  /\ worker = "serving" /\ ~exit /\ exit' = TRUE
  /\ UNCHANGED <<scheduled, running, stopWanted, wanted, noted, installed, worker, tray,
                 lifeVars>>

ShutsDown == worker = "serving" /\ exit /\ Lives(ShutdownBegins)

\* server.run returns: after a shutdown, a failed startup, or a startup during which
\* an exit was asked for.
ServerReturns ==
  /\ worker \in {"running", "serving"}
  /\ boot \in {"stopped", "failed"} \/ (worker = "running" /\ boot = "started" /\ exit)
  /\ worker' = IF wanted # noted /\ ~stopWanted /\ isClosed THEN "testing" ELSE "leaving"
  /\ installed' = FALSE /\ exit' = FALSE
  /\ UNCHANGED <<scheduled, running, stopWanted, wanted, noted, tray, lifeVars>>

RunLeaves ==
  /\ Works("leaving", "killing")
  /\ running' = FALSE
  /\ UNCHANGED <<scheduled, stopWanted, wanted, noted, installed, exit, tray, lifeVars>>

\* kill_all_best_effort, and the thread ends; the event loop of its last server is gone,
\* and with it whatever that runtime had not closed.
ThreadEnds ==
  /\ Works("killing", "dead")
  /\ boot' = "gone"
  /\ UNCHANGED <<gate, owned, part, turns, isClosed, mishaps, scheduled, running,
                 stopWanted, wanted, noted, installed, exit, tray>>

-----------------------------------------------------------------------------------
Lifecycle ==
  \/ Lives(Starts) \/ Lives(StartFails) \/ Lives(MessagingFails)
  \/ Lives(Sweeps) \/ Lives(GateFails)

WorkerSteps ==
  \/ RunEnters \/ LoopTests \/ NotesRestarts \/ InstallsServer \/ Serves
  \/ ShutsDown \/ ServerReturns \/ RunLeaves \/ ThreadEnds
  \/ Lifecycle

TurnsMove == Lives(TurnEnds)

ServerNext ==
  \/ StartServer \/ ClickRestart \/ AskRestart \/ Quit
  \/ AdminRestarts \/ Interrupted
  \/ WorkerSteps \/ TurnsMove \/ Lives(TurnBegins)

ServerSpec == ServerInit /\ [][ServerNext]_serverVars

-----------------------------------------------------------------------------------
(* Properties *)

\* The server that goes on serving is the one that was asked for last: no restart and
\* no stop that was accepted before, while or after it was built is lost on it. In one
\* run a server follows another only when the runtime of that one is closed; and after
\* a stop no run is reserved.
ServersFollowRequests ==
  /\ installed /\ ~exit => ~stopWanted /\ wanted = noted
  /\ worker \in {"testing", "noting", "building"} /\ boot \notin {"warming", "gone"} => isClosed
  /\ stopWanted => ~scheduled

\* The server that serves is the one last asked for, and its runtime closes what it
\* owns in the order in which it is needed.
ServerInOrder == ServersFollowRequests /\ WorkKeepsItsOwners

=================================================================================
