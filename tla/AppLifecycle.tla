------------------------------ MODULE AppLifecycle ------------------------------
(* One ApplicationRuntime: the owners it constructs while it starts, the work that  *)
(* runs on them, and the gates through which it closes them, in the order of who    *)
(* needs whom. A gate that fails or is cancelled ends the sweep and leaves what is  *)
(* behind it for another try: the first may be startup's own cleanup of messaging,  *)
(* the second its close, or the close of the ASGI shutdown.                         *)
EXTENDS Naturals, Sequences

CONSTANTS
  MaxTurns,                 \* bound: messaging turns at the same time
  MaxMishaps                 \* bound: gates that fail or are cancelled

ASSUME LifeAssumption == MaxTurns \in Nat /\ MaxMishaps \in Nat

VARIABLES
  boot,                     \* where start() and close() are
  gate,                     \* the gate the sweep waits at
  owned,                    \* the references the runtime holds
  part,                     \* the state of what they refer to
  turns,                    \* messaging turns in flight
  isClosed,                 \* _closed
  mishaps                   \* fault budget

lifeVars == <<boot, gate, owned, part, turns, isClosed, mishaps>>

\* A messaging runtime is the ingress and the delivery of one platform.
Owners == {"runtime", "cli", "workflow", "transcriber", "providers"}
Parts == {"ingress", "delivery", "cli", "workflow", "transcriber", "providers"}
Built == <<"runtime", "cli", "workflow">>

PartsOf(owner) == IF owner = "runtime" THEN {"ingress", "delivery"} ELSE {owner}

Becomes(ps, state) == [p \in Parts |-> IF p \in ps THEN state ELSE part[p]]

\* The composition function makes the providers and, if voice notes are on, a transcriber.
Composed(voice) ==
  /\ boot = "warming" /\ gate = "none" /\ turns = 0 /\ isClosed = FALSE
  /\ owned = {"providers"} \cup voice
  /\ part = [p \in Parts |-> IF p \in owned THEN "open" ELSE "none"]

LifeInit == (\E voice \in SUBSET {"transcriber"} : Composed(voice)) /\ mishaps = 0

-----------------------------------------------------------------------------------
(* Closing *)

Gates == <<"quiesce", "drain", "stop_cli", "delivery", "transcriber", "providers">>

\* The gates that have something behind them.
Applies(g, refs) ==
  CASE g = "quiesce" -> "runtime" \in refs
    [] g = "drain" -> "workflow" \in refs
    [] g = "stop_cli" -> "cli" \in refs /\ "workflow" \notin refs
    [] g = "delivery" -> "runtime" \in refs
    [] OTHER -> g \in refs

\* Startup's own cleanup goes no further than messaging.
Swept == IF boot = "undoing" THEN 1 .. 4 ELSE 1 .. 6

GatesAfter(i, refs) == {j \in Swept : j > i /\ Applies(Gates[j], refs)}

NumberOf(g) == CHOOSE i \in 1 .. 6 : Gates[i] = g

First(is) == CHOOSE i \in is : \A j \in is : i =< j

\* What the answer of a sweep means to the one who asked for it.
Answered(clean) ==
  /\ gate' = "none"
  /\ boot' = CASE boot = "undoing" -> IF clean THEN "started" ELSE "failing"
               [] boot = "failing" -> "failed"
               [] boot = "stopping" -> "stopped"
  /\ isClosed' = (isClosed \/ (clean /\ boot # "undoing"))

GoesOn(i, refs) ==
  IF GatesAfter(i, refs) = {} THEN Answered(TRUE)
  ELSE gate' = Gates[First(GatesAfter(i, refs))] /\ UNCHANGED <<boot, isClosed>>

SweepBegins ==
  /\ boot \in {"undoing", "failing", "stopping"} /\ gate = "none"
  /\ GoesOn(0, owned)
  /\ UNCHANGED <<owned, part, turns, mishaps>>

\* What a gate closes and gives up. The workflow closes the CLI sessions it drains.
Behind(g) ==
  CASE g = "quiesce" -> [parts |-> {"ingress"}, refs |-> {}]
    [] g = "drain" -> [parts |-> {"workflow", "cli"}, refs |-> {"workflow", "cli"}]
    [] g = "stop_cli" -> [parts |-> {"cli"}, refs |-> {"cli"}]
    [] g = "delivery" -> [parts |-> {"delivery"}, refs |-> {"runtime"}]
    [] OTHER -> [parts |-> {g}, refs |-> {g}]

GateOpens ==
  /\ gate # "none"
  /\ gate = "drain" => turns = 0
  /\ part' = Becomes(Behind(gate).parts, "closed")
  /\ owned' = owned \ Behind(gate).refs
  /\ GoesOn(NumberOf(gate), owned')
  /\ UNCHANGED <<turns, mishaps>>

\* What fails half-way may or may not have closed something.
Fault ==
  /\ gate # "none" /\ mishaps < MaxMishaps
  /\ mishaps' = mishaps + 1
  /\ part' \in {part, Becomes(Behind(gate).parts \ {"workflow", "cli"}, "closed")}
  /\ UNCHANGED <<owned, turns>>

\* Or it is cancelled: that ends startup's own cleanup, or the close, in the same way.
GateFails == Fault /\ Answered(FALSE)

-----------------------------------------------------------------------------------
(* Starting *)

\* start() fails, or is cancelled, outside of messaging: it closes what there is.
StartFails ==
  /\ boot \in {"warming", "connecting", "repairing"}
  /\ boot' = "failing"
  /\ UNCHANGED <<gate, owned, part, turns, isClosed, mishaps>>

\* The model cache is warm. Messaging is not configured, or is constructed as far as
\* it goes.
ComposesMessaging ==
  /\ boot = "warming"
  /\ \/ boot' = "started" /\ UNCHANGED <<owned, part>>
     \/ \E n \in 0 .. 3 :
          LET made == {Built[i] : i \in 1 .. n}
          IN  /\ owned' = owned \cup made
              /\ part' = Becomes((UNION {PartsOf(o) : o \in made}) \ {"ingress"}, "open")
              /\ boot' \in {"undoing"} \cup (IF n = 3 THEN {"connecting"} ELSE {})
  /\ UNCHANGED <<gate, turns, isClosed, mishaps>>

\* Messages come in before start() of the platform is over.
IngressOpens ==
  /\ boot = "connecting" /\ part["ingress"] = "none"
  /\ part' = Becomes({"ingress"}, "open")
  /\ UNCHANGED <<boot, gate, owned, turns, isClosed, mishaps>>

MessagingFails ==
  /\ boot \in {"connecting", "repairing"}
  /\ boot' = "undoing"
  /\ UNCHANGED <<gate, owned, part, turns, isClosed, mishaps>>

Connected ==
  /\ boot = "connecting" /\ part["ingress"] = "open"
  /\ boot' = "repairing"
  /\ UNCHANGED <<gate, owned, part, turns, isClosed, mishaps>>

Repaired ==
  /\ boot = "repairing"
  /\ boot' = "started"
  /\ UNCHANGED <<gate, owned, part, turns, isClosed, mishaps>>

\* lifespan.shutdown
ShutdownBegins ==
  /\ boot = "started"
  /\ boot' = "stopping"
  /\ UNCHANGED <<gate, owned, part, turns, isClosed, mishaps>>

-----------------------------------------------------------------------------------
(* The work that runs on it *)

TurnBegins ==
  /\ part["ingress"] = "open" /\ turns < MaxTurns
  /\ turns' = turns + 1
  /\ UNCHANGED <<boot, gate, owned, part, isClosed, mishaps>>

TurnEnds ==
  /\ turns > 0
  /\ turns' = turns - 1
  /\ UNCHANGED <<boot, gate, owned, part, isClosed, mishaps>>

Starts == ComposesMessaging \/ IngressOpens \/ Connected \/ Repaired

Sweeps == SweepBegins \/ GateOpens

LifeNext ==
  \/ Starts \/ StartFails \/ MessagingFails
  \/ Sweeps \/ GateFails
  \/ TurnBegins \/ TurnEnds

\* No owner is closed under the work that needs it, none is forgotten before it is
\* closed, and a runtime that says it is closed has closed them all.
WorkKeepsItsOwners ==
  /\ turns > 0 =>
       /\ {"runtime", "cli", "workflow", "providers"} \subseteq owned
       /\ \A p \in Parts \ {"ingress"} : part[p] # "closed"
  /\ \A o \in Owners \ owned : \A p \in PartsOf(o) : part[p] \in {"none", "closed"}
  /\ isClosed => owned = {}

=================================================================================
