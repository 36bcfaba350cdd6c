----------------------------- MODULE Admission -----------------------------
(***************************************************************************)
(* providers/admission.py: one provider's admission controller and the     *)
(* non-streaming executions (run_with_retry) that go through it.           *)
(*                                                                         *)
(* A logical execution (ProviderRetrySession) obtains a gate permit, then  *)
(* rate admission, then a concurrency slot, and runs one upstream attempt. *)
(* The first retryable failure opens a recovery episode with that session  *)
(* as leader; only the leader sends probes until the episode closes.       *)
(*                                                                         *)
(* The asyncio.Condition is never held across a suspension, so every       *)
(* "async with self._condition" block is one step.  Suspensions, where     *)
(* other executions run and a cancellation may arrive, are the control     *)
(* states "wait", "sleep", "limiter", "slot" and "running"; "woken" is a   *)
(* notified waiter that has not resumed yet.                               *)
(*                                                                         *)
(* Time is reduced to the two facts the code tests: whether ready_at and   *)
(* whether terminal_until have passed.  The sliding window of the rate     *)
(* limiter is a suspension of unknown length here.                         *)
(***************************************************************************)
EXTENDS Naturals, FiniteSets

CONSTANTS
    Sessions,        \* logical executions, one ProviderRetrySession each
    NoSession,       \* None, where a session is expected
    MaxConcurrency,  \* slots of the concurrency bulkhead
    MaxAttempts      \* upstream attempts one session may start

ASSUME ConstantsAssumption ==
    /\ IsFiniteSet(Sessions)
    /\ NoSession \notin Sessions
    /\ MaxConcurrency \in Nat \ {0}
    /\ MaxAttempts \in Nat \ {0}

VARIABLES
    pc,        \* where each execution is suspended, or how it ended
    attempts,  \* ProviderRetrySession._attempts_started
    failed,    \* sessions whose _terminal_error is set
    permit,    \* generation of the probe permit held (or claimed asleep), 0 for a normal permit
    episode,   \* the controller's _episode
    nextGen,   \* the controller's _next_generation
    free       \* value of the concurrency semaphore

vars == <<pc, attempts, failed, permit, episode, nextGen, free>>

Ended == {"done", "failed", "cancelled"}
InAdmission == {"limiter", "slot"}
PCs == {"idle", "gate", "wait", "woken", "sleep", "running"} \cup InAdmission \cup Ended

\* _RecoveryEpisode.  Generations start at 1, so generation 0 stands for None.
Episode ==
    [gen : Nat, leader : Sessions \cup {NoSession}, ready : BOOLEAN,
     waiters : SUBSET Sessions, probe : BOOLEAN,
     terminal : {"no", "cooling", "expired"}]

NoEpisode ==
    [gen |-> 0, leader |-> NoSession, ready |-> FALSE,
     waiters |-> {}, probe |-> FALSE, terminal |-> "no"]

NewEpisode(leader, ready) ==
    [gen |-> nextGen, leader |-> leader, ready |-> ready,
     waiters |-> {}, probe |-> FALSE, terminal |-> "no"]

Open == episode.gen # 0

Init ==
    /\ pc = [s \in Sessions |-> "idle"]
    /\ attempts = [s \in Sessions |-> 0]
    /\ failed = {}
    /\ permit = [s \in Sessions |-> 0]
    /\ episode = NoEpisode
    /\ nextGen = 1
    /\ free = MaxConcurrency

-----------------------------------------------------------------------------
(* Helpers *)

CanAttempt(s) == attempts[s] < MaxAttempts

\* Mutant of NotifyAll: waiters are left asleep.
NotifyNobody == pc

\* Condition.notify_all: every waiter will resume at the top of _wait_for_gate.
NotifyAll == [t \in Sessions |-> IF pc[t] = "wait" THEN "woken" ELSE pc[t]]

\* Mutant of PermitIsCurrent: a normal permit is not re-checked.
PermitStaysCurrent(s) ==
    permit[s] # 0 => episode.gen = permit[s] /\ episode.leader = s /\ episode.probe

PermitIsCurrent(s) ==
    IF permit[s] = 0
    THEN ~Open
    ELSE /\ episode.gen = permit[s]
         /\ episode.terminal = "no"
         /\ episode.leader = s
         /\ episode.probe

\* Mutant of MatchingProbe: any result counts for the episode.
AnyResultMatches(s) == Open

\* A probe permit whose episode is still waiting for this very result.
MatchingProbe(s) ==
    /\ permit[s] # 0
    /\ episode.gen = permit[s]
    /\ episode.leader = s
    /\ episode.probe

\* A probe given up before its result: the next caller at the gate may lead,
\* and may probe at once.
Relinquished == [episode EXCEPT !.leader = NoSession, !.probe = FALSE, !.ready = TRUE]

\* _abandon_probe_permit and _attempt_abandoned, the session going on at next.
Abandon(s, next) ==
    IF MatchingProbe(s)
    THEN /\ episode' = Relinquished
         /\ pc' = [NotifyAll EXCEPT ![s] = next]
    ELSE /\ episode' = episode
         /\ pc' = [pc EXCEPT ![s] = next]

-----------------------------------------------------------------------------
(* open_attempt: the recovery gate *)

\* run_with_retry creates its session and calls open_attempt.
Begin(s) ==
    /\ pc[s] = "idle"
    /\ pc' = [pc EXCEPT ![s] = "gate"]
    /\ UNCHANGED <<attempts, failed, permit, episode, nextGen, free>>

AtGate(s) == pc[s] \in {"gate", "woken"}

\* The session was coalesced into an episode whose leader ran out of attempts.
GateTerminal(s) ==
    /\ AtGate(s)
    /\ s \in failed
    /\ pc' = [pc EXCEPT ![s] = "failed"]
    /\ UNCHANGED <<attempts, failed, permit, episode, nextGen, free>>

GateOpen(s) ==
    /\ AtGate(s)
    /\ s \notin failed
    /\ ~Open
    /\ permit' = [permit EXCEPT ![s] = 0]
    /\ pc' = [pc EXCEPT ![s] = "limiter"]
    /\ UNCHANGED <<attempts, failed, episode, nextGen, free>>

\* Provider-directed cooldown after an exhausted episode: fail fast.
GateFailFast(s) ==
    /\ AtGate(s)
    /\ s \notin failed
    /\ episode.terminal = "cooling"
    /\ pc' = [pc EXCEPT ![s] = "failed"]
    /\ UNCHANGED <<attempts, failed, permit, episode, nextGen, free>>

\* The cooldown is over: this caller leads a fresh episode and probes at once.
GateRestart(s) ==
    /\ AtGate(s)
    /\ s \notin failed
    /\ episode.terminal = "expired"
    /\ episode' = [NewEpisode(s, TRUE) EXCEPT !.probe = TRUE]
    /\ permit' = [permit EXCEPT ![s] = nextGen]
    /\ nextGen' = nextGen + 1
    /\ pc' = [pc EXCEPT ![s] = "limiter"]
    /\ UNCHANGED <<attempts, failed, free>>

\* The session leads, or takes the vacant lead.
MayLead(s) ==
    /\ AtGate(s)
    /\ s \notin failed
    /\ Open
    /\ episode.terminal = "no"
    /\ episode.leader \in {NoSession, s}
    /\ ~episode.probe

TakenBy(s) ==
    IF episode.leader = NoSession
    THEN [episode EXCEPT !.leader = s, !.waiters = @ \ {s}]
    ELSE episode

GateProbe(s) ==
    /\ MayLead(s)
    /\ episode.ready
    /\ episode' = [TakenBy(s) EXCEPT !.probe = TRUE]
    /\ permit' = [permit EXCEPT ![s] = episode.gen]
    /\ pc' = [pc EXCEPT ![s] = "limiter"]
    /\ UNCHANGED <<attempts, failed, nextGen, free>>

GateSleep(s) ==
    /\ MayLead(s)
    /\ ~episode.ready
    /\ episode' = TakenBy(s)
    /\ permit' = [permit EXCEPT ![s] = episode.gen]
    /\ pc' = [pc EXCEPT ![s] = "sleep"]
    /\ UNCHANGED <<attempts, failed, nextGen, free>>

GateWait(s) ==
    /\ AtGate(s)
    /\ s \notin failed
    /\ Open
    /\ episode.terminal = "no"
    /\ episode.leader \notin {NoSession, s}
    /\ episode' = [episode EXCEPT !.waiters = @ \cup {s}]
    /\ pc' = [pc EXCEPT ![s] = "wait"]
    /\ UNCHANGED <<attempts, failed, permit, nextGen, free>>

Gate(s) ==
    \/ GateTerminal(s) \/ GateOpen(s) \/ GateFailFast(s) \/ GateRestart(s)
    \/ GateProbe(s) \/ GateSleep(s) \/ GateWait(s)

\* The claimed generation is still this session's to probe.
ClaimHolds(s) ==
    /\ episode.gen = permit[s]
    /\ episode.terminal = "no"
    /\ episode.leader = s
    /\ ~episode.probe

\* The backoff sleep ended: probe if the claim held, else back to the gate.
WakeUp(s) ==
    /\ pc[s] = "sleep"
    /\ episode.ready \/ ~ClaimHolds(s)
    /\ episode' = IF ClaimHolds(s) THEN [episode EXCEPT !.probe = TRUE] ELSE episode
    /\ pc' = [pc EXCEPT ![s] = IF ClaimHolds(s) THEN "limiter" ELSE "gate"]
    /\ UNCHANGED <<attempts, failed, permit, nextGen, free>>

-----------------------------------------------------------------------------
(* open_attempt: rate admission and the concurrency bulkhead *)

\* The permit is re-checked after each wait; a stale one goes back to the gate.
Readmit(s) ==
    /\ ~PermitIsCurrent(s)
    /\ Abandon(s, "gate")
    /\ UNCHANGED <<attempts, failed, permit, nextGen, free>>

\* A slot is held and the permit is current: the attempt starts.
StartAttempt(s) ==
    /\ PermitIsCurrent(s)
    /\ free' = free - 1
    /\ attempts' = [attempts EXCEPT ![s] = @ + 1]
    /\ pc' = [pc EXCEPT ![s] = "running"]
    /\ UNCHANGED <<failed, permit, episode, nextGen>>

\* Semaphore.acquire suspends when no slot is free or somebody already waits.
SlotTaken == free = 0 \/ \E t \in Sessions : pc[t] = "slot"

RateAdmitted(s) ==
    /\ pc[s] = "limiter"
    /\ \/ Readmit(s)
       \/ /\ ~SlotTaken
          /\ StartAttempt(s)
       \/ /\ SlotTaken
          /\ PermitIsCurrent(s)
          /\ pc' = [pc EXCEPT ![s] = "slot"]
          /\ UNCHANGED <<attempts, failed, permit, episode, nextGen, free>>

SlotGranted(s) ==
    /\ pc[s] = "slot"
    /\ free > 0
    /\ Readmit(s) \/ StartAttempt(s)

-----------------------------------------------------------------------------
(* Results of an attempt.  run_with_retry closes the attempt, releasing its *)
(* slot, before anything else can run.                                      *)

\* Mutant of Release: the slot is not given back.
ReleaseForgotten == free' = free

Release == free' = free + 1

\* The upstream answered, with a result or a final rejection: a matching probe
\* closes the episode (_attempt_succeeded, _attempt_rejected).
Answered(s, next) ==
    /\ IF MatchingProbe(s)
       THEN /\ episode' = NoEpisode
            /\ pc' = [NotifyAll EXCEPT ![s] = next]
       ELSE /\ episode' = episode
            /\ pc' = [pc EXCEPT ![s] = next]
    /\ UNCHANGED <<attempts, failed, permit, nextGen>>

Succeed(s) == pc[s] = "running" /\ Answered(s, "done") /\ Release

Reject(s) == pc[s] = "running" /\ Answered(s, "failed") /\ Release

\* _attempt_failed with budget left: lead a new episode, keep leading the one
\* being probed, or coalesce into somebody else's.
FailRetryable(s, next) ==
    /\ CanAttempt(s)
    /\ pc' = [NotifyAll EXCEPT ![s] = next]
    /\ \/ /\ ~Open
          /\ \E ready \in BOOLEAN : episode' = NewEpisode(s, ready)
          /\ nextGen' = nextGen + 1
          /\ failed' = failed
       \/ /\ MatchingProbe(s)
          /\ \E ready \in BOOLEAN :
                episode' = [episode EXCEPT !.probe = FALSE, !.ready = ready]
          /\ UNCHANGED <<nextGen, failed>>
       \/ /\ Open
          /\ ~MatchingProbe(s)
          /\ episode.terminal # "no"
          /\ failed' = failed \cup {s}
          /\ UNCHANGED <<nextGen, episode>>
       \/ /\ Open
          /\ ~MatchingProbe(s)
          /\ episode.terminal = "no"
          /\ episode' = [episode EXCEPT !.waiters = @ \cup {s}]
          /\ UNCHANGED <<nextGen, failed>>

\* The episode after its probe, or a direct attempt, ran out of budget.
Exhausted(ep, terminal) ==
    [ep EXCEPT !.leader = NoSession, !.probe = FALSE,
               !.terminal = terminal, !.waiters = {}]

\* _attempt_failed with the budget spent.
FailExhausted(s, next) ==
    /\ ~CanAttempt(s)
    /\ IF ~Open \/ MatchingProbe(s)
       THEN /\ \E terminal \in {"cooling", "expired"} :
                  episode' = IF Open
                             THEN Exhausted(episode, terminal)
                             ELSE Exhausted(NewEpisode(NoSession, TRUE), terminal)
            /\ nextGen' = IF Open THEN nextGen ELSE nextGen + 1
            /\ failed' = failed \cup episode.waiters
            /\ pc' = [NotifyAll EXCEPT ![s] = next]
       ELSE /\ UNCHANGED <<episode, nextGen, failed>>
            /\ pc' = [pc EXCEPT ![s] = next]

Fail(s) ==
    /\ pc[s] = "running"
    /\ FailRetryable(s, "gate") \/ FailExhausted(s, "failed")
    /\ Release
    /\ UNCHANGED <<attempts, permit>>

-----------------------------------------------------------------------------
(* Cancellation, at every suspension *)

\* A cancelled waiter leaves the episode it waited for.
CancelWait(s) ==
    /\ pc[s] \in {"wait", "woken"}
    /\ episode' = [episode EXCEPT !.waiters = @ \ {s}]
    /\ pc' = [pc EXCEPT ![s] = "cancelled"]
    /\ UNCHANGED <<attempts, failed, permit, nextGen, free>>

\* Mutant of CancelSleep: the cancelled sleeper stays the leader.
CancelSleepKeepsLead(s) ==
    /\ pc[s] = "sleep"
    /\ pc' = [pc EXCEPT ![s] = "cancelled"]
    /\ UNCHANGED <<attempts, failed, permit, episode, nextGen, free>>

\* _abandon_waiting_leader: the lead becomes vacant, the backoff still holds.
CancelSleep(s) ==
    /\ pc[s] = "sleep"
    /\ IF ClaimHolds(s)
       THEN /\ episode' = [episode EXCEPT !.leader = NoSession]
            /\ pc' = [NotifyAll EXCEPT ![s] = "cancelled"]
       ELSE /\ episode' = episode
            /\ pc' = [pc EXCEPT ![s] = "cancelled"]
    /\ UNCHANGED <<attempts, failed, permit, nextGen, free>>

CancelAdmission(s) ==
    /\ pc[s] \in InAdmission
    /\ Abandon(s, "cancelled")
    /\ UNCHANGED <<attempts, failed, permit, nextGen, free>>

CancelRunning(s) ==
    /\ pc[s] = "running"
    /\ Abandon(s, "cancelled")
    /\ Release
    /\ UNCHANGED <<attempts, failed, permit, nextGen>>

Cancel(s) == CancelWait(s) \/ CancelSleep(s) \/ CancelAdmission(s) \/ CancelRunning(s)

-----------------------------------------------------------------------------
(* Time *)

BackoffElapses ==
    /\ Open
    /\ ~episode.ready
    /\ episode' = [episode EXCEPT !.ready = TRUE]
    /\ UNCHANGED <<pc, attempts, failed, permit, nextGen, free>>

CooldownExpires ==
    /\ episode.terminal = "cooling"
    /\ episode' = [episode EXCEPT !.terminal = "expired"]
    /\ UNCHANGED <<pc, attempts, failed, permit, nextGen, free>>

Time == BackoffElapses \/ CooldownExpires

-----------------------------------------------------------------------------

Admit(s) == Gate(s) \/ WakeUp(s) \/ RateAdmitted(s) \/ SlotGranted(s)

Resolve(s) == Succeed(s) \/ Reject(s) \/ Fail(s)

AllEnded == \A s \in Sessions : pc[s] \in Ended

Terminating == AllEnded /\ UNCHANGED vars

Next ==
    \/ \E s \in Sessions : Begin(s) \/ Admit(s) \/ Resolve(s) \/ Cancel(s)
    \/ Time
    \/ Terminating

Spec == Init /\ [][Next]_vars

\* The event loop runs every runnable task, timers fire, the HTTP timeouts
\* bound every upstream call, and asyncio.Semaphore serves waiters in order.
\* Nothing obliges a caller to arrive or to be cancelled.
Fairness ==
    /\ \A s \in Sessions :
          /\ WF_vars(Gate(s))
          /\ WF_vars(WakeUp(s))
          /\ WF_vars(RateAdmitted(s))
          /\ SF_vars(SlotGranted(s))
          /\ WF_vars(Resolve(s))
    /\ WF_vars(Time)

FairSpec == Spec /\ Fairness

-----------------------------------------------------------------------------
(* Properties *)

\* Every variable keeps its type; in particular the semaphore never goes
\* negative nor above its initial value and no session overdraws its budget.
TypeOK ==
    /\ pc \in [Sessions -> PCs]
    /\ attempts \in [Sessions -> 0..MaxAttempts]
    /\ failed \in SUBSET Sessions
    /\ permit \in [Sessions -> Nat]
    /\ episode \in Episode
    /\ nextGen \in Nat \ {0}
    /\ free \in 0..MaxConcurrency

\* Each slot taken from the bulkhead belongs to an attempt that is still
\* running: whatever mix of answers, failures and cancellations, none leaks
\* and none is given back twice (open_attempt, ProviderAttempt.aclose).
SlotsConserved ==
    free + Cardinality({s \in Sessions : pc[s] = "running"}) = MaxConcurrency

\* An execution that is still to start an attempt has budget for it, however
\* often it was turned back at the gate: _claim_attempt never raises.
BudgetLeft ==
    \A s \in Sessions : pc[s] \notin {"running"} \cup Ended => attempts[s] < MaxAttempts

\* While an episode is marked as being probed, its leader really is an
\* execution on its way to the upstream, or there, with this episode's permit:
\* somebody will deliver the result that everybody waits for.
ProbeOwned ==
    episode.probe =>
        /\ episode.terminal = "no"
        /\ episode.leader \in Sessions
        /\ pc[episode.leader] \in InAdmission \cup {"running"}
        /\ permit[episode.leader] = episode.gen

\* Between probes the leader of an episode is an execution that will come back
\* for the next probe: leadership is never left with one that has ended
\* (_abandon_waiting_leader, _attempt_abandoned, _abandon_probe_permit).
LeaderAlive ==
    (episode.leader # NoSession /\ ~episode.probe) =>
        pc[episode.leader] \in {"gate", "sleep"}

\* The recovery of a provider is always in somebody's hands: the probe, or the wait
\* for the next one, belongs to an execution that will deliver or come back.
RecoveryOwned == ProbeOwned /\ LeaderAlive

\* An execution asleep in its backoff is never displaced: no late success,
\* failure or cancellation of another one takes its episode away.
SleeperKeepsClaim ==
    \A s \in Sessions : pc[s] = "sleep" => ClaimHolds(s)

\* An execution blocked on the condition waits for an episode that is still
\* live, led by somebody else, and that knows it as a waiter: no wakeup is lost.
WaitersRegistered ==
    \A s \in Sessions : pc[s] = "wait" =>
        /\ Open
        /\ episode.terminal = "no"
        /\ s \in episode.waiters
        /\ episode.leader \notin {NoSession, s}

\* A stale in-flight success or failure cannot close or extend the episode
\* (ARCHITECTURE.md, provider admission): when an attempt that is not the
\* current probe leaves the upstream, an open episode keeps its generation,
\* leader, probe, backoff and outcome.
StaleResultIsInert ==
    [][\A s \in Sessions :
          (pc[s] = "running" /\ pc'[s] # "running" /\ Open
             /\ ~(episode.probe /\ episode.leader = s /\ episode.gen = permit[s]))
          => episode' \in {[episode EXCEPT !.waiters = w] : w \in SUBSET Sessions}]_vars

\* While an episode is open, no upstream attempt starts but its leader's probe:
\* an execution admitted before the failure and still queued behind the rate
\* limit or the bulkhead is turned back.
OnlyProbesDuringRecovery ==
    [][\A s \in Sessions :
          (pc[s] # "running" /\ pc'[s] = "running" /\ Open)
          => episode.leader = s /\ episode.probe]_vars

\* Every execution that entered the controller ends: no waiter, sleeper or
\* queued execution is stranded by whatever happens to the others.
EveryExecutionEnds ==
    \A s \in Sessions : (pc[s] # "idle") ~> (pc[s] \in Ended)

=============================================================================
