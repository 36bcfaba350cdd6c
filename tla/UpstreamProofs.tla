-------------------------- MODULE UpstreamProofs --------------------------
(***************************************************************************)
(* Proofs about a request to a provider, for every number of executions,   *)
(* slots, attempts, keys and laps: the controller that admits it           *)
(* (Admission), the stream that keeps its attempt (StreamAdmission), the   *)
(* keys it rotates through (KeyPool), and what the client gets of the      *)
(* stream, over its attempts (StreamRecovery over StreamLedger).           *)
(***************************************************************************)
EXTENDS StreamAdmission, KeyPool, StreamRecovery, FiniteSetTheorems,
        OrderedLinesProofs

-----------------------------------------------------------------------------
(***************************************************************************)
(* The admission of plain executions.                                      *)
(*                                                                         *)
(* IInv adds to the checked invariants what their induction needs:         *)
(* generations only grow, an exhausted episode is empty, and the sessions  *)
(* recorded as waiters or as failed are at the gate.  Typed is TypeOK      *)
(* without the semaphore's range, which follows from SlotsConserved.       *)
(***************************************************************************)

Typed ==
    /\ pc \in [Sessions -> PCs]
    /\ attempts \in [Sessions -> 0..MaxAttempts]
    /\ failed \in SUBSET Sessions
    /\ permit \in [Sessions -> Nat]
    /\ episode \in Episode
    /\ nextGen \in Nat \ {0}

\* Generations count up, and without an episode nobody leads or waits.
Generations ==
    /\ episode.gen < nextGen
    /\ ~Open => episode.leader = NoSession /\ ~episode.probe /\ episode.waiters = {}
    /\ \A s \in Sessions : permit[s] < nextGen

\* An exhausted episode has no leader, no probe and no waiter left.
ExhaustedIsEmpty ==
    episode.terminal # "no" =>
        episode.leader = NoSession /\ ~episode.probe /\ episode.waiters = {}

\* A coalesced execution is at the gate or on the condition, and never leads.
WaitersAtGate ==
    \A s \in episode.waiters : pc[s] \in {"gate", "wait", "woken"} /\ s # episode.leader

\* An execution that shares a terminal outcome is on its way out.
FailedAtGate ==
    \A s \in failed :
        /\ pc[s] \in {"gate", "woken"} \cup Ended
        /\ s # episode.leader
        /\ s \notin episode.waiters

Structure ==
    /\ Generations
    /\ BudgetLeft
    /\ ExhaustedIsEmpty
    /\ WaitersAtGate
    /\ FailedAtGate
    /\ ProbeOwned
    /\ LeaderAlive
    /\ SleeperKeepsClaim
    /\ WaitersRegistered

IInv == TypeOK /\ SlotsConserved /\ Structure

USE DEF PCs, InAdmission, Ended

-----------------------------------------------------------------------------
(* The steps of open_attempt, and time *)

LEMMA BeginStep ==
    ASSUME IInv, NEW s \in Sessions, Begin(s)
    PROVE  Typed' /\ Structure'
<1> USE ConstantsAssumption
<1>0. TypeOK /\ Structure
    BY DEF IInv
<1>2. Typed'
    BY <1>0 DEF Typed, TypeOK, Episode, Begin
<1>3. Generations' /\ ExhaustedIsEmpty'
    BY <1>0 DEF Structure, TypeOK, Episode, Begin, Generations, ExhaustedIsEmpty,
           ProbeOwned, Open
<1>4. BudgetLeft'
    BY <1>0 DEF Structure, TypeOK, Episode, Begin, BudgetLeft, CanAttempt
<1>5. WaitersAtGate' /\ FailedAtGate'
    BY <1>0 DEF Structure, TypeOK, Episode, Begin, WaitersAtGate, FailedAtGate,
           ExhaustedIsEmpty, LeaderAlive, ProbeOwned, Generations, Open
<1>6. ProbeOwned' /\ LeaderAlive'
    BY <1>0 DEF Structure, TypeOK, Episode, Begin, ProbeOwned, LeaderAlive,
           FailedAtGate, ExhaustedIsEmpty, Generations, Open
<1>7. SleeperKeepsClaim' /\ WaitersRegistered'
    BY <1>0 DEF Structure, TypeOK, Episode, Begin, SleeperKeepsClaim, ClaimHolds,
           WaitersRegistered, ExhaustedIsEmpty, Generations, Open
<1> QED
    BY <1>2, <1>3, <1>4, <1>5, <1>6, <1>7 DEF Structure

LEMMA GateTerminalStep ==
    ASSUME IInv, NEW s \in Sessions, GateTerminal(s)
    PROVE  Typed' /\ Structure'
<1> USE ConstantsAssumption
<1>0. TypeOK /\ Structure
    BY DEF IInv
<1>2. Typed'
    BY <1>0 DEF Typed, TypeOK, Episode, GateTerminal, AtGate
<1>3. Generations' /\ ExhaustedIsEmpty'
    BY <1>0 DEF Structure, TypeOK, Episode, GateTerminal, AtGate, Generations,
           ExhaustedIsEmpty, ProbeOwned, Open
<1>4. BudgetLeft'
    BY <1>0 DEF Structure, TypeOK, Episode, GateTerminal, AtGate, BudgetLeft,
           CanAttempt
<1>5. WaitersAtGate' /\ FailedAtGate'
    BY <1>0 DEF Structure, TypeOK, Episode, GateTerminal, AtGate, WaitersAtGate,
           FailedAtGate, ExhaustedIsEmpty, LeaderAlive, ProbeOwned, Generations,
           Open
<1>6. ProbeOwned' /\ LeaderAlive'
    BY <1>0 DEF Structure, TypeOK, Episode, GateTerminal, AtGate, ProbeOwned,
           LeaderAlive, FailedAtGate, ExhaustedIsEmpty, Generations, Open
<1>7. SleeperKeepsClaim' /\ WaitersRegistered'
    BY <1>0 DEF Structure, TypeOK, Episode, GateTerminal, AtGate, SleeperKeepsClaim,
           ClaimHolds, WaitersRegistered, ExhaustedIsEmpty, Generations, Open
<1> QED
    BY <1>2, <1>3, <1>4, <1>5, <1>6, <1>7 DEF Structure

LEMMA GateOpenStep ==
    ASSUME IInv, NEW s \in Sessions, GateOpen(s)
    PROVE  Typed' /\ Structure'
<1> USE ConstantsAssumption
<1>0. TypeOK /\ Structure
    BY DEF IInv
<1>2. Typed'
    BY <1>0 DEF Typed, TypeOK, Episode, GateOpen, AtGate
<1>3. Generations' /\ ExhaustedIsEmpty'
    BY <1>0 DEF Structure, TypeOK, Episode, GateOpen, AtGate, Generations,
           ExhaustedIsEmpty, ProbeOwned, Open
<1>4. BudgetLeft'
    BY <1>0 DEF Structure, TypeOK, Episode, GateOpen, AtGate, BudgetLeft, CanAttempt
<1>5. WaitersAtGate' /\ FailedAtGate'
    BY <1>0 DEF Structure, TypeOK, Episode, GateOpen, AtGate, WaitersAtGate,
           FailedAtGate, ExhaustedIsEmpty, LeaderAlive, ProbeOwned, Generations,
           Open
<1>6. ProbeOwned' /\ LeaderAlive'
    BY <1>0 DEF Structure, TypeOK, Episode, GateOpen, AtGate, ProbeOwned,
           LeaderAlive, FailedAtGate, ExhaustedIsEmpty, Generations, Open
<1>7. SleeperKeepsClaim' /\ WaitersRegistered'
    BY <1>0 DEF Structure, TypeOK, Episode, GateOpen, AtGate, SleeperKeepsClaim,
           ClaimHolds, WaitersRegistered, ExhaustedIsEmpty, Generations, Open
<1> QED
    BY <1>2, <1>3, <1>4, <1>5, <1>6, <1>7 DEF Structure

LEMMA GateFailFastStep ==
    ASSUME IInv, NEW s \in Sessions, GateFailFast(s)
    PROVE  Typed' /\ Structure'
<1> USE ConstantsAssumption
<1>0. TypeOK /\ Structure
    BY DEF IInv
<1>2. Typed'
    BY <1>0 DEF Typed, TypeOK, Episode, GateFailFast, AtGate
<1>3. Generations' /\ ExhaustedIsEmpty'
    BY <1>0 DEF Structure, TypeOK, Episode, GateFailFast, AtGate, Generations,
           ExhaustedIsEmpty, ProbeOwned, Open
<1>4. BudgetLeft'
    BY <1>0 DEF Structure, TypeOK, Episode, GateFailFast, AtGate, BudgetLeft,
           CanAttempt
<1>5. WaitersAtGate' /\ FailedAtGate'
    BY <1>0 DEF Structure, TypeOK, Episode, GateFailFast, AtGate, WaitersAtGate,
           FailedAtGate, ExhaustedIsEmpty, LeaderAlive, ProbeOwned, Generations,
           Open
<1>6. ProbeOwned' /\ LeaderAlive'
    BY <1>0 DEF Structure, TypeOK, Episode, GateFailFast, AtGate, ProbeOwned,
           LeaderAlive, FailedAtGate, ExhaustedIsEmpty, Generations, Open
<1>7. SleeperKeepsClaim' /\ WaitersRegistered'
    BY <1>0 DEF Structure, TypeOK, Episode, GateFailFast, AtGate, SleeperKeepsClaim,
           ClaimHolds, WaitersRegistered, ExhaustedIsEmpty, Generations, Open
<1> QED
    BY <1>2, <1>3, <1>4, <1>5, <1>6, <1>7 DEF Structure

LEMMA GateRestartStep ==
    ASSUME IInv, NEW s \in Sessions, GateRestart(s)
    PROVE  Typed' /\ Structure'
<1> USE ConstantsAssumption
<1>0. TypeOK /\ Structure
    BY DEF IInv
<1>1. episode' \in Episode
    BY <1>0 DEF TypeOK, GateRestart, NewEpisode, Episode
<1>2. Typed'
    BY <1>0, <1>1 DEF TypeOK, Typed, GateRestart
<1>3. Generations' /\ ExhaustedIsEmpty'
    BY <1>0 DEF Structure, TypeOK, Episode, GateRestart, AtGate, NewEpisode,
           Generations, ExhaustedIsEmpty, ProbeOwned, Open
<1>4. BudgetLeft'
    BY <1>0 DEF Structure, TypeOK, Episode, GateRestart, AtGate, NewEpisode,
           BudgetLeft, CanAttempt
<1>5. WaitersAtGate' /\ FailedAtGate'
    BY <1>0 DEF Structure, TypeOK, Episode, GateRestart, AtGate, NewEpisode,
           WaitersAtGate, FailedAtGate, ExhaustedIsEmpty, LeaderAlive, ProbeOwned,
           Generations, Open
<1>6. ProbeOwned' /\ LeaderAlive'
    BY <1>0 DEF Structure, TypeOK, Episode, GateRestart, AtGate, NewEpisode,
           ProbeOwned, LeaderAlive, FailedAtGate, ExhaustedIsEmpty, Generations,
           Open
<1>7. SleeperKeepsClaim' /\ WaitersRegistered'
    BY <1>0 DEF Structure, TypeOK, Episode, GateRestart, AtGate, NewEpisode,
           SleeperKeepsClaim, ClaimHolds, WaitersRegistered, ExhaustedIsEmpty,
           Generations, Open
<1> QED
    BY <1>2, <1>3, <1>4, <1>5, <1>6, <1>7 DEF Structure

LEMMA GateProbeStep ==
    ASSUME IInv, NEW s \in Sessions, GateProbe(s)
    PROVE  Typed' /\ Structure'
<1> USE ConstantsAssumption
<1>0. TypeOK /\ Structure
    BY DEF IInv
<1>2. Typed'
    BY <1>0 DEF Typed, TypeOK, Episode, GateProbe, AtGate, MayLead, TakenBy
<1>3. Generations' /\ ExhaustedIsEmpty'
    BY <1>0 DEF Structure, TypeOK, Episode, GateProbe, AtGate, MayLead, TakenBy,
           Generations, ExhaustedIsEmpty, ProbeOwned, Open
<1>4. BudgetLeft'
    BY <1>0 DEF Structure, TypeOK, Episode, GateProbe, AtGate, MayLead, TakenBy,
           BudgetLeft, CanAttempt
<1>5. WaitersAtGate' /\ FailedAtGate'
    BY <1>0 DEF Structure, TypeOK, Episode, GateProbe, AtGate, MayLead, TakenBy,
           WaitersAtGate, FailedAtGate, ExhaustedIsEmpty, LeaderAlive, ProbeOwned,
           Generations, Open
<1>6. ProbeOwned' /\ LeaderAlive'
    BY <1>0 DEF Structure, TypeOK, Episode, GateProbe, AtGate, MayLead, TakenBy,
           ProbeOwned, LeaderAlive, FailedAtGate, ExhaustedIsEmpty, Generations,
           Open
<1>7. SleeperKeepsClaim' /\ WaitersRegistered'
    BY <1>0 DEF Structure, TypeOK, Episode, GateProbe, AtGate, MayLead, TakenBy,
           SleeperKeepsClaim, ClaimHolds, WaitersRegistered, ExhaustedIsEmpty,
           Generations, Open
<1> QED
    BY <1>2, <1>3, <1>4, <1>5, <1>6, <1>7 DEF Structure

LEMMA GateSleepStep ==
    ASSUME IInv, NEW s \in Sessions, GateSleep(s)
    PROVE  Typed' /\ Structure'
<1> USE ConstantsAssumption
<1>0. TypeOK /\ Structure
    BY DEF IInv
<1>2. Typed'
    BY <1>0 DEF Typed, TypeOK, Episode, GateSleep, AtGate, MayLead, TakenBy
<1>3. Generations' /\ ExhaustedIsEmpty'
    BY <1>0 DEF Structure, TypeOK, Episode, GateSleep, AtGate, MayLead, TakenBy,
           Generations, ExhaustedIsEmpty, ProbeOwned, Open
<1>4. BudgetLeft'
    BY <1>0 DEF Structure, TypeOK, Episode, GateSleep, AtGate, MayLead, TakenBy,
           BudgetLeft, CanAttempt
<1>5. WaitersAtGate' /\ FailedAtGate'
    BY <1>0 DEF Structure, TypeOK, Episode, GateSleep, AtGate, MayLead, TakenBy,
           WaitersAtGate, FailedAtGate, ExhaustedIsEmpty, LeaderAlive, ProbeOwned,
           Generations, Open
<1>6. ProbeOwned' /\ LeaderAlive'
    BY <1>0 DEF Structure, TypeOK, Episode, GateSleep, AtGate, MayLead, TakenBy,
           ProbeOwned, LeaderAlive, FailedAtGate, ExhaustedIsEmpty, Generations,
           Open
<1>7. SleeperKeepsClaim' /\ WaitersRegistered'
    BY <1>0 DEF Structure, TypeOK, Episode, GateSleep, AtGate, MayLead, TakenBy,
           SleeperKeepsClaim, ClaimHolds, WaitersRegistered, ExhaustedIsEmpty,
           Generations, Open
<1> QED
    BY <1>2, <1>3, <1>4, <1>5, <1>6, <1>7 DEF Structure

LEMMA GateWaitStep ==
    ASSUME IInv, NEW s \in Sessions, GateWait(s)
    PROVE  Typed' /\ Structure'
<1> USE ConstantsAssumption
<1>0. TypeOK /\ Structure
    BY DEF IInv
<1>2. Typed'
    BY <1>0 DEF Typed, TypeOK, Episode, GateWait, AtGate
<1>3. Generations' /\ ExhaustedIsEmpty'
    BY <1>0 DEF Structure, TypeOK, Episode, GateWait, AtGate, Generations,
           ExhaustedIsEmpty, ProbeOwned, Open
<1>4. BudgetLeft'
    BY <1>0 DEF Structure, TypeOK, Episode, GateWait, AtGate, BudgetLeft, CanAttempt
<1>5. WaitersAtGate' /\ FailedAtGate'
    BY <1>0 DEF Structure, TypeOK, Episode, GateWait, AtGate, WaitersAtGate,
           FailedAtGate, ExhaustedIsEmpty, LeaderAlive, ProbeOwned, Generations,
           Open
<1>6. ProbeOwned' /\ LeaderAlive'
    BY <1>0 DEF Structure, TypeOK, Episode, GateWait, AtGate, ProbeOwned,
           LeaderAlive, FailedAtGate, ExhaustedIsEmpty, Generations, Open
<1>7. SleeperKeepsClaim' /\ WaitersRegistered'
    BY <1>0 DEF Structure, TypeOK, Episode, GateWait, AtGate, SleeperKeepsClaim,
           ClaimHolds, WaitersRegistered, ExhaustedIsEmpty, Generations, Open
<1> QED
    BY <1>2, <1>3, <1>4, <1>5, <1>6, <1>7 DEF Structure

LEMMA WakeUpStep ==
    ASSUME IInv, NEW s \in Sessions, WakeUp(s)
    PROVE  Typed' /\ Structure'
<1> USE ConstantsAssumption
<1>0. TypeOK /\ Structure
    BY DEF IInv
<1>2. Typed'
    BY <1>0 DEF Typed, TypeOK, Episode, WakeUp, ClaimHolds
<1>3. Generations' /\ ExhaustedIsEmpty'
    BY <1>0 DEF Structure, TypeOK, Episode, WakeUp, ClaimHolds, Generations,
           ExhaustedIsEmpty, ProbeOwned, Open
<1>4. BudgetLeft'
    BY <1>0 DEF Structure, TypeOK, Episode, WakeUp, ClaimHolds, BudgetLeft,
           CanAttempt
<1>5. WaitersAtGate' /\ FailedAtGate'
    BY <1>0 DEF Structure, TypeOK, Episode, WakeUp, ClaimHolds, WaitersAtGate,
           FailedAtGate, ExhaustedIsEmpty, LeaderAlive, ProbeOwned, Generations,
           Open
<1>6. ProbeOwned' /\ LeaderAlive'
    BY <1>0 DEF Structure, TypeOK, Episode, WakeUp, ClaimHolds, ProbeOwned,
           LeaderAlive, FailedAtGate, ExhaustedIsEmpty, Generations, Open
<1>7. SleeperKeepsClaim' /\ WaitersRegistered'
    BY <1>0 DEF Structure, TypeOK, Episode, WakeUp, ClaimHolds, SleeperKeepsClaim,
           WaitersRegistered, ExhaustedIsEmpty, Generations, Open
<1> QED
    BY <1>2, <1>3, <1>4, <1>5, <1>6, <1>7 DEF Structure

LEMMA StartAttemptStep ==
    ASSUME IInv, NEW s \in Sessions, pc[s] \in InAdmission, StartAttempt(s)
    PROVE  Typed' /\ Structure'
<1> USE ConstantsAssumption
<1>0. TypeOK /\ Structure
    BY DEF IInv
<1>1. attempts[s] + 1 \in 0..MaxAttempts
    BY <1>0 DEF TypeOK, Structure, BudgetLeft, CanAttempt
<1>2. Typed'
    BY <1>0, <1>1 DEF TypeOK, Typed, StartAttempt
<1>3. Generations' /\ ExhaustedIsEmpty'
    BY <1>0 DEF Structure, TypeOK, Episode, StartAttempt, PermitIsCurrent,
           Generations, ExhaustedIsEmpty, ProbeOwned, Open
<1>4. BudgetLeft'
    BY <1>0 DEF Structure, TypeOK, Episode, StartAttempt, PermitIsCurrent,
           BudgetLeft, CanAttempt
<1>5. WaitersAtGate' /\ FailedAtGate'
    BY <1>0 DEF Structure, TypeOK, Episode, StartAttempt, PermitIsCurrent,
           WaitersAtGate, FailedAtGate, ExhaustedIsEmpty, LeaderAlive, ProbeOwned,
           Generations, Open
<1>6. ProbeOwned' /\ LeaderAlive'
    BY <1>0 DEF Structure, TypeOK, Episode, StartAttempt, PermitIsCurrent,
           ProbeOwned, LeaderAlive, FailedAtGate, ExhaustedIsEmpty, Generations,
           Open
<1>7. SleeperKeepsClaim' /\ WaitersRegistered'
    BY <1>0 DEF Structure, TypeOK, Episode, StartAttempt, PermitIsCurrent,
           SleeperKeepsClaim, ClaimHolds, WaitersRegistered, ExhaustedIsEmpty,
           Generations, Open
<1> QED
    BY <1>2, <1>3, <1>4, <1>5, <1>6, <1>7 DEF Structure

LEMMA CancelWaitStep ==
    ASSUME IInv, NEW s \in Sessions, CancelWait(s)
    PROVE  Typed' /\ Structure'
<1> USE ConstantsAssumption
<1>0. TypeOK /\ Structure
    BY DEF IInv
<1>2. Typed'
    BY <1>0 DEF Typed, TypeOK, Episode, CancelWait
<1>3. Generations' /\ ExhaustedIsEmpty'
    BY <1>0 DEF Structure, TypeOK, Episode, CancelWait, Generations,
           ExhaustedIsEmpty, ProbeOwned, Open
<1>4. BudgetLeft'
    BY <1>0 DEF Structure, TypeOK, Episode, CancelWait, BudgetLeft, CanAttempt
<1>5. WaitersAtGate' /\ FailedAtGate'
    BY <1>0 DEF Structure, TypeOK, Episode, CancelWait, WaitersAtGate, FailedAtGate,
           ExhaustedIsEmpty, LeaderAlive, ProbeOwned, Generations, Open
<1>6. ProbeOwned' /\ LeaderAlive'
    BY <1>0 DEF Structure, TypeOK, Episode, CancelWait, ProbeOwned, LeaderAlive,
           FailedAtGate, ExhaustedIsEmpty, Generations, Open
<1>7. SleeperKeepsClaim' /\ WaitersRegistered'
    BY <1>0 DEF Structure, TypeOK, Episode, CancelWait, SleeperKeepsClaim,
           ClaimHolds, WaitersRegistered, ExhaustedIsEmpty, Generations, Open
<1> QED
    BY <1>2, <1>3, <1>4, <1>5, <1>6, <1>7 DEF Structure

LEMMA BackoffElapsesStep ==
    ASSUME IInv, BackoffElapses
    PROVE  Typed' /\ Structure'
<1> USE ConstantsAssumption
<1>0. TypeOK /\ Structure
    BY DEF IInv
<1>2. Typed'
    BY <1>0 DEF Typed, TypeOK, Episode, BackoffElapses
<1>3. Generations' /\ ExhaustedIsEmpty'
    BY <1>0 DEF Structure, TypeOK, Episode, BackoffElapses, Generations,
           ExhaustedIsEmpty, ProbeOwned, Open
<1>4. BudgetLeft'
    BY <1>0 DEF Structure, TypeOK, Episode, BackoffElapses, BudgetLeft, CanAttempt
<1>5. WaitersAtGate' /\ FailedAtGate'
    BY <1>0 DEF Structure, TypeOK, Episode, BackoffElapses, WaitersAtGate,
           FailedAtGate, ExhaustedIsEmpty, LeaderAlive, ProbeOwned, Generations,
           Open
<1>6. ProbeOwned' /\ LeaderAlive'
    BY <1>0 DEF Structure, TypeOK, Episode, BackoffElapses, ProbeOwned, LeaderAlive,
           FailedAtGate, ExhaustedIsEmpty, Generations, Open
<1>7. SleeperKeepsClaim' /\ WaitersRegistered'
    BY <1>0 DEF Structure, TypeOK, Episode, BackoffElapses, SleeperKeepsClaim,
           ClaimHolds, WaitersRegistered, ExhaustedIsEmpty, Generations, Open
<1> QED
    BY <1>2, <1>3, <1>4, <1>5, <1>6, <1>7 DEF Structure

LEMMA CooldownExpiresStep ==
    ASSUME IInv, CooldownExpires
    PROVE  Typed' /\ Structure'
<1> USE ConstantsAssumption
<1>0. TypeOK /\ Structure
    BY DEF IInv
<1>2. Typed'
    BY <1>0 DEF Typed, TypeOK, Episode, CooldownExpires
<1>3. Generations' /\ ExhaustedIsEmpty'
    BY <1>0 DEF Structure, TypeOK, Episode, CooldownExpires, Generations,
           ExhaustedIsEmpty, ProbeOwned, Open
<1>4. BudgetLeft'
    BY <1>0 DEF Structure, TypeOK, Episode, CooldownExpires, BudgetLeft, CanAttempt
<1>5. WaitersAtGate' /\ FailedAtGate'
    BY <1>0 DEF Structure, TypeOK, Episode, CooldownExpires, WaitersAtGate,
           FailedAtGate, ExhaustedIsEmpty, LeaderAlive, ProbeOwned, Generations,
           Open
<1>6. ProbeOwned' /\ LeaderAlive'
    BY <1>0 DEF Structure, TypeOK, Episode, CooldownExpires, ProbeOwned,
           LeaderAlive, FailedAtGate, ExhaustedIsEmpty, Generations, Open
<1>7. SleeperKeepsClaim' /\ WaitersRegistered'
    BY <1>0 DEF Structure, TypeOK, Episode, CooldownExpires, SleeperKeepsClaim,
           ClaimHolds, WaitersRegistered, ExhaustedIsEmpty, Generations, Open
<1> QED
    BY <1>2, <1>3, <1>4, <1>5, <1>6, <1>7 DEF Structure

-----------------------------------------------------------------------------
(* Steps that notify the waiters *)

\* What notify_all and moving s to next do to the control states.
LEMMA Notified ==
    ASSUME TypeOK, NEW s \in Sessions, NEW next \in PCs,
           pc' = [NotifyAll EXCEPT ![s] = next]
    PROVE  /\ pc' \in [Sessions -> PCs]
           /\ pc'[s] = next
           /\ \A t \in Sessions \ {s} :
                pc'[t] = IF pc[t] = "wait" THEN "woken" ELSE pc[t]
  BY DEF TypeOK, NotifyAll

\* An execution in rate admission, in the bulkhead queue or upstream is
\* neither coalesced nor failed, and leads only as the probe.
LEMMA Underway ==
    ASSUME IInv, NEW s \in Sessions, pc[s] \in InAdmission \cup {"running"}
    PROVE  /\ s \notin episode.waiters
           /\ s \notin failed
           /\ MatchingProbe(s) <=> episode.leader = s
           /\ MatchingProbe(s) => episode.terminal = "no" /\ Open
<1>1. TypeOK /\ Structure
    BY DEF IInv
<1>2. s \notin episode.waiters /\ s \notin failed
    BY <1>1 DEF Structure, WaitersAtGate, FailedAtGate
<1>3. ASSUME episode.leader = s PROVE MatchingProbe(s)
    <2>1. s # NoSession
        BY ConstantsAssumption
    <2>2. episode.probe
        BY <1>1, <1>3, <2>1 DEF Structure, LeaderAlive
    <2>3. episode.gen # 0
        BY <1>1, <1>3, <2>1 DEF Structure, Generations, Open
    <2> QED
        BY <1>1, <1>3, <2>2, <2>3 DEF Structure, ProbeOwned, MatchingProbe
<1> QED
    BY <1>1, <1>2, <1>3 DEF MatchingProbe, Structure, ProbeOwned, Open

LEMMA AbandonStep ==
    ASSUME IInv, NEW s \in Sessions, pc[s] \in InAdmission \cup {"running"},
           NEW next \in {"gate", "cancelled"}, Abandon(s, next),
           next = "gate" => CanAttempt(s),
           UNCHANGED <<attempts, failed, permit, nextGen>>
    PROVE  Typed' /\ Structure'
<1> USE ConstantsAssumption
<1>0. TypeOK /\ Structure
    BY DEF IInv
<1>1. /\ s \notin episode.waiters /\ s \notin failed
      /\ MatchingProbe(s) <=> episode.leader = s
      /\ MatchingProbe(s) => episode.terminal = "no" /\ Open
    BY Underway
<1>2. CASE ~MatchingProbe(s)
    <2>1. episode' = episode /\ pc' = [pc EXCEPT ![s] = next]
        BY <1>2 DEF Abandon
    <2>2. Typed'
        BY <2>1, <1>0 DEF TypeOK, Typed
    <2>3. Structure'
        BY <2>1, <1>2, <1>0, <1>1
           DEF Structure, TypeOK, Episode, Generations, BudgetLeft, CanAttempt,
               ExhaustedIsEmpty, WaitersAtGate, FailedAtGate, ProbeOwned, LeaderAlive,
               SleeperKeepsClaim, WaitersRegistered, ClaimHolds, Open
    <2> QED
        BY <2>2, <2>3
<1>3. CASE MatchingProbe(s)
    <2>1. episode' = Relinquished /\ pc' = [NotifyAll EXCEPT ![s] = next]
        BY <1>3 DEF Abandon
    <2>2. Relinquished \in Episode
        BY <1>0 DEF Relinquished, TypeOK, Episode
    <2>3. /\ episode'.gen = episode.gen /\ episode'.leader = NoSession /\ ~episode'.probe
          /\ episode'.terminal = episode.terminal /\ episode'.waiters = episode.waiters
        BY <2>1, <1>0 DEF Relinquished, TypeOK, Episode
    <2>4. /\ pc' \in [Sessions -> PCs]
          /\ pc'[s] = next
          /\ \A t \in Sessions \ {s} :
                pc'[t] = IF pc[t] = "wait" THEN "woken" ELSE pc[t]
        BY <2>1, <1>0, Notified
    <2>5. \A t \in Sessions : pc'[t] # "wait" /\ pc'[t] # "sleep"
        BY <2>4, <1>1, <1>3, <1>0 DEF Structure, SleeperKeepsClaim, ClaimHolds
    <2>6. Typed'
        BY <2>1, <2>2, <2>4, <1>0 DEF Typed, TypeOK
    <2>7. Generations' /\ ExhaustedIsEmpty'
        BY <2>3, <1>1, <1>3, <1>0 DEF Structure, Generations, Open, ExhaustedIsEmpty
    <2>8. BudgetLeft'
        BY <2>4, <1>0 DEF Structure, BudgetLeft, CanAttempt
    <2>9. WaitersAtGate' /\ FailedAtGate'
        BY <2>3, <2>4, <1>0, <1>1 DEF Structure, WaitersAtGate, FailedAtGate, TypeOK, Episode
    <2> QED
        BY <2>3, <2>5, <2>6, <2>7, <2>8, <2>9
           DEF Structure, ProbeOwned, LeaderAlive, SleeperKeepsClaim, WaitersRegistered
<1> QED
    BY <1>2, <1>3

LEMMA ReadmitStep ==
    ASSUME IInv, NEW s \in Sessions, pc[s] \in InAdmission, Readmit(s)
    PROVE  Typed' /\ Structure'
<1>1. CanAttempt(s)
    BY DEF IInv, Structure, BudgetLeft, CanAttempt
<1> QED
    BY <1>1, AbandonStep DEF Readmit

LEMMA AnsweredStep ==
    ASSUME IInv, NEW s \in Sessions, pc[s] = "running",
           NEW next \in {"done", "failed"}, Answered(s, next)
    PROVE  Typed' /\ Structure'
<1> USE ConstantsAssumption
<1>0. TypeOK /\ Structure
    BY DEF IInv
<1>1. /\ s \notin episode.waiters /\ s \notin failed
      /\ MatchingProbe(s) <=> episode.leader = s
      /\ MatchingProbe(s) => episode.terminal = "no" /\ Open
    BY Underway
<1>2. UNCHANGED <<attempts, failed, permit, nextGen>>
    BY DEF Answered
<1>3. CASE ~MatchingProbe(s)
    <2>1. episode' = episode /\ pc' = [pc EXCEPT ![s] = next]
        BY <1>3 DEF Answered
    <2>2. Typed'
        BY <2>1, <1>2, <1>0 DEF TypeOK, Typed
    <2>3. Structure'
        BY <2>1, <1>3, <1>0, <1>1, <1>2
           DEF Structure, TypeOK, Episode, Generations, BudgetLeft, CanAttempt,
               ExhaustedIsEmpty, WaitersAtGate, FailedAtGate, ProbeOwned, LeaderAlive,
               SleeperKeepsClaim, WaitersRegistered, ClaimHolds, Open
    <2> QED
        BY <2>2, <2>3
<1>4. CASE MatchingProbe(s)
    <2>1. episode' = NoEpisode /\ pc' = [NotifyAll EXCEPT ![s] = next]
        BY <1>4 DEF Answered
    <2>2. /\ episode' \in Episode /\ episode'.gen = 0 /\ episode'.leader = NoSession
          /\ ~episode'.probe /\ episode'.terminal = "no" /\ episode'.waiters = {}
        BY <2>1 DEF NoEpisode, Episode
    <2>3. /\ pc' \in [Sessions -> PCs]
          /\ pc'[s] = next
          /\ \A t \in Sessions \ {s} :
                pc'[t] = IF pc[t] = "wait" THEN "woken" ELSE pc[t]
        BY <2>1, <1>0, Notified
    <2>4. \A t \in Sessions : pc'[t] # "wait" /\ pc'[t] # "sleep"
        BY <2>3, <1>1, <1>4, <1>0 DEF Structure, SleeperKeepsClaim, ClaimHolds
    <2>5. Typed'
        BY <2>2, <2>3, <1>0, <1>2 DEF Typed, TypeOK
    <2>6. Generations' /\ ExhaustedIsEmpty'
        BY <2>2, <1>0, <1>2 DEF Structure, Generations, Open, ExhaustedIsEmpty, TypeOK
    <2>7. BudgetLeft'
        BY <2>3, <1>0, <1>2 DEF Structure, BudgetLeft, CanAttempt
    <2>8. WaitersAtGate' /\ FailedAtGate'
        BY <2>2, <2>3, <1>0, <1>1, <1>2
           DEF Structure, WaitersAtGate, FailedAtGate, TypeOK
    <2> QED
        BY <2>2, <2>4, <2>5, <2>6, <2>7, <2>8
           DEF Structure, ProbeOwned, LeaderAlive, SleeperKeepsClaim, WaitersRegistered
<1> QED
    BY <1>3, <1>4

\* The common part of _attempt_failed: what the four outcomes of a retryable
\* failure, and the two of an exhausted budget, leave of the episode.
LEMMA FailRetryableStep ==
    ASSUME IInv, NEW s \in Sessions, pc[s] = "running", FailRetryable(s, "gate"),
           UNCHANGED <<attempts, permit>>
    PROVE  Typed' /\ Structure'
<1> USE ConstantsAssumption
<1>0. TypeOK /\ Structure
    BY DEF IInv
<1>1. /\ s \notin episode.waiters /\ s \notin failed
      /\ MatchingProbe(s) <=> episode.leader = s
      /\ MatchingProbe(s) => episode.terminal = "no" /\ Open
    BY Underway
<1>2. /\ pc' \in [Sessions -> PCs]
      /\ pc'[s] = "gate"
      /\ \A t \in Sessions \ {s} :
            pc'[t] = IF pc[t] = "wait" THEN "woken" ELSE pc[t]
    BY <1>0, Notified DEF FailRetryable
<1>3. BudgetLeft'
    BY <1>0, <1>2 DEF FailRetryable, Structure, BudgetLeft, CanAttempt
<1>4. WaitersRegistered'
    BY <1>0, <1>2 DEF WaitersRegistered
<1>5. CASE /\ ~Open
           /\ \E ready \in BOOLEAN : episode' = NewEpisode(s, ready)
           /\ nextGen' = nextGen + 1
           /\ failed' = failed
    <2>1. /\ episode' \in Episode /\ episode'.gen = nextGen /\ episode'.leader = s
          /\ ~episode'.probe /\ episode'.terminal = "no" /\ episode'.waiters = {}
        BY <1>5, <1>0 DEF NewEpisode, Episode, TypeOK
    <2>2. Typed'
        BY <1>5, <2>1, <1>0, <1>2 DEF Typed, TypeOK
    <2>3. Generations' /\ ExhaustedIsEmpty' /\ ProbeOwned'
        BY <1>5, <2>1, <1>0
           DEF TypeOK, Structure, Generations, ExhaustedIsEmpty, ProbeOwned, Open
    <2>4. WaitersAtGate' /\ FailedAtGate' /\ LeaderAlive'
        BY <1>5, <2>1, <1>0, <1>1, <1>2
           DEF TypeOK, Structure, WaitersAtGate, FailedAtGate, LeaderAlive
    <2>5. SleeperKeepsClaim'
        BY <1>5, <1>0, <1>2
           DEF TypeOK, Structure, SleeperKeepsClaim, ClaimHolds, Generations
    <2> QED
        BY <1>3, <1>4, <2>2, <2>3, <2>4, <2>5 DEF Structure
<1>6. CASE /\ MatchingProbe(s)
           /\ \E ready \in BOOLEAN :
                 episode' = [episode EXCEPT !.probe = FALSE, !.ready = ready]
           /\ UNCHANGED <<nextGen, failed>>
    <2>1. /\ episode' \in Episode /\ episode'.gen = episode.gen
          /\ episode'.leader = s /\ ~episode'.probe
          /\ episode'.terminal = "no" /\ episode'.waiters = episode.waiters
        BY <1>6, <1>0, <1>1 DEF Episode, TypeOK
    <2>2. Typed'
        BY <1>6, <2>1, <1>0, <1>2 DEF Typed, TypeOK
    <2>3. Generations' /\ ExhaustedIsEmpty' /\ ProbeOwned'
        BY <1>6, <2>1, <1>0, <1>1
           DEF TypeOK, Structure, Generations, ExhaustedIsEmpty, ProbeOwned, Open
    <2>4. WaitersAtGate' /\ FailedAtGate' /\ LeaderAlive'
        BY <1>6, <2>1, <1>0, <1>1, <1>2
           DEF TypeOK, Episode, Structure, WaitersAtGate, FailedAtGate, LeaderAlive
    <2>5. SleeperKeepsClaim'
        BY <1>6, <1>0, <1>1, <1>2 DEF TypeOK, Structure, SleeperKeepsClaim, ClaimHolds
    <2> QED
        BY <1>3, <1>4, <2>2, <2>3, <2>4, <2>5 DEF Structure
<1>7. CASE /\ Open
           /\ ~MatchingProbe(s)
           /\ episode.terminal # "no"
           /\ failed' = failed \cup {s}
           /\ UNCHANGED <<nextGen, episode>>
    <2>1. Typed'
        BY <1>7, <1>0, <1>2 DEF Typed, TypeOK
    <2>2. Generations' /\ ExhaustedIsEmpty' /\ ProbeOwned'
        BY <1>7, <1>0
           DEF Structure, Generations, ExhaustedIsEmpty, ProbeOwned, Open
    <2>3. WaitersAtGate' /\ FailedAtGate' /\ LeaderAlive'
        BY <1>7, <1>0, <1>1, <1>2
           DEF TypeOK, Structure, ExhaustedIsEmpty, WaitersAtGate, FailedAtGate,
               LeaderAlive
    <2>4. SleeperKeepsClaim'
        BY <1>7, <1>0, <1>2 DEF TypeOK, Structure, SleeperKeepsClaim, ClaimHolds
    <2> QED
        BY <1>3, <1>4, <2>1, <2>2, <2>3, <2>4 DEF Structure
<1>8. CASE /\ Open
           /\ ~MatchingProbe(s)
           /\ episode.terminal = "no"
           /\ episode' = [episode EXCEPT !.waiters = @ \cup {s}]
           /\ UNCHANGED <<nextGen, failed>>
    <2>1. /\ episode' \in Episode /\ episode'.gen = episode.gen
          /\ episode'.leader = episode.leader /\ episode'.probe = episode.probe
          /\ episode'.terminal = "no" /\ episode'.waiters = episode.waiters \cup {s}
        BY <1>8, <1>0 DEF Episode, TypeOK
    <2>2. Typed'
        BY <1>8, <2>1, <1>0, <1>2 DEF Typed, TypeOK
    <2>3. Generations' /\ ExhaustedIsEmpty'
        BY <1>8, <2>1, <1>0 DEF Structure, Generations, ExhaustedIsEmpty, Open
    <2>4. ProbeOwned' /\ LeaderAlive'
        BY <1>8, <2>1, <1>0, <1>1, <1>2
           DEF TypeOK, Episode, Structure, ProbeOwned, LeaderAlive
    <2>5. WaitersAtGate' /\ FailedAtGate'
        BY <1>8, <2>1, <1>0, <1>1, <1>2
           DEF TypeOK, Episode, Structure, WaitersAtGate, FailedAtGate
    <2>6. SleeperKeepsClaim'
        BY <1>8, <2>1, <1>0, <1>2 DEF TypeOK, Structure, SleeperKeepsClaim, ClaimHolds
    <2> QED
        BY <1>3, <1>4, <2>2, <2>3, <2>4, <2>5, <2>6 DEF Structure
<1> QED
    BY <1>5, <1>6, <1>7, <1>8 DEF FailRetryable

LEMMA FailExhaustedStep ==
    ASSUME IInv, NEW s \in Sessions, pc[s] = "running", FailExhausted(s, "failed"),
           UNCHANGED <<attempts, permit>>
    PROVE  Typed' /\ Structure'
<1> USE ConstantsAssumption
<1>0. TypeOK /\ Structure
    BY DEF IInv
<1>1. /\ s \notin episode.waiters /\ s \notin failed
      /\ MatchingProbe(s) <=> episode.leader = s
      /\ MatchingProbe(s) => episode.terminal = "no" /\ Open
    BY Underway
<1>2. CASE Open /\ ~MatchingProbe(s)
    <2>1. UNCHANGED <<episode, nextGen, failed>> /\ pc' = [pc EXCEPT ![s] = "failed"]
        BY <1>2 DEF FailExhausted
    <2>2. Typed'
        BY <2>1, <1>0 DEF TypeOK, Typed
    <2>3. Structure'
        BY <2>1, <1>2, <1>0, <1>1
           DEF Structure, TypeOK, Episode, Generations, BudgetLeft, CanAttempt,
               ExhaustedIsEmpty, WaitersAtGate, FailedAtGate, ProbeOwned, LeaderAlive,
               SleeperKeepsClaim, WaitersRegistered, ClaimHolds, Open
    <2> QED
        BY <2>2, <2>3
<1>3. CASE ~Open \/ MatchingProbe(s)
    <2>1. /\ failed' = failed \cup episode.waiters
          /\ nextGen' \in {nextGen, nextGen + 1}
          /\ pc' = [NotifyAll EXCEPT ![s] = "failed"]
        BY <1>3 DEF FailExhausted
    <2>2. /\ episode' \in Episode /\ episode'.leader = NoSession /\ ~episode'.probe
          /\ episode'.terminal # "no" /\ episode'.waiters = {}
          /\ episode'.gen # 0 /\ episode'.gen < nextGen'
        <3>1. PICK ep \in Episode, terminal \in {"cooling", "expired"} :
                 /\ episode' = Exhausted(ep, terminal)
                 /\ ep.gen # 0 /\ ep.gen < nextGen'
            <4>1. CASE Open
                BY <4>1, <1>3, <1>0 DEF FailExhausted, TypeOK, Open, Structure, Generations
            <4>2. CASE ~Open
                <5>1. /\ NewEpisode(NoSession, TRUE) \in Episode
                      /\ NewEpisode(NoSession, TRUE).gen = nextGen
                    BY <1>0 DEF NewEpisode, Episode, TypeOK
                <5>2. /\ nextGen' = nextGen + 1
                      /\ \E terminal \in {"cooling", "expired"} :
                            episode' = Exhausted(NewEpisode(NoSession, TRUE), terminal)
                    BY <4>2 DEF FailExhausted
                <5>3. nextGen # 0 /\ nextGen < nextGen'
                    BY <5>2, <1>0 DEF TypeOK
                <5> QED
                    BY <5>1, <5>2, <5>3
            <4> QED
                BY <4>1, <4>2
        <3>2. Exhausted(ep, terminal) \in Episode
            BY DEF Exhausted, Episode
        <3> QED
            BY <3>1, <3>2 DEF Exhausted, Episode
    <2>3. /\ pc' \in [Sessions -> PCs]
          /\ pc'[s] = "failed"
          /\ \A t \in Sessions \ {s} :
                pc'[t] = IF pc[t] = "wait" THEN "woken" ELSE pc[t]
        BY <2>1, <1>0, Notified
    <2>4. \A t \in Sessions : pc'[t] # "wait" /\ pc'[t] # "sleep"
        BY <2>3, <1>1, <1>3, <1>0
           DEF Structure, SleeperKeepsClaim, ClaimHolds, Generations
    <2>5. Typed'
        BY <2>1, <2>2, <2>3, <1>0 DEF Typed, TypeOK, Episode
    <2>6. Generations' /\ ExhaustedIsEmpty'
        BY <2>1, <2>2, <1>0 DEF Structure, Generations, Open, ExhaustedIsEmpty, TypeOK
    <2>7. BudgetLeft'
        BY <2>3, <1>0 DEF Structure, BudgetLeft, CanAttempt
    <2>8. WaitersAtGate' /\ FailedAtGate'
        BY <2>1, <2>2, <2>3, <1>0, <1>1
           DEF Structure, WaitersAtGate, FailedAtGate, TypeOK, Episode
    <2> QED
        BY <2>2, <2>4, <2>5, <2>6, <2>7, <2>8
           DEF Structure, ProbeOwned, LeaderAlive, SleeperKeepsClaim, WaitersRegistered
<1> QED
    BY <1>2, <1>3

LEMMA CancelSleepStep ==
    ASSUME IInv, NEW s \in Sessions, CancelSleep(s)
    PROVE  Typed' /\ Structure'
<1> USE ConstantsAssumption
<1>0. TypeOK /\ Structure
    BY DEF IInv
<1>1. pc[s] = "sleep" /\ UNCHANGED <<attempts, failed, permit, nextGen>>
    BY DEF CancelSleep
<1>2. ClaimHolds(s)
    BY <1>0, <1>1 DEF Structure, SleeperKeepsClaim
<1>3. /\ episode' = [episode EXCEPT !.leader = NoSession]
      /\ pc' = [NotifyAll EXCEPT ![s] = "cancelled"]
    BY <1>2 DEF CancelSleep
<1>4. /\ episode' \in Episode /\ episode'.gen = episode.gen /\ episode'.leader = NoSession
      /\ ~episode'.probe /\ episode'.terminal = "no" /\ episode'.waiters = episode.waiters
    BY <1>3, <1>2, <1>0 DEF ClaimHolds, TypeOK, Episode
<1>5. /\ pc' \in [Sessions -> PCs]
      /\ pc'[s] = "cancelled"
      /\ \A t \in Sessions \ {s} :
            pc'[t] = IF pc[t] = "wait" THEN "woken" ELSE pc[t]
    BY <1>3, <1>0, Notified
<1>6. \A t \in Sessions : pc'[t] # "wait" /\ pc'[t] # "sleep"
    BY <1>5, <1>2, <1>0 DEF Structure, SleeperKeepsClaim, ClaimHolds
<1>7. Typed'
    BY <1>1, <1>4, <1>5, <1>0 DEF Typed, TypeOK
<1>8. Generations' /\ ExhaustedIsEmpty'
    BY <1>1, <1>2, <1>4, <1>0 DEF Structure, Generations, Open, ExhaustedIsEmpty, ClaimHolds
<1>9. BudgetLeft'
    BY <1>1, <1>5, <1>0 DEF Structure, BudgetLeft, CanAttempt
<1>10. WaitersAtGate' /\ FailedAtGate'
    BY <1>1, <1>4, <1>5, <1>0 DEF Structure, WaitersAtGate, FailedAtGate, TypeOK, Episode
<1> QED
    BY <1>4, <1>6, <1>7, <1>8, <1>9, <1>10
       DEF Structure, ProbeOwned, LeaderAlive, SleeperKeepsClaim, WaitersRegistered

-----------------------------------------------------------------------------
(* The bulkhead *)

Running == {s \in Sessions : pc[s] = "running"}

\* The semaphore counts the attempts that are not running: a step that starts
\* or ends one attempt of s, and leaves the others' alone, keeps the count.
LEMMA SlotCount ==
    ASSUME TypeOK, SlotsConserved, NEW s \in Sessions,
           \A t \in Sessions \ {s} : pc'[t] = "running" <=> pc[t] = "running",
           \/ (pc'[s] = "running" <=> pc[s] = "running") /\ free' = free
           \/ pc[s] = "running" /\ pc'[s] # "running" /\ free' = free + 1
           \/ pc[s] # "running" /\ pc'[s] = "running" /\ free > 0 /\ free' = free - 1
    PROVE  SlotsConserved' /\ free' \in 0..MaxConcurrency
<1> DEFINE Later == {t \in Sessions : pc'[t] = "running"}
<1>1. IsFiniteSet(Running) /\ IsFiniteSet(Later)
    BY ConstantsAssumption, FS_Subset DEF Running
<1>2. /\ Cardinality(Running) \in Nat /\ Cardinality(Later) \in Nat
      /\ free + Cardinality(Running) = MaxConcurrency
      /\ MaxConcurrency \in Nat /\ free \in Nat
    BY <1>1, FS_CardinalityType, ConstantsAssumption DEF SlotsConserved, Running, TypeOK
<1>3. CASE (pc'[s] = "running" <=> pc[s] = "running") /\ free' = free
    <2>1. Later = Running
        BY <1>3 DEF Running
    <2>2. free' + Cardinality(Later) = MaxConcurrency /\ free' \in 0..MaxConcurrency
        BY <2>1, <1>2, <1>3
    <2> QED
        BY <2>2 DEF SlotsConserved
<1>4. CASE pc[s] = "running" /\ pc'[s] # "running" /\ free' = free + 1
    <2>1. Later = Running \ {s} /\ s \in Running
        BY <1>4 DEF Running
    <2>2. Cardinality(Later) = Cardinality(Running) - 1
        BY <2>1, <1>1, FS_RemoveElement
    <2>3. free' + Cardinality(Later) = MaxConcurrency /\ free' \in 0..MaxConcurrency
        BY <2>2, <1>2, <1>4
    <2> QED
        BY <2>3 DEF SlotsConserved
<1>5. CASE pc[s] # "running" /\ pc'[s] = "running" /\ free > 0 /\ free' = free - 1
    <2>1. Later = Running \cup {s} /\ s \notin Running
        BY <1>5 DEF Running
    <2>2. Cardinality(Later) = Cardinality(Running) + 1
        BY <2>1, <1>1, FS_AddElement
    <2>3. free' + Cardinality(Later) = MaxConcurrency /\ free' \in 0..MaxConcurrency
        BY <2>2, <1>2, <1>5
    <2> QED
        BY <2>3 DEF SlotsConserved
<1> QED
    BY <1>3, <1>4, <1>5

LEMMA SlotsStep ==
    ASSUME IInv, NEW s \in Sessions, Begin(s) \/ Admit(s) \/ Resolve(s) \/ Cancel(s)
    PROVE  SlotsConserved' /\ free' \in 0..MaxConcurrency
<1>0. TypeOK /\ SlotsConserved
    BY DEF IInv
<1>1. CASE Begin(s) \/ Gate(s) \/ WakeUp(s)
    <2>1. free' = free /\ pc[s] # "running"
        <3>1. CASE Begin(s) \/ WakeUp(s)
            BY <3>1 DEF Begin, WakeUp
        <3>2. CASE GateTerminal(s) \/ GateOpen(s) \/ GateFailFast(s) \/ GateRestart(s)
            BY <3>2 DEF GateTerminal, GateOpen, GateFailFast, GateRestart, AtGate
        <3>3. CASE GateProbe(s) \/ GateSleep(s) \/ GateWait(s)
            BY <3>3 DEF GateProbe, GateSleep, GateWait, MayLead, AtGate
        <3> QED
            BY <1>1, <3>1, <3>2, <3>3 DEF Gate
    <2>2. PICK p \in PCs : p # "running" /\ pc' = [pc EXCEPT ![s] = p]
        BY <1>0, <1>1 DEF TypeOK, PCs, Begin, Gate, GateTerminal, GateOpen, GateFailFast,
           GateRestart, GateProbe, GateSleep, GateWait, WakeUp
    <2>3. \A t \in Sessions : pc'[t] = "running" <=> pc[t] = "running"
        BY <1>0, <2>1, <2>2 DEF TypeOK
    <2> QED
        BY <1>0, <2>1, <2>3, SlotCount
<1>2. CASE RateAdmitted(s) \/ SlotGranted(s)
    <2>1. CASE Readmit(s) /\ pc[s] \in InAdmission
        BY <1>0, <2>1, SlotCount DEF TypeOK, Readmit, Abandon, NotifyAll
    <2>2. CASE StartAttempt(s) /\ pc[s] \in InAdmission /\ free # 0
        <3>1. free > 0 /\ free' = free - 1 /\ pc' = [pc EXCEPT ![s] = "running"]
            BY <1>0, <2>2 DEF TypeOK, StartAttempt
        <3> QED
            BY <1>0, <2>2, <3>1, SlotCount DEF TypeOK
    <2>3. CASE pc[s] = "limiter" /\ pc' = [pc EXCEPT ![s] = "slot"] /\ free' = free
        BY <1>0, <2>3, SlotCount DEF TypeOK
    <2> QED
        BY <1>0, <1>2, <2>1, <2>2, <2>3 DEF RateAdmitted, SlotGranted, SlotTaken, TypeOK
<1>3. CASE Succeed(s) \/ Reject(s)
    BY <1>0, <1>3, SlotCount DEF TypeOK, Succeed, Reject, Answered, NotifyAll, Release
<1>4. CASE Fail(s)
    BY <1>0, <1>4, SlotCount
       DEF TypeOK, Fail, FailRetryable, FailExhausted, NotifyAll, Release
<1>5. CASE CancelWait(s) \/ CancelSleep(s) \/ CancelAdmission(s)
    BY <1>0, <1>5, SlotCount
       DEF TypeOK, CancelWait, CancelSleep, CancelAdmission, Abandon, NotifyAll
<1>6. CASE CancelRunning(s)
    BY <1>0, <1>6, SlotCount DEF TypeOK, CancelRunning, Abandon, NotifyAll, Release
<1> QED
    BY <1>1, <1>2, <1>3, <1>4, <1>5, <1>6 DEF Admit, Resolve, Cancel

-----------------------------------------------------------------------------
(* The invariant *)

LEMMA InitIInv == Init => IInv
<1> SUFFICES ASSUME Init PROVE IInv
    OBVIOUS
<1>1. TypeOK /\ Structure
    BY ConstantsAssumption
       DEF Init, TypeOK, Structure, Generations, BudgetLeft, CanAttempt, ExhaustedIsEmpty,
           WaitersAtGate, FailedAtGate, ProbeOwned, LeaderAlive, SleeperKeepsClaim,
           WaitersRegistered, NoEpisode, Episode, ClaimHolds, Open
<1>2. {s \in Sessions : pc[s] = "running"} = {}
    BY DEF Init
<1>3. SlotsConserved
    BY <1>2, FS_EmptySet, ConstantsAssumption DEF SlotsConserved, Init
<1> QED
    BY <1>1, <1>3 DEF IInv

LEMMA NextIInv == IInv /\ [Next]_vars => IInv'
<1> SUFFICES ASSUME IInv, [Next]_vars PROVE IInv'
    OBVIOUS
<1>1. CASE UNCHANGED vars
    BY <1>1 DEF vars, IInv, TypeOK, SlotsConserved, Structure, Generations, BudgetLeft,
       CanAttempt, ExhaustedIsEmpty, WaitersAtGate, FailedAtGate, ProbeOwned, LeaderAlive,
       SleeperKeepsClaim, WaitersRegistered, ClaimHolds, Open
<1>2. CASE Time
    <2>1. Typed' /\ Structure'
        BY <1>2, BackoffElapsesStep, CooldownExpiresStep DEF Time
    <2>2. SlotsConserved' /\ free' = free
        BY <1>2 DEF Time, BackoffElapses, CooldownExpires, IInv, SlotsConserved
    <2> QED
        BY <2>1, <2>2 DEF IInv, TypeOK, Typed
<1>3. ASSUME NEW s \in Sessions, Begin(s) \/ Admit(s) \/ Resolve(s) \/ Cancel(s)
      PROVE IInv'
    <2>1. CASE Begin(s)
        BY <2>1, BeginStep, SlotsStep DEF IInv, TypeOK, Typed
    <2>2. CASE Gate(s)
        <3>1. Typed' /\ Structure'
            BY <2>2, GateTerminalStep, GateOpenStep, GateFailFastStep, GateRestartStep,
               GateProbeStep, GateSleepStep, GateWaitStep DEF Gate
        <3> QED
            BY <3>1, <1>3, SlotsStep DEF IInv, TypeOK, Typed
    <2>3. CASE WakeUp(s)
        BY <2>3, <1>3, WakeUpStep, SlotsStep DEF IInv, TypeOK, Typed
    <2>4. CASE RateAdmitted(s) \/ SlotGranted(s)
        <3>1. CASE pc[s] \in InAdmission /\ (Readmit(s) \/ StartAttempt(s))
            BY <3>1, <1>3, ReadmitStep, StartAttemptStep, SlotsStep DEF IInv, TypeOK, Typed
        <3>2. CASE /\ pc[s] = "limiter"
                   /\ pc' = [pc EXCEPT ![s] = "slot"]
                   /\ UNCHANGED <<attempts, failed, permit, episode, nextGen, free>>
            <4>1. Typed'
                BY <3>2 DEF IInv, TypeOK, Typed
            <4>2. Structure'
                BY <3>2 DEF IInv, TypeOK, Episode, Structure, Generations, BudgetLeft,
                   CanAttempt, ExhaustedIsEmpty, WaitersAtGate, FailedAtGate, ProbeOwned,
                   LeaderAlive, SleeperKeepsClaim, WaitersRegistered, ClaimHolds, Open
            <4> QED
                BY <4>1, <4>2, <1>3, SlotsStep DEF IInv, TypeOK, Typed
        <3> QED
            BY <2>4, <3>1, <3>2 DEF RateAdmitted, SlotGranted
    <2>5. CASE Succeed(s) \/ Reject(s)
        <3>1. Typed' /\ Structure'
            BY <2>5, AnsweredStep DEF Succeed, Reject
        <3> QED
            BY <3>1, <1>3, SlotsStep DEF IInv, TypeOK, Typed
    <2>6. CASE Fail(s)
        <3>1. Typed' /\ Structure'
            BY <2>6, FailRetryableStep, FailExhaustedStep DEF Fail
        <3> QED
            BY <3>1, <1>3, SlotsStep DEF IInv, TypeOK, Typed
    <2>7. CASE Cancel(s)
        <3>1. CASE CancelAdmission(s) \/ CancelRunning(s)
            BY <3>1, <1>3, AbandonStep, SlotsStep
               DEF CancelAdmission, CancelRunning, IInv, TypeOK, Typed
        <3>2. CASE CancelWait(s) \/ CancelSleep(s)
            BY <3>2, <1>3, CancelWaitStep, CancelSleepStep, SlotsStep DEF IInv, TypeOK, Typed
        <3> QED
            BY <2>7, <3>1, <3>2 DEF Cancel
    <2> QED
        BY <1>3, <2>1, <2>2, <2>3, <2>4, <2>5, <2>6, <2>7 DEF Admit, Resolve
<1>4. CASE Terminating
    BY <1>1, <1>4 DEF Terminating
<1> QED
    BY <1>1, <1>2, <1>3, <1>4 DEF Next

\* The admission invariant holds in every state.
THEOREM Invariance == Spec => []IInv
  BY InitIInv, NextIInv, PTL DEF Spec

\* Type correctness: the bulkhead's semaphore stays within its range and no
\* session overdraws its attempt budget.
THEOREM TypeCorrect == Spec => []TypeOK
<1>1. IInv => TypeOK
    BY DEF IInv
<1> QED
    BY <1>1, Invariance, PTL

\* No interleaving of answers, failures and cancellations leaks a slot of the
\* bulkhead or gives one back twice.
THEOREM BulkheadCorrect == Spec => []SlotsConserved
<1>1. IInv => SlotsConserved
    BY DEF IInv
<1> QED
    BY <1>1, Invariance, PTL

\* The recovery protocol: probes and leadership always rest with an execution
\* that will act on them, and nobody waits for an episode that is over.
THEOREM RecoveryCorrect ==
    Spec => [](RecoveryOwned /\ BudgetLeft /\ SleeperKeepsClaim /\ WaitersRegistered)
<1>1. IInv => RecoveryOwned /\ BudgetLeft /\ SleeperKeepsClaim /\ WaitersRegistered
    BY DEF IInv, Structure, RecoveryOwned
<1> QED
    BY <1>1, Invariance, PTL

-----------------------------------------------------------------------------
(* Action properties *)

\* A step of s moves no other execution, but for resuming waiters.
LEMMA OnlyActorMoves ==
    ASSUME TypeOK, NEW s \in Sessions, NEW t \in Sessions \ {s},
           Begin(s) \/ Admit(s) \/ Resolve(s) \/ Cancel(s)
    PROVE  pc'[t] = pc[t] \/ (pc[t] = "wait" /\ pc'[t] = "woken")
<1>1. CASE Begin(s) \/ Gate(s) \/ WakeUp(s)
    BY <1>1 DEF TypeOK, Begin, Gate, GateTerminal, GateOpen, GateFailFast, GateRestart,
       GateProbe, GateSleep, GateWait, WakeUp
<1>2. CASE RateAdmitted(s) \/ SlotGranted(s)
    BY <1>2 DEF TypeOK, RateAdmitted, SlotGranted, Readmit, Abandon, NotifyAll, StartAttempt
<1>3. CASE Resolve(s)
    BY <1>3 DEF TypeOK, Resolve, Succeed, Reject, Answered, Fail, FailRetryable,
       FailExhausted, NotifyAll
<1>4. CASE Cancel(s)
    BY <1>4 DEF TypeOK, Cancel, CancelWait, CancelSleep, CancelAdmission, CancelRunning,
       Abandon, NotifyAll
<1> QED
    BY <1>1, <1>2, <1>3, <1>4 DEF Admit

\* Upstream work during an episode is the leader's probe, in every run.
THEOREM RecoveryIsExclusive == Spec => OnlyProbesDuringRecovery
<1> DEFINE Started == \A s \in Sessions :
               (pc[s] # "running" /\ pc'[s] = "running" /\ Open)
               => episode.leader = s /\ episode.probe
<1>1. ASSUME IInv, Next, NEW t \in Sessions, pc[t] # "running", pc'[t] = "running", Open
      PROVE  episode.leader = t /\ episode.probe
    <2>1. TypeOK
        BY <1>1 DEF IInv
    <2>2. CASE Time \/ Terminating
        BY <1>1, <2>2 DEF Time, BackoffElapses, CooldownExpires, Terminating, vars
    <2>3. ASSUME NEW s \in Sessions, Begin(s) \/ Admit(s) \/ Resolve(s) \/ Cancel(s)
          PROVE  episode.leader = t /\ episode.probe
        <3>1. s = t
            BY <1>1, <2>1, <2>3, OnlyActorMoves
        <3>2. CASE StartAttempt(t)
            BY <1>1, <3>2 DEF StartAttempt, PermitIsCurrent
        <3>3. CASE Begin(t) \/ Gate(t) \/ WakeUp(t)
            BY <1>1, <2>1, <3>3 DEF TypeOK, Begin, Gate, GateTerminal, GateOpen,
               GateFailFast, GateRestart, GateProbe, GateSleep, GateWait, WakeUp
        <3>4. CASE (RateAdmitted(t) \/ SlotGranted(t)) /\ ~StartAttempt(t)
            BY <1>1, <2>1, <3>4 DEF TypeOK, RateAdmitted, SlotGranted, Readmit, Abandon,
               NotifyAll
        <3>5. CASE Resolve(t) \/ Cancel(t)
            BY <1>1, <2>1, <3>5 DEF TypeOK, Resolve, Succeed, Reject, Fail, Cancel,
               CancelWait, CancelSleep, CancelAdmission, CancelRunning, Abandon, NotifyAll
        <3> QED
            BY <2>3, <3>1, <3>2, <3>3, <3>4, <3>5 DEF Admit
    <2> QED
        BY <1>1, <2>2, <2>3 DEF Next
<1>2. IInv /\ [Next]_vars => [Started]_vars
    BY <1>1
<1> QED
    BY <1>2, Invariance, PTL DEF Spec, OnlyProbesDuringRecovery

\* What is late is harmless: a result that is not the probe's own leaves the
\* episode as it was, whoever reports it and however it ends.
THEOREM StaleResultsAreInert == Spec => StaleResultIsInert
<1> DEFINE Stale(s) == /\ pc[s] = "running" /\ pc'[s] # "running" /\ Open
                       /\ ~(episode.probe /\ episode.leader = s /\ episode.gen = permit[s])
           Unmoved == episode' \in {[episode EXCEPT !.waiters = w] : w \in SUBSET Sessions}
<1>1. ASSUME IInv, Next, NEW t \in Sessions, Stale(t)
      PROVE  Unmoved
    <2>1. TypeOK
        BY <1>1 DEF IInv
    <2>2. ~MatchingProbe(t) /\ Open /\ pc[t] = "running"
        BY <1>1 DEF MatchingProbe
    <2>3. episode' = episode => Unmoved
        <3>1. episode = [episode EXCEPT !.waiters = episode.waiters]
            BY <2>1 DEF TypeOK, Episode
        <3>2. episode.waiters \in SUBSET Sessions
            BY <2>1 DEF TypeOK, Episode
        <3> QED
            BY <3>1, <3>2
    <2>4. CASE Time \/ Terminating
        BY <1>1, <2>4 DEF Time, BackoffElapses, CooldownExpires, Terminating, vars
    <2>5. ASSUME NEW s \in Sessions, Begin(s) \/ Admit(s) \/ Resolve(s) \/ Cancel(s)
          PROVE  Unmoved
        <3>1. s = t
            BY <1>1, <2>1, <2>5, OnlyActorMoves
        <3>2. CASE Succeed(t) \/ Reject(t) \/ CancelRunning(t)
            BY <2>2, <2>3, <3>2 DEF Succeed, Reject, Answered, CancelRunning, Abandon
        <3>3. CASE Fail(t)
            <4>1. CASE episode' = [episode EXCEPT !.waiters = @ \cup {t}]
                <5>1. episode.waiters \cup {t} \in SUBSET Sessions
                    BY <2>1 DEF TypeOK, Episode
                <5> QED
                    BY <4>1, <5>1
            <4> QED
                BY <2>2, <2>3, <3>3, <4>1 DEF Fail, FailRetryable, FailExhausted
        <3>4. ASSUME ~(Succeed(t) \/ Reject(t) \/ CancelRunning(t) \/ Fail(t))
              PROVE FALSE
            BY <2>2, <2>5, <3>1, <3>4
               DEF Begin, Admit, Gate, GateTerminal, GateOpen, GateFailFast, GateRestart,
                   GateProbe, GateSleep, GateWait, MayLead, AtGate, WakeUp, RateAdmitted,
                   SlotGranted, Resolve, Cancel, CancelWait, CancelSleep, CancelAdmission
        <3> QED
            BY <3>2, <3>3, <3>4
    <2> QED
        BY <1>1, <2>4, <2>5 DEF Next
<1>2. IInv /\ [Next]_vars =>
         [\A s \in Sessions :
            (pc[s] = "running" /\ pc'[s] # "running" /\ Open
               /\ ~(episode.probe /\ episode.leader = s /\ episode.gen = permit[s]))
            => episode' \in {[episode EXCEPT !.waiters = w] : w \in SUBSET Sessions}]_vars
    BY <1>1
<1> QED
    BY <1>2, Invariance, PTL DEF Spec, StaleResultIsInert

-----------------------------------------------------------------------------
(***************************************************************************)
(* The admission of streams.                                               *)
(*                                                                         *)
(* That slots are lost is a finding about the code, so that nothing here   *)
(* is conserved: what a step takes from the bulkhead it accounts for, and  *)
(* it gives back no more than it held (Effect).  StreamBudget says who is  *)
(* still to start an attempt, at once or after a stream is closed.         *)
(***************************************************************************)

StreamTyped ==
    /\ pc \in [Sessions -> StreamPCs]
    /\ attempts \in [Sessions -> 0..MaxAttempts]
    /\ failed \in SUBSET Sessions
    /\ permit \in [Sessions -> Nat]
    /\ episode \in Episode
    /\ nextGen \in Nat \ {0}
    /\ free \in Nat
    /\ outer \in SUBSET Sessions
    /\ after \in [Sessions -> {"gate", "done", "failed", "cancelled"}]
    /\ settled \in SUBSET Sessions

\* An execution that is to start an attempt, at once or after its stream is closed.
Returns(s) ==
    \/ pc[s] \in {"idle", "gate", "wait", "woken", "sleep", "limiter", "slot"}
    \/ pc[s] = "closing" /\ after[s] = "gate"

StreamBudget == \A s \in Sessions : Returns(s) => CanAttempt(s)

StreamInv == StreamTyped /\ StreamBudget /\ BulkheadBoundsStreams

\* How many slots an execution accounts for.
Slots(s) == (IF Holding(s) THEN 1 ELSE 0) + (IF s \in outer THEN 1 ELSE 0)

\* What a step of s does to the others is to wake them, and what it takes from the
\* bulkhead it accounts for.
Effect(s) ==
    /\ StreamTyped'
    /\ \A t \in Sessions \ {s} :
          /\ pc'[t] = pc[t] \/ (pc[t] = "wait" /\ pc'[t] = "woken")
          /\ attempts'[t] = attempts[t] /\ after'[t] = after[t] /\ (t \in outer' <=> t \in outer)
    /\ Returns(s)' => CanAttempt(s)'
    /\ Slots(s)' + free' <= Slots(s) + free

USE ConstantsAssumption DEF StreamPCs

-----------------------------------------------------------------------------

\* Two sets that differ in at most one member.
LEMMA OneDiffers ==
    ASSUME NEW S \in SUBSET Sessions, NEW T \in SUBSET Sessions, NEW s,
           \A t \in Sessions \ {s} : t \in S <=> t \in T
    PROVE  /\ Cardinality(S) \in Nat /\ Cardinality(T) \in Nat
           /\ Cardinality(T) + (IF s \in S THEN 1 ELSE 0) = Cardinality(S) + (IF s \in T THEN 1 ELSE 0)
<1>1. IsFiniteSet(S) /\ IsFiniteSet(T)
    BY FS_Subset
<1>2. Cardinality(S) \in Nat /\ Cardinality(T) \in Nat
    BY <1>1, FS_CardinalityType
<1>3. CASE s \in S /\ s \notin T
    <2>1. T = S \ {s}
        BY <1>3
    <2> QED
        BY <1>1, <1>2, <1>3, <2>1, FS_RemoveElement
<1>4. CASE s \notin S /\ s \in T
    <2>1. T = S \cup {s}
        BY <1>4
    <2> QED
        BY <1>1, <1>2, <1>4, <2>1, FS_AddElement
<1>5. CASE s \in S <=> s \in T
    <2>1. S = T
        BY <1>5
    <2> QED
        BY <1>2, <2>1
<1> QED
    BY <1>3, <1>4, <1>5

\* Two counts and a remainder that change together.
LEMMA Balance ==
    ASSUME NEW a \in Nat, NEW b \in Nat, NEW c \in Nat, NEW d \in Nat,
           NEW m \in Nat, NEW n \in Nat, NEW o \in Nat, NEW p \in Nat, NEW f \in Nat, NEW g \in Nat,
           n + a = m + b, p + c = o + d, b + d + g <= a + c + f
    PROVE  n + p + g <= m + o + f
    OBVIOUS

\* A step of one execution, of whose kind all are, keeps the invariant.
LEMMA EffectKeeps ==
    ASSUME StreamInv, NEW s \in Sessions, Effect(s)
    PROVE  StreamInv'
<1>1. StreamTyped /\ StreamBudget /\ BulkheadBoundsStreams /\ StreamTyped'
    BY DEF StreamInv, Effect
<1>2. StreamBudget'
    <2>1. ASSUME NEW t \in Sessions, Returns(t)' PROVE CanAttempt(t)'
        <3>1. CASE t = s
            BY <2>1, <3>1 DEF Effect
        <3>2. CASE t # s
            <4>1. Returns(t)
                BY <2>1, <3>2 DEF Effect, Returns
            <4>2. CanAttempt(t)
                BY <4>1, <1>1 DEF StreamBudget
            <4> QED
                BY <4>2, <3>2 DEF Effect, CanAttempt
        <3> QED
            BY <3>1, <3>2
    <2> QED
        BY <2>1 DEF StreamBudget
<1>3. BulkheadBoundsStreams'
    <2> DEFINE H == {t \in Sessions : Holding(t)}
               Hn == {t \in Sessions : pc'[t] \in {"running", "opened", "streaming", "closing"}}
    <2>1. \A t \in Sessions \ {s} : t \in H <=> t \in Hn
        BY DEF Effect, Holding
    <2>2. /\ Cardinality(H) \in Nat /\ Cardinality(Hn) \in Nat
          /\ Cardinality(Hn) + (IF s \in H THEN 1 ELSE 0) = Cardinality(H) + (IF s \in Hn THEN 1 ELSE 0)
        <3> HIDE DEF H, Hn
        <3>1. H \in SUBSET Sessions /\ Hn \in SUBSET Sessions
            BY DEF H, Hn
        <3> QED
            BY <2>1, <3>1, OneDiffers
    <2>3. /\ Cardinality(outer) \in Nat /\ Cardinality(outer') \in Nat
          /\ Cardinality(outer') + (IF s \in outer THEN 1 ELSE 0)
               = Cardinality(outer) + (IF s \in outer' THEN 1 ELSE 0)
        <3>1. outer \in SUBSET Sessions /\ outer' \in SUBSET Sessions
            BY <1>1 DEF StreamTyped
        <3>2. \A t \in Sessions \ {s} : t \in outer <=> t \in outer'
            BY DEF Effect
        <3> QED
            BY <3>1, <3>2, OneDiffers
    <2>4. (IF s \in Hn THEN 1 ELSE 0) + (IF s \in outer' THEN 1 ELSE 0) + free'
            <= (IF s \in H THEN 1 ELSE 0) + (IF s \in outer THEN 1 ELSE 0) + free
        <3>1. Slots(s)' + free' <= Slots(s) + free
            BY DEF Effect
        <3> QED
            BY <3>1 DEF Slots, Holding
    <2>5. free \in Nat /\ free' \in Nat
        BY <1>1 DEF StreamTyped
    <2>6. Cardinality(H) + Cardinality(outer) <= MaxConcurrency - free
        BY <1>1 DEF BulkheadBoundsStreams
    <2>7. Cardinality(Hn) + Cardinality(outer') <= MaxConcurrency - free'
        <3> HIDE DEF H, Hn
        <3>1. Cardinality(Hn) + Cardinality(outer') + free'
                <= Cardinality(H) + Cardinality(outer) + free
            <4> DEFINE a == IF s \in H THEN 1 ELSE 0
                       b == IF s \in Hn THEN 1 ELSE 0
                       c == IF s \in outer THEN 1 ELSE 0
                       d == IF s \in outer' THEN 1 ELSE 0
            <4>1. a \in Nat /\ b \in Nat /\ c \in Nat /\ d \in Nat
                OBVIOUS
            <4>2. /\ Cardinality(Hn) + a = Cardinality(H) + b
                  /\ Cardinality(outer') + c = Cardinality(outer) + d
                  /\ b + d + free' <= a + c + free
                BY <2>2, <2>3, <2>4
            <4>3. /\ Cardinality(H) \in Nat /\ Cardinality(Hn) \in Nat
                  /\ Cardinality(outer) \in Nat /\ Cardinality(outer') \in Nat
                BY <2>2, <2>3
            <4> HIDE DEF a, b, c, d
            <4> QED
                BY <2>5, <4>1, <4>2, <4>3, Balance
        <3> QED
            BY <2>2, <2>3, <2>5, <2>6, <3>1
    <2> QED
        BY <2>7 DEF BulkheadBoundsStreams, Holding
<1> QED
    BY <1>1, <1>2, <1>3 DEF StreamInv

-----------------------------------------------------------------------------
(* The steps of admission *)

\* A step that neither takes nor gives a slot, from where an attempt may still start.
LEMMA GateEffect ==
    ASSUME StreamInv, NEW s \in Sessions, Begin(s) \/ Gate(s) \/ WakeUp(s), UNCHANGED streamVars
    PROVE  Effect(s)
<1>1. StreamTyped /\ StreamBudget
    BY DEF StreamInv
<1>2. /\ free' = free /\ attempts' = attempts /\ outer' = outer /\ after' = after /\ settled' = settled
      /\ Returns(s) /\ ~Holding(s) /\ failed' = failed
    BY DEF streamVars, Returns, Holding, Begin, Gate, GateTerminal, GateOpen, GateFailFast,
           GateRestart, GateProbe, GateSleep, GateWait, MayLead, AtGate, WakeUp
<1>3. PICK p \in {"gate", "wait", "sleep", "limiter", "failed"} : pc' = [pc EXCEPT ![s] = p]
    BY DEF Begin, Gate, GateTerminal, GateOpen, GateFailFast, GateRestart, GateProbe, GateSleep,
           GateWait, WakeUp
<1>0. /\ episode \in Episode /\ permit \in [Sessions -> Nat] /\ nextGen \in Nat \ {0}
      /\ episode.gen \in Nat
    BY <1>1 DEF StreamTyped, Episode
<1>4. episode' \in Episode /\ permit' \in [Sessions -> Nat] /\ nextGen' \in Nat \ {0}
    <2>1. CASE Begin(s) \/ GateTerminal(s) \/ GateFailFast(s)
        BY <1>0, <2>1 DEF Begin, GateTerminal, GateFailFast
    <2>2. CASE GateOpen(s)
        BY <1>0, <2>2 DEF GateOpen
    <2>3. CASE WakeUp(s)
        BY <1>0, <2>3 DEF Episode, WakeUp
    <2>4. CASE GateRestart(s)
        <3>1. episode' \in Episode
            BY <1>0, <2>4 DEF Episode, GateRestart, NewEpisode
        <3> QED
            BY <1>0, <2>4, <3>1 DEF GateRestart
    <2>5. CASE GateProbe(s) \/ GateSleep(s)
        <3>1. TakenBy(s) \in Episode
            BY <1>0 DEF Episode, TakenBy
        <3>2. episode' \in Episode
            BY <2>5, <3>1 DEF Episode, GateProbe, GateSleep
        <3> QED
            BY <1>0, <2>5, <3>2 DEF GateProbe, GateSleep
    <2>6. CASE GateWait(s)
        BY <1>0, <2>6 DEF Episode, GateWait
    <2> QED
        BY <2>1, <2>2, <2>3, <2>4, <2>5, <2>6 DEF Gate
<1>5. StreamTyped'
    BY <1>1, <1>2, <1>3, <1>4 DEF StreamTyped
<1>6. pc'[s] = p /\ \A t \in Sessions \ {s} : pc'[t] = pc[t]
    BY <1>1, <1>3 DEF StreamTyped
<1>7. CanAttempt(s)'
    BY <1>1, <1>2 DEF StreamBudget, CanAttempt
<1>8. Slots(s)' = Slots(s)
    BY <1>2, <1>6 DEF Slots, Holding
<1>9. Slots(s)' + free' <= Slots(s) + free
    BY <1>1, <1>2, <1>8 DEF Slots, StreamTyped
<1> QED
    BY <1>2, <1>5, <1>6, <1>7, <1>9 DEF Effect

\* Giving a probe up, with the slot or without.
LEMMA AbandonEffect ==
    ASSUME StreamInv, NEW s \in Sessions,
           NEW next \in {"gate", "done", "failed", "cancelled"}, Abandon(s, next),
           next = "gate" => CanAttempt(s),
           \/ pc[s] \in InAdmission /\ free' = free
           \/ Holding(s) /\ free' = free + 1,
           UNCHANGED <<attempts, failed, permit, nextGen, streamVars>>
    PROVE  Effect(s)
<1>1. StreamTyped
    BY DEF StreamInv
<1>2. /\ pc' \in [Sessions -> StreamPCs] /\ pc'[s] = next
      /\ \A t \in Sessions \ {s} : pc'[t] = pc[t] \/ (pc[t] = "wait" /\ pc'[t] = "woken")
    BY <1>1 DEF StreamTyped, Abandon, NotifyAll
<1>3. episode' \in Episode
    BY <1>1 DEF StreamTyped, Episode, Abandon, Relinquished
<1>4. outer' = outer /\ after' = after /\ settled' = settled
    BY DEF streamVars
<1>5. StreamTyped'
    BY <1>1, <1>2, <1>3, <1>4 DEF StreamTyped
<1>6. Returns(s)' => CanAttempt(s)'
    BY <1>2 DEF Returns, CanAttempt
<1>7. Slots(s)' + free' <= Slots(s) + free
    BY <1>1, <1>2, <1>4 DEF Slots, Holding, StreamTyped
<1> QED
    BY <1>2, <1>4, <1>5, <1>6, <1>7 DEF Effect

\* The rate admitted the execution, or a slot was granted to it.
LEMMA AdmissionEffect ==
    ASSUME StreamInv, NEW s \in Sessions, RateAdmitted(s) \/ SlotGranted(s), UNCHANGED streamVars
    PROVE  Effect(s)
<1>1. StreamTyped /\ StreamBudget
    BY DEF StreamInv
<1>2. /\ pc[s] \in InAdmission /\ CanAttempt(s)
      /\ outer' = outer /\ after' = after /\ settled' = settled
    BY <1>1 DEF RateAdmitted, SlotGranted, StreamBudget, Returns, streamVars
<1>3. CASE Readmit(s)
    BY <1>2, <1>3, AbandonEffect DEF Readmit
<1>4. CASE StartAttempt(s) /\ free # 0
    <2>1. /\ free' = free - 1 /\ attempts' = [attempts EXCEPT ![s] = @ + 1]
          /\ pc' = [pc EXCEPT ![s] = "running"]
          /\ UNCHANGED <<failed, permit, episode, nextGen>>
        BY <1>4 DEF StartAttempt
    <2>2. free \in Nat /\ free' \in Nat
        BY <1>1, <1>4, <2>1 DEF StreamTyped
    <2>3. /\ attempts' \in [Sessions -> 0..MaxAttempts]
          /\ \A t \in Sessions \ {s} : attempts'[t] = attempts[t]
        BY <1>1, <1>2, <2>1 DEF StreamTyped, CanAttempt
    <2>4. /\ pc' \in [Sessions -> StreamPCs] /\ pc'[s] = "running"
          /\ \A t \in Sessions \ {s} : pc'[t] = pc[t]
        BY <1>1, <2>1 DEF StreamTyped
    <2>5. StreamTyped'
        BY <1>1, <1>2, <2>1, <2>2, <2>3, <2>4 DEF StreamTyped
    <2>6. ~Returns(s)'
        BY <2>4 DEF Returns
    <2>7. Slots(s)' + free' <= Slots(s) + free
        BY <1>2, <2>1, <2>2, <2>4 DEF Slots, Holding
    <2> QED
        BY <1>2, <2>3, <2>4, <2>5, <2>6, <2>7 DEF Effect
<1>5. CASE /\ pc' = [pc EXCEPT ![s] = "slot"]
           /\ UNCHANGED <<attempts, failed, permit, episode, nextGen, free>>
    <2>1. /\ pc' \in [Sessions -> StreamPCs] /\ pc'[s] = "slot"
          /\ \A t \in Sessions \ {s} : pc'[t] = pc[t]
        BY <1>1, <1>5 DEF StreamTyped
    <2>2. StreamTyped'
        BY <1>1, <1>2, <1>5, <2>1 DEF StreamTyped
    <2>3. CanAttempt(s)'
        BY <1>2, <1>5 DEF CanAttempt
    <2>4. Slots(s)' + free' <= Slots(s) + free
        BY <1>1, <1>2, <1>5, <2>1 DEF Slots, Holding, StreamTyped
    <2> QED
        BY <1>2, <1>5, <2>1, <2>2, <2>3, <2>4 DEF Effect
<1> QED
    BY <1>1, <1>3, <1>4, <1>5 DEF RateAdmitted, SlotGranted, SlotTaken, StreamTyped

\* A cancellation before the stream is open.
LEMMA CancelEffect ==
    ASSUME StreamInv, NEW s \in Sessions, Cancel(s), UNCHANGED streamVars
    PROVE  Effect(s)
<1>1. StreamTyped
    BY DEF StreamInv
<1>2. CASE CancelWait(s) \/ CancelSleep(s)
    <2>1. /\ pc' \in [Sessions -> StreamPCs] /\ pc'[s] = "cancelled"
          /\ \A t \in Sessions \ {s} : pc'[t] = pc[t] \/ (pc[t] = "wait" /\ pc'[t] = "woken")
        BY <1>1, <1>2 DEF StreamTyped, CancelWait, CancelSleep, NotifyAll
    <2>2. episode' \in Episode
        BY <1>1, <1>2 DEF StreamTyped, Episode, CancelWait, CancelSleep
    <2>3. /\ UNCHANGED <<attempts, failed, permit, nextGen, free>> /\ ~Holding(s)
          /\ outer' = outer /\ after' = after /\ settled' = settled
        BY <1>2 DEF CancelWait, CancelSleep, streamVars, Holding
    <2>4. StreamTyped'
        BY <1>1, <2>1, <2>2, <2>3 DEF StreamTyped
    <2>5. ~Returns(s)'
        BY <2>1 DEF Returns
    <2>6. Slots(s)' + free' <= Slots(s) + free
        BY <1>1, <2>1, <2>3 DEF Slots, Holding, StreamTyped
    <2> QED
        BY <2>1, <2>3, <2>4, <2>5, <2>6 DEF Effect
<1>3. CASE CancelAdmission(s)
    BY <1>3, AbandonEffect DEF CancelAdmission
<1>4. CASE CancelRunning(s)
    BY <1>4, AbandonEffect DEF CancelRunning, Release, Holding
<1> QED
    BY <1>2, <1>3, <1>4 DEF Cancel

-----------------------------------------------------------------------------
(* The results of an attempt *)

\* What the resolution of an attempt does to the episode and to those who wait.
Resolution(s, next) ==
    Answered(s, next) \/ FailRetryable(s, next) \/ FailExhausted(s, next)

\* The types of what a resolution changes.
LEMMA Resolved ==
    ASSUME StreamTyped, NEW s \in Sessions, NEW next \in StreamPCs, Resolution(s, next)
    PROVE  /\ pc' \in [Sessions -> StreamPCs] /\ pc'[s] = next
           /\ \A t \in Sessions \ {s} : pc'[t] = pc[t] \/ (pc[t] = "wait" /\ pc'[t] = "woken")
           /\ episode' \in Episode /\ nextGen' \in Nat \ {0} /\ failed' \in SUBSET Sessions
<1>0. /\ pc \in [Sessions -> StreamPCs] /\ failed \in SUBSET Sessions
      /\ episode \in Episode /\ nextGen \in Nat \ {0} /\ nextGen + 1 \in Nat \ {0}
      /\ episode.waiters \in SUBSET Sessions
    BY DEF StreamTyped, Episode
<1>1. CASE Answered(s, next)
    <2>1. /\ pc' \in [Sessions -> StreamPCs] /\ pc'[s] = next
          /\ \A t \in Sessions \ {s} : pc'[t] = pc[t] \/ (pc[t] = "wait" /\ pc'[t] = "woken")
        BY <1>0, <1>1 DEF Answered, NotifyAll
    <2>2. NoEpisode \in Episode
        BY DEF Episode, NoEpisode
    <2>3. (episode' = NoEpisode \/ episode' = episode) /\ nextGen' = nextGen /\ failed' = failed
        BY <1>1 DEF Answered
    <2> QED
        BY <1>0, <2>1, <2>2, <2>3
<1>2. CASE FailRetryable(s, next)
    <2>1. /\ pc' \in [Sessions -> StreamPCs] /\ pc'[s] = next
          /\ \A t \in Sessions \ {s} : pc'[t] = pc[t] \/ (pc[t] = "wait" /\ pc'[t] = "woken")
        BY <1>0, <1>2 DEF FailRetryable, NotifyAll
    <2>2. nextGen' \in Nat \ {0} /\ failed' \in SUBSET Sessions
        BY <1>0, <1>2 DEF FailRetryable
    <2>3. \/ episode' = episode
          \/ \E ready \in BOOLEAN : episode' = NewEpisode(s, ready)
          \/ \E ready \in BOOLEAN : episode' = [episode EXCEPT !.probe = FALSE, !.ready = ready]
          \/ episode' = [episode EXCEPT !.waiters = @ \cup {s}]
        BY <1>2 DEF FailRetryable
    <2>4. \A ready \in BOOLEAN : NewEpisode(s, ready) \in Episode
        BY <1>0 DEF Episode, NewEpisode
    <2>5. \A ready \in BOOLEAN : [episode EXCEPT !.probe = FALSE, !.ready = ready] \in Episode
        BY <1>0 DEF Episode
    <2>6. [episode EXCEPT !.waiters = @ \cup {s}] \in Episode
        BY <1>0 DEF Episode
    <2> QED
        BY <1>0, <2>1, <2>2, <2>3, <2>4, <2>5, <2>6
<1>3. CASE FailExhausted(s, next)
    <2>1. /\ pc' \in [Sessions -> StreamPCs] /\ pc'[s] = next
          /\ \A t \in Sessions \ {s} : pc'[t] = pc[t] \/ (pc[t] = "wait" /\ pc'[t] = "woken")
        BY <1>0, <1>3 DEF FailExhausted, NotifyAll
    <2>2. nextGen' \in Nat \ {0} /\ failed' \in SUBSET Sessions
        BY <1>0, <1>3 DEF FailExhausted
    <2>3. \A ep \in Episode : \A terminal \in {"cooling", "expired"} :
             Exhausted(ep, terminal) \in Episode
        BY DEF Episode, Exhausted
    <2>4. NewEpisode(NoSession, TRUE) \in Episode
        BY <1>0 DEF Episode, NewEpisode
    <2>5. \/ episode' = episode
          \/ \E terminal \in {"cooling", "expired"} :
                \/ episode' = Exhausted(episode, terminal)
                \/ episode' = Exhausted(NewEpisode(NoSession, TRUE), terminal)
        BY <1>3 DEF FailExhausted
    <2> QED
        BY <1>0, <2>1, <2>2, <2>3, <2>4, <2>5
<1> QED
    BY <1>1, <1>2, <1>3 DEF Resolution

\* A resolved attempt is kept with its slot, or closed and its slot given back.
LEMMA ResolvedEffect ==
    ASSUME StreamInv, NEW s \in Sessions, NEW next \in StreamPCs, Resolution(s, next), Holding(s),
           UNCHANGED <<attempts, permit, outer>>,
           after' \in [Sessions -> {"gate", "done", "failed", "cancelled"}],
           settled' \in SUBSET Sessions,
           \A t \in Sessions \ {s} : after'[t] = after[t],
           \/ free' = free /\ next \in {"streaming", "closing"}
           \/ free' = free + 1 /\ next \in {"gate", "failed"},
           next = "gate" \/ (next = "closing" /\ after'[s] = "gate") => CanAttempt(s)
    PROVE  Effect(s)
<1>1. StreamTyped
    BY DEF StreamInv
<1>2. /\ pc' \in [Sessions -> StreamPCs] /\ pc'[s] = next
      /\ \A t \in Sessions \ {s} : pc'[t] = pc[t] \/ (pc[t] = "wait" /\ pc'[t] = "woken")
      /\ episode' \in Episode /\ nextGen' \in Nat \ {0} /\ failed' \in SUBSET Sessions
    BY <1>1, Resolved
<1>3. StreamTyped'
    BY <1>1, <1>2 DEF StreamTyped
<1>4. Returns(s)' => CanAttempt(s)'
    BY <1>2 DEF Returns, CanAttempt
<1>5. Slots(s)' + free' <= Slots(s) + free
    BY <1>1, <1>2 DEF Slots, Holding, StreamTyped
<1> QED
    BY <1>2, <1>3, <1>4, <1>5 DEF Effect

\* The results of opening a stream and of its first chunk.
LEMMA ResultEffect ==
    ASSUME StreamInv, NEW s \in Sessions, OpenFails(s) \/ FirstChunk(s) \/ FailsUnaccepted(s)
    PROVE  Effect(s)
<1>1. StreamTyped
    BY DEF StreamInv
<1>2. CASE OpenFails(s)
    <2>1. /\ pc[s] = "running" /\ free' = free + 1 /\ outer' = outer /\ after' = after
          /\ settled' = settled /\ attempts' = attempts /\ permit' = permit
        BY <1>2 DEF OpenFails, Reject, Fail, Answered, Release, streamVars
    <2>2. \/ Resolution(s, "failed")
          \/ Resolution(s, "gate") /\ CanAttempt(s)
        BY <1>2 DEF OpenFails, Reject, Fail, Resolution, FailRetryable
    <2>3. Holding(s)
        BY <2>1 DEF Holding
    <2> QED
        BY <1>1, <2>1, <2>2, <2>3, ResolvedEffect DEF StreamTyped
<1>3. CASE FirstChunk(s)
    <2>1. /\ pc[s] = "opened" /\ free' = free /\ outer' = outer /\ after' = after
          /\ settled' = settled /\ attempts' = attempts /\ permit' = permit
          /\ Resolution(s, "streaming")
        BY <1>3 DEF FirstChunk, Answered, streamVars, Resolution
    <2>2. Holding(s)
        BY <2>1 DEF Holding
    <2> QED
        BY <1>1, <2>1, <2>2, ResolvedEffect DEF StreamTyped
<1>4. CASE FailsUnaccepted(s)
    <2>1. /\ pc[s] = "opened" /\ free' = free /\ outer' = outer
          /\ attempts' = attempts /\ permit' = permit
          /\ Resolution(s, "closing")
        BY <1>4 DEF FailsUnaccepted, Resolution
    <2>2. PICK next \in {"gate", "failed"} : Leave(s, next, TRUE) /\ (next = "gate" => CanAttempt(s))
        BY <1>4 DEF FailsUnaccepted, FailRetryable
    <2>3. /\ after' \in [Sessions -> {"gate", "done", "failed", "cancelled"}] /\ after'[s] = next
          /\ \A t \in Sessions \ {s} : after'[t] = after[t]
          /\ settled' \in SUBSET Sessions
        BY <1>1, <2>2 DEF Leave, StreamTyped
    <2>4. Holding(s)
        BY <2>1 DEF Holding
    <2> QED
        BY <2>1, <2>2, <2>3, <2>4, ResolvedEffect
<1> QED
    BY <1>2, <1>3, <1>4

-----------------------------------------------------------------------------
(* Streams and their cleanup *)

\* A step of an attempt that is held, which is not its resolution.
LEMMA HeldEffect ==
    ASSUME StreamInv, NEW s \in Sessions, NEW next \in StreamPCs, pc' = [pc EXCEPT ![s] = next],
           UNCHANGED <<attempts, failed, permit, episode, nextGen, free>>,
           outer' \in SUBSET Sessions, settled' \in SUBSET Sessions,
           after' \in [Sessions -> {"gate", "done", "failed", "cancelled"}],
           \A t \in Sessions \ {s} : after'[t] = after[t] /\ (t \in outer' <=> t \in outer),
           Returns(s)' => CanAttempt(s),
           Slots(s)' <= Slots(s)
    PROVE  Effect(s)
<1>1. StreamTyped
    BY DEF StreamInv
<1>2. /\ pc' \in [Sessions -> StreamPCs] /\ \A t \in Sessions \ {s} : pc'[t] = pc[t]
    BY <1>1 DEF StreamTyped
<1>3. StreamTyped'
    BY <1>1, <1>2 DEF StreamTyped
<1>4. Slots(s)' + free' <= Slots(s) + free
    <2>1. free \in Nat /\ Slots(s) \in Nat /\ Slots(s)' \in Nat
        BY <1>1 DEF StreamTyped, Slots
    <2> QED
        BY <2>1
<1> QED
    BY <1>2, <1>3, <1>4 DEF Effect, CanAttempt

\* The stream is open, has ended, is recovered midway, or its reader has gone.
LEMMA StreamEffect ==
    ASSUME StreamInv, NEW s \in Sessions,
           OpenSucceeds(s) \/ StreamEnds(s) \/ MidstreamRecovery(s) \/ Interrupt(s)
    PROVE  Effect(s)
<1>1. StreamTyped
    BY DEF StreamInv
<1>2. CASE OpenSucceeds(s)
    <2>1. /\ pc[s] = "running" /\ pc' = [pc EXCEPT ![s] = "opened"] /\ pc'[s] = "opened"
          /\ outer' = outer /\ after' = after /\ settled' = settled
        BY <1>1, <1>2 DEF OpenSucceeds, streamVars, StreamTyped
    <2>2. ~Returns(s)' /\ Slots(s)' <= Slots(s)
        BY <2>1 DEF Returns, Slots, Holding
    <2> QED
        BY <1>1, <1>2, <2>1, <2>2, HeldEffect DEF OpenSucceeds, StreamTyped
<1>3. CASE StreamEnds(s)
    <2>1. /\ pc[s] = "streaming" /\ pc' = [pc EXCEPT ![s] = "closing"] /\ pc'[s] = "closing"
          /\ outer' = outer
          /\ UNCHANGED <<attempts, failed, permit, episode, nextGen, free>>
        BY <1>1, <1>3 DEF StreamEnds, StreamTyped
    <2>2. PICK next \in {"done", "failed", "gate"} :
             Leave(s, next, TRUE) /\ (next = "gate" => CanAttempt(s))
        BY <1>3 DEF StreamEnds
    <2>3. /\ after' \in [Sessions -> {"gate", "done", "failed", "cancelled"}] /\ after'[s] = next
          /\ \A t \in Sessions \ {s} : after'[t] = after[t]
          /\ settled' \in SUBSET Sessions
        BY <1>1, <2>2 DEF Leave, StreamTyped
    <2>4. Slots(s)' <= Slots(s)
        BY <2>1 DEF Slots, Holding
    <2>5. Returns(s)' => CanAttempt(s)
        BY <2>1, <2>2, <2>3 DEF Returns
    <2> QED
        BY <1>1, <2>1, <2>3, <2>4, <2>5, HeldEffect DEF StreamTyped
<1>4. CASE MidstreamRecovery(s)
    <2>1. /\ pc[s] = "streaming" /\ pc' = [pc EXCEPT ![s] = "gate"] /\ pc'[s] = "gate"
          /\ s \notin outer /\ outer' = outer \cup {s} /\ after' = after /\ settled' = settled
          /\ UNCHANGED <<attempts, failed, permit, episode, nextGen, free>>
          /\ CanAttempt(s)
        BY <1>1, <1>4 DEF MidstreamRecovery, StreamTyped
    <2>2. Slots(s)' <= Slots(s)
        BY <2>1 DEF Slots, Holding
    <2> QED
        BY <1>1, <2>1, <2>2, HeldEffect DEF StreamTyped
<1>5. CASE Interrupt(s)
    <2>1. /\ pc[s] \in {"opened", "streaming"} /\ pc' = [pc EXCEPT ![s] = "closing"]
          /\ pc'[s] = "closing" /\ outer' = outer
          /\ UNCHANGED <<attempts, failed, permit, episode, nextGen, free>>
        BY <1>1, <1>5 DEF Interrupt, StreamTyped
    <2>2. /\ after' \in [Sessions -> {"gate", "done", "failed", "cancelled"}]
          /\ after'[s] = "cancelled"
          /\ \A t \in Sessions \ {s} : after'[t] = after[t]
          /\ settled' \in SUBSET Sessions
        BY <1>1, <1>5 DEF Interrupt, Leave, StreamTyped
    <2>3. ~Returns(s)' /\ Slots(s)' <= Slots(s)
        BY <2>1, <2>2 DEF Returns, Slots, Holding
    <2> QED
        BY <1>1, <2>1, <2>2, <2>3, HeldEffect DEF StreamTyped
<1> QED
    BY <1>2, <1>3, <1>4, <1>5

\* A request-shape correction gives its slot back and goes to the gate.
LEMMA CorrectEffect ==
    ASSUME StreamInv, NEW s \in Sessions, Correct(s)
    PROVE  Effect(s)
<1>1. StreamTyped
    BY DEF StreamInv
<1>2. /\ pc' \in [Sessions -> StreamPCs] /\ pc'[s] = "gate"
      /\ \A t \in Sessions \ {s} : pc'[t] = pc[t] \/ (pc[t] = "wait" /\ pc'[t] = "woken")
    BY <1>1 DEF StreamTyped, Correct, NotifyAll
<1>3. episode' \in Episode
    <2>1. episode \in Episode
        BY <1>1 DEF StreamTyped
    <2> QED
        BY <2>1 DEF Episode, Correct
<1>4. /\ outer' = outer /\ after' = after /\ settled' = settled /\ free' = free + 1
      /\ UNCHANGED <<attempts, failed, permit, nextGen>> /\ Holding(s) /\ CanAttempt(s)
    BY DEF Correct, streamVars, Release, Holding
<1>5. StreamTyped'
    BY <1>1, <1>2, <1>3, <1>4 DEF StreamTyped
<1>6. CanAttempt(s)'
    BY <1>4 DEF CanAttempt
<1>7. Slots(s)' + free' <= Slots(s) + free
    BY <1>1, <1>2, <1>4 DEF Slots, Holding, StreamTyped
<1> QED
    BY <1>2, <1>4, <1>5, <1>6, <1>7 DEF Effect

\* The finally clauses, whole or cut short.
LEMMA CloseEffect ==
    ASSUME StreamInv, NEW s \in Sessions,
           Close(s) \/ CloseCancelled(s) \/ CloseRaises(s) \/ CloseOuterCancelled(s)
    PROVE  Effect(s)
<1>1. StreamTyped /\ StreamBudget
    BY DEF StreamInv
<1>2. CASE CloseDone(s)
    <2>1. /\ pc[s] = "closing" /\ free' = free + 1
          /\ UNCHANGED <<attempts, failed, permit, nextGen, streamVars>>
        BY <1>2 DEF CloseDone, Release
    <2>2. /\ after[s] \in {"gate", "done", "failed", "cancelled"} /\ Holding(s)
          /\ after[s] = "gate" => CanAttempt(s)
        BY <1>1, <2>1 DEF StreamTyped, StreamBudget, Returns, Holding
    <2>3. CASE Abandon(s, after[s])
        BY <2>1, <2>2, <2>3, AbandonEffect
    <2>4. CASE episode' = episode /\ pc' = [pc EXCEPT ![s] = after[s]]
        <3>1. /\ pc' \in [Sessions -> StreamPCs] /\ pc'[s] = after[s]
              /\ \A t \in Sessions \ {s} : pc'[t] = pc[t]
            BY <1>1, <2>2, <2>4 DEF StreamTyped
        <3>2. outer' = outer /\ after' = after /\ settled' = settled
            BY <2>1 DEF streamVars
        <3>3. StreamTyped'
            BY <1>1, <2>1, <2>4, <3>1, <3>2 DEF StreamTyped
        <3>4. Returns(s)' => CanAttempt(s)'
            BY <2>1, <2>2, <3>1 DEF Returns, CanAttempt
        <3>5. Slots(s)' + free' <= Slots(s) + free
            BY <1>1, <2>1, <2>2, <3>1, <3>2 DEF Slots, Holding, StreamTyped
        <3> QED
            BY <2>1, <3>1, <3>2, <3>3, <3>4, <3>5 DEF Effect
    <2> QED
        BY <1>2, <2>3, <2>4 DEF CloseDone
<1>3. CASE CloseOuter(s)
    <2>1. /\ pc[s] \in Ended /\ s \in outer /\ outer' = outer \ {s} /\ free' = free + 1
          /\ UNCHANGED <<pc, attempts, failed, permit, episode, nextGen, after, settled>>
        BY <1>3 DEF CloseOuter, Recovered, Release
    <2>2. StreamTyped'
        BY <1>1, <2>1 DEF StreamTyped
    <2>3. ~Returns(s)'
        BY <2>1 DEF Returns
    <2>4. Slots(s)' + free' <= Slots(s) + free
        BY <1>1, <2>1 DEF Slots, Holding, StreamTyped
    <2> QED
        BY <2>1, <2>2, <2>3, <2>4 DEF Effect
<1>4. CASE CloseCancelled(s) \/ CloseRaises(s)
    <2>1. PICK next \in {"cancelled", "failed"} : pc' = [pc EXCEPT ![s] = next]
        BY <1>4 DEF CloseCancelled, CloseRaises
    <2>2. /\ UNCHANGED <<attempts, failed, permit, episode, nextGen, free>>
          /\ outer' = outer /\ after' = after /\ settled' = settled /\ pc[s] = "closing"
        BY <1>4 DEF CloseCancelled, CloseRaises, streamVars
    <2>3. pc'[s] = next
        BY <1>1, <2>1 DEF StreamTyped
    <2>4. ~Returns(s)' /\ Slots(s)' <= Slots(s)
        BY <2>2, <2>3 DEF Returns, Slots, Holding
    <2> QED
        BY <1>1, <2>1, <2>2, <2>4, HeldEffect DEF StreamTyped
<1>5. CASE CloseOuterCancelled(s)
    <2>1. /\ pc[s] \in Ended /\ s \in outer /\ outer' = outer \ {s}
          /\ pc' = [pc EXCEPT ![s] = "cancelled"] /\ pc'[s] = "cancelled"
          /\ UNCHANGED <<attempts, failed, permit, episode, nextGen, free>>
          /\ after' = after /\ settled' = settled
        BY <1>1, <1>5 DEF CloseOuterCancelled, Recovered, StreamTyped
    <2>2. ~Returns(s)' /\ Slots(s)' <= Slots(s)
        BY <2>1 DEF Returns, Slots, Holding
    <2> QED
        BY <1>1, <2>1, <2>2, HeldEffect DEF StreamTyped
<1> QED
    BY <1>2, <1>3, <1>4, <1>5 DEF Close

-----------------------------------------------------------------------------
(* The bounds *)

\* Nothing is held at first.
LEMMA StreamStarts == StreamInit => StreamInv
<1> SUFFICES ASSUME StreamInit PROVE StreamInv
    OBVIOUS
<1>1. StreamTyped
    BY DEF StreamInit, Init, StreamTyped, Episode, NoEpisode
<1>2. StreamBudget
    BY DEF StreamInit, Init, StreamBudget, CanAttempt
<1>3. {s \in Sessions : Holding(s)} = {} /\ outer = {} /\ free = MaxConcurrency
    BY DEF StreamInit, Init, Holding
<1>4. BulkheadBoundsStreams
    BY <1>3, FS_EmptySet DEF BulkheadBoundsStreams
<1> QED
    BY <1>1, <1>2, <1>4 DEF StreamInv

\* Every step of an execution is of that kind.
LEMMA ActsHaveEffect ==
    ASSUME StreamInv, NEW s \in Sessions, Execute(s) \/ StreamCancel(s) \/ CloseRaises(s)
    PROVE  Effect(s)
<1>1. CASE StreamBegin(s) \/ StreamAdmit(s)
    BY <1>1, GateEffect, AdmissionEffect DEF StreamBegin, StreamAdmit, Admit
<1>2. CASE Upstream(s)
    BY <1>2, CorrectEffect, ResultEffect, StreamEffect DEF Upstream
<1>3. CASE Close(s) \/ CloseRaises(s)
    BY <1>3, CloseEffect
<1>4. CASE StreamCancel(s)
    BY <1>4, CancelEffect, StreamEffect, CloseEffect DEF StreamCancel
<1> QED
    BY <1>1, <1>2, <1>3, <1>4 DEF Execute

\* Every step keeps the invariant.
LEMMA StreamSteps == StreamInv /\ [StreamNext]_allVars => StreamInv'
<1> SUFFICES ASSUME StreamInv, [StreamNext]_allVars PROVE StreamInv'
    OBVIOUS
<1>1. ASSUME NEW s \in Sessions, Execute(s) \/ StreamCancel(s) \/ CloseRaises(s)
      PROVE  StreamInv'
    BY <1>1, ActsHaveEffect, EffectKeeps
<1>2. CASE StreamTime
    <2>1. /\ UNCHANGED <<pc, attempts, failed, permit, nextGen, free>>
          /\ outer' = outer /\ after' = after /\ settled' = settled
        BY <1>2 DEF StreamTime, Time, BackoffElapses, CooldownExpires, streamVars
    <2>2. episode' \in Episode
        BY <1>2 DEF StreamTime, Time, BackoffElapses, CooldownExpires, Episode, StreamInv, StreamTyped
    <2> QED
        BY <2>1, <2>2 DEF StreamInv, StreamTyped, StreamBudget, Returns, CanAttempt,
           BulkheadBoundsStreams, Holding
<1>3. CASE UNCHANGED allVars
    BY <1>3 DEF allVars, vars, streamVars, StreamInv, StreamTyped, StreamBudget, Returns, CanAttempt,
       BulkheadBoundsStreams, Holding
<1> QED
    BY <1>1, <1>2, <1>3 DEF StreamNext, StreamsEnded

\* The invariant implies the bounds.
LEMMA StreamInvMeans == StreamInv => StreamsAreBounded
<1> SUFFICES ASSUME StreamInv PROVE StreamsAreBounded
    OBVIOUS
<1>1. StreamTyped /\ BulkheadBoundsStreams
    BY DEF StreamInv
<1>2. free <= MaxConcurrency /\ free \in Nat
    <2>1. outer \in SUBSET Sessions /\ free \in Nat
        BY <1>1 DEF StreamTyped
    <2>2. /\ Cardinality({s \in Sessions : Holding(s)}) \in Nat
          /\ Cardinality(outer) \in Nat
        BY <2>1, FS_Subset, FS_CardinalityType
    <2> QED
        BY <1>1, <2>1, <2>2 DEF BulkheadBoundsStreams
<1>3. StreamTypeOK
    BY <1>1, <1>2 DEF StreamTypeOK, StreamTyped
<1> QED
    BY <1>1, <1>3 DEF StreamsAreBounded

\* The bulkhead bounds the streams: however recovery, cancellation and failing cleanup
\* mix, no slot is given back twice, and what is held never exceeds what was taken.
THEOREM StreamsBounded == StreamSpec => []StreamsAreBounded
<1>1. StreamSpec => []StreamInv
    BY StreamStarts, StreamSteps, PTL DEF StreamSpec
<1> QED
    BY <1>1, StreamInvMeans, PTL

\* In StreamAdmission as in Admission, what is late is harmless.
LEMMA LateKeeps ==
    ASSUME StreamTyped, NEW s \in Sessions, Execute(s) \/ StreamCancel(s) \/ CloseRaises(s),
           Holding(s), ~MatchingProbe(s), Open
    PROVE  episode' = episode \/ episode' = [episode EXCEPT !.waiters = @ \cup {s}]
<1>1. pc[s] \in {"running", "opened", "streaming", "closing"}
    BY DEF Holding
<1>2. CASE StreamBegin(s) \/ StreamAdmit(s)
    BY <1>1, <1>2 DEF StreamBegin, StreamAdmit, Begin, Admit, Gate, GateTerminal, GateOpen,
       GateFailFast, GateRestart, GateProbe, GateSleep, GateWait, MayLead, AtGate, WakeUp,
       RateAdmitted, SlotGranted
<1>3. CASE Correct(s) \/ OpenSucceeds(s) \/ FirstChunk(s) \/ StreamEnds(s) \/ MidstreamRecovery(s)
    BY <1>3 DEF Correct, OpenSucceeds, FirstChunk, Answered, StreamEnds, MidstreamRecovery
<1>4. CASE OpenFails(s) \/ FailsUnaccepted(s)
    BY <1>4 DEF OpenFails, FailsUnaccepted, Reject, Fail, Answered, FailRetryable, FailExhausted
<1>5. CASE Close(s) \/ CloseRaises(s)
    BY <1>5 DEF Close, CloseDone, CloseOuter, CloseRaises, Abandon
<1>6. CASE StreamCancel(s)
    BY <1>1, <1>6 DEF StreamCancel, Cancel, CancelWait, CancelSleep, CancelAdmission, CancelRunning,
       Abandon, Interrupt, CloseCancelled, CloseOuterCancelled
<1> QED
    BY <1>2, <1>3, <1>4, <1>5, <1>6 DEF Execute, Upstream

\* What is late is harmless to streams, too: an attempt that is not the probe leaves the
\* episode as it was, when it is accepted, fails, is closed or loses its reader.
THEOREM StaleStreamsAreInert == StreamSpec => StaleStreamIsInert
<1> DEFINE Stale(s) == /\ Holding(s) /\ pc'[s] # pc[s] /\ Open
                       /\ ~(episode.probe /\ episode.leader = s /\ episode.gen = permit[s])
           Unmoved == episode' \in {[episode EXCEPT !.waiters = w] : w \in SUBSET Sessions}
<1>1. ASSUME StreamInv, StreamNext, NEW t \in Sessions, Stale(t)
      PROVE  Unmoved
    <2>1. StreamTyped
        BY <1>1 DEF StreamInv
    <2>2. ~MatchingProbe(t) /\ Open /\ Holding(t)
        BY <1>1 DEF MatchingProbe
    <2>3. episode \in Episode /\ episode.waiters \in SUBSET Sessions
        BY <2>1 DEF StreamTyped, Episode
    <2>4. episode = [episode EXCEPT !.waiters = episode.waiters]
        BY <2>3 DEF Episode
    <2>5. CASE StreamTime \/ StreamsEnded
        BY <1>1, <2>5 DEF StreamTime, Time, BackoffElapses, CooldownExpires, StreamsEnded, allVars, vars
    <2>6. ASSUME NEW s \in Sessions, Execute(s) \/ StreamCancel(s) \/ CloseRaises(s)
          PROVE  Unmoved
        <3>1. Effect(s)
            BY <1>1, <2>6, ActsHaveEffect
        <3>2. s = t
            BY <1>1, <2>2, <3>1 DEF Effect, Holding
        <3>3. episode' = episode \/ episode' = [episode EXCEPT !.waiters = @ \cup {s}]
            BY <2>1, <2>2, <2>6, <3>2, LateKeeps
        <3>4. episode.waiters \cup {s} \in SUBSET Sessions
            BY <2>3
        <3> QED
            BY <2>3, <2>4, <3>3, <3>4
    <2> QED
        BY <1>1, <2>5, <2>6 DEF StreamNext
<1>2. StreamInv /\ [StreamNext]_allVars =>
        [\A s \in Sessions :
          (Holding(s) /\ pc'[s] # pc[s] /\ Open
             /\ ~(episode.probe /\ episode.leader = s /\ episode.gen = permit[s]))
          => episode' \in {[episode EXCEPT !.waiters = w] : w \in SUBSET Sessions}]_allVars
    BY <1>1
<1>3. StreamSpec => []StreamInv
    BY StreamStarts, StreamSteps, PTL DEF StreamSpec
<1> QED
    BY <1>2, <1>3, PTL DEF StreamSpec, StaleStreamIsInert

-----------------------------------------------------------------------------
(***************************************************************************)
(* The key pool.                                                           *)
(*                                                                         *)
(* The bound on a key's window is not inductive: a lap that sits out its   *)
(* backoff will dispatch with its key whatever its window says by then, so *)
(* PaceReserved counts it in advance, when the key was below its ceiling.  *)
(* There are never more of those than there are other laps.                *)
(***************************************************************************)
HIDE ConstantsAssumption DEF PCs, InAdmission, Ended, StreamPCs

\* Where the entries of a log are that are in the window.
Recent(times, now) == {i \in DOMAIN times : times[i] + Window > now}

\* Who has selected a key and sits out the backoff.
Beats(k) == {r \in Laps : lap[r] = "beat" /\ key[r] = k}

\* Whoever sits out a backoff has been counted in advance.
PaceReserved ==
  \A k \in Keys :
    Cardinality(Recent(sent[k], clock)) + Cardinality(Beats(k)) <= Threshold + Cardinality(Laps) - 1

\* A lap under way has a key of its own lap, one that is not has no variables.
LapsHaveKeys ==
  \A r \in Laps :
    IF lap[r] \in {"beat", "sent"}
      THEN key[r] \in tried[r] /\ refusals[r] < Cardinality(tried[r])
      ELSE tried[r] = {} /\ uses[r] = 0 /\ refusals[r] = 0

\* No request has a duplicate of a type: those of PoolTypeOK that do not follow.
PoolTyped ==
  /\ clock \in 1 .. MaxTime /\ index \in Keys
  /\ cooldown \in [Keys -> Nat]
  /\ sent \in [Keys -> Seq(1 .. MaxTime)]
  /\ lap \in [Laps -> LapSteps]
  /\ key \in [Laps -> Keys \cup {None}]
  /\ tried \in [Laps -> SUBSET Keys]
  /\ refusals \in [Laps -> Nat]
  /\ wake \in [Laps -> Nat]
  /\ uses \in [Laps -> Nat]

PoolInv == PoolTyped /\ LapTriesOnce /\ LapsHaveKeys /\ PaceReserved

USE PoolAssumption DEF Keys, None, LapSteps

\* A set of keys has no more members than there are keys.
LEMMA KeySets ==
  ASSUME NEW K \in SUBSET Keys
  PROVE  IsFiniteSet(K) /\ Cardinality(K) \in 0 .. KeyCount
<1>1. IsFiniteSet(Keys) /\ Cardinality(Keys) = KeyCount
  BY FS_Interval
<1>2. IsFiniteSet(K) /\ Cardinality(K) <= KeyCount
  BY <1>1, FS_Subset
<1> QED BY <1>2, FS_CardinalityType

\* The window of a log is finite.
LEMMA RecentCount ==
  ASSUME NEW times \in Seq(Nat), NEW now \in Nat
  PROVE  /\ IsFiniteSet(Recent(times, now))
         /\ Cardinality(Recent(times, now)) \in Nat
<1>1. Recent(times, now) \in SUBSET (1 .. Len(times)) /\ Len(times) \in Nat
  BY DEF Recent
<1>2. IsFiniteSet(1 .. Len(times))
  BY <1>1, FS_Interval
<1> QED BY <1>1, <1>2, FS_Subset, FS_CardinalityType

\* Time only takes entries out of a window.
LEMMA RecentShrinks ==
  ASSUME NEW times \in Seq(Nat), NEW now \in Nat, NEW later \in Nat, now <= later
  PROVE  Cardinality(Recent(times, later)) <= Cardinality(Recent(times, now))
<1>1. \A i \in DOMAIN times : times[i] \in Nat
  OBVIOUS
<1>2. Recent(times, later) \in SUBSET Recent(times, now)
  BY <1>1 DEF Recent
<1> QED BY <1>2, RecentCount, FS_Subset

\* What a dispatch makes of the log adds one entry at most to the window.
LEMMA PrunedCount ==
  ASSUME NEW times \in Seq(1 .. MaxTime), clock \in 1 .. MaxTime
  PROVE  /\ Append(Pruned(times), clock) \in Seq(1 .. MaxTime)
         /\ Cardinality(Recent(Append(Pruned(times), clock), clock))
              <= Cardinality(Recent(times, clock)) + 1
<1> DEFINE end == Len(times) + 1
           T == {i \in 1 .. end : i = end \/ times[i] + Window > clock}
           m == Min(T)
           rest == SubSeq(times, m, Len(times))
           new == Append(rest, clock)
<1>1. m \in 1 .. end
  <2>1. T \in SUBSET Nat /\ end \in T
    OBVIOUS
  <2>2. \E n \in T : \A j \in T : n =< j
    BY <2>1, LeastNumber
  <2>3. m \in T
    BY <2>2 DEF Min
  <2> QED BY <2>3
<1> HIDE DEF m
<1>2. /\ rest \in Seq(1 .. MaxTime) /\ Len(rest) = end - m
      /\ \A i \in 1 .. Len(rest) : rest[i] = times[i + m - 1]
  <2>1. Len(times) \in Nat /\ end = Len(times) + 1 /\ m \in Nat \ {0} /\ m <= end
    BY <1>1
  <2> HIDE DEF end
  <2>2. \A i \in 1 .. end - m : i + m - 1 \in 1 .. Len(times)
    BY <2>1
  <2>3. Len(rest) = end - m
    BY <2>1
  <2>4. \A i \in 1 .. end - m : rest[i] = times[i + m - 1]
    BY <2>1
  <2>5. rest \in Seq(1 .. MaxTime)
    BY <2>1
  <2> QED BY <2>3, <2>4, <2>5
<1> HIDE DEF rest
<1>3. /\ new \in Seq(1 .. MaxTime) /\ Len(new) = Len(rest) + 1
      /\ \A i \in 1 .. Len(rest) : new[i] = rest[i]
  BY <1>2
<1>4. new = Append(Pruned(times), clock)
  BY DEF Pruned, m, rest
<1> HIDE DEF new
<1> DEFINE old == Recent(times, clock)
           still == Recent(new, clock) \ {Len(new)}
           f == [i \in still |-> i + m - 1]
<1>5. /\ times \in Seq(Nat) /\ new \in Seq(Nat) /\ clock \in Nat
      /\ Len(times) \in Nat /\ Len(new) \in Nat /\ m \in Nat
  BY <1>1, <1>3
<1>6. IsFiniteSet(old) /\ IsFiniteSet(Recent(new, clock)) /\ Cardinality(old) \in Nat
      /\ Cardinality(Recent(new, clock)) \in Nat
  BY <1>5, RecentCount
<1>7. f \in Injection(still, old)
  <2>1. ASSUME NEW i \in still PROVE i + m - 1 \in old
    <3>0. i \in DOMAIN new /\ i # Len(new) /\ new[i] + Window > clock
      BY DEF Recent
    <3>1. i \in 1 .. Len(rest) /\ new[i] + Window > clock
      <4>1. i \in 1 .. Len(new) /\ Len(rest) \in Nat
        BY <3>0, <1>2, <1>5
      <4> QED BY <4>1, <3>0, <1>3
    <3>2. i + m - 1 \in 1 .. Len(times) /\ new[i] = times[i + m - 1]
      BY <3>1, <1>1, <1>2, <1>3, <1>5
    <3> QED BY <3>1, <3>2 DEF Recent
  <2>2. \A i \in still : i \in Nat
    BY <1>5 DEF Recent
  <2>3. \A i, j \in still : f[i] = f[j] => i = j
    BY <2>2, <1>5
  <2> QED BY <2>1, <2>3 DEF Injection, IsInjective
<1>8. IsFiniteSet(still) /\ Cardinality(still) <= Cardinality(old)
  BY <1>6, <1>7, FS_Injection
<1>9. Cardinality(Recent(new, clock)) <= Cardinality(still) + 1
  <2> DEFINE all == Recent(new, clock)
  <2> HIDE DEF all
  <2>1. Cardinality(all \ {Len(new)}) =
          IF Len(new) \in all THEN Cardinality(all) - 1 ELSE Cardinality(all)
    BY <1>6, FS_RemoveElement DEF all
  <2>2. Cardinality(all) <= Cardinality(all \ {Len(new)}) + 1
    BY <2>1, <1>6 DEF all
  <2> QED BY <2>2 DEF all
<1> HIDE DEF still, old
<1>10. Cardinality(Recent(new, clock)) <= Cardinality(old) + 1
  BY <1>6, <1>8, <1>9, FS_CardinalityType
<1> QED BY <1>3, <1>4, <1>10 DEF old

\* The ring from the pointer on is all keys.
LEMMA RingIsKeys ==
  ASSUME index \in Keys
  PROVE  /\ \A i \in 0 .. KeyCount - 1 : Ring(i) \in Keys
         /\ \A k \in Keys : \E i \in 0 .. KeyCount - 1 : Ring(i) = k
         /\ \A k \in Keys : After(k) \in Keys
<1>1. \A x \in Nat : x % KeyCount \in 0 .. KeyCount - 1
  OBVIOUS
<1>2. \A x \in Nat : x < KeyCount => x % KeyCount = x
  OBVIOUS
<1>3. \A x \in Nat : KeyCount <= x /\ x < KeyCount + KeyCount => x % KeyCount = x - KeyCount
  OBVIOUS
<1>4. ASSUME NEW k \in Keys PROVE \E i \in 0 .. KeyCount - 1 : Ring(i) = k
  <2>1. CASE k >= index
    <3>1. Ring(k - index) = k
      BY <1>2, <2>1 DEF Ring
    <3> QED BY <3>1, <2>1
  <2>2. CASE k < index
    <3>1. Ring(KeyCount + k - index) = k
      BY <1>3, <2>2 DEF Ring
    <3> QED BY <3>1, <2>2
  <2> QED BY <2>1, <2>2
<1>5. \A i \in 0 .. KeyCount - 1 : Ring(i) \in Keys
  BY <1>1 DEF Ring
<1>6. \A k \in Keys : After(k) \in Keys
  BY <1>1 DEF After
<1> QED BY <1>4, <1>5, <1>6

\* The key that is selected is eligible, and none is selected only if none is.
LEMMA SelectedIsEligible ==
  ASSUME index \in Keys, NEW cool, NEW skip
  PROVE  /\ Selected(cool, skip) # None =>
              /\ Selected(cool, skip) \in Keys \ skip
              /\ IsEligible(cool, Selected(cool, skip), clock)
         /\ Selected(cool, skip) = None =>
              \A k \in Keys : k \in skip \/ ~IsEligible(cool, k, clock)
<1>1. CASE Hits(cool, skip) = {}
  <2>1. Selected(cool, skip) = None
    BY <1>1 DEF Selected
  <2>2. ASSUME NEW k \in Keys PROVE k \in skip \/ ~IsEligible(cool, k, clock)
    <3>1. PICK i \in 0 .. KeyCount - 1 : Ring(i) = k
      BY RingIsKeys
    <3>2. i \notin Hits(cool, skip)
      BY <1>1
    <3>3. Ring(i) \in skip \/ ~IsEligible(cool, Ring(i), clock)
      BY <3>2 DEF Hits
    <3> QED BY <3>1, <3>3
  <2> QED BY <2>1, <2>2
<1>2. CASE Hits(cool, skip) # {}
  <2>1. Hits(cool, skip) \in SUBSET Nat
    BY DEF Hits
  <2>2. \E n \in Hits(cool, skip) : \A j \in Hits(cool, skip) : n =< j
    BY <1>2, <2>1, LeastNumber
  <2>3. Min(Hits(cool, skip)) \in Hits(cool, skip)
    BY <2>2 DEF Min
  <2>4. PICK i \in Hits(cool, skip) : Selected(cool, skip) = Ring(i)
    BY <1>2, <2>3 DEF Selected
  <2>5. i \in 0 .. KeyCount - 1 /\ Ring(i) \notin skip /\ IsEligible(cool, Ring(i), clock)
    BY DEF Hits
  <2>6. Ring(i) \in Keys
    BY <2>5, RingIsKeys
  <2> QED BY <2>4, <2>5, <2>6
<1> QED BY <1>1, <1>2

-----------------------------------------------------------------------------
(* The steps *)

\* What a request's own change leaves of the others.
LEMMA OthersKeep ==
  ASSUME PoolInv, NEW r \in Laps,
         \A q \in Laps \ {r} : /\ lap'[q] = lap[q] /\ key'[q] = key[q] /\ tried'[q] = tried[q]
                              /\ refusals'[q] = refusals[q] /\ uses'[q] = uses[q],
         lap'[r] \in {"beat", "sent"} =>
            /\ key'[r] \in tried'[r] /\ refusals'[r] < Cardinality(tried'[r])
            /\ Cardinality(tried'[r]) = uses'[r] + (IF lap'[r] = "beat" THEN 1 ELSE 0),
         lap'[r] \notin {"beat", "sent"} => tried'[r] = {} /\ uses'[r] = 0 /\ refusals'[r] = 0
  PROVE  LapTriesOnce' /\ LapsHaveKeys'
<1>1. LapTriesOnce /\ LapsHaveKeys
  BY DEF PoolInv
<1>2. Cardinality({}) = 0
  BY FS_EmptySet
<1>3. LapTriesOnce'
  <2>1. ASSUME NEW q \in Laps
        PROVE  Cardinality(tried'[q]) = uses'[q] + (IF lap'[q] = "beat" THEN 1 ELSE 0)
    <3>1. CASE q = r /\ lap'[r] \in {"beat", "sent"}
      BY <3>1
    <3>2. CASE q = r /\ lap'[r] \notin {"beat", "sent"}
      <4>1. lap'[r] # "beat" /\ Cardinality(tried'[r]) = 0 /\ uses'[r] = 0
        BY <3>2, <1>2
      <4> QED BY <3>2, <4>1
    <3>3. CASE q # r
      <4>1. Cardinality(tried[q]) = uses[q] + (IF lap[q] = "beat" THEN 1 ELSE 0)
        BY <1>1 DEF LapTriesOnce
      <4>2. tried'[q] = tried[q] /\ uses'[q] = uses[q] /\ lap'[q] = lap[q]
        BY <3>3
      <4> QED BY <4>1, <4>2
    <3> QED BY <3>1, <3>2, <3>3
  <2> QED BY <2>1 DEF LapTriesOnce
<1>4. LapsHaveKeys'
  <2>1. ASSUME NEW q \in Laps, lap'[q] \in {"beat", "sent"}
        PROVE  key'[q] \in tried'[q] /\ refusals'[q] < Cardinality(tried'[q])
    <3>1. CASE q = r
      BY <3>1, <2>1
    <3>2. CASE q # r
      BY <3>2, <2>1, <1>1 DEF LapsHaveKeys
    <3> QED BY <3>1, <3>2
  <2>2. ASSUME NEW q \in Laps, lap'[q] \notin {"beat", "sent"}
        PROVE  tried'[q] = {} /\ uses'[q] = 0 /\ refusals'[q] = 0
    <3>1. CASE q = r
      BY <3>1, <2>2
    <3>2. CASE q # r
      BY <3>2, <2>2, <1>1 DEF LapsHaveKeys
    <3> QED BY <3>1, <3>2
  <2> QED BY <2>1, <2>2 DEF LapsHaveKeys
<1> QED BY <1>3, <1>4

\* The keys somebody waits with are counted, and never all requests can wait while
\* one does something else.
LEMMA BeatCount ==
  ASSUME NEW k
  PROVE  /\ IsFiniteSet(Beats(k)) /\ Cardinality(Beats(k)) \in Nat
         /\ Cardinality(Laps) \in Nat
         /\ \A r \in Laps \ Beats(k) : Cardinality(Beats(k)) <= Cardinality(Laps) - 1
<1>1. Beats(k) \in SUBSET Laps
  BY DEF Beats
<1>2. ASSUME NEW r \in Laps \ Beats(k)
      PROVE  Cardinality(Beats(k)) <= Cardinality(Laps) - 1
  <2>1. Beats(k) \in SUBSET (Laps \ {r})
    BY <1>1
  <2>2. IsFiniteSet(Laps \ {r}) /\ Cardinality(Laps \ {r}) = Cardinality(Laps) - 1
    BY FS_RemoveElement
  <2> QED BY <2>1, <2>2, FS_Subset
<1> QED BY <1>1, <1>2, FS_Subset, FS_CardinalityType

\* A dispatch, of a request that has waited for it or of one that has just selected
\* the key while the key was below its ceiling.
LEMMA DispatchPaced ==
  ASSUME PoolInv, NEW r \in Laps, NEW k \in Keys, Dispatch(r, k), clock' = clock, key'[r] = k,
         \A q \in Laps \ {r} : key'[q] = key[q],
         \/ lap[r] = "beat" /\ key[r] = k
         \/ lap[r] # "beat" /\ Cardinality(Recent(sent[k], clock)) < Threshold
  PROVE  sent' \in [Keys -> Seq(1 .. MaxTime)] /\ PaceReserved'
<1> DEFINE R(j) == Cardinality(Recent(sent[j], clock))
           Rn(j) == Cardinality(Recent(sent'[j], clock))
           B(j) == Cardinality(Beats(j))
           Later(j) == {q \in Laps : lap'[q] = "beat" /\ key'[q] = j}
<1>1. PoolTyped /\ PaceReserved
  BY DEF PoolInv
<1>2. /\ sent'[k] = Append(Pruned(sent[k]), clock)
      /\ \A j \in Keys \ {k} : sent'[j] = sent[j]
      /\ lap'[r] = "sent" /\ \A q \in Laps \ {r} : lap'[q] = lap[q]
  BY <1>1 DEF PoolTyped, Dispatch
<1>3. sent[k] \in Seq(1 .. MaxTime) /\ clock \in 1 .. MaxTime
  BY <1>1 DEF PoolTyped
<1>4. sent'[k] \in Seq(1 .. MaxTime) /\ Rn(k) <= R(k) + 1
  BY <1>2, <1>3, PrunedCount
<1>5. sent' \in [Keys -> Seq(1 .. MaxTime)]
  BY <1>1, <1>3, <1>4, PrunedCount DEF PoolTyped, Dispatch
<1>6. Threshold \in Nat
  BY DEF Threshold
<1>7. \A j \in Keys : Later(j) = Beats(j) \ {r}
  BY <1>2 DEF Beats
<1>8. ASSUME NEW j \in Keys
      PROVE  Rn(j) + Cardinality(Later(j)) <= Threshold + Cardinality(Laps) - 1
  <2>1. sent[j] \in Seq(Nat) /\ sent'[j] \in Seq(Nat) /\ clock \in Nat
    <3>1. sent[j] \in Seq(1 .. MaxTime) /\ sent'[j] \in Seq(1 .. MaxTime) /\ clock \in 1 .. MaxTime
      BY <1>1, <1>5 DEF PoolTyped
    <3> QED BY <3>1
  <2>2. R(j) \in Nat /\ Rn(j) \in Nat
    BY <2>1, RecentCount
  <2>3. R(j) + B(j) <= Threshold + Cardinality(Laps) - 1
    BY <1>1 DEF PaceReserved
  <2>4. /\ B(j) \in Nat /\ Cardinality(Laps) \in Nat
        /\ r \notin Beats(j) => B(j) <= Cardinality(Laps) - 1
        /\ IsFiniteSet(Beats(j))
    BY BeatCount
  <2>5. Cardinality(Later(j)) = IF r \in Beats(j) THEN B(j) - 1 ELSE B(j)
    BY <2>4, <1>7, FS_RemoveElement
  <2>6. CASE j = k
    <3>1. r \in Beats(k) \/ (r \notin Beats(k) /\ R(k) < Threshold)
      BY DEF Beats
    <3>2. Rn(j) <= R(j) + 1
      BY <2>6, <1>4
    <3> HIDE DEF Rn, R, B, Later
    <3> QED BY <2>2, <2>3, <2>4, <2>5, <2>6, <1>6, <3>1, <3>2
  <2>7. CASE j # k
    <3>1. Rn(j) = R(j)
      BY <2>7, <1>2
    <3> HIDE DEF Rn, R, B, Later
    <3> QED BY <2>2, <2>3, <2>4, <2>5, <1>6, <3>1
  <2> QED BY <2>6, <2>7
<1>9. PaceReserved'
  BY <1>8 DEF PaceReserved, Beats
<1> QED BY <1>5, <1>9

\* A step without a dispatch, after which at most one more request has reserved a key,
\* below its ceiling.
LEMMA ReservationsPaced ==
  ASSUME PoolInv, NEW r \in Laps, sent' = sent, clock' = clock,
         \A q \in Laps \ {r} : lap'[q] = lap[q] /\ key'[q] = key[q],
         lap'[r] # "beat" \/ (lap[r] # "beat" /\ Cardinality(Recent(sent[key'[r]], clock)) < Threshold)
  PROVE  PaceReserved'
<1> DEFINE R(j) == Cardinality(Recent(sent[j], clock))
           B(j) == Cardinality(Beats(j))
           Later(j) == {q \in Laps : lap'[q] = "beat" /\ key'[q] = j}
<1>1. PoolTyped /\ PaceReserved
  BY DEF PoolInv
<1>6. Threshold \in Nat
  BY DEF Threshold
<1>8. ASSUME NEW j \in Keys
      PROVE  R(j) + Cardinality(Later(j)) <= Threshold + Cardinality(Laps) - 1
  <2>1. sent[j] \in Seq(Nat) /\ clock \in Nat
    BY <1>1 DEF PoolTyped
  <2>2. R(j) \in Nat
    BY <2>1, RecentCount
  <2>3. R(j) + B(j) <= Threshold + Cardinality(Laps) - 1
    BY <1>1 DEF PaceReserved
  <2>4. /\ B(j) \in Nat /\ Cardinality(Laps) \in Nat
        /\ r \notin Beats(j) => B(j) <= Cardinality(Laps) - 1
        /\ IsFiniteSet(Beats(j))
    BY BeatCount
  <2>5. CASE r \notin Later(j)
    <3>1. Later(j) \in SUBSET Beats(j)
      BY <2>5 DEF Beats
    <3>2. IsFiniteSet(Later(j)) /\ Cardinality(Later(j)) <= B(j)
      BY <3>1, <2>4, FS_Subset
    <3>3. Cardinality(Later(j)) \in Nat
      BY <3>2, FS_CardinalityType
    <3> HIDE DEF R, B, Later
    <3> QED BY <2>2, <2>3, <2>4, <1>6, <3>2, <3>3
  <2>6. CASE r \in Later(j)
    <3>1. r \notin Beats(j) /\ R(j) < Threshold
      BY <2>6 DEF Beats
    <3>2. Later(j) = Beats(j) \cup {r}
      BY <2>6 DEF Beats
    <3>3. Cardinality(Later(j)) = B(j) + 1
      BY <3>1, <3>2, <2>4, FS_AddElement
    <3> HIDE DEF R, B, Later
    <3> QED BY <2>2, <2>3, <2>4, <1>6, <3>1, <3>3
  <2> QED BY <2>5, <2>6
<1>9. PaceReserved'
  BY <1>8 DEF PaceReserved, Beats
<1> QED BY <1>9

\* The end of a lap, or its next try, after what its last answer changed.
LEMMA EndKeeps ==
  ASSUME PoolInv, NEW r \in Laps, NEW how \in {"idle", "exhausted"}, End(r, how),
         index' = index, sent' = sent, clock' = clock, cooldown' \in [Keys -> Nat]
  PROVE  PoolInv'
<1>1. PoolTyped
  BY DEF PoolInv
<1>2. PoolTyped'
  BY <1>1 DEF PoolTyped, End
<1>3. /\ lap'[r] = how /\ tried'[r] = {} /\ uses'[r] = 0 /\ refusals'[r] = 0
      /\ \A q \in Laps \ {r} : /\ lap'[q] = lap[q] /\ key'[q] = key[q] /\ tried'[q] = tried[q]
                              /\ refusals'[q] = refusals[q] /\ uses'[q] = uses[q]
  BY <1>1 DEF PoolTyped, End
<1>4. LapTriesOnce' /\ LapsHaveKeys'
  BY <1>3, OthersKeep
<1>5. PaceReserved'
  BY <1>3, ReservationsPaced
<1> QED BY <1>2, <1>4, <1>5 DEF PoolInv

\* The next try of a lap keeps the invariant, whatever the last answer was.
LEMMA NextTryKeeps ==
  ASSUME PoolInv, NEW r \in Laps, NEW cool \in [Keys -> Nat], NEW count \in Nat,
         lap[r] # "beat", count <= Cardinality(tried[r]), NextTry(r, cool, count),
         cooldown' = cool, clock' = clock
  PROVE  PoolInv'
<1> DEFINE k == Selected(cool, tried[r])
<1>1. PoolTyped /\ LapTriesOnce
  BY DEF PoolInv
<1>2. index \in Keys
  BY <1>1 DEF PoolTyped
<1>3. k # None => /\ k \in Keys \ tried[r]
                  /\ Cardinality(Recent(sent[k], clock)) < Threshold
  BY <1>2, SelectedIsEligible DEF IsEligible, CountInWindow, Recent
<1> HIDE DEF k
<1>4. CASE k = None
  BY <1>1, <1>4, EndKeeps DEF NextTry, k
<1>5. CASE k # None
  <2>1. /\ index' = After(k)
        /\ key' = [key EXCEPT ![r] = k]
        /\ tried' = [tried EXCEPT ![r] = @ \cup {k}]
        /\ refusals' = [refusals EXCEPT ![r] = count]
    BY <1>5 DEF NextTry, k
  <2>2. /\ tried[r] \in SUBSET Keys /\ uses[r] \in Nat /\ Cardinality(tried[r]) = uses[r]
    BY <1>1 DEF PoolTyped, LapTriesOnce
  <2>3. Cardinality(tried[r] \cup {k}) = uses[r] + 1
    BY <1>3, <1>5, <2>2, KeySets, FS_AddElement
  <2>4. index' \in Keys
    BY <1>2, <1>3, <1>5, <2>1, RingIsKeys
  <2>5. /\ key' \in [Laps -> Keys \cup {None}] /\ tried' \in [Laps -> SUBSET Keys]
        /\ refusals' \in [Laps -> Nat]
        /\ key'[r] = k /\ tried'[r] = tried[r] \cup {k} /\ refusals'[r] = count
        /\ \A q \in Laps \ {r} : /\ key'[q] = key[q] /\ tried'[q] = tried[q]
                                /\ refusals'[q] = refusals[q]
    BY <1>1, <1>3, <1>5, <2>1 DEF PoolTyped
  <2>6. CASE count >= 2
    <3>1. /\ lap' = [lap EXCEPT ![r] = "beat"]
          /\ wake' = [wake EXCEPT ![r] = clock + Beat]
          /\ sent' = sent /\ uses' = uses
      BY <1>5, <2>6 DEF NextTry, k
    <3>2. PoolTyped'
      <4>1. lap' \in [Laps -> LapSteps] /\ uses' \in [Laps -> Nat]
        BY <1>1, <3>1 DEF PoolTyped
      <4>2. wake' \in [Laps -> Nat]
        BY <1>1, <3>1 DEF PoolTyped
      <4>3. /\ clock' \in 1 .. MaxTime /\ cooldown' \in [Keys -> Nat]
            /\ sent' \in [Keys -> Seq(1 .. MaxTime)]
        BY <1>1, <3>1 DEF PoolTyped
      <4> QED BY <2>4, <2>5, <4>1, <4>2, <4>3 DEF PoolTyped
    <3>3. lap'[r] = "beat" /\ \A q \in Laps \ {r} : lap'[q] = lap[q] /\ uses'[q] = uses[q]
      BY <1>1, <3>1 DEF PoolTyped
    <3>4. PaceReserved'
      BY <1>3, <1>5, <2>5, <3>1, <3>3, ReservationsPaced
    <3>5. key'[r] \in tried'[r] /\ refusals'[r] < Cardinality(tried'[r])
      BY <2>2, <2>3, <2>5
    <3>6. LapTriesOnce' /\ LapsHaveKeys'
      BY <2>3, <2>5, <3>1, <3>3, <3>5, OthersKeep
    <3> QED BY <3>2, <3>4, <3>6 DEF PoolInv
  <2>7. CASE ~(count >= 2)
    <3>1. Dispatch(r, k) /\ wake' = wake
      BY <1>5, <2>7 DEF NextTry, k
    <3>2. k \in Keys
      BY <1>3, <1>5
    <3>3. sent' \in [Keys -> Seq(1 .. MaxTime)] /\ PaceReserved'
      BY <1>3, <1>5, <2>5, <3>1, <3>2, DispatchPaced
    <3>4. /\ lap' = [lap EXCEPT ![r] = "sent"] /\ uses' = [uses EXCEPT ![r] = @ + 1]
      BY <3>1 DEF Dispatch
    <3>5. PoolTyped'
      <4>1. lap' \in [Laps -> LapSteps]
        BY <1>1, <3>4 DEF PoolTyped
      <4>3. uses' \in [Laps -> Nat]
        <5>1. uses \in [Laps -> Nat] /\ uses[r] + 1 \in Nat
          BY <1>1 DEF PoolTyped
        <5> QED BY <5>1, <3>4
      <4>2. /\ clock' \in 1 .. MaxTime /\ cooldown' \in [Keys -> Nat]
            /\ wake' \in [Laps -> Nat]
        BY <1>1, <3>1 DEF PoolTyped
      <4> QED BY <2>4, <2>5, <3>3, <4>1, <4>2, <4>3 DEF PoolTyped
    <3>6. /\ lap'[r] = "sent" /\ uses'[r] = uses[r] + 1
          /\ \A q \in Laps \ {r} : lap'[q] = lap[q] /\ uses'[q] = uses[q]
      BY <1>1, <3>4 DEF PoolTyped
    <3>7. key'[r] \in tried'[r] /\ refusals'[r] < Cardinality(tried'[r])
      BY <2>2, <2>3, <2>5
    <3>8. LapTriesOnce' /\ LapsHaveKeys'
      <4>1. Cardinality(tried'[r]) = uses'[r] + (IF lap'[r] = "beat" THEN 1 ELSE 0)
        BY <2>2, <2>3, <2>5, <3>6
      <4>2. lap'[r] \in {"beat", "sent"}
        BY <3>6
      <4> QED BY <2>5, <3>6, <3>7, <4>1, <4>2, OthersKeep
    <3> QED BY <3>3, <3>5, <3>8 DEF PoolInv
  <2> QED BY <2>6, <2>7
<1> QED BY <1>4, <1>5

\* A cooldown ends at a time.
LEMMA Cooled ==
  ASSUME PoolTyped, NEW k, NEW seconds \in Nat
  PROVE  EnterCooldown(k, seconds) \in [Keys -> Nat]
<1>1. cooldown \in [Keys -> Nat] /\ clock + seconds \in Nat
  BY DEF PoolTyped
<1> QED BY <1>1 DEF EnterCooldown

\* The first try of a lap, and the answers after which there is another.
LEMMA AnswersKeep ==
  ASSUME PoolInv, NEW r \in Laps, Start(r) \/ RateLimited(r) \/ Overloaded(r)
  PROVE  PoolInv'
<1>1. PoolTyped /\ LapsHaveKeys
  BY DEF PoolInv
<1>2. /\ tried[r] \in SUBSET Keys /\ Cardinality(tried[r]) \in Nat /\ refusals[r] \in Nat
      /\ clock \in Nat
  BY <1>1, KeySets DEF PoolTyped
<1>3. CASE Start(r)
  <2>1. /\ lap[r] # "beat" /\ NextTry(r, cooldown, 0) /\ cooldown' = cooldown /\ clock' = clock
    BY <1>3 DEF Start
  <2>2. cooldown \in [Keys -> Nat] /\ 0 \in Nat /\ 0 <= Cardinality(tried[r])
    BY <1>1, <1>2 DEF PoolTyped
  <2> QED BY <2>1, <2>2, NextTryKeeps
<1>4. CASE RateLimited(r)
  <2>1. /\ lap[r] = "sent" /\ cooldown' = EnterCooldown(key[r], Cooldown)
        /\ NextTry(r, cooldown', refusals[r] + 1) /\ clock' = clock
    BY <1>4 DEF RateLimited
  <2>2. EnterCooldown(key[r], Cooldown) \in [Keys -> Nat]
    BY <1>1, <1>2, Cooled
  <2>3. refusals[r] < Cardinality(tried[r])
    BY <1>1, <2>1 DEF LapsHaveKeys
  <2>4. refusals[r] + 1 <= Cardinality(tried[r])
    BY <2>3, <1>2
  <2> QED BY <1>2, <2>1, <2>2, <2>4, NextTryKeeps
<1>5. CASE Overloaded(r)
  <2>1. /\ lap[r] = "sent" /\ cooldown' = EnterCooldown(key[r], OverloadCooldown)
        /\ NextTry(r, cooldown', refusals[r]) /\ clock' = clock
    BY <1>5 DEF Overloaded
  <2>2. EnterCooldown(key[r], OverloadCooldown) \in [Keys -> Nat]
    BY <1>1, <1>2, Cooled
  <2>3. refusals[r] <= Cardinality(tried[r])
    BY <1>1, <1>2, <2>1 DEF LapsHaveKeys
  <2> QED BY <1>2, <2>1, <2>2, <2>3, NextTryKeeps
<1> QED BY <1>3, <1>4, <1>5

\* A lap dispatches with the key it had selected before its backoff.
LEMMA BeatOverKeeps ==
  ASSUME PoolInv, NEW r \in Laps, BeatOver(r)
  PROVE  PoolInv'
<1>1. PoolTyped /\ LapsHaveKeys /\ LapTriesOnce
  BY DEF PoolInv
<1>2. /\ lap[r] = "beat" /\ Dispatch(r, key[r]) /\ clock' = clock
      /\ UNCHANGED <<index, cooldown, key, tried, refusals, wake>>
  BY DEF BeatOver
<1>3. key[r] \in tried[r] /\ tried[r] \in SUBSET Keys /\ uses[r] \in Nat
  BY <1>1, <1>2 DEF LapsHaveKeys, PoolTyped
<1>4. sent' \in [Keys -> Seq(1 .. MaxTime)] /\ PaceReserved'
  BY <1>2, <1>3, DispatchPaced
<1>5. /\ lap' = [lap EXCEPT ![r] = "sent"] /\ uses' = [uses EXCEPT ![r] = @ + 1]
  BY <1>2 DEF Dispatch
<1>6. PoolTyped'
  <2>1. lap' \in [Laps -> LapSteps] /\ uses' \in [Laps -> Nat]
    BY <1>1, <1>5 DEF PoolTyped
  <2>2. /\ clock' \in 1 .. MaxTime /\ index' \in Keys /\ cooldown' \in [Keys -> Nat]
        /\ key' \in [Laps -> Keys \cup {None}] /\ tried' \in [Laps -> SUBSET Keys]
        /\ refusals' \in [Laps -> Nat] /\ wake' \in [Laps -> Nat]
    BY <1>1, <1>2 DEF PoolTyped
  <2> QED BY <1>4, <2>1, <2>2 DEF PoolTyped
<1>7. /\ lap'[r] = "sent" /\ uses'[r] = uses[r] + 1
      /\ \A q \in Laps \ {r} : lap'[q] = lap[q] /\ uses'[q] = uses[q]
  BY <1>1, <1>5 DEF PoolTyped
<1>8. Cardinality(tried[r]) = uses[r] + 1 /\ refusals[r] < Cardinality(tried[r])
  BY <1>1, <1>2 DEF LapTriesOnce, LapsHaveKeys
<1>9. LapTriesOnce' /\ LapsHaveKeys'
  BY <1>2, <1>3, <1>7, <1>8, OthersKeep
<1> QED BY <1>4, <1>6, <1>9 DEF PoolInv

\* Windows only get emptier.
LEMMA TimeKeeps ==
  ASSUME PoolInv, Tick
  PROVE  PoolInv'
<1>1. PoolTyped /\ LapTriesOnce /\ LapsHaveKeys /\ PaceReserved
  BY DEF PoolInv
<1>2. /\ clock < MaxTime /\ clock' = clock + 1
      /\ UNCHANGED <<index, cooldown, sent, lap, key, tried, refusals, wake, uses>>
  BY DEF Tick, lapVars
<1>3. PoolTyped' /\ LapTriesOnce' /\ LapsHaveKeys'
  BY <1>1, <1>2 DEF PoolTyped, LapTriesOnce, LapsHaveKeys
<1>4. ASSUME NEW k \in Keys
      PROVE  Cardinality(Recent(sent[k], clock')) + Cardinality(Beats(k))
               <= Threshold + Cardinality(Laps) - 1
  <2>1. sent[k] \in Seq(Nat) /\ clock \in Nat /\ clock' \in Nat /\ clock <= clock'
    BY <1>1, <1>2 DEF PoolTyped
  <2>2. Cardinality(Recent(sent[k], clock')) <= Cardinality(Recent(sent[k], clock))
    BY <2>1, RecentShrinks
  <2>3. /\ Cardinality(Recent(sent[k], clock')) \in Nat
        /\ Cardinality(Recent(sent[k], clock)) \in Nat
    BY <2>1, RecentCount
  <2>4. Cardinality(Beats(k)) \in Nat /\ Cardinality(Laps) \in Nat
    BY BeatCount
  <2>5. Cardinality(Recent(sent[k], clock)) + Cardinality(Beats(k)) <= Threshold + Cardinality(Laps) - 1
    BY <1>1 DEF PaceReserved
  <2>6. Threshold \in Nat
    BY DEF Threshold
  <2> QED BY <2>2, <2>3, <2>4, <2>5, <2>6
<1>5. PaceReserved'
  BY <1>2, <1>4 DEF PaceReserved, Beats
<1> QED BY <1>3, <1>5 DEF PoolInv

\* At first no key was used.
LEMMA PoolStarts == PoolInit => PoolInv
<1> SUFFICES ASSUME PoolInit PROVE PoolInv
  OBVIOUS
<1>1. PoolTyped
  <2>1. <<>> \in Seq(1 .. MaxTime)
    OBVIOUS
  <2>2. sent \in [Keys -> Seq(1 .. MaxTime)]
    BY <2>1 DEF PoolInit
  <2>3. clock \in 1 .. MaxTime /\ index \in Keys /\ cooldown \in [Keys -> Nat]
    BY DEF PoolInit
  <2>4. /\ lap \in [Laps -> LapSteps] /\ key \in [Laps -> Keys \cup {None}]
        /\ tried \in [Laps -> SUBSET Keys] /\ refusals \in [Laps -> Nat]
        /\ wake \in [Laps -> Nat] /\ uses \in [Laps -> Nat]
    BY DEF PoolInit
  <2> QED BY <2>2, <2>3, <2>4 DEF PoolTyped
<1>2. LapTriesOnce /\ LapsHaveKeys
  BY FS_EmptySet DEF PoolInit, LapTriesOnce, LapsHaveKeys
<1>3. ASSUME NEW k \in Keys
      PROVE  Cardinality(Recent(sent[k], clock)) + Cardinality(Beats(k))
               <= Threshold + Cardinality(Laps) - 1
  <2>1. Recent(sent[k], clock) = {} /\ Beats(k) = {}
    BY DEF PoolInit, Recent, Beats
  <2>2. Threshold \in Nat \ {0}
    BY DEF Threshold
  <2> QED BY <2>1, <2>2, BeatCount, FS_EmptySet
<1>4. PaceReserved
  BY <1>3 DEF PaceReserved
<1> QED BY <1>1, <1>2, <1>4 DEF PoolInv

\* Every step keeps the invariant.
LEMMA PoolSteps == PoolInv /\ [PoolNext]_poolVars => PoolInv'
<1> SUFFICES ASSUME PoolInv, [PoolNext]_poolVars PROVE PoolInv'
  OBVIOUS
<1>1. ASSUME NEW r \in Laps, Lap(r) PROVE PoolInv'
  <2>1. CASE Start(r) \/ RateLimited(r) \/ Overloaded(r)
    BY <2>1, AnswersKeep
  <2>2. CASE BeatOver(r)
    BY <2>2, BeatOverKeeps
  <2>3. CASE LapEnds(r)
    BY <2>3, EndKeeps DEF LapEnds, PoolInv, PoolTyped
  <2> QED BY <1>1, <2>1, <2>2, <2>3 DEF Lap
<1>2. CASE ListModels
  <2>1. index' \in Keys
    BY <1>2, SelectedIsEligible, RingIsKeys DEF ListModels, PoolInv, PoolTyped
  <2> QED BY <1>2, <2>1 DEF ListModels, lapVars, PoolInv, PoolTyped, LapTriesOnce, LapsHaveKeys,
               PaceReserved, Beats
<1>3. CASE UNCHANGED poolVars
  BY <1>3 DEF poolVars, lapVars, PoolInv, PoolTyped, LapTriesOnce, LapsHaveKeys, PaceReserved, Beats
<1> QED BY <1>1, <1>2, <1>3, TimeKeeps DEF PoolNext, ClockStopped

\* What the invariant says of the properties.
LEMMA PoolInvMeans == PoolInv => LapsKeepPace
<1> SUFFICES ASSUME PoolInv PROVE LapsKeepPace
  OBVIOUS
<1>1. PoolTyped /\ LapTriesOnce /\ LapsHaveKeys /\ PaceReserved
  BY DEF PoolInv
<1>2. ASSUME NEW r \in Laps PROVE refusals[r] \in 0 .. KeyCount /\ uses[r] \in 0 .. KeyCount
  <2>1. Cardinality(tried[r]) \in 0 .. KeyCount
    BY <1>1, KeySets DEF PoolTyped
  <2>2. refusals[r] \in Nat /\ uses[r] \in Nat
    BY <1>1 DEF PoolTyped
  <2>3. refusals[r] <= Cardinality(tried[r]) \/ refusals[r] = 0
    BY <2>1, <2>2, <1>1 DEF LapsHaveKeys
  <2>4. uses[r] <= Cardinality(tried[r])
    BY <2>1, <2>2, <1>1 DEF LapTriesOnce
  <2> QED BY <2>1, <2>2, <2>3, <2>4
<1>3. PoolTypeOK
  BY <1>1, <1>2 DEF PoolTypeOK, PoolTyped
<1>4. ASSUME NEW k \in Keys PROVE CountInWindow(k, clock) <= Threshold + Cardinality(Laps) - 1
  <2>1. CountInWindow(k, clock) = Cardinality(Recent(sent[k], clock))
    BY DEF CountInWindow, Recent
  <2>2. sent[k] \in Seq(Nat) /\ clock \in Nat
    BY <1>1 DEF PoolTyped
  <2>3. Cardinality(Recent(sent[k], clock)) \in Nat /\ Threshold \in Nat
    BY <2>2, RecentCount DEF Threshold
  <2>4. Cardinality(Recent(sent[k], clock)) + Cardinality(Beats(k)) <= Threshold + Cardinality(Laps) - 1
    BY <1>1 DEF PaceReserved
  <2> QED BY <2>1, <2>3, <2>4, BeatCount
<1>5. PacingHolds
  BY <1>4 DEF PacingHolds
<1> QED BY <1>1, <1>3, <1>5 DEF LapsKeepPace

\* A lap uses each key once, and a key that is near its ceiling is skipped: no window holds
\* more than the threshold and one dispatch for each other lap, whatever the laps do.
THEOREM LapsArePaced == PoolSpec => []LapsKeepPace
<1>1. PoolSpec => []PoolInv
  BY PoolStarts, PoolSteps, PTL DEF PoolSpec
<1> QED BY <1>1, PoolInvMeans, PTL

-----------------------------------------------------------------------------
(* What a step may do *)

\* An exhausted lap, and a dispatch with a key in cooldown, in the next try of a lap.
LEMMA TryDecides ==
  ASSUME PoolTyped, NEW r \in Laps, NEW cool, NEW count, NextTry(r, cool, count),
         clock' = clock, cooldown' = cool
  PROVE  /\ \A q \in Laps : lap[q] # "exhausted" /\ lap'[q] = "exhausted" =>
              \A k \in Keys : k \in tried[q] \/ ~IsEligible(cool, k, clock)
         /\ \A k \in Keys : sent'[k] # sent[k] => ~InCooldown(cool, k, clock)
<1> DEFINE k == Selected(cool, tried[r])
<1>1. index \in Keys /\ lap \in [Laps -> LapSteps] /\ DOMAIN sent = Keys
  BY DEF PoolTyped
<1>2. /\ k # None => IsEligible(cool, k, clock)
      /\ k = None => \A j \in Keys : j \in tried[r] \/ ~IsEligible(cool, j, clock)
  BY <1>1, SelectedIsEligible
<1> HIDE DEF k
<1>3. CASE k = None
  <2>1. sent' = sent /\ \A q \in Laps \ {r} : lap'[q] = lap[q]
    BY <1>1, <1>3 DEF NextTry, End, k
  <2> QED BY <1>2, <1>3, <2>1
<1>4. CASE k # None
  <2>1. \A q \in Laps : lap'[q] = lap[q] \/ lap'[q] # "exhausted"
    <3>1. lap' = [lap EXCEPT ![r] = "beat"] \/ lap' = [lap EXCEPT ![r] = "sent"]
      BY <1>4 DEF NextTry, Dispatch, k
    <3> QED BY <1>1, <3>1
  <2>2. \A j \in Keys : sent'[j] # sent[j] => j = k
    <3>1. sent' = sent \/ sent' = [sent EXCEPT ![k] = Append(Pruned(sent[k]), clock)]
      BY <1>4 DEF NextTry, Dispatch, k
    <3> QED BY <1>1, <3>1
  <2> QED BY <1>2, <1>4, <2>1, <2>2 DEF IsEligible
<1> QED BY <1>3, <1>4

\* The same of every step.
LEMMA StepDecides ==
  ASSUME PoolInv, [PoolNext]_poolVars
  PROVE  /\ \A r \in Laps : lap[r] # "exhausted" /\ lap'[r] = "exhausted" =>
              \A k \in Keys : k \in tried[r] \/ ~IsEligible(cooldown', k, clock)
         /\ \A k \in Keys : sent'[k] # sent[k] /\ InCooldown(cooldown', k, clock) =>
              \E r \in Laps : lap[r] = "beat" /\ key[r] = k
<1>1. PoolTyped
  BY DEF PoolInv
<1>2. ASSUME NEW r \in Laps, Lap(r)
      PROVE  /\ \A q \in Laps : lap[q] # "exhausted" /\ lap'[q] = "exhausted" =>
                  \A k \in Keys : k \in tried[q] \/ ~IsEligible(cooldown', k, clock)
             /\ \A k \in Keys : sent'[k] # sent[k] /\ InCooldown(cooldown', k, clock) =>
                  \E q \in Laps : lap[q] = "beat" /\ key[q] = k
  <2>1. CASE Start(r)
    <3>1. NextTry(r, cooldown, 0) /\ clock' = clock /\ cooldown' = cooldown
      BY <2>1 DEF Start
    <3> QED BY <3>1, <1>1, TryDecides
  <2>2. CASE RateLimited(r)
    <3>1. NextTry(r, cooldown', refusals[r] + 1) /\ clock' = clock
      BY <2>2 DEF RateLimited
    <3> QED BY <3>1, <1>1, TryDecides
  <2>3. CASE Overloaded(r)
    <3>1. NextTry(r, cooldown', refusals[r]) /\ clock' = clock
      BY <2>3 DEF Overloaded
    <3> QED BY <3>1, <1>1, TryDecides
  <2>4. CASE BeatOver(r)
    <3>1. /\ lap[r] = "beat" /\ lap' = [lap EXCEPT ![r] = "sent"]
          /\ sent' = [sent EXCEPT ![key[r]] = Append(Pruned(sent[key[r]]), clock)]
      BY <2>4 DEF BeatOver, Dispatch
    <3>2. \A k \in Keys : sent'[k] # sent[k] => k = key[r]
      BY <3>1, <1>1 DEF PoolTyped
    <3>3. \A q \in Laps : lap'[q] = lap[q] \/ lap'[q] # "exhausted"
      BY <3>1, <1>1 DEF PoolTyped
    <3> QED BY <3>1, <3>2, <3>3
  <2>5. CASE LapEnds(r)
    <3>1. sent' = sent /\ \A q \in Laps : lap'[q] = lap[q] \/ lap'[q] # "exhausted"
      BY <2>5, <1>1 DEF LapEnds, End, PoolTyped
    <3> QED BY <3>1
  <2> QED BY <1>2, <2>1, <2>2, <2>3, <2>4, <2>5 DEF Lap
<1>3. CASE ListModels \/ Tick \/ UNCHANGED poolVars
  <2>1. sent' = sent /\ lap' = lap
    BY <1>3 DEF ListModels, Tick, poolVars, lapVars
  <2> QED BY <2>1
<1> QED BY <1>2, <1>3 DEF PoolNext, ClockStopped

\* A lap gives up only when no key is left to it, and a key in cooldown is used only by a
\* lap that had selected it before.
THEOREM CooldownsAreKept == PoolSpec => CooldownsDecide
<1>1. PoolSpec => []PoolInv
  BY PoolStarts, PoolSteps, PTL DEF PoolSpec
<1>2. PoolInv /\ [PoolNext]_poolVars =>
        [/\ \A r \in Laps : lap[r] # "exhausted" /\ lap'[r] = "exhausted" =>
              \A k \in Keys : k \in tried[r] \/ ~IsEligible(cooldown', k, clock)
         /\ \A k \in Keys : sent'[k] # sent[k] /\ InCooldown(cooldown', k, clock) =>
              \E r \in Laps : lap[r] = "beat" /\ key[r] = k]_poolVars
  BY StepDecides
<1> QED BY <1>1, <1>2, PTL DEF PoolSpec, CooldownsDecide

-----------------------------------------------------------------------------
(***************************************************************************)
(* What the client gets of a stream.                                       *)
(*                                                                         *)
(* A reader that has had every event of an attempt, those held back too,   *)
(* is Shown(ledger): the block it has open is one the ledger has open.     *)
(* What is held back can be thrown away with its ledger while nothing of   *)
(* it was sent.  For the ledger: each open block is the thinking, the text *)
(* or a tool call's (Rooted), so closing these closes everything, and a    *)
(* call that is to be rewritten has shown no part of its arguments         *)
(* (Hidden).                                                               *)
(***************************************************************************)
HIDE PoolAssumption DEF Keys, None, LapSteps

(* What a reader makes of a sequence of events *)

\* F is the reader after each of the events.
ReaderAfter(reader, events, F) ==
  /\ F[0] = reader
  /\ \A n \in 1 .. Len(events) : F[n] = Reads(F[n - 1], events[n])

\* The recursion of ReadsAll has a function on the first n events.
LEMMA ReadingExists ==
  ASSUME NEW reader, NEW events, NEW n \in Nat
  PROVE  \E F : F = [i \in 0 .. n |-> IF i = 0 THEN reader ELSE Reads(F[i - 1], events[i])]
<1> DEFINE Step(F, i) == IF i = 0 THEN reader ELSE Reads(F[i - 1], events[i])
           S == {k \in Nat : \E F : F = [i \in 0 .. k |-> Step(F, i)]}
<1>1. 0 \in S
  <2> DEFINE F == [i \in 0 .. 0 |-> reader]
  <2>1. F = [i \in 0 .. 0 |-> Step(F, i)]
    OBVIOUS
  <2> QED
    BY <2>1
<1>2. ASSUME NEW k \in S PROVE k + 1 \in S
  <2>1. PICK F : F = [i \in 0 .. k |-> Step(F, i)]
    OBVIOUS
  <2> DEFINE last == Reads(F[k], events[k + 1])
             G == [i \in 0 .. k + 1 |-> IF i = k + 1 THEN last ELSE F[i]]
  <2>2. \A i \in 0 .. k : F[i] = Step(F, i)
    <3> HIDE DEF Step
    <3> QED BY <2>1
  <2>3. ASSUME NEW i \in 0 .. k + 1 PROVE G[i] = Step(G, i)
    <3>1. CASE i = k + 1
      <4>1. G[i] = last /\ i # 0 /\ i - 1 = k /\ G[k] = F[k]
        BY <3>1
      <4> HIDE DEF G
      <4> QED
        BY <3>1, <4>1
    <3>2. CASE i \in 0 .. k
      <4>1. G[i] = F[i] /\ (i # 0 => G[i - 1] = F[i - 1])
        BY <3>2
      <4> HIDE DEF G
      <4> QED
        BY <3>2, <4>1, <2>2
    <3> QED
      BY <3>1, <3>2
  <2>4. G = [i \in 0 .. k + 1 |-> Step(G, i)]
    <3> HIDE DEF Step
    <3> QED BY <2>3
  <2> HIDE DEF G, Step
  <2> QED
    BY <2>4
<1> HIDE DEF S
<1>3. S = Nat
  BY <1>1, <1>2, NatIsInductive DEF S
<1> QED
  BY <1>3 DEF S

\* There is a reader after each event, and ReadsAll is the one after the last.
LEMMA ReadingSteps ==
  ASSUME NEW reader, NEW events, Len(events) \in Nat
  PROVE  \E F : ReaderAfter(reader, events, F) /\ ReadsAll(reader, events) = F[Len(events)]
<1> DEFINE F == CHOOSE F : F = [i \in 0 .. Len(events) |->
                                 IF i = 0 THEN reader ELSE Reads(F[i - 1], events[i])]
<1>1. F = [i \in 0 .. Len(events) |-> IF i = 0 THEN reader ELSE Reads(F[i - 1], events[i])]
  BY ReadingExists
<1>2. ReadsAll(reader, events) = F[Len(events)]
  BY DEF ReadsAll
<1> HIDE DEF F
<1>3. \A i \in 0 .. Len(events) : F[i] = IF i = 0 THEN reader ELSE Reads(F[i - 1], events[i])
  BY <1>1
<1>4. ReaderAfter(reader, events, F)
  BY <1>3 DEF ReaderAfter
<1> QED
  BY <1>2, <1>4

\* A function that goes from reader to reader leads to what ReadsAll returns.
LEMMA ReadingIs ==
  ASSUME NEW reader, NEW events, Len(events) \in Nat, NEW F, ReaderAfter(reader, events, F)
  PROVE  ReadsAll(reader, events) = F[Len(events)]
<1>1. PICK G : ReaderAfter(reader, events, G) /\ ReadsAll(reader, events) = G[Len(events)]
  BY ReadingSteps
<1> DEFINE S == {k \in Nat : k =< Len(events) => F[k] = G[k]}
<1>2. 0 \in S
  BY <1>1 DEF ReaderAfter
<1>3. ASSUME NEW k \in S PROVE k + 1 \in S
  <2>1. CASE k + 1 =< Len(events)
    <3>1. k + 1 \in 1 .. Len(events) /\ (k + 1) - 1 = k /\ k =< Len(events)
      BY <2>1
    <3>2. F[k + 1] = Reads(F[k], events[k + 1]) /\ G[k + 1] = Reads(G[k], events[k + 1])
      BY <3>1, <1>1 DEF ReaderAfter
    <3> QED
      BY <3>1, <3>2
  <2> QED
    BY <2>1
<1>4. S = Nat
  <2> HIDE DEF S
  <2> QED BY <1>2, <1>3, NatIsInductive DEF S
<1>5. Len(events) \in S
  BY <1>4
<1> QED
  BY <1>1, <1>5

\* Nothing to read changes nothing.
LEMMA ReadsNone ==
  ASSUME NEW reader
  PROVE  ReadsAll(reader, <<>>) = reader
<1> DEFINE F == [n \in {0} |-> reader]
<1>1. ReaderAfter(reader, <<>>, F) /\ Len(<<>>) = 0
  BY DEF ReaderAfter
<1> QED
  BY <1>1, ReadingIs

\* One more event is read by the reader of those before.
LEMMA ReadsOneMore ==
  ASSUME NEW reader, NEW E, NEW events \in Seq(E), NEW e \in E
  PROVE  ReadsAll(reader, Append(events, e)) = Reads(ReadsAll(reader, events), e)
<1> DEFINE all == Append(events, e)
           N == Len(events)
<1>1. PICK F : ReaderAfter(reader, events, F) /\ ReadsAll(reader, events) = F[N]
  BY ReadingSteps
<1> DEFINE G == [n \in 0 .. N + 1 |-> IF n = N + 1 THEN Reads(F[N], e) ELSE F[n]]
<1>2. Len(all) = N + 1 /\ all[N + 1] = e /\ (\A n \in 1 .. N : all[n] = events[n]) /\ N \in Nat
  OBVIOUS
<1>3. \A n \in 0 .. N : G[n] = F[n]
  OBVIOUS
<1>4. G[N + 1] = Reads(F[N], e)
  OBVIOUS
<1> HIDE DEF all, G, N
<1>5. ASSUME NEW n \in 1 .. N + 1 PROVE G[n] = Reads(G[n - 1], all[n])
  <2>1. CASE n = N + 1
    BY <2>1, <1>2, <1>3, <1>4
  <2>2. CASE n \in 1 .. N
    <3>1. F[n] = Reads(F[n - 1], events[n])
      BY <2>2, <1>1 DEF ReaderAfter, N
    <3> QED
      BY <3>1, <2>2, <1>2, <1>3
  <2> QED
    BY <2>1, <2>2, <1>2
<1>6. ReaderAfter(reader, all, G)
  BY <1>1, <1>2, <1>3, <1>5 DEF ReaderAfter
<1>7. ReadsAll(reader, all) = G[Len(all)]
  BY <1>2, <1>6, ReadingIs
<1> QED
  BY <1>1, <1>2, <1>4, <1>7 DEF all

\* What follows is read by the reader of what came before.
LEMMA ReadsBoth ==
  ASSUME NEW reader, NEW E, NEW first \in Seq(E), NEW second \in Seq(E)
  PROVE  ReadsAll(reader, first \o second) = ReadsAll(ReadsAll(reader, first), second)
<1> DEFINE all == first \o second
           M == Len(first)
           N == Len(second)
<1>1. PICK F : ReaderAfter(reader, first, F) /\ ReadsAll(reader, first) = F[M]
  BY ReadingSteps
<1>2. PICK G : ReaderAfter(F[M], second, G) /\ ReadsAll(F[M], second) = G[N]
  BY ReadingSteps
<1> DEFINE H == [n \in 0 .. M + N |-> IF n =< M THEN F[n] ELSE G[n - M]]
<1>3. /\ M \in Nat /\ N \in Nat /\ Len(all) = M + N
      /\ \A n \in 1 .. M : all[n] = first[n]
      /\ \A n \in M + 1 .. M + N : all[n] = second[n - M]
  OBVIOUS
<1>4. G[0] = F[M]
  BY <1>2 DEF ReaderAfter
<1>5. \A n \in 0 .. M : H[n] = F[n]
  OBVIOUS
<1>6. \A n \in M .. M + N : H[n] = G[n - M]
  BY <1>4
<1> HIDE DEF all, H, M, N
<1>7. ASSUME NEW n \in 1 .. M + N PROVE H[n] = Reads(H[n - 1], all[n])
  <2>1. CASE n \in 1 .. M
    <3>1. F[n] = Reads(F[n - 1], first[n])
      BY <2>1, <1>1 DEF ReaderAfter, M
    <3> QED
      BY <3>1, <2>1, <1>3, <1>5
  <2>2. CASE n \in M + 1 .. M + N
    <3>1. n - M \in 1 .. N /\ (n - M) - 1 = (n - 1) - M /\ n - 1 \in M .. M + N /\ n \in M .. M + N
      BY <2>2, <1>3
    <3>2. G[n - M] = Reads(G[(n - M) - 1], second[n - M])
      BY <3>1, <1>2 DEF ReaderAfter, N
    <3> QED
      BY <3>1, <3>2, <2>2, <1>3, <1>6
  <2> QED
    BY <2>1, <2>2, <1>3
<1>8. ReaderAfter(reader, all, H)
  BY <1>1, <1>3, <1>5, <1>7 DEF ReaderAfter
<1>9. ReadsAll(reader, all) = H[Len(all)]
  BY <1>3, <1>8, ReadingIs
<1>10. H[M + N] = G[N]
  BY <1>3, <1>6
<1> QED
  BY <1>1, <1>2, <1>3, <1>9, <1>10 DEF all

-----------------------------------------------------------------------------
(* The reader in step with the ledger *)

Types == {"message", "thinking", "text", "tool_use"}

Events ==
  [kind : {"message_start", "start", "delta", "stop", "message_delta", "message_stop"},
   block : Nat, type : Types]

Blocks == [type : {"thinking", "text", "tool_use"}, content : Contents]

ToolStates ==
  [block : Nat, named : BOOLEAN, early : Contents, withheld : Contents, sent : BOOLEAN]

Ledgers ==
  [blocks : Seq(Blocks), open : SUBSET Nat, thinking : Nat, text : Nat,
   tools : [Tools -> ToolStates]]

\* The reader of a message with these blocks, some of them open.
Reader(open, blocks) ==
  [started |-> TRUE, stopped |-> FALSE, open |-> open, blocks |-> blocks, broken |-> FALSE]

\* The reader of a message of which the ledger tells the truth.
Shown(l) == Reader(l.open, DOMAIN l.blocks)

WellTyped(l) == l \in Ledgers /\ l.open \subseteq DOMAIN l.blocks

\* The events produced so far show the reader what the ledger says.
InStep(reader, e) ==
  /\ e = [ledger |-> e.ledger, out |-> e.out]
  /\ WellTyped(e.ledger)
  /\ e.out \in Seq(Events)
  /\ ReadsAll(reader, e.out) = Shown(e.ledger)

LEMMA JoinedType == \A a, b \in Contents : Joined(a, b) \in Contents
  BY DEF Joined, Contents, Fragments

\* A block that is new is started, one that is open is written to or stopped.
LEMMA ReadsStart ==
  ASSUME NEW open, NEW blocks, NEW block, NEW type, block \notin blocks
  PROVE  Reads(Reader(open, blocks), Event("start", block, type)) =
           Reader(open \cup {block}, blocks \cup {block})
<1> DEFINE reader == Reader(open, blocks)
           e == Event("start", block, type)
<1>1. Kept(reader, e)
  BY DEF Kept, Reader, Event
<1>2. Reads(reader, e) = [started |-> TRUE, stopped |-> FALSE, open |-> open \cup {block},
                          blocks |-> blocks \cup {block}, broken |-> FALSE]
  BY <1>1 DEF Reads, Reader, Event
<1> QED
  BY <1>2 DEF Reader

LEMMA ReadsDelta ==
  ASSUME NEW open, NEW blocks, NEW block \in open, NEW type
  PROVE  Reads(Reader(open, blocks), Event("delta", block, type)) = Reader(open, blocks)
<1> DEFINE reader == Reader(open, blocks)
           e == Event("delta", block, type)
<1>1. Kept(reader, e)
  BY DEF Kept, Reader, Event
<1>2. Reads(reader, e) = [started |-> TRUE, stopped |-> FALSE, open |-> open,
                          blocks |-> blocks, broken |-> FALSE]
  BY <1>1 DEF Reads, Reader, Event
<1> QED
  BY <1>2 DEF Reader

LEMMA ReadsStop ==
  ASSUME NEW open, NEW blocks, NEW block \in open, NEW type
  PROVE  Reads(Reader(open, blocks), Event("stop", block, type)) = Reader(open \ {block}, blocks)
<1> DEFINE reader == Reader(open, blocks)
           e == Event("stop", block, type)
<1>1. Kept(reader, e)
  BY DEF Kept, Reader, Event
<1>2. Reads(reader, e) = [started |-> TRUE, stopped |-> FALSE, open |-> open \ {block},
                          blocks |-> blocks, broken |-> FALSE]
  BY <1>1 DEF Reads, Reader, Event
<1> QED
  BY <1>2 DEF Reader

\* The next index is free, and the block it gets is open.
LEMMA StartInStep ==
  ASSUME NEW reader, NEW e, InStep(reader, e), NEW type \in {"thinking", "text", "tool_use"}
  PROVE  InStep(reader, StartBlock(e, type))
<1> DEFINE l == e.ledger
           block == Len(l.blocks) + 1
           new == StartBlock(e, type).ledger
           event == Event("start", block, type)
<1>1. l \in Ledgers /\ l.blocks \in Seq(Blocks) /\ block \in Nat /\ l.open \subseteq DOMAIN l.blocks
  BY DEF InStep, WellTyped, Ledgers
<1>2. [type |-> type, content |-> "none"] \in Blocks
  BY DEF Blocks, Contents
<1>3. new = [l EXCEPT !.blocks = Append(@, [type |-> type, content |-> "none"]),
                      !.open = @ \cup {block},
                      !.thinking = IF type = "thinking" THEN block ELSE @,
                      !.text = IF type = "text" THEN block ELSE @]
  BY DEF StartBlock
<1>4. new.blocks \in Seq(Blocks) /\ DOMAIN new.blocks = DOMAIN l.blocks \cup {block}
      /\ block \notin DOMAIN l.blocks
  BY <1>1, <1>2, <1>3 DEF Ledgers
<1>5. new \in Ledgers /\ new.open = l.open \cup {block}
  <2>1. new.open = l.open \cup {block} /\ new.open \in SUBSET Nat
    BY <1>1, <1>3 DEF Ledgers
  <2>2. new.thinking \in Nat /\ new.text \in Nat /\ new.tools = l.tools
    BY <1>1, <1>3 DEF Ledgers
  <2>3. new = [blocks |-> new.blocks, open |-> new.open, thinking |-> new.thinking,
               text |-> new.text, tools |-> new.tools]
    BY <1>1, <1>3 DEF Ledgers
  <2> HIDE DEF new
  <2> QED
    BY <1>1, <1>4, <2>1, <2>2, <2>3 DEF Ledgers
<1>6. WellTyped(new)
  BY <1>1, <1>4, <1>5 DEF WellTyped
<1>7. event \in Events /\ StartBlock(e, type) = [ledger |-> new, out |-> Append(e.out, event)]
  BY <1>1 DEF Event, Events, Types, StartBlock
<1>8. ReadsAll(reader, Append(e.out, event)) = Reads(Shown(l), event)
  BY <1>7, ReadsOneMore DEF InStep
<1>9. Reads(Shown(l), event) = Reader(l.open \cup {block}, DOMAIN l.blocks \cup {block})
  BY <1>4, ReadsStart DEF Shown
<1>10. Reader(l.open \cup {block}, DOMAIN l.blocks \cup {block}) = Shown(new)
  BY <1>4, <1>5 DEF Shown
<1>11. Append(e.out, event) \in Seq(Events)
  BY <1>7 DEF InStep
<1> HIDE DEF l, new, event, block
<1> QED
  BY <1>6, <1>7, <1>8, <1>9, <1>10, <1>11 DEF InStep

\* What is written to an open block leaves every block where it is.
LEMMA DeltaInStep ==
  ASSUME NEW reader, NEW e, InStep(reader, e), NEW block \in e.ledger.open, NEW content \in Contents
  PROVE  InStep(reader, Delta(e, block, content))
<1> DEFINE l == e.ledger
           new == Delta(e, block, content).ledger
           event == Event("delta", block, l.blocks[block].type)
<1>1. l \in Ledgers /\ l.blocks \in Seq(Blocks) /\ block \in Nat /\ block \in DOMAIN l.blocks
      /\ l.open \subseteq DOMAIN l.blocks
  BY DEF InStep, WellTyped, Ledgers
<1>2. l.blocks[block] \in Blocks
  BY <1>1
<1>3. new = [l EXCEPT !.blocks[block].content = Joined(@, content)]
  BY DEF Delta
<1>4. [l.blocks[block] EXCEPT !.content = Joined(@, content)] \in Blocks
  BY <1>2, JoinedType DEF Blocks
<1>5. new.blocks \in Seq(Blocks) /\ DOMAIN new.blocks = DOMAIN l.blocks
  BY <1>1, <1>3, <1>4 DEF Ledgers
<1>6. new \in Ledgers /\ new.open = l.open
  BY <1>1, <1>3, <1>5 DEF Ledgers
<1>7. event \in Events /\ Delta(e, block, content) = [ledger |-> new, out |-> Append(e.out, event)]
  BY <1>1, <1>2 DEF Event, Events, Types, Delta, Blocks
<1>8. ReadsAll(reader, Append(e.out, event)) = Reads(Shown(l), event)
  BY <1>7, ReadsOneMore DEF InStep
<1>9. Reads(Shown(l), event) = Shown(l)
  BY ReadsDelta DEF Shown
<1>10. Shown(l) = Shown(new)
  BY <1>5, <1>6 DEF Shown
<1>11. Append(e.out, event) \in Seq(Events)
  BY <1>7 DEF InStep
<1>12. WellTyped(new)
  BY <1>1, <1>5, <1>6 DEF WellTyped
<1> HIDE DEF l, new, event
<1> QED
  BY <1>7, <1>8, <1>9, <1>10, <1>11, <1>12 DEF InStep

LEMMA StopInStep ==
  ASSUME NEW reader, NEW e, InStep(reader, e), NEW block \in e.ledger.open
  PROVE  InStep(reader, StopBlock(e, block))
<1> DEFINE l == e.ledger
           new == StopBlock(e, block).ledger
           event == Event("stop", block, l.blocks[block].type)
<1>1. l \in Ledgers /\ l.blocks \in Seq(Blocks) /\ block \in Nat /\ block \in DOMAIN l.blocks
      /\ l.open \subseteq DOMAIN l.blocks
  BY DEF InStep, WellTyped, Ledgers
<1>2. l.blocks[block] \in Blocks
  BY <1>1
<1>3. new = [l EXCEPT !.open = @ \ {block}]
  BY DEF StopBlock
<1>4. new \in Ledgers /\ new.open = l.open \ {block} /\ new.blocks = l.blocks
  BY <1>1, <1>3 DEF Ledgers
<1>5. event \in Events /\ StopBlock(e, block) = [ledger |-> new, out |-> Append(e.out, event)]
  BY <1>1, <1>2 DEF Event, Events, Types, StopBlock, Blocks
<1>6. ReadsAll(reader, Append(e.out, event)) = Reads(Shown(l), event)
  BY <1>5, ReadsOneMore DEF InStep
<1>7. Reads(Shown(l), event) = Reader(l.open \ {block}, DOMAIN l.blocks)
  BY ReadsStop DEF Shown
<1>8. Reader(l.open \ {block}, DOMAIN l.blocks) = Shown(new)
  BY <1>4 DEF Shown
<1>10. Append(e.out, event) \in Seq(Events)
  BY <1>5 DEF InStep
<1>11. WellTyped(new)
  BY <1>1, <1>4 DEF WellTyped
<1> HIDE DEF l, new, event
<1> QED
  BY <1>5, <1>6, <1>7, <1>8, <1>10, <1>11 DEF InStep

\* A finite set has a list of its elements, each of them once.
LEMMA Listed ==
  ASSUME NEW S, IsFiniteSet(S)
  PROVE  LET list == SetToSeq(S)
         IN  /\ list \in Seq(S) /\ Len(list) = Cardinality(S) /\ Cardinality(S) \in Nat
             /\ IsInjective(list)
             /\ \A x \in S : \E n \in DOMAIN list : list[n] = x
<1> DEFINE N == Cardinality(S)
           list == SetToSeq(S)
<1>1. N \in Nat /\ ExistsBijection(1 .. N, S)
  BY FS_CardinalityType
<1>2. \E f \in [1 .. N -> S] : IsInjective(f)
  BY <1>1 DEF ExistsBijection, Bijection, Injection
<1>3. list \in [1 .. N -> S] /\ IsInjective(list)
  BY <1>2 DEF SetToSeq
<1>4. IsFiniteSet(1 .. N) /\ Cardinality(1 .. N) = N
  BY <1>1, FS_Interval
<1> HIDE DEF list
<1>5. list \in Injection(1 .. N, S)
  BY <1>3 DEF Injection
<1>6. list \in Surjection(1 .. N, S)
  BY <1>4, <1>5, FS_Injection
<1>7. \A x \in S : \E n \in 1 .. N : list[n] = x
  BY <1>6 DEF Surjection
<1> QED
  BY <1>1, <1>3, <1>7 DEF list

\* The open blocks of a ledger are finitely many.
LEMMA BlocksFinite ==
  ASSUME NEW l, WellTyped(l), NEW blocks \in SUBSET DOMAIN l.blocks
  PROVE  IsFiniteSet(blocks) /\ blocks \subseteq Nat
<1>1. l.blocks \in Seq(Blocks)
  BY DEF WellTyped, Ledgers
<1>2. Len(l.blocks) \in Nat /\ DOMAIN l.blocks = 1 .. Len(l.blocks)
  BY <1>1
<1>3. blocks \in SUBSET Nat /\ \A b \in blocks : b =< Len(l.blocks)
  BY <1>2
<1> QED
  BY <1>2, <1>3, FS_BoundedSetOfNaturals

\* One event for each of some blocks of the ledger, in some order.
LEMMA EachIs ==
  ASSUME NEW l, WellTyped(l), NEW blocks \in SUBSET DOMAIN l.blocks,
         NEW kind \in {"start", "delta", "stop"}
  PROVE  LET list == SetToSeq(blocks)
         IN  /\ list \in Seq(blocks) /\ IsInjective(list)
             /\ \A b \in blocks : \E n \in DOMAIN list : list[n] = b
             /\ Each(kind, l, blocks) \in Seq(Events)
             /\ Len(Each(kind, l, blocks)) = Len(list)
             /\ \A n \in DOMAIN list :
                  \E type : Each(kind, l, blocks)[n] = Event(kind, list[n], type)
<1> DEFINE list == SetToSeq(blocks)
<1>1. /\ list \in Seq(blocks) /\ IsInjective(list)
      /\ \A b \in blocks : \E n \in DOMAIN list : list[n] = b
  BY BlocksFinite, Listed
<1>2. Each(kind, l, blocks) = [n \in DOMAIN list |-> Event(kind, list[n], l.blocks[list[n]].type)]
  BY DEF Each
<1>3. l.blocks \in Seq(Blocks) /\ blocks \subseteq Nat
  BY BlocksFinite DEF WellTyped, Ledgers
<1> HIDE DEF list
<1>4. ASSUME NEW n \in DOMAIN list
      PROVE  Event(kind, list[n], l.blocks[list[n]].type) \in Events
  <2>1. list[n] \in blocks
    BY <1>1
  <2>2. l.blocks[list[n]] \in Blocks
    BY <1>3, <2>1
  <2> QED
    BY <1>3, <2>1, <2>2 DEF Event, Events, Types, Blocks
<1>5. DOMAIN list = 1 .. Len(list) /\ Len(list) \in Nat
  BY <1>1
<1>6. Each(kind, l, blocks) \in [1 .. Len(list) -> Events]
  BY <1>2, <1>4, <1>5
<1>7. Each(kind, l, blocks) \in Seq(Events) /\ Len(Each(kind, l, blocks)) = Len(list)
  BY <1>5, <1>6
<1> QED
  BY <1>1, <1>2, <1>7 DEF list

\* Of blocks that are open each can be written to once more.
LEMMA EachDeltaRead ==
  ASSUME NEW l, WellTyped(l), NEW blocks \in SUBSET l.open
  PROVE  ReadsAll(Shown(l), Each("delta", l, blocks)) = Shown(l)
<1> DEFINE list == SetToSeq(blocks)
           events == Each("delta", l, blocks)
           F == [n \in 0 .. Len(list) |-> Shown(l)]
<1>1. /\ list \in Seq(blocks) /\ Len(events) = Len(list)
      /\ \A n \in DOMAIN list : \E type : events[n] = Event("delta", list[n], type)
  <2>1. blocks \in SUBSET DOMAIN l.blocks
    BY DEF WellTyped
  <2> QED
    BY <2>1, EachIs
<1> HIDE DEF events, list
<1>2. ASSUME NEW n \in 1 .. Len(events) PROVE F[n] = Reads(F[n - 1], events[n])
  <2>1. n \in DOMAIN list /\ list[n] \in l.open /\ n \in 0 .. Len(list) /\ n - 1 \in 0 .. Len(list)
    BY <1>1
  <2>2. PICK type : events[n] = Event("delta", list[n], type)
    BY <1>1, <2>1
  <2>3. Reads(Shown(l), events[n]) = Shown(l)
    BY <2>1, <2>2, ReadsDelta DEF Shown
  <2> QED
    BY <2>1, <2>3
<1>3. ReaderAfter(Shown(l), events, F)
  BY <1>1, <1>2 DEF ReaderAfter
<1>4. ReadsAll(Shown(l), events) = F[Len(events)]
  BY <1>1, <1>3, ReadingIs
<1> QED
  BY <1>1, <1>4 DEF events

\* Of blocks that are open each can be stopped once.
LEMMA EachStopRead ==
  ASSUME NEW l, WellTyped(l), NEW blocks \in SUBSET l.open
  PROVE  ReadsAll(Shown(l), Each("stop", l, blocks)) = Reader(l.open \ blocks, DOMAIN l.blocks)
<1> DEFINE list == SetToSeq(blocks)
           events == Each("stop", l, blocks)
           Left(n) == l.open \ {list[i] : i \in 1 .. n}
           F == [n \in 0 .. Len(list) |-> Reader(Left(n), DOMAIN l.blocks)]
<1>1. /\ list \in Seq(blocks) /\ Len(events) = Len(list) /\ IsInjective(list)
      /\ \A b \in blocks : \E n \in DOMAIN list : list[n] = b
      /\ \A n \in DOMAIN list : \E type : events[n] = Event("stop", list[n], type)
  <2>1. blocks \in SUBSET DOMAIN l.blocks
    BY DEF WellTyped
  <2> QED
    BY <2>1, EachIs
<1> HIDE DEF events, list
<1>2. DOMAIN list = 1 .. Len(list) /\ Len(list) \in Nat
  BY <1>1
<1>3. ASSUME NEW n \in 1 .. Len(events) PROVE F[n] = Reads(F[n - 1], events[n])
  <2>1. n \in DOMAIN list /\ list[n] \in l.open /\ n \in 0 .. Len(list) /\ n - 1 \in 0 .. Len(list)
    BY <1>1, <1>2
  <2>2. list[n] \in Left(n - 1)
    <3>1. ASSUME NEW i \in 1 .. n - 1 PROVE list[i] # list[n]
      <4>1. i \in DOMAIN list /\ i # n
        BY <1>1, <1>2, <2>1
      <4> QED
        BY <1>1, <2>1, <4>1 DEF IsInjective
    <3> QED
      BY <2>1, <3>1
  <2>3. Left(n) = Left(n - 1) \ {list[n]}
    <3>1. 1 .. n = (1 .. n - 1) \cup {n}
      BY <2>1
    <3> QED
      BY <3>1
  <2>4. PICK type : events[n] = Event("stop", list[n], type)
    BY <1>1, <2>1
  <2> HIDE DEF Left
  <2>5. Reads(Reader(Left(n - 1), DOMAIN l.blocks), events[n]) = Reader(Left(n), DOMAIN l.blocks)
    BY <2>2, <2>3, <2>4, ReadsStop
  <2> QED
    BY <2>1, <2>5
<1>4. F[0] = Shown(l)
  <2>1. Left(0) = l.open /\ 0 \in 0 .. Len(list)
    BY <1>2
  <2> HIDE DEF Left
  <2>2. F[0] = Reader(Left(0), DOMAIN l.blocks)
    BY <2>1
  <2> QED
    BY <2>1, <2>2 DEF Shown
<1>5. ReaderAfter(Shown(l), events, F)
  <2> HIDE DEF F
  <2> QED BY <1>3, <1>4 DEF ReaderAfter
<1>6. ReadsAll(Shown(l), events) = F[Len(events)]
  <2> HIDE DEF F
  <2> QED BY <1>1, <1>2, <1>5, ReadingIs
<1>7. Left(Len(list)) = l.open \ blocks
  <2>1. {list[i] : i \in 1 .. Len(list)} = blocks
    BY <1>1, <1>2
  <2> QED
    BY <2>1
<1> QED
  BY <1>1, <1>2, <1>6, <1>7 DEF events

\* Stopping open blocks all at once shows them stopped.
LEMMA StoppedInStep ==
  ASSUME NEW reader, NEW e, InStep(reader, e), NEW blocks \in SUBSET e.ledger.open
  PROVE  InStep(reader, Stopped(e, blocks))
<1> DEFINE l == e.ledger
           new == Stopped(e, blocks).ledger
           events == Each("stop", l, blocks)
<1>1. l \in Ledgers /\ WellTyped(l) /\ l.open \subseteq DOMAIN l.blocks
  BY DEF InStep, WellTyped
<1>2. new = [l EXCEPT !.open = @ \ blocks]
  BY DEF Stopped
<1>3. new \in Ledgers /\ new.open = l.open \ blocks /\ new.blocks = l.blocks
  BY <1>1, <1>2 DEF Ledgers
<1>4. events \in Seq(Events)
  BY <1>1, EachIs
<1>5. Stopped(e, blocks) = [ledger |-> new, out |-> e.out \o events]
  BY DEF Stopped
<1>6. ReadsAll(reader, e.out \o events) = ReadsAll(Shown(l), events)
  <2> HIDE DEF events
  <2> QED BY <1>4, ReadsBoth DEF InStep
<1>7. ReadsAll(Shown(l), events) = Reader(l.open \ blocks, DOMAIN l.blocks)
  BY <1>1, EachStopRead
<1>8. Reader(l.open \ blocks, DOMAIN l.blocks) = Shown(new)
  BY <1>3 DEF Shown
<1>9. e.out \o events \in Seq(Events)
  <2> HIDE DEF events
  <2> QED BY <1>4 DEF InStep
<1>10. WellTyped(new)
  BY <1>1, <1>3 DEF WellTyped
<1> HIDE DEF l, new, events
<1> QED
  BY <1>5, <1>6, <1>7, <1>8, <1>9, <1>10 DEF InStep

-----------------------------------------------------------------------------
(* The ledger: a block is open only for the thinking, the text or a tool call *)

Owned(l) == {l.thinking, l.text} \cup BlocksOf(l, StartedTools(l))

ToolsRooted(l) ==
  /\ \A t \in Tools : ~l.tools[t].named <=> l.tools[t].block = NoBlock
  /\ \A t \in Tools : KindOf[t] = "plain" => l.tools[t].withheld = "none"
  /\ \A t \in StartedTools(l) :
       l.tools[t].block \in l.open /\ l.blocks[l.tools[t].block].type = "tool_use"
  /\ \A t, u \in StartedTools(l) : t # u => l.tools[t].block # l.tools[u].block

Rooted(l) ==
  /\ WellTyped(l)
  /\ l.open \subseteq Owned(l)
  /\ l.thinking # NoBlock =>
       l.thinking \in DOMAIN l.blocks /\ l.blocks[l.thinking].type = "thinking"
  /\ l.text # NoBlock => l.text \in DOMAIN l.blocks /\ l.blocks[l.text].type = "text"
  /\ ToolsRooted(l)

\* A call that must be rewritten shows no part of its arguments.
Hidden(l) ==
  \A t \in StartedTools(l) :
    KindOf[t] = "plain" \/ l.blocks[l.tools[t].block].content \notin {"part", "rest"}

NoTools(l) == ToolBlocks(l) = {}

Tells(reader, e) == InStep(reader, e) /\ Rooted(e.ledger) /\ Hidden(e.ledger)

LEMMA LedgerFields ==
  ASSUME NEW l, WellTyped(l)
  PROVE  /\ l \in Ledgers
         /\ l.blocks \in Seq(Blocks) /\ Len(l.blocks) \in Nat /\ DOMAIN l.blocks = 1 .. Len(l.blocks)
         /\ l.open \subseteq DOMAIN l.blocks /\ NoBlock \notin l.open
         /\ l.thinking \in Nat /\ l.text \in Nat
         /\ l.tools \in [Tools -> ToolStates]
<1>1. l \in Ledgers /\ l.open \subseteq DOMAIN l.blocks
  BY DEF WellTyped
<1>2. l.blocks \in Seq(Blocks) /\ l.thinking \in Nat /\ l.text \in Nat /\ l.tools \in [Tools -> ToolStates]
  BY <1>1 DEF Ledgers
<1>3. Len(l.blocks) \in Nat /\ DOMAIN l.blocks = 1 .. Len(l.blocks)
  BY <1>2
<1>4. NoBlock \notin DOMAIN l.blocks
  BY <1>3 DEF NoBlock
<1> QED
  BY <1>1, <1>2, <1>3, <1>4

\* What starting a block changes.
LEMMA StartedLedger ==
  ASSUME NEW e, WellTyped(e.ledger), NEW type \in {"thinking", "text", "tool_use"}
  PROVE  LET l == e.ledger
             n == Len(l.blocks) + 1
             new == StartBlock(e, type).ledger
         IN  /\ n \in Nat /\ n # NoBlock /\ n \notin DOMAIN l.blocks /\ n = Len(new.blocks)
             /\ DOMAIN new.blocks = DOMAIN l.blocks \cup {n}
             /\ \A b \in DOMAIN l.blocks : new.blocks[b] = l.blocks[b]
             /\ new.blocks[n].type = type /\ new.blocks[n].content = "none"
             /\ new.open = l.open \cup {n}
             /\ new.tools = l.tools
             /\ new.thinking = IF type = "thinking" THEN n ELSE l.thinking
             /\ new.text = IF type = "text" THEN n ELSE l.text
<1> DEFINE l == e.ledger
           n == Len(l.blocks) + 1
           block == [type |-> type, content |-> "none"]
           new == StartBlock(e, type).ledger
<1>1. l \in Ledgers /\ l.blocks \in Seq(Blocks) /\ Len(l.blocks) \in Nat /\ DOMAIN l.blocks = 1 .. Len(l.blocks)
  BY LedgerFields
<1>2. new = [l EXCEPT !.blocks = Append(@, block), !.open = @ \cup {n},
                      !.thinking = IF type = "thinking" THEN n ELSE @,
                      !.text = IF type = "text" THEN n ELSE @]
  BY DEF StartBlock
<1>3. block \in Blocks
  BY DEF Blocks, Contents
<1>4. new.blocks = Append(l.blocks, block)
  BY <1>1, <1>2 DEF Ledgers
<1>5. /\ new.open = l.open \cup {n} /\ new.tools = l.tools
      /\ new.thinking = IF type = "thinking" THEN n ELSE l.thinking
      /\ new.text = IF type = "text" THEN n ELSE l.text
  BY <1>1, <1>2 DEF Ledgers
<1> HIDE DEF new, block
<1>6. /\ DOMAIN new.blocks = DOMAIN l.blocks \cup {n} /\ n = Len(new.blocks)
      /\ \A b \in DOMAIN l.blocks : new.blocks[b] = l.blocks[b]
      /\ new.blocks[n] = block
  BY <1>1, <1>3, <1>4
<1>7. n \in Nat /\ n # NoBlock /\ n \notin DOMAIN l.blocks
  BY <1>1 DEF NoBlock
<1> QED
  BY <1>5, <1>6, <1>7 DEF new, block

\* What writing to a block and stopping one change.
LEMMA DeltaLedger ==
  ASSUME NEW e, WellTyped(e.ledger), NEW block \in DOMAIN e.ledger.blocks, NEW content \in Contents
  PROVE  LET l == e.ledger
             new == Delta(e, block, content).ledger
         IN  /\ DOMAIN new.blocks = DOMAIN l.blocks
             /\ \A b \in DOMAIN l.blocks : new.blocks[b].type = l.blocks[b].type
             /\ \A b \in DOMAIN l.blocks \ {block} : new.blocks[b] = l.blocks[b]
             /\ new.blocks[block].content = Joined(l.blocks[block].content, content)
             /\ new.open = l.open /\ new.tools = l.tools
             /\ new.thinking = l.thinking /\ new.text = l.text
<1> DEFINE l == e.ledger
           new == Delta(e, block, content).ledger
           written == [l.blocks[block] EXCEPT !.content = Joined(@, content)]
<1>1. l \in Ledgers /\ l.blocks \in Seq(Blocks)
  BY LedgerFields
<1>2. l.blocks[block] \in Blocks
  BY <1>1
<1>3. written.content = Joined(l.blocks[block].content, content) /\ written.type = l.blocks[block].type
  BY <1>2 DEF Blocks
<1>4. new = [l EXCEPT !.blocks = [@ EXCEPT ![block] = written]]
  BY DEF Delta
<1> HIDE DEF written
<1>5. new.blocks = [l.blocks EXCEPT ![block] = written]
  BY <1>1, <1>4 DEF Ledgers
<1>6. new.open = l.open /\ new.tools = l.tools /\ new.thinking = l.thinking /\ new.text = l.text
  BY <1>1, <1>4 DEF Ledgers
<1> HIDE DEF new
<1>7. /\ DOMAIN new.blocks = DOMAIN l.blocks
      /\ \A b \in DOMAIN l.blocks \ {block} : new.blocks[b] = l.blocks[b]
      /\ new.blocks[block] = written
  BY <1>1, <1>5
<1> QED
  BY <1>3, <1>6, <1>7 DEF new

LEMMA StopLedger ==
  ASSUME NEW e, WellTyped(e.ledger), NEW block
  PROVE  LET l == e.ledger
             new == StopBlock(e, block).ledger
         IN  /\ new.open = l.open \ {block}
             /\ new.blocks = l.blocks /\ new.tools = l.tools
             /\ new.thinking = l.thinking /\ new.text = l.text
<1>1. e.ledger \in Ledgers
  BY LedgerFields
<1> QED
  BY <1>1 DEF StopBlock, Ledgers

\* Only an open block that no tool call has is stopped, and the ledger stays rooted.
LEMMA StopTells ==
  ASSUME NEW reader, NEW e, Tells(reader, e), NEW block \in e.ledger.open,
         block \notin BlocksOf(e.ledger, StartedTools(e.ledger))
  PROVE  Tells(reader, StopBlock(e, block))
<1> DEFINE l == e.ledger
           new == StopBlock(e, block).ledger
<1>1. InStep(reader, StopBlock(e, block))
  BY StopInStep DEF Tells
<1>2. WellTyped(new) /\ WellTyped(l) /\ Rooted(l) /\ Hidden(l)
  BY <1>1 DEF InStep, Tells
<1>3. /\ new.open = l.open \ {block}
      /\ new.blocks = l.blocks /\ new.tools = l.tools
      /\ new.thinking = l.thinking /\ new.text = l.text
  BY <1>2, StopLedger
<1> HIDE DEF l, new
<1>4. StartedTools(new) = StartedTools(l)
  BY <1>3 DEF StartedTools
<1>5. BlocksOf(new, StartedTools(new)) = BlocksOf(l, StartedTools(l))
  BY <1>3, <1>4 DEF BlocksOf
<1>6. new.open \subseteq Owned(new)
  BY <1>2, <1>3, <1>5 DEF Owned, Rooted
<1>7. ToolsRooted(new)
  <2>1. ASSUME NEW t \in StartedTools(l) PROVE l.tools[t].block # block
    BY DEF BlocksOf, l
  <2> QED
    BY <1>2, <1>3, <1>4, <2>1 DEF ToolsRooted, Rooted
<1>8. Rooted(new)
  BY <1>2, <1>3, <1>6, <1>7 DEF Rooted
<1>9. Hidden(new)
  BY <1>2, <1>3, <1>4 DEF Hidden
<1> QED
  BY <1>1, <1>8, <1>9 DEF Tells, new

\* Thinking and text are not those of tool calls.
LEMMA ProseIsNoTool ==
  ASSUME NEW l, Rooted(l), NEW block \in {l.thinking, l.text}, block # NoBlock
  PROVE  block \notin BlocksOf(l, StartedTools(l))
<1>1. l.blocks[block].type \in {"thinking", "text"}
  BY DEF Rooted
<1>2. \A t \in StartedTools(l) : l.blocks[l.tools[t].block].type = "tool_use"
  BY DEF Rooted, ToolsRooted
<1> QED
  BY <1>1, <1>2 DEF BlocksOf

LEMMA StopOpenTells ==
  ASSUME NEW reader, NEW e, Tells(reader, e), NEW block \in {e.ledger.thinking, e.ledger.text}
  PROVE  LET f == StopOpen(e, block)
         IN  /\ Tells(reader, f)
             /\ f.ledger.open = e.ledger.open \ {block}
             /\ f.ledger.blocks = e.ledger.blocks /\ f.ledger.tools = e.ledger.tools
             /\ f.ledger.thinking = e.ledger.thinking /\ f.ledger.text = e.ledger.text
<1>1. Rooted(e.ledger) /\ WellTyped(e.ledger)
  BY DEF Tells, Rooted
<1>2. CASE block \in e.ledger.open
  <2>1. block # NoBlock
    BY <1>1, <1>2, LedgerFields
  <2>2. block \notin BlocksOf(e.ledger, StartedTools(e.ledger))
    BY <1>1, <2>1, ProseIsNoTool
  <2>3. Tells(reader, StopBlock(e, block))
    BY <1>2, <2>2, StopTells
  <2>4. StopOpen(e, block) = StopBlock(e, block)
    BY <1>2 DEF StopOpen
  <2> QED
    BY <1>1, <2>3, <2>4, StopLedger
<1>3. CASE block \notin e.ledger.open
  <2>1. StopOpen(e, block) = e
    BY <1>3 DEF StopOpen
  <2> QED
    BY <1>3, <2>1
<1> QED
  BY <1>2, <1>3

LEMMA CloseContentTells ==
  ASSUME NEW reader, NEW e, Tells(reader, e)
  PROVE  LET f == CloseContent(e)
         IN  /\ Tells(reader, f)
             /\ f.ledger.open = e.ledger.open \ {e.ledger.thinking, e.ledger.text}
             /\ f.ledger.blocks = e.ledger.blocks /\ f.ledger.tools = e.ledger.tools
             /\ f.ledger.thinking = e.ledger.thinking /\ f.ledger.text = e.ledger.text
<1> DEFINE g == StopOpen(e, e.ledger.thinking)
           f == StopOpen(g, g.ledger.text)
<1>1. /\ Tells(reader, g)
      /\ g.ledger.open = e.ledger.open \ {e.ledger.thinking}
      /\ g.ledger.blocks = e.ledger.blocks /\ g.ledger.tools = e.ledger.tools
      /\ g.ledger.thinking = e.ledger.thinking /\ g.ledger.text = e.ledger.text
  BY StopOpenTells
<1> HIDE DEF g
<1>2. /\ Tells(reader, f)
      /\ f.ledger.open = g.ledger.open \ {g.ledger.text}
      /\ f.ledger.blocks = g.ledger.blocks /\ f.ledger.tools = g.ledger.tools
      /\ f.ledger.thinking = g.ledger.thinking /\ f.ledger.text = g.ledger.text
  BY <1>1, StopOpenTells
<1>3. CloseContent(e) = f
  BY <1>1 DEF CloseContent, g
<1> HIDE DEF f
<1> QED
  BY <1>1, <1>2, <1>3

\* A block more for the thinking or the text, when the one before is not open.
LEMMA StartProseTells ==
  ASSUME NEW reader, NEW e, Tells(reader, e), NEW type \in {"thinking", "text"},
         type = "thinking" => e.ledger.thinking \notin e.ledger.open,
         type = "text" => e.ledger.text \notin e.ledger.open
  PROVE  Tells(reader, StartBlock(e, type))
<1> DEFINE l == e.ledger
           n == Len(l.blocks) + 1
           new == StartBlock(e, type).ledger
<1>1. InStep(reader, StartBlock(e, type))
  BY StartInStep DEF Tells
<1>2. WellTyped(new) /\ WellTyped(l) /\ Rooted(l) /\ Hidden(l)
  BY <1>1 DEF InStep, Tells
<1>3. /\ n \in Nat /\ n # NoBlock /\ n \notin DOMAIN l.blocks
      /\ DOMAIN new.blocks = DOMAIN l.blocks \cup {n}
      /\ \A b \in DOMAIN l.blocks : new.blocks[b] = l.blocks[b]
      /\ new.blocks[n].type = type
      /\ new.open = l.open \cup {n}
      /\ new.tools = l.tools
      /\ new.thinking = IF type = "thinking" THEN n ELSE l.thinking
      /\ new.text = IF type = "text" THEN n ELSE l.text
  BY <1>2, StartedLedger
<1>4. l.open \subseteq DOMAIN l.blocks
  BY <1>2 DEF WellTyped
<1>5. type = "thinking" => l.thinking \notin l.open
  OBVIOUS
<1>6. type = "text" => l.text \notin l.open
  OBVIOUS
<1> HIDE DEF l, new, n
<1>7. StartedTools(new) = StartedTools(l)
  BY <1>3 DEF StartedTools
<1>8. BlocksOf(new, StartedTools(new)) = BlocksOf(l, StartedTools(l))
  BY <1>3, <1>7 DEF BlocksOf
<1>9. new.open \subseteq Owned(new)
  BY <1>2, <1>3, <1>5, <1>6, <1>8 DEF Owned, Rooted
<1>10. \A t \in StartedTools(l) : l.tools[t].block \in DOMAIN l.blocks
  BY <1>2, <1>4 DEF Rooted, ToolsRooted
<1>11. ToolsRooted(new)
  BY <1>2, <1>3, <1>7, <1>10 DEF ToolsRooted, Rooted
<1>12. Rooted(new)
  BY <1>2, <1>3, <1>9, <1>11 DEF Rooted
<1>13. Hidden(new)
  BY <1>2, <1>3, <1>7, <1>10 DEF Hidden
<1> QED
  BY <1>1, <1>12, <1>13 DEF Tells, new

\* Writing to an open block leaves the ledger rooted.
LEMMA DeltaRooted ==
  ASSUME NEW reader, NEW e, InStep(reader, e), Rooted(e.ledger),
         NEW block \in e.ledger.open, NEW content \in Contents
  PROVE  LET f == Delta(e, block, content)
         IN  InStep(reader, f) /\ Rooted(f.ledger) /\ StartedTools(f.ledger) = StartedTools(e.ledger)
<1> DEFINE l == e.ledger
           new == Delta(e, block, content).ledger
<1>1. InStep(reader, Delta(e, block, content))
  BY DeltaInStep
<1>2. WellTyped(new) /\ WellTyped(l) /\ Rooted(l) /\ block \in DOMAIN l.blocks
  BY <1>1 DEF InStep, WellTyped
<1>3. /\ DOMAIN new.blocks = DOMAIN l.blocks
      /\ \A b \in DOMAIN l.blocks : new.blocks[b].type = l.blocks[b].type
      /\ new.open = l.open /\ new.tools = l.tools
      /\ new.thinking = l.thinking /\ new.text = l.text
  BY <1>2, DeltaLedger
<1>4. l.open \subseteq DOMAIN l.blocks
  BY <1>2 DEF WellTyped
<1> HIDE DEF l, new
<1>5. StartedTools(new) = StartedTools(l)
  BY <1>3 DEF StartedTools
<1>6. BlocksOf(new, StartedTools(new)) = BlocksOf(l, StartedTools(l))
  BY <1>3, <1>5 DEF BlocksOf
<1>7. new.open \subseteq Owned(new)
  BY <1>2, <1>3, <1>6 DEF Owned, Rooted
<1>8. \A t \in StartedTools(l) : l.tools[t].block \in DOMAIN l.blocks
  BY <1>2, <1>4 DEF Rooted, ToolsRooted
<1>9. ToolsRooted(new)
  BY <1>2, <1>3, <1>5, <1>8 DEF ToolsRooted, Rooted
<1>10. Rooted(new)
  BY <1>2, <1>3, <1>7, <1>9 DEF Rooted
<1> QED
  BY <1>1, <1>5, <1>10 DEF l, new

\* f goes on from e in prose: no tool call is touched, no block is lost.
GoesOn(e, f) ==
  /\ f.ledger.tools = e.ledger.tools
  /\ DOMAIN e.ledger.blocks \subseteq DOMAIN f.ledger.blocks
  /\ NoTools(e.ledger) => NoTools(f.ledger)

LEMMA GoesOnAgain ==
  ASSUME NEW e, NEW f, NEW g, GoesOn(e, f), GoesOn(f, g)
  PROVE  GoesOn(e, g)
BY DEF GoesOn

LEMMA StopOpenGoesOn ==
  ASSUME NEW reader, NEW e, Tells(reader, e), NEW block \in {e.ledger.thinking, e.ledger.text}
  PROVE  GoesOn(e, StopOpen(e, block))
<1> DEFINE f == StopOpen(e, block)
<1>1. f.ledger.blocks = e.ledger.blocks /\ f.ledger.tools = e.ledger.tools
  <2>1. WellTyped(e.ledger)
    BY DEF Tells, InStep
  <2> QED
    BY <2>1, StopLedger DEF StopOpen
<1> HIDE DEF f
<1>2. GoesOn(e, f)
  BY <1>1 DEF GoesOn, NoTools, ToolBlocks
<1> QED
  BY <1>2 DEF f

LEMMA StartProseGoesOn ==
  ASSUME NEW e, WellTyped(e.ledger), NEW type \in {"thinking", "text"}
  PROVE  GoesOn(e, StartBlock(e, type))
<1> DEFINE l == e.ledger
           n == Len(l.blocks) + 1
           new == StartBlock(e, type).ledger
<1>1. /\ DOMAIN new.blocks = DOMAIN l.blocks \cup {n}
      /\ \A b \in DOMAIN l.blocks : new.blocks[b] = l.blocks[b]
      /\ new.blocks[n].type = type
      /\ new.tools = l.tools
  BY StartedLedger
<1> HIDE DEF new, n
<1>2. NoTools(l) => NoTools(new)
  BY <1>1 DEF NoTools, ToolBlocks
<1> QED
  BY <1>1, <1>2 DEF GoesOn, new

LEMMA DeltaGoesOn ==
  ASSUME NEW e, WellTyped(e.ledger), NEW block \in DOMAIN e.ledger.blocks, NEW content \in Contents
  PROVE  GoesOn(e, Delta(e, block, content))
<1> DEFINE l == e.ledger
           new == Delta(e, block, content).ledger
<1>1. /\ DOMAIN new.blocks = DOMAIN l.blocks
      /\ \A b \in DOMAIN l.blocks : new.blocks[b].type = l.blocks[b].type
      /\ new.tools = l.tools
  BY DeltaLedger
<1> HIDE DEF new
<1>2. NoTools(l) => NoTools(new)
  BY <1>1 DEF NoTools, ToolBlocks
<1> QED
  BY <1>1, <1>2 DEF GoesOn, new

LEMMA EnsureThinkingTells ==
  ASSUME NEW reader, NEW e, Tells(reader, e)
  PROVE  LET f == EnsureThinking(e)
         IN  /\ Tells(reader, f) /\ GoesOn(e, f)
             /\ f.ledger.thinking \in f.ledger.open
<1> DEFINE g == StopOpen(e, e.ledger.text)
           f == EnsureThinking(e)
<1>1. Tells(reader, g) /\ GoesOn(e, g) /\ g.ledger.thinking = e.ledger.thinking
  BY StopOpenTells, StopOpenGoesOn
<1>2. f = IF e.ledger.thinking \in e.ledger.open THEN g ELSE StartBlock(g, "thinking")
  BY DEF EnsureThinking
<1>3. g.ledger.open = e.ledger.open \ {e.ledger.text} /\ WellTyped(e.ledger) /\ Rooted(e.ledger)
  <2>1. WellTyped(e.ledger) /\ Rooted(e.ledger)
    BY DEF Tells, InStep
  <2>2. g.ledger.open = e.ledger.open \ {e.ledger.text}
    BY StopOpenTells
  <2> QED
    BY <2>1, <2>2
<1> HIDE DEF g, f
<1>4. CASE e.ledger.thinking \in e.ledger.open
  <2>1. e.ledger.thinking # e.ledger.text
    <3>1. e.ledger.thinking # NoBlock
      BY <1>3, <1>4, LedgerFields
    <3> QED
      BY <1>3, <3>1 DEF Rooted
  <2>2. f = g
    BY <1>2, <1>4
  <2>3. f.ledger.thinking \in f.ledger.open
    BY <1>1, <1>3, <1>4, <2>1, <2>2
  <2> QED
    BY <1>1, <2>2, <2>3 DEF f
<1>5. CASE e.ledger.thinking \notin e.ledger.open
  <2>1. f = StartBlock(g, "thinking") /\ g.ledger.thinking \notin g.ledger.open /\ WellTyped(g.ledger)
    BY <1>1, <1>2, <1>3, <1>5 DEF Tells, InStep
  <2>2. Tells(reader, f)
    BY <1>1, <2>1, StartProseTells
  <2>3. f.ledger.thinking \in f.ledger.open
    BY <2>1, StartedLedger
  <2>4. GoesOn(g, f)
    BY <2>1, StartProseGoesOn
  <2> QED
    BY <1>1, <2>2, <2>3, <2>4, GoesOnAgain DEF f
<1> QED
  BY <1>4, <1>5 DEF f

LEMMA EnsureTextTells ==
  ASSUME NEW reader, NEW e, Tells(reader, e)
  PROVE  LET f == EnsureText(e)
         IN  /\ Tells(reader, f) /\ GoesOn(e, f)
             /\ f.ledger.text \in f.ledger.open
<1> DEFINE g == StopOpen(e, e.ledger.thinking)
           f == EnsureText(e)
<1>1. Tells(reader, g) /\ GoesOn(e, g) /\ g.ledger.text = e.ledger.text
  BY StopOpenTells, StopOpenGoesOn
<1>2. f = IF e.ledger.text \in e.ledger.open THEN g ELSE StartBlock(g, "text")
  BY DEF EnsureText
<1>3. g.ledger.open = e.ledger.open \ {e.ledger.thinking} /\ WellTyped(e.ledger) /\ Rooted(e.ledger)
  <2>1. WellTyped(e.ledger) /\ Rooted(e.ledger)
    BY DEF Tells, InStep
  <2>2. g.ledger.open = e.ledger.open \ {e.ledger.thinking}
    BY StopOpenTells
  <2> QED
    BY <2>1, <2>2
<1> HIDE DEF g, f
<1>4. CASE e.ledger.text \in e.ledger.open
  <2>1. e.ledger.thinking # e.ledger.text
    <3>1. e.ledger.text # NoBlock
      BY <1>3, <1>4, LedgerFields
    <3> QED
      BY <1>3, <3>1 DEF Rooted
  <2>2. f = g
    BY <1>2, <1>4
  <2>3. f.ledger.text \in f.ledger.open
    BY <1>1, <1>3, <1>4, <2>1, <2>2
  <2> QED
    BY <1>1, <2>2, <2>3 DEF f
<1>5. CASE e.ledger.text \notin e.ledger.open
  <2>1. f = StartBlock(g, "text") /\ g.ledger.text \notin g.ledger.open /\ WellTyped(g.ledger)
    BY <1>1, <1>2, <1>3, <1>5 DEF Tells, InStep
  <2>2. Tells(reader, f)
    BY <1>1, <2>1, StartProseTells
  <2>3. f.ledger.text \in f.ledger.open
    BY <2>1, StartedLedger
  <2>4. GoesOn(g, f)
    BY <2>1, StartProseGoesOn
  <2> QED
    BY <1>1, <2>2, <2>3, <2>4, GoesOnAgain DEF f
<1> QED
  BY <1>4, <1>5 DEF f

\* Prose is written to the thinking or the text that is open.
LEMMA WriteProseTells ==
  ASSUME NEW reader, NEW e, Tells(reader, e), NEW block \in {e.ledger.thinking, e.ledger.text},
         block \in e.ledger.open
  PROVE  LET f == Delta(e, block, "full")
         IN  Tells(reader, f) /\ GoesOn(e, f) /\ DOMAIN f.ledger.blocks # {}
<1> DEFINE l == e.ledger
           f == Delta(e, block, "full")
           new == f.ledger
<1>1. "full" \in Contents
  BY DEF Contents, Fragments
<1>2. InStep(reader, f) /\ Rooted(new) /\ StartedTools(new) = StartedTools(l)
  BY <1>1, DeltaRooted DEF Tells
<1>3. WellTyped(l) /\ Rooted(l) /\ Hidden(l) /\ block \in DOMAIN l.blocks /\ block # NoBlock
  BY LedgerFields DEF Tells, InStep
<1>4. /\ DOMAIN new.blocks = DOMAIN l.blocks
      /\ \A b \in DOMAIN l.blocks \ {block} : new.blocks[b] = l.blocks[b]
      /\ new.tools = l.tools
  BY <1>1, <1>3, DeltaLedger
<1>5. \A t \in StartedTools(l) : l.tools[t].block \in DOMAIN l.blocks /\ l.tools[t].block # block
  <2>1. \A t \in StartedTools(l) : l.tools[t].block \in DOMAIN l.blocks
    BY <1>3, LedgerFields DEF Rooted, ToolsRooted
  <2>2. block \notin BlocksOf(l, StartedTools(l))
    BY <1>3, ProseIsNoTool
  <2> QED
    BY <2>1, <2>2 DEF BlocksOf
<1>6. GoesOn(e, f)
  BY <1>1, <1>3, DeltaGoesOn
<1> HIDE DEF f, l
<1>7. Hidden(new)
  BY <1>2, <1>3, <1>4, <1>5 DEF Hidden
<1> QED
  BY <1>2, <1>3, <1>4, <1>6, <1>7 DEF Tells, f, l

LEMMA WriteThinkingTells ==
  ASSUME NEW reader, NEW e, Tells(reader, e)
  PROVE  LET f == WriteThinking(e)
         IN  Tells(reader, f) /\ GoesOn(e, f) /\ DOMAIN f.ledger.blocks # {}
<1> DEFINE g == EnsureThinking(e)
<1>1. Tells(reader, g) /\ GoesOn(e, g) /\ g.ledger.thinking \in g.ledger.open
  BY EnsureThinkingTells
<1>2. WriteThinking(e) = Delta(g, g.ledger.thinking, "full")
  BY DEF WriteThinking
<1> HIDE DEF g
<1> QED
  BY <1>1, <1>2, WriteProseTells, GoesOnAgain

LEMMA WriteTextTells ==
  ASSUME NEW reader, NEW e, Tells(reader, e)
  PROVE  LET f == WriteText(e)
         IN  Tells(reader, f) /\ GoesOn(e, f) /\ DOMAIN f.ledger.blocks # {}
<1> DEFINE g == EnsureText(e)
<1>1. Tells(reader, g) /\ GoesOn(e, g) /\ g.ledger.text \in g.ledger.open
  BY EnsureTextTells
<1>2. WriteText(e) = Delta(g, g.ledger.text, "full")
  BY DEF WriteText
<1> HIDE DEF g
<1> QED
  BY <1>1, <1>2, WriteProseTells, GoesOnAgain

-----------------------------------------------------------------------------
(* Tool calls *)

\* What the ledger notes of the tool calls is not shown.
LEMMA NotesInStep ==
  ASSUME NEW reader, NEW e, InStep(reader, e), NEW tools \in [Tools -> ToolStates]
  PROVE  LET f == [ledger |-> [e.ledger EXCEPT !.tools = tools], out |-> e.out]
         IN  /\ InStep(reader, f)
             /\ f.ledger.blocks = e.ledger.blocks /\ f.ledger.open = e.ledger.open
             /\ f.ledger.thinking = e.ledger.thinking /\ f.ledger.text = e.ledger.text
             /\ f.ledger.tools = tools
<1> DEFINE l == e.ledger
           new == [e.ledger EXCEPT !.tools = tools]
           f == [ledger |-> new, out |-> e.out]
<1>1. l \in Ledgers /\ l.open \subseteq DOMAIN l.blocks
  BY DEF InStep, WellTyped
<1>2. new \in Ledgers
  BY <1>1 DEF Ledgers
<1>3. /\ new.blocks = l.blocks /\ new.open = l.open /\ new.tools = tools
      /\ new.thinking = l.thinking /\ new.text = l.text
  BY <1>1 DEF Ledgers
<1> HIDE DEF new, l
<1>4. WellTyped(new) /\ Shown(new) = Shown(l)
  BY <1>1, <1>2, <1>3 DEF WellTyped, Shown
<1>5. InStep(reader, f)
  BY <1>4 DEF InStep, l
<1> QED
  BY <1>3, <1>5 DEF new, l

\* A note of one call that leaves its block alone leaves the ledger rooted.
LEMMA NoteTells ==
  ASSUME NEW reader, NEW e, Tells(reader, e), NEW t \in Tools, NEW tool \in ToolStates,
         tool.block = e.ledger.tools[t].block,
         ~tool.named <=> ~e.ledger.tools[t].named,
         KindOf[t] = "plain" => tool.withheld = "none"
  PROVE  LET f == [ledger |-> [e.ledger EXCEPT !.tools = [@ EXCEPT ![t] = tool]], out |-> e.out]
         IN  /\ Tells(reader, f)
             /\ f.ledger.tools = [e.ledger.tools EXCEPT ![t] = tool]
             /\ f.ledger.blocks = e.ledger.blocks
             /\ StartedTools(f.ledger) = StartedTools(e.ledger)
<1> DEFINE l == e.ledger
           tools == [l.tools EXCEPT ![t] = tool]
           f == [ledger |-> [e.ledger EXCEPT !.tools = tools], out |-> e.out]
           new == f.ledger
<1>1. l.tools \in [Tools -> ToolStates] /\ Rooted(l) /\ Hidden(l)
  BY LedgerFields DEF Tells, InStep
<1>2. tools \in [Tools -> ToolStates]
  BY <1>1
<1>3. /\ InStep(reader, f)
      /\ new.blocks = l.blocks /\ new.open = l.open
      /\ new.thinking = l.thinking /\ new.text = l.text
      /\ new.tools = tools
  <2> HIDE DEF tools
  <2> QED BY <1>2, NotesInStep DEF Tells
<1>4. /\ \A u \in Tools : tools[u].block = l.tools[u].block
      /\ \A u \in Tools : ~tools[u].named <=> ~l.tools[u].named
      /\ \A u \in Tools : KindOf[u] = "plain" => tools[u].withheld = "none"
  BY <1>1 DEF Rooted, ToolsRooted
<1> HIDE DEF new, tools, l
<1>5. StartedTools(new) = StartedTools(l)
  BY <1>3, <1>4 DEF StartedTools
<1>6. BlocksOf(new, StartedTools(new)) = BlocksOf(l, StartedTools(l))
  BY <1>3, <1>4, <1>5 DEF BlocksOf, StartedTools
<1>7. new.open \subseteq Owned(new)
  BY <1>1, <1>3, <1>6 DEF Owned, Rooted
<1>8. \A u \in StartedTools(l) : u \in Tools
  BY DEF StartedTools
<1>9. ToolsRooted(new)
  <2>1. \A u \in Tools : ~new.tools[u].named <=> new.tools[u].block = NoBlock
    BY <1>1, <1>3, <1>4 DEF Rooted, ToolsRooted
  <2>2. \A u \in StartedTools(new) :
          new.tools[u].block \in new.open /\ new.blocks[new.tools[u].block].type = "tool_use"
    BY <1>1, <1>3, <1>4, <1>5, <1>8 DEF Rooted, ToolsRooted
  <2>3. \A u, v \in StartedTools(new) : u # v => new.tools[u].block # new.tools[v].block
    BY <1>1, <1>3, <1>4, <1>5, <1>8 DEF Rooted, ToolsRooted
  <2>4. \A u \in Tools : KindOf[u] = "plain" => new.tools[u].withheld = "none"
    BY <1>3, <1>4
  <2> QED
    BY <2>1, <2>2, <2>3, <2>4 DEF ToolsRooted
<1>10. Rooted(new)
  <2>1. WellTyped(new)
    BY <1>3 DEF InStep, new
  <2> QED
    BY <1>1, <1>3, <1>7, <1>9, <2>1 DEF Rooted
<1>11. Hidden(new)
  BY <1>1, <1>3, <1>4, <1>5, <1>8 DEF Hidden
<1> QED
  BY <1>3, <1>5, <1>10, <1>11 DEF Tells, new, tools, l

\* Arguments of a plain call go out as they come, those of another only when they are
\* whole.
LEMMA ToolDeltaTells ==
  ASSUME NEW reader, NEW e, Tells(reader, e), NEW t \in StartedTools(e.ledger), NEW content \in Contents,
         KindOf[t] = "plain" \/ content = "full"
  PROVE  LET f == ToolDelta(e, t, content)
         IN  /\ Tells(reader, f) /\ f.ledger.tools = e.ledger.tools
             /\ StartedTools(f.ledger) = StartedTools(e.ledger)
<1> DEFINE l == e.ledger
           block == l.tools[t].block
           f == Delta(e, block, content)
           new == f.ledger
<1>1. WellTyped(l) /\ Rooted(l) /\ Hidden(l) /\ block \in l.open /\ block \in DOMAIN l.blocks
  BY DEF Tells, InStep, WellTyped, Rooted, ToolsRooted
<1>2. InStep(reader, f) /\ Rooted(new) /\ StartedTools(new) = StartedTools(l)
  BY <1>1, DeltaRooted DEF Tells
<1>3. /\ \A b \in DOMAIN l.blocks \ {block} : new.blocks[b] = l.blocks[b]
      /\ new.blocks[block].content = Joined(l.blocks[block].content, content)
      /\ new.tools = l.tools
  BY <1>1, DeltaLedger
<1>4. \A u \in StartedTools(l) :
        l.tools[u].block \in DOMAIN l.blocks /\ (u # t => l.tools[u].block # block)
  BY <1>1, LedgerFields DEF Rooted, ToolsRooted
<1>5. ToolDelta(e, t, content) = f
  BY DEF ToolDelta
<1> HIDE DEF f, l, block
<1>6. ASSUME NEW u \in StartedTools(new), KindOf[u] # "plain"
      PROVE  new.blocks[new.tools[u].block].content \notin {"part", "rest"}
  <2>1. CASE u = t
    <3>1. new.tools[u].block = block /\ content = "full"
      BY <1>3, <1>6, <2>1 DEF l, block
    <3>2. l.blocks[block].content \notin {"part", "rest"}
      BY <1>1, <1>2, <1>6, <2>1 DEF Hidden, block
    <3> QED
      BY <1>3, <3>1, <3>2 DEF Joined
  <2>2. CASE u # t
    BY <1>1, <1>2, <1>3, <1>4, <1>6, <2>2 DEF Hidden
  <2> QED
    BY <2>1, <2>2
<1>7. Hidden(new)
  BY <1>6 DEF Hidden
<1> QED
  BY <1>2, <1>3, <1>5, <1>7 DEF Tells, f, l

LEMMA WithholdIs ==
  ASSUME NEW l \in Ledgers, NEW out, NEW t \in Tools, NEW content
  PROVE  Withhold([ledger |-> l, out |-> out], t, content) =
           [ledger |-> [l EXCEPT !.tools = [@ EXCEPT ![t] = [l.tools[t] EXCEPT !.withheld = content]]],
            out |-> out]
BY DEF Withhold, Ledgers

LEMMA WriteArgumentsTells ==
  ASSUME NEW reader, NEW e, Tells(reader, e), NEW t \in StartedTools(e.ledger), NEW content \in Contents
  PROVE  /\ Tells(reader, WriteArguments(e, t, content))
         /\ StartedTools(WriteArguments(e, t, content).ledger) = StartedTools(e.ledger)
<1> DEFINE l == e.ledger
           tool == l.tools[t]
           whole == Joined(tool.withheld, content)
<1>1. /\ e = [ledger |-> l, out |-> e.out] /\ l \in Ledgers
      /\ l.tools \in [Tools -> ToolStates] /\ t \in Tools /\ tool \in ToolStates
  BY LedgerFields DEF Tells, InStep, StartedTools
<1>2. tool.withheld \in Contents /\ whole \in Contents
  BY <1>1, JoinedType DEF ToolStates
<1>3. "none" \in Contents /\ "full" \in Contents
  BY DEF Contents, Fragments
<1>4. CASE content = "none" \/ tool.sent
  <2>1. WriteArguments(e, t, content) = e
    BY <1>4 DEF WriteArguments
  <2> QED
    BY <2>1
<1>5. CASE ~(content = "none" \/ tool.sent) /\ KindOf[t] = "plain"
  <2>1. WriteArguments(e, t, content) = ToolDelta(e, t, content)
    BY <1>5 DEF WriteArguments
  <2> QED
    BY <1>5, <2>1, ToolDeltaTells
<1>6. CASE ~(content = "none" \/ tool.sent) /\ KindOf[t] # "plain" /\ whole # "full"
  <2> DEFINE noted == [tool EXCEPT !.withheld = whole]
             f == [ledger |-> [l EXCEPT !.tools = [@ EXCEPT ![t] = noted]], out |-> e.out]
  <2>1. WriteArguments(e, t, content) = Withhold(e, t, whole)
    BY <1>6 DEF WriteArguments
  <2>2. Withhold(e, t, whole) = f
    <3>1. \A c : Withhold([ledger |-> l, out |-> e.out], t, c) =
            [ledger |-> [l EXCEPT !.tools = [@ EXCEPT ![t] = [l.tools[t] EXCEPT !.withheld = c]]],
             out |-> e.out]
      BY <1>1, WithholdIs
    <3> HIDE DEF l, whole
    <3> QED
      BY <1>1, <3>1 DEF tool
  <2>3. noted \in ToolStates /\ noted.block = tool.block /\ (~noted.named <=> ~tool.named)
    BY <1>1, <1>2 DEF ToolStates
  <2> HIDE DEF noted
  <2>4. Tells(reader, f) /\ StartedTools(f.ledger) = StartedTools(l)
    BY <1>1, <1>6, <2>3, NoteTells
  <2> QED
    BY <2>1, <2>2, <2>4
<1>7. CASE ~(content = "none" \/ tool.sent) /\ KindOf[t] # "plain" /\ whole = "full"
  <2> DEFINE noted == [tool EXCEPT !.withheld = "none"]
             f == [ledger |-> [l EXCEPT !.tools = [@ EXCEPT ![t] = noted]], out |-> e.out]
             g == ToolDelta(f, t, "full")
             told == [g.ledger.tools[t] EXCEPT !.sent = KindOf[t] = "task"]
             h == [ledger |-> [g.ledger EXCEPT !.tools = [@ EXCEPT ![t] = told]], out |-> g.out]
  <2>1. WriteArguments(e, t, content) =
          [ToolDelta(Withhold(e, t, "none"), t, "full") EXCEPT !.ledger.tools[t].sent = KindOf[t] = "task"]
    BY <1>7 DEF WriteArguments
  <2>2. Withhold(e, t, "none") = f
    <3>1. \A c : Withhold([ledger |-> l, out |-> e.out], t, c) =
            [ledger |-> [l EXCEPT !.tools = [@ EXCEPT ![t] = [l.tools[t] EXCEPT !.withheld = c]]],
             out |-> e.out]
      BY <1>1, WithholdIs
    <3> HIDE DEF l, whole
    <3> QED
      BY <1>1, <3>1 DEF tool
  <2>3. noted \in ToolStates /\ noted.block = tool.block /\ (~noted.named <=> ~tool.named)
    BY <1>1, <1>3 DEF ToolStates
  <2> HIDE DEF noted
  <2>4. /\ Tells(reader, f)
        /\ f.ledger.tools = [l.tools EXCEPT ![t] = noted]
        /\ StartedTools(f.ledger) = StartedTools(l)
    <3>1. Tells(reader, f)
      BY <1>1, <1>7, <2>3, NoteTells
    <3>2. f.ledger.tools = [l.tools EXCEPT ![t] = noted]
      BY <1>1 DEF Ledgers
    <3> HIDE DEF f, l, tool
    <3>3. StartedTools(f.ledger) = StartedTools(l)
      BY <1>1, <2>3, <3>2 DEF StartedTools, tool
    <3> QED
      BY <3>1, <3>2, <3>3
  <2> HIDE DEF f
  <2>5. Tells(reader, g) /\ StartedTools(g.ledger) = StartedTools(l)
    BY <1>3, <2>4, ToolDeltaTells
  <2>6. g = [ledger |-> g.ledger, out |-> g.out] /\ g.ledger \in Ledgers
    BY <2>5 DEF Tells, InStep, WellTyped
  <2> HIDE DEF g
  <2>7. g.ledger.tools[t] \in ToolStates
    BY <1>1, <2>6 DEF Ledgers
  <2>8. /\ told \in ToolStates /\ told.block = g.ledger.tools[t].block
        /\ ~told.named <=> ~g.ledger.tools[t].named
    <3>1. (KindOf[t] = "task") \in BOOLEAN
      OBVIOUS
    <3> QED
      BY <2>7, <3>1 DEF ToolStates
  <2>9. [g EXCEPT !.ledger.tools[t].sent = KindOf[t] = "task"] = h
    BY <2>6 DEF Ledgers
  <2> HIDE DEF told
  <2>10. Tells(reader, h) /\ StartedTools(h.ledger) = StartedTools(g.ledger)
    <3>1. t \in Tools /\ KindOf[t] # "plain" /\ Tells(reader, g)
      BY <1>1, <1>7, <2>5
    <3>2. Tells(reader, h)
      BY <2>8, <3>1, NoteTells
    <3>3. h.ledger.tools = [g.ledger.tools EXCEPT ![t] = told] /\ g.ledger.tools \in [Tools -> ToolStates]
      BY <2>6 DEF Ledgers
    <3>4. StartedTools(h.ledger) = StartedTools(g.ledger)
      <4> HIDE DEF h
      <4> QED BY <2>8, <3>1, <3>3 DEF StartedTools
    <3> QED
      BY <3>2, <3>4
  <2> QED
    BY <2>1, <2>2, <2>5, <2>9, <2>10 DEF g
<1> QED
  BY <1>4, <1>5, <1>6, <1>7

LEMMA BoundIs ==
  ASSUME NEW l \in Ledgers, NEW out, NEW t \in Tools, NEW block
  PROVE  [[ledger |-> l, out |-> out] EXCEPT !.ledger.tools[t] =
            [@ EXCEPT !.block = block, !.named = TRUE, !.early = "none"]] =
           [ledger |-> [l EXCEPT !.tools = [@ EXCEPT ![t] =
              [l.tools[t] EXCEPT !.block = block, !.named = TRUE, !.early = "none"]]],
            out |-> out]
BY DEF Ledgers

\* The call has an open block of its own.
LEMMA StartToolTells ==
  ASSUME NEW reader, NEW e, Tells(reader, e), NEW t \in Tools, ~e.ledger.tools[t].named
  PROVE  /\ Tells(reader, StartTool(e, t))
         /\ t \in StartedTools(StartTool(e, t).ledger)
<1> DEFINE l == e.ledger
           n == Len(l.blocks) + 1
           s == StartBlock(e, "tool_use")
           told == [s.ledger.tools[t] EXCEPT !.block = n, !.named = TRUE, !.early = "none"]
           tools == [s.ledger.tools EXCEPT ![t] = told]
           f == [ledger |-> [s.ledger EXCEPT !.tools = tools], out |-> s.out]
           new == f.ledger
<1>1. Rooted(l) /\ Hidden(l) /\ WellTyped(l) /\ l.tools \in [Tools -> ToolStates]
      /\ l.open \subseteq DOMAIN l.blocks
  BY LedgerFields DEF Tells, InStep
<1>2. InStep(reader, s) /\ s = [ledger |-> s.ledger, out |-> s.out] /\ s.ledger \in Ledgers
  BY StartInStep DEF Tells, InStep, WellTyped
<1>3. /\ n \in Nat /\ n # NoBlock /\ n \notin DOMAIN l.blocks /\ n = Len(s.ledger.blocks)
      /\ DOMAIN s.ledger.blocks = DOMAIN l.blocks \cup {n}
      /\ \A b \in DOMAIN l.blocks : s.ledger.blocks[b] = l.blocks[b]
      /\ s.ledger.blocks[n].type = "tool_use" /\ s.ledger.blocks[n].content = "none"
      /\ s.ledger.open = l.open \cup {n}
      /\ s.ledger.tools = l.tools
      /\ s.ledger.thinking = l.thinking /\ s.ledger.text = l.text
  BY <1>1, StartedLedger
<1> HIDE DEF s
<1>4. /\ told \in ToolStates /\ told.block = n /\ told.named /\ told.withheld = l.tools[t].withheld
  <2>1. "none" \in Contents
    BY DEF Contents
  <2>2. l.tools[t] \in ToolStates
    BY <1>1
  <2> QED
    BY <1>3, <2>1, <2>2 DEF ToolStates
<1> HIDE DEF told
<1>5. tools \in [Tools -> ToolStates]
  BY <1>1, <1>3, <1>4
<1>6. /\ InStep(reader, f)
      /\ new.blocks = s.ledger.blocks /\ new.open = s.ledger.open
      /\ new.thinking = l.thinking /\ new.text = l.text
      /\ new.tools = tools
  <2> HIDE DEF tools
  <2> QED BY <1>2, <1>3, <1>5, NotesInStep
<1>7. /\ \A u \in Tools \ {t} : tools[u] = l.tools[u]
      /\ tools[t] = told
  BY <1>1, <1>3
<1>8. t \notin StartedTools(l) /\ (KindOf[t] = "plain" => told.withheld = "none")
  BY <1>1, <1>4 DEF StartedTools, Rooted, ToolsRooted
<1>9. \A u \in StartedTools(l) : u \in Tools /\ u # t /\ l.tools[u].block \in DOMAIN l.blocks
  BY <1>1, <1>8 DEF StartedTools, Rooted, ToolsRooted
<1> HIDE DEF new, tools, n, l
<1>10. StartedTools(new) = StartedTools(l) \cup {t}
  BY <1>3, <1>4, <1>6, <1>7, <1>8 DEF StartedTools
<1>11. \A u \in StartedTools(l) : new.tools[u] = l.tools[u]
  BY <1>6, <1>7, <1>9
<1>12. new.open \subseteq Owned(new)
  <2>1. BlocksOf(new, StartedTools(new)) = BlocksOf(l, StartedTools(l)) \cup {n}
    BY <1>4, <1>6, <1>7, <1>10, <1>11 DEF BlocksOf
  <2> QED
    BY <1>1, <1>3, <1>6, <2>1 DEF Owned, Rooted
<1>13. ToolsRooted(new)
  <2>1. \A u \in Tools : ~new.tools[u].named <=> new.tools[u].block = NoBlock
    BY <1>1, <1>3, <1>4, <1>6, <1>7 DEF Rooted, ToolsRooted
  <2>2. \A u \in StartedTools(new) :
          new.tools[u].block \in new.open /\ new.blocks[new.tools[u].block].type = "tool_use"
    BY <1>1, <1>3, <1>4, <1>6, <1>7, <1>9, <1>10, <1>11 DEF Rooted, ToolsRooted
  <2>3. \A u, v \in StartedTools(new) : u # v => new.tools[u].block # new.tools[v].block
    BY <1>1, <1>3, <1>4, <1>6, <1>7, <1>9, <1>10, <1>11 DEF Rooted, ToolsRooted
  <2>4. \A u \in Tools : KindOf[u] = "plain" => new.tools[u].withheld = "none"
    BY <1>1, <1>6, <1>7, <1>8 DEF Rooted, ToolsRooted
  <2> QED
    BY <2>1, <2>2, <2>3, <2>4 DEF ToolsRooted
<1>14. Rooted(new)
  <2>1. WellTyped(new)
    BY <1>6 DEF InStep, new
  <2> QED
    BY <1>1, <1>3, <1>6, <1>12, <1>13, <2>1 DEF Rooted
<1>15. Hidden(new)
  BY <1>1, <1>3, <1>4, <1>6, <1>7, <1>9, <1>10, <1>11 DEF Hidden
<1>16. Tells(reader, f) /\ t \in StartedTools(f.ledger)
  BY <1>6, <1>10, <1>14, <1>15 DEF Tells, new
<1>17. StartTool(e, t) = WriteArguments(f, t, l.tools[t].early)
  <2>1. [s EXCEPT !.ledger.tools[t] = [@ EXCEPT !.block = n, !.named = TRUE, !.early = "none"]] = f
    <3> DEFINE sl == s.ledger
               so == s.out
    <3>1. s = [ledger |-> sl, out |-> so] /\ sl \in Ledgers
      BY <1>2
    <3> HIDE DEF sl, so
    <3>2. [[ledger |-> sl, out |-> so] EXCEPT !.ledger.tools[t] =
             [@ EXCEPT !.block = n, !.named = TRUE, !.early = "none"]] =
            [ledger |-> [sl EXCEPT !.tools = [@ EXCEPT ![t] =
               [sl.tools[t] EXCEPT !.block = n, !.named = TRUE, !.early = "none"]]],
             out |-> so]
      <4>1. \A c : [[ledger |-> sl, out |-> so] EXCEPT !.ledger.tools[t] =
                     [@ EXCEPT !.block = c, !.named = TRUE, !.early = "none"]] =
              [ledger |-> [sl EXCEPT !.tools = [@ EXCEPT ![t] =
                 [sl.tools[t] EXCEPT !.block = c, !.named = TRUE, !.early = "none"]]],
               out |-> so]
        BY <3>1, BoundIs
      <4> QED
        BY <4>1
    <3> QED
      BY <3>1, <3>2 DEF sl, so, tools, told
  <2> QED
    BY <1>3, <2>1 DEF StartTool, l, s
<1>18. l.tools[t].early \in Contents
  <2>1. l.tools[t] \in ToolStates
    BY <1>1
  <2> QED
    BY <2>1 DEF ToolStates
<1> HIDE DEF f
<1> QED
  BY <1>16, <1>17, <1>18, WriteArgumentsTells

LEMMA EarlyIs ==
  ASSUME NEW l \in Ledgers, NEW out, NEW t \in Tools, NEW content
  PROVE  [[ledger |-> l, out |-> out] EXCEPT !.ledger.tools[t].early = Joined(@, content)] =
           [ledger |-> [l EXCEPT !.tools = [@ EXCEPT ![t] =
              [l.tools[t] EXCEPT !.early = Joined(l.tools[t].early, content)]]],
            out |-> out]
<1> DEFINE early == Joined(l.tools[t].early, content)
<1>1. \A c : [[ledger |-> l, out |-> out] EXCEPT !.ledger.tools[t].early = c] =
               [ledger |-> [l EXCEPT !.tools = [@ EXCEPT ![t] = [l.tools[t] EXCEPT !.early = c]]],
                out |-> out]
  BY DEF Ledgers
<1> QED
  BY <1>1

\* A chunk of a call, whether it names it, and starts its block, or not.
LEMMA CallToolTells ==
  ASSUME NEW reader, NEW e, Tells(reader, e), NEW t \in Tools, NEW named \in BOOLEAN,
         NEW content \in Contents
  PROVE  Tells(reader, CallTool(e, t, named, content))
<1> DEFINE closed == CloseContent(e)
           known == IF named /\ ~e.ledger.tools[t].named THEN StartTool(closed, t) ELSE closed
<1>1. Tells(reader, closed) /\ closed.ledger.tools = e.ledger.tools
  BY CloseContentTells
<1>2. CallTool(e, t, named, content) =
        IF known.ledger.tools[t].named THEN WriteArguments(known, t, content)
        ELSE [known EXCEPT !.ledger.tools[t].early = Joined(@, content)]
  BY DEF CallTool
<1> HIDE DEF closed
<1>3. Tells(reader, known)
  BY <1>1, StartToolTells
<1> HIDE DEF known
<1> DEFINE l == known.ledger
           o == known.out
<1>4. known = [ledger |-> l, out |-> o] /\ l \in Ledgers /\ l.tools[t] \in ToolStates /\ Rooted(l)
  BY <1>3, LedgerFields DEF Tells, InStep
<1>5. CASE known.ledger.tools[t].named
  <2>1. t \in StartedTools(l)
    BY <1>4, <1>5 DEF Rooted, ToolsRooted, StartedTools
  <2> QED
    BY <1>2, <1>3, <1>5, <2>1, WriteArgumentsTells
<1>6. CASE ~known.ledger.tools[t].named
  <2> DEFINE early == Joined(l.tools[t].early, content)
             noted == [l.tools[t] EXCEPT !.early = early]
             f == [ledger |-> [known.ledger EXCEPT !.tools = [@ EXCEPT ![t] = noted]], out |-> known.out]
  <2>1. early \in Contents
    BY <1>4, JoinedType DEF ToolStates
  <2>2. /\ noted \in ToolStates /\ noted.block = l.tools[t].block
        /\ noted.withheld = l.tools[t].withheld
        /\ ~noted.named <=> ~l.tools[t].named
    <3> HIDE DEF early
    <3> QED BY <1>4, <2>1 DEF ToolStates
  <2>3. KindOf[t] = "plain" => l.tools[t].withheld = "none"
    BY <1>4 DEF Rooted, ToolsRooted
  <2>4. CallTool(e, t, named, content) = f
    <3>1. \A k, x : k \in Ledgers =>
            [[ledger |-> k, out |-> x] EXCEPT !.ledger.tools[t].early = Joined(@, content)] =
              [ledger |-> [k EXCEPT !.tools = [@ EXCEPT ![t] =
                 [k.tools[t] EXCEPT !.early = Joined(k.tools[t].early, content)]]],
               out |-> x]
      BY EarlyIs
    <3> HIDE DEF l, o
    <3>2. [[ledger |-> l, out |-> o] EXCEPT !.ledger.tools[t].early = Joined(@, content)] =
              [ledger |-> [l EXCEPT !.tools = [@ EXCEPT ![t] =
                 [l.tools[t] EXCEPT !.early = Joined(l.tools[t].early, content)]]],
               out |-> o]
      BY <1>4, <3>1
    <3> QED
      BY <1>2, <1>4, <1>6, <3>2 DEF l, o
  <2> HIDE DEF noted
  <2>5. Tells(reader, f)
    BY <1>3, <2>2, <2>3, NoteTells
  <2> QED
    BY <2>4, <2>5
<1> QED
  BY <1>5, <1>6

\* A call found in the text has its block started, written and stopped at once.
LEMMA TextualToolTells ==
  ASSUME NEW reader, NEW e, Tells(reader, e), NEW content \in Contents
  PROVE  Tells(reader, TextualTool(e, content))
<1> DEFINE c == CloseContent(e)
           s == StartBlock(c, "tool_use")
           n == Len(s.ledger.blocks)
           d == Delta(s, n, content)
           f == StopBlock(d, n)
           l == c.ledger
           new == f.ledger
<1>1. Tells(reader, c) /\ InStep(reader, c) /\ WellTyped(l) /\ Rooted(l) /\ Hidden(l)
  BY CloseContentTells DEF Tells, InStep
<1>2. TextualTool(e, content) = f
  BY DEF TextualTool
<1> HIDE DEF c
<1>3. InStep(reader, s) /\ WellTyped(s.ledger)
  BY <1>1, StartInStep DEF InStep
<1>4. /\ n \in Nat /\ n # NoBlock /\ n \notin DOMAIN l.blocks
      /\ DOMAIN s.ledger.blocks = DOMAIN l.blocks \cup {n}
      /\ \A b \in DOMAIN l.blocks : s.ledger.blocks[b] = l.blocks[b]
      /\ s.ledger.open = l.open \cup {n}
      /\ s.ledger.tools = l.tools
      /\ s.ledger.thinking = l.thinking /\ s.ledger.text = l.text
  BY <1>1, StartedLedger
<1> HIDE DEF s, n, l
<1>5. InStep(reader, d) /\ WellTyped(d.ledger)
  <2>1. InStep(reader, s) /\ n \in s.ledger.open
    BY <1>3, <1>4
  <2>2. InStep(reader, d)
    BY <2>1, DeltaInStep
  <2> QED
    BY <2>2 DEF InStep
<1>6. /\ DOMAIN d.ledger.blocks = DOMAIN s.ledger.blocks
      /\ \A b \in DOMAIN s.ledger.blocks \ {n} : d.ledger.blocks[b] = s.ledger.blocks[b]
      /\ d.ledger.open = s.ledger.open /\ d.ledger.tools = s.ledger.tools
      /\ d.ledger.thinking = s.ledger.thinking /\ d.ledger.text = s.ledger.text
  BY <1>3, <1>4, DeltaLedger
<1> HIDE DEF d
<1>7. InStep(reader, f) /\ WellTyped(new)
  <2>1. n \in d.ledger.open
    BY <1>4, <1>6
  <2>2. InStep(reader, f)
    BY <1>5, <2>1, StopInStep
  <2> QED
    BY <2>2 DEF InStep
<1>8. /\ new.open = d.ledger.open \ {n}
      /\ new.blocks = d.ledger.blocks /\ new.tools = d.ledger.tools
      /\ new.thinking = d.ledger.thinking /\ new.text = d.ledger.text
  BY <1>5, StopLedger
<1>9. l.open \subseteq DOMAIN l.blocks
  BY <1>1 DEF WellTyped
<1> HIDE DEF f
<1>10. /\ new.open = l.open /\ new.tools = l.tools
       /\ new.thinking = l.thinking /\ new.text = l.text
       /\ DOMAIN l.blocks \subseteq DOMAIN new.blocks
       /\ \A b \in DOMAIN l.blocks : new.blocks[b] = l.blocks[b]
  BY <1>4, <1>6, <1>8, <1>9
<1> HIDE DEF new
<1>11. StartedTools(new) = StartedTools(l)
  BY <1>10 DEF StartedTools
<1>12. BlocksOf(new, StartedTools(new)) = BlocksOf(l, StartedTools(l))
  BY <1>10, <1>11 DEF BlocksOf
<1>13. new.open \subseteq Owned(new)
  BY <1>1, <1>10, <1>12 DEF Owned, Rooted
<1>14. \A t \in StartedTools(l) : l.tools[t].block \in DOMAIN l.blocks
  BY <1>1, <1>9 DEF Rooted, ToolsRooted
<1>15. ToolsRooted(new)
  BY <1>1, <1>10, <1>11, <1>14 DEF ToolsRooted, Rooted
<1>16. Rooted(new)
  BY <1>1, <1>7, <1>10, <1>13, <1>15 DEF Rooted
<1>17. Hidden(new)
  BY <1>1, <1>10, <1>11, <1>14 DEF Hidden
<1> QED
  BY <1>2, <1>7, <1>16, <1>17 DEF Tells, new

LEMMA UnparkedTells ==
  ASSUME NEW reader, NEW e, Tells(reader, e), NEW what \in ParkedKinds
  PROVE  Tells(reader, Unparked(e, what))
<1>1. "full" \in Contents /\ "junk" \in Contents
  BY DEF Contents, Fragments
<1>2. CASE what = "none"
  BY <1>2 DEF Unparked
<1>3. CASE what = "text"
  BY <1>3, WriteTextTells DEF Unparked
<1>4. CASE what = "thinking"
  BY <1>4, WriteThinkingTells DEF Unparked
<1>5. CASE what = "tool"
  BY <1>1, <1>5, TextualToolTells DEF Unparked
<1>6. CASE what = "bad_tool"
  BY <1>1, <1>6, TextualToolTells DEF Unparked
<1> QED
  BY <1>2, <1>3, <1>4, <1>5, <1>6 DEF ParkedKinds

-----------------------------------------------------------------------------
(* The end of a message *)

LEMMA StopOpenInStep ==
  ASSUME NEW reader, NEW e, InStep(reader, e), NEW block
  PROVE  LET f == StopOpen(e, block)
         IN  /\ InStep(reader, f)
             /\ f.ledger.open = e.ledger.open \ {block}
             /\ f.ledger.blocks = e.ledger.blocks /\ f.ledger.tools = e.ledger.tools
             /\ f.ledger.thinking = e.ledger.thinking /\ f.ledger.text = e.ledger.text
<1>1. WellTyped(e.ledger)
  BY DEF InStep
<1>2. CASE block \in e.ledger.open
  <2>1. StopOpen(e, block) = StopBlock(e, block)
    BY <1>2 DEF StopOpen
  <2>2. InStep(reader, StopBlock(e, block))
    BY <1>2, StopInStep
  <2> QED
    BY <1>1, <2>1, <2>2, StopLedger
<1>3. CASE block \notin e.ledger.open
  <2>1. StopOpen(e, block) = e
    BY <1>3 DEF StopOpen
  <2> QED
    BY <1>3, <2>1
<1> QED
  BY <1>2, <1>3

\* Every block that is open has an owner, and is stopped with those of the tool calls.
LEMMA CloseAllInStep ==
  ASSUME NEW reader, NEW e, InStep(reader, e), Rooted(e.ledger)
  PROVE  LET f == CloseAll(e)
         IN  /\ InStep(reader, f) /\ f.ledger.open = {}
             /\ f.ledger.blocks = e.ledger.blocks /\ f.ledger.tools = e.ledger.tools
<1> DEFINE l == e.ledger
           g == StopOpen(e, e.ledger.thinking)
           c == StopOpen(g, g.ledger.text)
           owned == BlocksOf(c.ledger, StartedTools(c.ledger))
           f == Stopped(c, owned)
<1>1. /\ InStep(reader, g)
      /\ g.ledger.open = l.open \ {l.thinking}
      /\ g.ledger.blocks = l.blocks /\ g.ledger.tools = l.tools
      /\ g.ledger.thinking = l.thinking /\ g.ledger.text = l.text
  BY StopOpenInStep
<1> HIDE DEF g
<1>2. /\ InStep(reader, c)
      /\ c.ledger.open = g.ledger.open \ {g.ledger.text}
      /\ c.ledger.blocks = g.ledger.blocks /\ c.ledger.tools = g.ledger.tools
  BY <1>1, StopOpenInStep
<1>3. CloseAll(e) = f
  BY <1>1 DEF CloseAll, CloseContent, g
<1> HIDE DEF c
<1>4. /\ c.ledger.open = l.open \ {l.thinking, l.text}
      /\ c.ledger.blocks = l.blocks /\ c.ledger.tools = l.tools
  BY <1>1, <1>2
<1>5. owned = BlocksOf(l, StartedTools(l))
  BY <1>4 DEF BlocksOf, StartedTools
<1>6. owned \subseteq l.open
  BY <1>5 DEF BlocksOf, Rooted, ToolsRooted
<1>7. l.thinking \notin owned /\ l.text \notin owned
  <2>1. NoBlock \notin l.open
    BY LedgerFields DEF Rooted
  <2> QED
    BY <1>5, <1>6, <2>1, ProseIsNoTool
<1>8. owned \in SUBSET c.ledger.open /\ c.ledger.open \ owned = {}
  BY <1>4, <1>5, <1>6, <1>7 DEF Rooted, Owned
<1> HIDE DEF owned
<1>9. InStep(reader, f)
  BY <1>2, <1>8, StoppedInStep
<1>10. f.ledger.open = {} /\ f.ledger.blocks = l.blocks /\ f.ledger.tools = l.tools
  <2>1. c.ledger \in Ledgers
    BY <1>2 DEF InStep, WellTyped
  <2> QED
    BY <1>4, <1>8, <2>1 DEF Stopped, Ledgers
<1> QED
  BY <1>3, <1>9, <1>10

LEMMA CloseUnclosedInStep ==
  ASSUME NEW reader, NEW e, InStep(reader, e)
  PROVE  LET f == CloseUnclosed(e)
         IN  /\ InStep(reader, f) /\ f.ledger.open = {}
             /\ f.ledger.blocks = e.ledger.blocks /\ f.ledger.tools = e.ledger.tools
<1>1. InStep(reader, Stopped(e, e.ledger.open))
  BY StoppedInStep
<1>2. e.ledger \in Ledgers
  BY DEF InStep, WellTyped
<1> QED
  BY <1>1, <1>2 DEF CloseUnclosed, Stopped, Ledgers

\* Nothing is withheld any more, and each block that is written to is open.
LEMMA FlushArgumentsInStep ==
  ASSUME NEW reader, NEW e, InStep(reader, e), Rooted(e.ledger)
  PROVE  LET f == FlushArguments(e)
         IN  /\ InStep(reader, f) /\ Rooted(f.ledger)
             /\ DOMAIN f.ledger.blocks = DOMAIN e.ledger.blocks
             /\ \A t \in StartedTools(f.ledger) : f.ledger.tools[t].withheld = "none"
<1> DEFINE l == e.ledger
           waiting == {t \in StartedTools(l) : l.tools[t].withheld # "none"}
           written == BlocksOf(l, waiting)
           by(b) == CHOOSE t \in waiting : l.tools[t].block = b
           given(b) == IF KindOf[by(b)] = "task" THEN "full" ELSE l.tools[by(b)].withheld
           blocks == [b \in DOMAIN l.blocks |->
                        IF b \in written THEN [l.blocks[b] EXCEPT !.content = Joined(@, given(b))]
                        ELSE l.blocks[b]]
           tools == [t \in Tools |->
                       IF t \in waiting
                         THEN [l.tools[t] EXCEPT !.withheld = "none", !.sent = KindOf[t] = "task"]
                         ELSE l.tools[t]]
           new == [l EXCEPT !.blocks = blocks, !.tools = tools]
           events == Each("delta", l, written)
           f == [ledger |-> new, out |-> e.out \o events]
<1>1. FlushArguments(e) = f
  BY DEF FlushArguments
<1>2. /\ l \in Ledgers /\ l.blocks \in Seq(Blocks) /\ l.tools \in [Tools -> ToolStates]
      /\ Len(l.blocks) \in Nat /\ DOMAIN l.blocks = 1 .. Len(l.blocks)
      /\ l.open \subseteq DOMAIN l.blocks
      /\ WellTyped(l) /\ Rooted(l)
  BY LedgerFields DEF InStep
<1>3. written \in SUBSET l.open
  BY <1>2 DEF BlocksOf, Rooted, ToolsRooted
<1>4. ASSUME NEW b \in written PROVE given(b) \in Contents
  <2>1. \E t \in waiting : l.tools[t].block = b
    BY DEF BlocksOf
  <2>2. by(b) \in waiting
    BY <2>1
  <2> HIDE DEF by
  <2>3. l.tools[by(b)] \in ToolStates
    BY <1>2, <2>2 DEF StartedTools
  <2>4. l.tools[by(b)].withheld \in Contents /\ "full" \in Contents
    BY <2>3 DEF ToolStates, Contents, Fragments
  <2> QED
    BY <2>4
<1> HIDE DEF given
<1>5. ASSUME NEW b \in DOMAIN l.blocks
      PROVE  blocks[b] \in Blocks /\ blocks[b].type = l.blocks[b].type
  <2>1. l.blocks[b] \in Blocks
    BY <1>2
  <2>2. CASE b \in written
    <3>1. Joined(l.blocks[b].content, given(b)) \in Contents
      BY <1>4, <2>1, <2>2, JoinedType DEF Blocks
    <3>2. blocks[b] = [l.blocks[b] EXCEPT !.content = Joined(l.blocks[b].content, given(b))]
      BY <2>2
    <3> QED
      BY <2>1, <3>1, <3>2 DEF Blocks
  <2>3. CASE b \notin written
    BY <2>1, <2>3
  <2> QED
    BY <2>2, <2>3
<1>6. ASSUME NEW t \in Tools
      PROVE  /\ tools[t] \in ToolStates /\ tools[t].block = l.tools[t].block
             /\ ~tools[t].named <=> ~l.tools[t].named
             /\ tools[t].withheld = IF t \in waiting THEN "none" ELSE l.tools[t].withheld
  <2>1. l.tools[t] \in ToolStates /\ "none" \in Contents
    BY <1>2 DEF Contents
  <2>2. CASE t \in waiting
    <3>1. tools[t] = [l.tools[t] EXCEPT !.withheld = "none", !.sent = KindOf[t] = "task"]
      BY <2>2
    <3>2. (KindOf[t] = "task") \in BOOLEAN
      OBVIOUS
    <3> HIDE DEF tools, waiting
    <3> QED
      BY <2>1, <2>2, <3>1, <3>2 DEF ToolStates
  <2>3. CASE t \notin waiting
    BY <2>1, <2>3
  <2> QED
    BY <2>2, <2>3
<1>7. DOMAIN blocks = DOMAIN l.blocks /\ DOMAIN tools = Tools
  OBVIOUS
<1> HIDE DEF blocks, tools, written
<1>8. blocks \in Seq(Blocks)
  <2>1. blocks = [b \in 1 .. Len(l.blocks) |-> blocks[b]]
    BY <1>2, <1>7 DEF blocks
  <2>2. blocks \in [1 .. Len(l.blocks) -> Blocks]
    BY <1>2, <1>5, <2>1
  <2> QED
    BY <1>2, <2>2
<1>9. tools \in [Tools -> ToolStates]
  <2>1. tools = [t \in Tools |-> tools[t]]
    BY DEF tools
  <2> QED
    BY <1>6, <2>1
<1>10. /\ new \in Ledgers /\ new.blocks = blocks /\ new.tools = tools
       /\ new.open = l.open /\ new.thinking = l.thinking /\ new.text = l.text
  BY <1>2, <1>8, <1>9 DEF Ledgers
<1> HIDE DEF new, l
<1>11. WellTyped(new) /\ Shown(new) = Shown(l)
  BY <1>2, <1>7, <1>10 DEF WellTyped, Shown
<1>12. events \in Seq(Events) /\ ReadsAll(Shown(l), events) = Shown(l)
  <2>1. written \in SUBSET DOMAIN l.blocks
    BY <1>2, <1>3
  <2>2. events \in Seq(Events)
    BY <1>2, <2>1, EachIs
  <2>3. ReadsAll(Shown(l), events) = Shown(l)
    BY <1>2, <1>3, EachDeltaRead
  <2> QED
    BY <2>2, <2>3
<1> HIDE DEF events
<1>13. ReadsAll(reader, e.out \o events) = Shown(new) /\ e.out \o events \in Seq(Events)
  <2>1. e.out \in Seq(Events) /\ ReadsAll(reader, e.out) = Shown(l)
    BY DEF InStep, l
  <2>2. ReadsAll(reader, e.out \o events) = ReadsAll(ReadsAll(reader, e.out), events)
    BY <1>12, <2>1, ReadsBoth
  <2> QED
    BY <1>11, <1>12, <2>1, <2>2
<1>14. InStep(reader, f)
  BY <1>11, <1>13 DEF InStep
<1>15. StartedTools(new) = StartedTools(l)
  BY <1>6, <1>10 DEF StartedTools
<1>16. \A t \in StartedTools(l) : t \in Tools /\ l.tools[t].block \in DOMAIN l.blocks
  BY <1>2 DEF StartedTools, Rooted, ToolsRooted
<1>17. new.open \subseteq Owned(new)
  <2>1. BlocksOf(new, StartedTools(new)) = BlocksOf(l, StartedTools(l))
    BY <1>6, <1>10, <1>15, <1>16 DEF BlocksOf
  <2> QED
    BY <1>2, <1>10, <2>1 DEF Owned, Rooted
<1>18. ToolsRooted(new)
  <2>1. \A t \in Tools : ~new.tools[t].named <=> new.tools[t].block = NoBlock
    BY <1>2, <1>6, <1>10 DEF Rooted, ToolsRooted
  <2>2. \A t \in StartedTools(new) :
          new.tools[t].block \in new.open /\ new.blocks[new.tools[t].block].type = "tool_use"
    BY <1>2, <1>5, <1>6, <1>10, <1>15, <1>16 DEF Rooted, ToolsRooted
  <2>3. \A t, u \in StartedTools(new) : t # u => new.tools[t].block # new.tools[u].block
    BY <1>2, <1>6, <1>10, <1>15, <1>16 DEF Rooted, ToolsRooted
  <2>4. \A t \in Tools : KindOf[t] = "plain" => new.tools[t].withheld = "none"
    BY <1>2, <1>6, <1>10 DEF Rooted, ToolsRooted
  <2> QED
    BY <2>1, <2>2, <2>3, <2>4 DEF ToolsRooted
<1>19. Rooted(new)
  BY <1>2, <1>5, <1>7, <1>10, <1>11, <1>17, <1>18 DEF Rooted
<1>20. \A t \in StartedTools(new) : new.tools[t].withheld = "none"
  BY <1>6, <1>10, <1>15, <1>16
<1> QED
  BY <1>1, <1>7, <1>10, <1>14, <1>19, <1>20 DEF l

-----------------------------------------------------------------------------
(* The execution *)

\* An execution that goes on: the reader of what was sent and what is held back is in
\* step with the ledger, and so is the reader of the repairs that follow. Nothing is
\* held back once something was sent.
StreamUnderway ==
  /\ stage \in {"opening", "reading", "recovering"}
  /\ kept \in Seq(Events)
  /\ ReadsAll(seen, kept) = Shown(ledger)
  /\ Tells(Shown(ledger), Repairing)
  /\ stage # "recovering" => repairs = <<>>
  /\ stage = "recovering" => todo \subseteq StartedTools(ledger)
  /\ committed => kept = <<>>
  /\ ~committed => seen = NothingSeen
  /\ stage = "opening" => ~committed
  /\ parked \in ParkedKinds

RecoveryInv == StreamUnderway \/ (stage \in Over /\ ClientGetsItWhole)

LEMMA NothingProduced ==
  ASSUME NEW l, Rooted(l), Hidden(l)
  PROVE  Tells(Shown(l), From(l))
<1>1. ReadsAll(Shown(l), <<>>) = Shown(l)
  BY ReadsNone
<1>2. <<>> \in Seq(Events)
  OBVIOUS
<1> QED
  BY <1>1, <1>2 DEF Tells, InStep, From, Rooted

LEMMA UnderwayTells ==
  ASSUME StreamUnderway
  PROVE  /\ Tells(Shown(ledger), From(ledger)) /\ Rooted(ledger) /\ Hidden(ledger)
         /\ WellTyped(ledger)
<1>1. Rooted(ledger) /\ Hidden(ledger)
  BY DEF StreamUnderway, Tells, Repairing
<1> QED
  BY <1>1, NothingProduced DEF Rooted

\* A new attempt has an empty message.
LEMMA EmptyTells ==
  /\ Rooted(EmptyLedger) /\ Hidden(EmptyLedger)
  /\ MessageStarted \in Seq(Events)
  /\ ReadsAll(NothingSeen, MessageStarted) = Shown(EmptyLedger)
<1> DEFINE l == EmptyLedger
           e == Message("message_start")
<1>1. NewTool \in ToolStates
  BY DEF NewTool, ToolStates, NoBlock, Contents
<1>2. l.tools = [t \in Tools |-> NewTool] /\ l.tools \in [Tools -> ToolStates]
  BY <1>1 DEF EmptyLedger
<1>3. /\ l.blocks = <<>> /\ l.open = {} /\ l.thinking = NoBlock /\ l.text = NoBlock
      /\ l = [blocks |-> l.blocks, open |-> l.open, thinking |-> l.thinking, text |-> l.text,
              tools |-> l.tools]
  BY DEF EmptyLedger
<1> HIDE DEF l
<1>4. l \in Ledgers
  <2>1. l.blocks \in Seq(Blocks) /\ l.open \in SUBSET Nat /\ l.thinking \in Nat /\ l.text \in Nat
    BY <1>3 DEF NoBlock
  <2> QED
    BY <1>2, <1>3, <2>1 DEF Ledgers
<1>5. StartedTools(l) = {}
  BY <1>2 DEF StartedTools, NewTool
<1>6. ToolsRooted(l)
  <2>1. \A t \in Tools : l.tools[t].block = NoBlock /\ ~l.tools[t].named /\ l.tools[t].withheld = "none"
    BY <1>2 DEF NewTool
  <2> QED
    BY <1>5, <2>1 DEF ToolsRooted
<1>7. Rooted(l) /\ Hidden(l)
  BY <1>3, <1>4, <1>5, <1>6 DEF Rooted, Hidden, WellTyped
<1>8. e \in Events /\ MessageStarted = Append(<<>>, e)
  BY DEF Message, Event, Events, Types, NoBlock, MessageStarted
<1>9. ReadsAll(NothingSeen, MessageStarted) = Reads(NothingSeen, e)
  <2> DEFINE none == <<>>
  <2>1. none \in Seq(Events) /\ MessageStarted = Append(none, e)
    BY <1>8
  <2>2. ReadsAll(NothingSeen, none) = NothingSeen
    BY ReadsNone
  <2> HIDE DEF e, none
  <2>3. ReadsAll(NothingSeen, Append(none, e)) = Reads(ReadsAll(NothingSeen, none), e)
    BY <1>8, <2>1, ReadsOneMore
  <2> QED
    BY <2>1, <2>2, <2>3
<1>10. Reads(NothingSeen, e) = Reader({}, {})
  <2>1. Kept(NothingSeen, e)
    BY DEF Kept, NothingSeen, Message, Event
  <2>2. Reads(NothingSeen, e) = [started |-> TRUE, stopped |-> FALSE, open |-> {}, blocks |-> {},
                                 broken |-> FALSE]
    BY <2>1 DEF Reads, NothingSeen, Message, Event
  <2> QED
    BY <2>2 DEF Reader
<1>11. Shown(l) = Reader({}, {})
  BY <1>3 DEF Shown
<1>12. MessageStarted \in Seq(Events)
  <2> HIDE DEF e
  <2> QED BY <1>8
<1> QED
  BY <1>7, <1>9, <1>10, <1>11, <1>12 DEF l

\* The end stops the message, and is all right after what is in step.
LEMMA EndRead ==
  ASSUME NEW l
  PROVE  LET r == ReadsAll(Shown(l), MessageEnd)
         IN  /\ ~r.broken /\ r.stopped /\ r.open = l.open /\ r.blocks = DOMAIN l.blocks
             /\ MessageEnd \in Seq(Events)
<1> DEFINE a == Message("message_delta")
           b == Message("message_stop")
           r == ReadsAll(Shown(l), MessageEnd)
<1>1. a \in Events /\ b \in Events
  BY DEF Message, Event, Events, Types, NoBlock
<1>2. MessageEnd = Append(Append(<<>>, a), b)
  BY DEF MessageEnd
<1>3. Reads(Shown(l), a) = Shown(l)
  <2>1. Kept(Shown(l), a)
    BY DEF Kept, Shown, Reader, Message, Event
  <2>2. Reads(Shown(l), a) = [started |-> TRUE, stopped |-> FALSE, open |-> l.open,
                              blocks |-> DOMAIN l.blocks, broken |-> FALSE]
    BY <2>1 DEF Reads, Shown, Reader, Message, Event
  <2> QED
    BY <2>2 DEF Shown, Reader
<1>4. Reads(Shown(l), b) = [started |-> TRUE, stopped |-> TRUE, open |-> l.open,
                            blocks |-> DOMAIN l.blocks, broken |-> FALSE]
  <2>1. Kept(Shown(l), b)
    BY DEF Kept, Shown, Reader, Message, Event
  <2> QED
    BY <2>1 DEF Reads, Shown, Reader, Message, Event
<1> DEFINE none == <<>>
           one == Append(none, a)
<1>5. none \in Seq(Events) /\ one \in Seq(Events) /\ MessageEnd = Append(one, b) /\ MessageEnd \in Seq(Events)
  <2> HIDE DEF a, b
  <2> QED BY <1>1, <1>2
<1>6. r = Reads(Shown(l), b)
  <2>1. ReadsAll(Shown(l), none) = Shown(l)
    BY ReadsNone
  <2> HIDE DEF a, b, none
  <2>2. ReadsAll(Shown(l), one) = Shown(l)
    BY <1>1, <1>3, <1>5, <2>1, ReadsOneMore
  <2> HIDE DEF one
  <2>3. ReadsAll(Shown(l), Append(one, b)) = Reads(Shown(l), b)
    BY <1>1, <1>5, <2>2, ReadsOneMore
  <2> QED
    BY <1>5, <2>3
<1>7. /\ r.stopped /\ r.open = l.open /\ r.blocks = DOMAIN l.blocks /\ ~r.broken
  BY <1>4, <1>6
<1> QED
  BY <1>5, <1>7

\* What is flushed is read after what was held back.
LEMMA FlushRead ==
  ASSUME StreamUnderway, NEW events \in Seq(Events), Flush(events)
  PROVE  seen' = ReadsAll(Shown(ledger), events)
<1>1. ReadsAll(seen, kept \o events) = ReadsAll(ReadsAll(seen, kept), events)
  BY ReadsBoth DEF StreamUnderway
<1> QED
  BY <1>1 DEF Flush, StreamUnderway

\* What is pushed is read after what was sent and held back, whether it is sent or not.
LEMMA PushKeeps ==
  ASSUME StreamUnderway, NEW e, Tells(Shown(ledger), e), Push(e, <<>>)
  PROVE  /\ ledger' = e.ledger
         /\ kept' \in Seq(Events)
         /\ ReadsAll(seen', kept') = Shown(ledger')
         /\ committed' => kept' = <<>>
         /\ ~committed' => seen' = NothingSeen
<1>1. /\ e.out \in Seq(Events) /\ ReadsAll(Shown(ledger), e.out) = Shown(e.ledger)
      /\ kept \in Seq(Events) /\ ReadsAll(seen, kept) = Shown(ledger)
      /\ ledger' = e.ledger
  BY DEF Tells, InStep, StreamUnderway, Push
<1>2. e.out \o <<>> = e.out /\ kept \o e.out \in Seq(Events) /\ (kept \o e.out) \o <<>> = kept \o e.out
  BY <1>1
<1>3. ReadsAll(seen, kept \o e.out) = Shown(e.ledger)
  BY <1>1, ReadsBoth
<1>4. CASE committed /\ seen' = ReadsAll(seen, e.out \o <<>>) /\ UNCHANGED <<kept, committed>>
  <2>1. kept = <<>> /\ seen = Shown(ledger)
    BY <1>1, <1>4, ReadsNone DEF StreamUnderway
  <2> QED
    BY <1>1, <1>2, <1>4, <2>1, ReadsNone
<1>5. CASE ~committed /\ kept' = kept \o e.out \o <<>> /\ UNCHANGED <<seen, committed>>
  BY <1>1, <1>2, <1>3, <1>5 DEF StreamUnderway
<1>6. CASE /\ ~committed /\ e.out # <<>>
           /\ seen' = ReadsAll(seen, kept \o e.out \o <<>>)
           /\ kept' = <<>> /\ committed' = TRUE
  <2>1. seen' = Shown(ledger')
    BY <1>1, <1>2, <1>3, <1>6
  <2>2. ReadsAll(seen', <<>>) = seen'
    BY ReadsNone
  <2> QED
    BY <1>1, <1>6, <2>1, <2>2
<1> QED
  BY <1>4, <1>5, <1>6 DEF Push

\* A chunk of the upstream stream.
LEMMA ChunkKeeps ==
  ASSUME StreamUnderway, NEW e, Tells(Shown(ledger), e), Chunk(e), parked' \in ParkedKinds
  PROVE  StreamUnderway'
<1>1. /\ ledger' = e.ledger
      /\ kept' \in Seq(Events)
      /\ ReadsAll(seen', kept') = Shown(ledger')
      /\ committed' => kept' = <<>>
      /\ ~committed' => seen' = NothingSeen
  BY PushKeeps DEF Chunk
<1>2. stage' = "reading" /\ repairs' = <<>>
  BY DEF Chunk, repairVars, StreamUnderway
<1>3. Tells(Shown(ledger'), From(ledger'))
  BY <1>1, NothingProduced DEF Tells
<1>4. Repairing' = From(ledger')
  BY <1>2 DEF Repairing, From
<1> QED
  BY <1>1, <1>2, <1>3, <1>4 DEF StreamUnderway

LEMMA RecoveryStarts == RecoveryInit => RecoveryInv
<1> SUFFICES ASSUME RecoveryInit PROVE StreamUnderway
  BY DEF RecoveryInv
<1>1. /\ Rooted(ledger) /\ Hidden(ledger)
      /\ kept \in Seq(Events) /\ ReadsAll(seen, kept) = Shown(ledger)
  BY EmptyTells DEF RecoveryInit
<1>2. Tells(Shown(ledger), From(ledger)) /\ Repairing = From(ledger)
  BY <1>1, NothingProduced DEF Repairing, From, RecoveryInit
<1> QED
  BY <1>1, <1>2 DEF StreamUnderway, RecoveryInit, ParkedKinds

LEMMA ChunksKeep ==
  ASSUME StreamUnderway, ReadsChunk
  PROVE  StreamUnderway'
<1> DEFINE e == From(ledger)
<1>1. Tells(Shown(ledger), e)
  BY UnderwayTells
<1>2. parked \in ParkedKinds
  BY DEF StreamUnderway
<1> HIDE DEF e
<1>3. CASE Silence \/ Finish
  BY <1>1, <1>2, <1>3, ChunkKeeps DEF Silence, Finish, e
<1>4. CASE Reasoning
  <2>1. PICK f \in {EnsureThinking(e), WriteThinking(e)} : Chunk(f)
    BY <1>4 DEF Reasoning, e
  <2>2. Tells(Shown(ledger), f)
    BY <1>1, EnsureThinkingTells, WriteThinkingTells
  <2> QED
    BY <1>2, <1>4, <2>1, <2>2, ChunkKeeps DEF Reasoning
<1>5. CASE Content
  <2>1. PICK now, later \in ParkedKinds : Chunk(Unparked(e, now)) /\ parked' = later
    BY <1>5 DEF Content, e
  <2>2. Tells(Shown(ledger), Unparked(e, now))
    BY <1>1, UnparkedTells
  <2> QED
    BY <2>1, <2>2, ChunkKeeps
<1>6. ASSUME NEW t \in Tools, ToolCall(t) PROVE StreamUnderway'
  <2>1. PICK named \in BOOLEAN, content \in Fragments \cup {"none"} :
          Chunk(CallTool(e, t, named, content))
    BY <1>6 DEF ToolCall, e
  <2>2. content \in Contents
    BY DEF Contents
  <2>3. Tells(Shown(ledger), CallTool(e, t, named, content))
    BY <1>1, <2>2, CallToolTells
  <2> QED
    BY <1>2, <1>6, <2>1, <2>3, ChunkKeeps DEF ToolCall
<1> QED
  BY <1>3, <1>4, <1>5, <1>6 DEF ReadsChunk

\* A message that is closed after the reader was shown all of it is whole.
LEMMA ClosedIsWhole ==
  ASSUME StreamUnderway, NEW e, InStep(Shown(ledger), e), Rooted(e.ledger),
         ledger' = CloseAll(e).ledger, Flush(CloseAll(e).out \o MessageEnd),
         DOMAIN e.ledger.blocks # {}
  PROVE  /\ ~seen'.broken /\ seen'.stopped /\ seen'.open = {}
         /\ seen'.blocks = DOMAIN ledger'.blocks /\ seen'.blocks # {}
         /\ ledger'.blocks = e.ledger.blocks /\ ledger'.tools = e.ledger.tools
<1> DEFINE f == CloseAll(e)
           l == f.ledger
<1>1. /\ InStep(Shown(ledger), f) /\ l.open = {}
      /\ l.blocks = e.ledger.blocks /\ l.tools = e.ledger.tools
  BY CloseAllInStep
<1>2. f.out \in Seq(Events) /\ ReadsAll(Shown(ledger), f.out) = Shown(l)
  BY <1>1 DEF InStep
<1>3. ledger' = l /\ Flush(f.out \o MessageEnd)
  OBVIOUS
<1> HIDE DEF f, l
<1>4. LET r == ReadsAll(Shown(l), MessageEnd)
      IN  /\ ~r.broken /\ r.stopped /\ r.open = l.open /\ r.blocks = DOMAIN l.blocks
          /\ MessageEnd \in Seq(Events)
  BY EndRead
<1>5. f.out \o MessageEnd \in Seq(Events)
  BY <1>2, <1>4
<1>6. seen' = ReadsAll(Shown(ledger), f.out \o MessageEnd)
  BY <1>3, <1>5, FlushRead
<1>7. seen' = ReadsAll(Shown(l), MessageEnd)
  BY <1>2, <1>4, <1>6, ReadsBoth
<1> QED
  BY <1>1, <1>3, <1>4, <1>7 DEF l

\* A stream that is raised has the blocks of its reader closed, or has sent nothing.
LEMMA GiveUpKeeps ==
  ASSUME StreamUnderway, GiveUp
  PROVE  stage' \in Over /\ ClientGetsItWhole'
<1> DEFINE f == CloseUnclosed(From(ledger))
           l == f.ledger
<1>1. Tells(Shown(ledger), From(ledger)) /\ Hidden(ledger)
  BY UnderwayTells
<1>2. stage' = "raised"
  BY DEF GiveUp
<1>3. ~seen'.broken /\ ~seen'.stopped /\ seen'.open = {}
      /\ ledger'.blocks = ledger.blocks /\ ledger'.tools = ledger.tools
  <2>1. CASE committed \/ AllComplete(ledger)
    <3>1. ledger' = l /\ Flush(f.out)
      BY <2>1 DEF GiveUp
    <3>2. /\ InStep(Shown(ledger), f) /\ l.open = {}
          /\ l.blocks = From(ledger).ledger.blocks /\ l.tools = From(ledger).ledger.tools
      BY <1>1, CloseUnclosedInStep DEF Tells
    <3>3. From(ledger).ledger = ledger
      BY DEF From
    <3>4. f.out \in Seq(Events) /\ ReadsAll(Shown(ledger), f.out) = Shown(l)
      BY <3>2 DEF InStep
    <3> HIDE DEF f, l
    <3>5. seen' = Shown(l)
      BY <3>1, <3>4, FlushRead
    <3> QED
      BY <3>1, <3>2, <3>3, <3>5 DEF Shown, Reader
  <2>2. CASE ~(committed \/ AllComplete(ledger))
    <3>1. ledger' = ledger /\ seen' = NothingSeen
      BY <2>2 DEF GiveUp, StreamUnderway
    <3> QED
      BY <3>1 DEF NothingSeen
  <2> QED
    BY <2>1, <2>2
<1>4. Hidden(ledger)'
  BY <1>1, <1>3 DEF Hidden, StartedTools
<1> QED
  BY <1>2, <1>3, <1>4 DEF ClientGetsItWhole, ClientStreamIsWhole, ToolsArriveWhole, Hidden, Over

LEMMA EndOfStreamKeeps ==
  ASSUME StreamUnderway, EndOfStream
  PROVE  stage' \in Over /\ ClientGetsItWhole'
<1> DEFINE flushed == Unparked(From(ledger), parked)
           worded == IF Blank(flushed.ledger) THEN WriteText(flushed) ELSE flushed
           e == FlushArguments(worded)
<1>1. Tells(Shown(ledger), flushed)
  BY UnderwayTells, UnparkedTells DEF StreamUnderway
<1>2. ledger' = CloseAll(e).ledger /\ Flush(CloseAll(e).out \o MessageEnd) /\ stage' = "completed"
  BY DEF EndOfStream
<1> HIDE DEF flushed
<1>3. Tells(Shown(ledger), worded) /\ DOMAIN worded.ledger.blocks # {}
  <2>1. CASE Blank(flushed.ledger)
    BY <1>1, <2>1, WriteTextTells
  <2>2. CASE ~Blank(flushed.ledger)
    <3>1. flushed.ledger.blocks # <<>> /\ flushed.ledger.blocks \in Seq(Blocks)
      BY <1>1, <2>2, LedgerFields DEF Blank, Tells, InStep
    <3>2. DOMAIN flushed.ledger.blocks # {}
      <4> DEFINE blocks == flushed.ledger.blocks
      <4>1. blocks # <<>> /\ blocks \in Seq(Blocks)
        BY <3>1
      <4> HIDE DEF blocks
      <4>2. Len(blocks) # 0 /\ Len(blocks) \in Nat /\ DOMAIN blocks = 1 .. Len(blocks)
        BY <4>1
      <4>3. 1 \in DOMAIN blocks
        BY <4>2
      <4> QED
        BY <4>3 DEF blocks
    <3> QED
      BY <1>1, <2>2, <3>2
  <2> QED
    BY <2>1, <2>2
<1> HIDE DEF worded
<1>4. /\ InStep(Shown(ledger), e) /\ Rooted(e.ledger)
      /\ DOMAIN e.ledger.blocks = DOMAIN worded.ledger.blocks
      /\ \A t \in StartedTools(e.ledger) : e.ledger.tools[t].withheld = "none"
  BY <1>3, FlushArgumentsInStep DEF Tells
<1> HIDE DEF e
<1>5. /\ ~seen'.broken /\ seen'.stopped /\ seen'.open = {}
      /\ seen'.blocks = DOMAIN ledger'.blocks /\ seen'.blocks # {}
      /\ ledger'.tools = e.ledger.tools
  BY <1>2, <1>3, <1>4, ClosedIsWhole
<1>6. \A t \in StartedTools(ledger') : ledger'.tools[t].withheld = "none"
  BY <1>4, <1>5 DEF StartedTools
<1> QED
  BY <1>2, <1>5, <1>6 DEF ClientGetsItWhole, ClientStreamIsWhole, ToolsArriveWhole, Over

LEMMA RecoversKeeps ==
  ASSUME StreamUnderway, NEW e, Tells(Shown(ledger), e), Recovers(e),
         DOMAIN e.ledger.blocks # {}, NoTools(e.ledger) \/ AllComplete(e.ledger)
  PROVE  stage' \in Over /\ ClientGetsItWhole'
<1>1. /\ ledger' = CloseAll(e).ledger /\ Flush(CloseAll(e).out \o MessageEnd)
      /\ stage' = "recovered"
  BY DEF Recovers
<1>2. InStep(Shown(ledger), e) /\ Rooted(e.ledger) /\ Hidden(e.ledger)
  BY DEF Tells
<1>3. /\ ~seen'.broken /\ seen'.stopped /\ seen'.open = {}
      /\ seen'.blocks = DOMAIN ledger'.blocks /\ seen'.blocks # {}
      /\ ledger'.blocks = e.ledger.blocks /\ ledger'.tools = e.ledger.tools
  BY <1>1, <1>2, ClosedIsWhole
<1>4. ToolBlocks(ledger') = ToolBlocks(e.ledger)
  BY <1>3 DEF ToolBlocks
<1>5. ToolBlocks(ledger)' = {} \/ AllComplete(ledger)'
  BY <1>3, <1>4 DEF NoTools, AllComplete
<1>6. Hidden(ledger)'
  BY <1>2, <1>3 DEF Hidden, StartedTools
<1> QED
  BY <1>1, <1>3, <1>5, <1>6 DEF ClientGetsItWhole, ClientStreamIsWhole, ToolsArriveWhole, Hidden, Over

LEMMA RetryKeeps ==
  ASSUME StreamUnderway, RetriesEarly
  PROVE  StreamUnderway'
<1>1. /\ stage' = "opening" /\ ledger' = EmptyLedger /\ kept' = MessageStarted
      /\ parked' = "none" /\ repairs' = <<>> /\ ~committed' /\ seen' = NothingSeen
  BY DEF RetriesEarly, StreamUnderway, repairVars, MayRetry
<1>2. Rooted(ledger') /\ Hidden(ledger') /\ kept' \in Seq(Events) /\ ReadsAll(seen', kept') = Shown(ledger')
  BY <1>1, EmptyTells
<1>3. Tells(Shown(ledger'), From(ledger')) /\ Repairing' = From(ledger')
  BY <1>1, <1>2, NothingProduced DEF Repairing, From
<1> QED
  BY <1>1, <1>2, <1>3 DEF StreamUnderway, ParkedKinds

\* The text that completes a call goes to its block, after the repairs before.
LEMMA RepairKeeps ==
  ASSUME StreamUnderway, NEW t \in Tools, RepairAccepted(t)
  PROVE  StreamUnderway'
<1> DEFINE unwritten == ledger.blocks[ledger.tools[t].block].content = "none"
           text == IF unwritten THEN "full" ELSE "rest"
           e == ToolDelta(Repairing, t, text)
           l == e.ledger
<1>1. /\ stage = "recovering" /\ stage' = stage /\ t \in todo /\ todo' = todo \ {t}
      /\ ledger' = l /\ repairs' = e.out
      /\ UNCHANGED <<kept, committed, seen, parked>>
      /\ Prefix(t) \in {"none", "part"}
  BY DEF RepairAccepted, readingVars
<1>2. /\ t \in StartedTools(ledger) /\ todo \subseteq StartedTools(ledger)
      /\ Tells(Shown(ledger), Repairing) /\ Repairing.ledger = ledger
      /\ Rooted(ledger) /\ Hidden(ledger)
  BY <1>1 DEF StreamUnderway, Repairing, Tells
<1>3. KindOf[t] = "plain" \/ text = "full"
  <2>1. CASE unwritten
    BY <2>1
  <2>2. CASE ~unwritten
    <3>1. ledger.blocks[ledger.tools[t].block].content = "part"
      BY <1>1, <2>2 DEF Prefix
    <3> QED
      BY <1>2, <3>1 DEF Hidden
  <2> QED
    BY <2>1, <2>2
<1>4. text \in Contents
  BY DEF Contents, Fragments
<1> HIDE DEF text
<1>5. Tells(Shown(ledger), e) /\ l.tools = ledger.tools
  BY <1>2, <1>3, <1>4, ToolDeltaTells
<1>6. DOMAIN l.blocks = DOMAIN ledger.blocks /\ l.open = ledger.open
  <2>1. ledger.tools[t].block \in DOMAIN ledger.blocks
    BY <1>2 DEF Rooted, ToolsRooted, WellTyped
  <2>2. WellTyped(ledger)
    BY <1>2 DEF Rooted
  <2> QED
    BY <1>2, <1>4, <2>1, <2>2, DeltaLedger DEF ToolDelta
<1>7. Shown(l) = Shown(ledger)
  BY <1>6 DEF Shown
<1>8. e = [ledger |-> l, out |-> e.out]
  BY <1>5 DEF Tells, InStep
<1> HIDE DEF e, l
<1>9. Repairing' = e
  BY <1>1, <1>8 DEF Repairing, l
<1>10. StartedTools(ledger') = StartedTools(ledger)
  BY <1>1, <1>5 DEF StartedTools
<1> QED
  BY <1>1, <1>2, <1>5, <1>7, <1>9, <1>10 DEF StreamUnderway

LEMMA RecoveryBeginsKeeps ==
  ASSUME StreamUnderway, RecoveryBegins
  PROVE  StreamUnderway'
<1>1. /\ stage' = "recovering" /\ todo' \subseteq StartedTools(ledger)
      /\ UNCHANGED <<ledger, kept, committed, repairs, seen, parked>>
      /\ stage = "reading"
  BY DEF RecoveryBegins, readingVars
<1>2. Repairing' = Repairing
  BY <1>1 DEF Repairing
<1> QED
  BY <1>1, <1>2 DEF StreamUnderway

LEMMA OpenKeeps ==
  ASSUME StreamUnderway, OpenStream
  PROVE  StreamUnderway'
<1>1. /\ stage' = "reading"
      /\ UNCHANGED <<ledger, kept, committed, repairs, seen, parked>>
      /\ stage = "opening"
  BY DEF OpenStream, readingVars, repairVars
<1>2. Repairing' = Repairing
  BY <1>1 DEF Repairing
<1> QED
  BY <1>1, <1>2 DEF StreamUnderway

\* Steps of the recovery that change nothing but what is left to do.
LEMMA RepairIdles ==
  ASSUME StreamUnderway, NEW t \in Tools, RepairUnneeded(t) \/ RepairRefused(t)
  PROVE  StreamUnderway'
<1>1. /\ stage' = stage /\ todo' \subseteq todo
      /\ UNCHANGED <<ledger, kept, committed, repairs, seen, parked>>
  BY DEF RepairUnneeded, RepairRefused, readingVars, repairVars
<1>2. Repairing' = Repairing
  BY <1>1 DEF Repairing
<1> QED
  BY <1>1, <1>2 DEF StreamUnderway

LEMMA SalvageKeeps ==
  ASSUME StreamUnderway, ToolsSalvaged
  PROVE  stage' \in Over /\ ClientGetsItWhole'
<1>1. Tells(Shown(ledger), Repairing) /\ Repairing.ledger = ledger
  BY DEF StreamUnderway, Repairing
<1>2. AllComplete(ledger) /\ Recovers(Repairing)
  BY DEF ToolsSalvaged
<1>3. DOMAIN ledger.blocks # {}
  BY <1>2 DEF AllComplete, ToolBlocks
<1> QED
  BY <1>1, <1>2, <1>3, RecoversKeeps

LEMMA ContinuedKeeps ==
  ASSUME StreamUnderway, TextContinued
  PROVE  stage' \in Over /\ ClientGetsItWhole'
<1> DEFINE b == From(ledger)
           thought == WriteThinking(b)
<1>1. Tells(Shown(ledger), b) /\ b.ledger = ledger
  BY UnderwayTells DEF From
<1>2. NoTools(b.ledger)
  BY <1>1 DEF TextContinued, NoTools
<1>3. PICK e \in {thought, WriteText(b), WriteText(thought)} : Recovers(e)
  BY DEF TextContinued
<1> HIDE DEF b
<1>4. Tells(Shown(ledger), thought) /\ GoesOn(b, thought) /\ DOMAIN thought.ledger.blocks # {}
  BY <1>1, WriteThinkingTells
<1> HIDE DEF thought
<1>5. Tells(Shown(ledger), e) /\ GoesOn(b, e) /\ DOMAIN e.ledger.blocks # {}
  <2>1. CASE e = thought
    BY <1>4, <2>1
  <2>2. CASE e = WriteText(b)
    BY <1>1, <2>2, WriteTextTells
  <2>3. CASE e = WriteText(thought)
    BY <1>4, <2>3, WriteTextTells, GoesOnAgain
  <2> QED
    BY <1>3, <2>1, <2>2, <2>3
<1>6. NoTools(e.ledger)
  BY <1>2, <1>5 DEF GoesOn
<1> QED
  BY <1>3, <1>5, <1>6, RecoversKeeps

\* The reader who leaves, or is told of a failure before anything was sent.
LEMMA LeavingKeeps ==
  ASSUME StreamUnderway, OpeningFails \/ Abandoned
  PROVE  stage' \in Over /\ ClientGetsItWhole'
<1>1. Hidden(ledger) /\ ~seen.broken
  <2>1. CASE committed
    <3>1. seen = Shown(ledger)
      BY <2>1, ReadsNone DEF StreamUnderway
    <3> QED
      BY <3>1, UnderwayTells DEF Shown, Reader
  <2>2. CASE ~committed
    BY <2>2, UnderwayTells DEF StreamUnderway, NothingSeen
  <2> QED
    BY <2>1, <2>2
<1>2. CASE OpeningFails
  <2>1. stage' = "raised" /\ ledger' = ledger /\ seen' = NothingSeen
    BY <1>2 DEF OpeningFails, StreamUnderway
  <2>2. ~seen'.broken /\ ~seen'.stopped /\ seen'.open = {}
    BY <2>1 DEF NothingSeen
  <2>3. Hidden(ledger)'
    BY <1>1, <2>1 DEF Hidden, StartedTools
  <2> QED
    BY <2>1, <2>2, <2>3 DEF ClientGetsItWhole, ClientStreamIsWhole, ToolsArriveWhole, Hidden, Over
<1>3. CASE Abandoned
  <2>1. stage' = "gone" /\ ledger' = ledger /\ seen' = seen
    BY <1>3 DEF Abandoned
  <2>2. Hidden(ledger)'
    BY <1>1, <2>1 DEF Hidden, StartedTools
  <2> QED
    BY <1>1, <2>1, <2>2 DEF ClientGetsItWhole, ClientStreamIsWhole, ToolsArriveWhole, Hidden, Over
<1> QED
  BY <1>2, <1>3

LEMMA RecoverySteps == RecoveryInv /\ [RecoveryNext]_recoveryVars => RecoveryInv'
<1> SUFFICES ASSUME RecoveryInv, [RecoveryNext]_recoveryVars PROVE RecoveryInv'
  OBVIOUS
<1>1. CASE UNCHANGED recoveryVars
  <2>1. UNCHANGED <<stage, ledger, kept, committed, parked, todo, repairs, seen>>
    BY <1>1 DEF recoveryVars
  <2>2. CASE StreamUnderway
    <3>1. Repairing' = Repairing
      BY <2>1 DEF Repairing
    <3>2. StreamUnderway'
      BY <2>1, <2>2, <3>1 DEF StreamUnderway
    <3> QED
      BY <3>2 DEF RecoveryInv
  <2>3. CASE stage \in Over /\ ClientGetsItWhole
    <3>1. ClientGetsItWhole'
      BY <2>1, <2>3 DEF ClientGetsItWhole, ClientStreamIsWhole, ToolsArriveWhole, StartedTools,
                        ToolBlocks, AllComplete
    <3> QED
      BY <2>1, <2>3, <3>1 DEF RecoveryInv
  <2> QED
    BY <2>2, <2>3 DEF RecoveryInv
<1>2. CASE RecoveryNext
  <2>1. stage \notin Over
    BY <1>2 DEF RecoveryNext, Runs, ReadsChunk, Silence, Finish, Reasoning, Content, ToolCall, Chunk,
                OpenStream, OpeningFails, EndOfStream, RetriesEarly, RecoveryBegins, StreamRaises,
                RepairUnneeded, RepairAccepted, RepairRefused, ToolsSalvaged, TextContinued,
                RecoveryFails, Abandoned, Over
  <2>2. StreamUnderway
    BY <2>1 DEF RecoveryInv
  <2>3. CASE OpenStream
    BY <2>2, <2>3, OpenKeeps DEF RecoveryInv
  <2>4. CASE OpeningFails \/ Abandoned
    BY <2>2, <2>4, LeavingKeeps DEF RecoveryInv
  <2>5. CASE ReadsChunk
    BY <2>2, <2>5, ChunksKeep DEF RecoveryInv
  <2>6. CASE EndOfStream
    BY <2>2, <2>6, EndOfStreamKeeps DEF RecoveryInv
  <2>7. CASE RetriesEarly
    BY <2>2, <2>7, RetryKeeps DEF RecoveryInv
  <2>8. CASE RecoveryBegins
    BY <2>2, <2>8, RecoveryBeginsKeeps DEF RecoveryInv
  <2>9. CASE StreamRaises
    BY <2>2, <2>9, GiveUpKeeps DEF RecoveryInv, StreamRaises
  <2>10. ASSUME NEW t \in Tools, RepairUnneeded(t) \/ RepairAccepted(t) \/ RepairRefused(t)
         PROVE  RecoveryInv'
    BY <2>2, <2>10, RepairIdles, RepairKeeps DEF RecoveryInv
  <2>11. CASE ToolsSalvaged
    BY <2>2, <2>11, SalvageKeeps DEF RecoveryInv
  <2>12. CASE TextContinued
    BY <2>2, <2>12, ContinuedKeeps DEF RecoveryInv
  <2>13. CASE RecoveryFails
    BY <2>2, <2>13, GiveUpKeeps DEF RecoveryInv, RecoveryFails
  <2> QED
    BY <1>2, <2>3, <2>4, <2>5, <2>6, <2>7, <2>8, <2>9, <2>10, <2>11, <2>12, <2>13
       DEF RecoveryNext, Runs
<1> QED
  BY <1>1, <1>2

\* What an execution that goes on has sent is well-formed, and hides what it must.
LEMMA RecoveryInvMeans == RecoveryInv => ClientGetsItWhole
<1> SUFFICES ASSUME StreamUnderway PROVE ClientGetsItWhole
  BY DEF RecoveryInv
<1>1. Hidden(ledger)
  BY UnderwayTells
<1>2. ~seen.broken
  <2>1. CASE committed
    <3>1. seen = Shown(ledger)
      BY <2>1, ReadsNone DEF StreamUnderway
    <3> QED
      BY <3>1 DEF Shown, Reader
  <2>2. CASE ~committed
    BY <2>2 DEF StreamUnderway, NothingSeen
  <2> QED
    BY <2>1, <2>2
<1>3. stage \notin {"completed", "recovered", "raised"}
  BY DEF StreamUnderway
<1> QED
  BY <1>1, <1>2, <1>3 DEF ClientGetsItWhole, ClientStreamIsWhole, ToolsArriveWhole, Hidden

\* For any number of attempts and of chunks, any tool calls and whichever of them are
\* rewritten, the client reads one well-formed stream however often the upstream stream
\* breaks, and the arguments of its tool calls arrive whole (the commit boundary of
\* openai_chat/provider.py and stream_recovery.py, over the ledger of an attempt).
THEOREM ClientsGetItWhole == RecoverySpec => []ClientGetsItWhole
<1>1. RecoverySpec => []RecoveryInv
  BY RecoveryStarts, RecoverySteps, PTL DEF RecoverySpec
<1> QED
  BY <1>1, RecoveryInvMeans, PTL

=============================================================================
