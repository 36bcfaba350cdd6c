------------------------------ MODULE SlidingWindow ------------------------------
(* The strict sliding-window limiter that paces upstream attempts and chat        *)
(* messages. _times is the log of every recorded admission without the entries    *)
(* already pruned from its front: the model keeps the whole log and how many were *)
(* dropped. The lock is never held across an await, so one turn of the loop in    *)
(* _acquire is one step; it reads the clock twice.                                *)
EXTENDS Naturals, Sequences

CONSTANTS
  Tasks,                    \* tasks that call acquire or acquire_if once
  Limit, Window,            \* _rate_limit, _rate_window
  MaxTime,                  \* bound: where the clock stops
  LastAsk                   \* bound: when the last task asks

ASSUME WindowAssumption ==
  /\ Limit \in Nat \ {0}
  /\ Window \in Nat \ {0}
  /\ MaxTime \in Nat
  /\ LastAsk \in Nat

VARIABLES
  clock,                    \* time.monotonic()
  log,                      \* times of all admissions, in the order recorded
  dropped,                  \* entries of log no longer in _times
  place,                       \* where each task is in _acquire
  wake,                     \* wake[t]: when t's sleep is over
  allowed                   \* allowed[t]: what t's condition would answer now

windowVars == <<clock, log, dropped, place, wake, allowed>>

Places == {"idle", "asking", "sleeping", "admitted", "refused", "cancelled"}
Finished == {"admitted", "refused", "cancelled"}

WindowInit ==
  /\ clock = 0 /\ log = <<>> /\ dropped = 0
  /\ place = [t \in Tasks |-> "idle"]
  /\ wake = [t \in Tasks |-> 0]
  /\ allowed = [t \in Tasks |-> TRUE]

-----------------------------------------------------------------------------

Expired(i, now) == log[i] + Window <= now

\* d entries are gone once everything expired was popped off the front
PrunedTo(d, now) ==
  /\ d \in dropped .. Len(log)
  /\ \A i \in dropped + 1 .. d : Expired(i, now)
  /\ d < Len(log) => ~Expired(d + 1, now)

Full(d) == Len(log) - d >= Limit

Ask(t) ==
  /\ place[t] = "idle" /\ clock <= LastAsk
  /\ place' = [place EXCEPT ![t] = "asking"]
  /\ UNCHANGED <<clock, log, dropped, wake, allowed>>

\* acquire_if's condition turns false, for good.
Forbid(t) ==
  /\ allowed[t] /\ place[t] \notin Finished
  /\ allowed' = [allowed EXCEPT ![t] = FALSE]
  /\ UNCHANGED <<clock, log, dropped, place, wake>>

\* There is room: the condition is asked, and the time read again, before anything
\* else can run.
Grant(t) ==
  /\ place[t] = "asking" /\ allowed[t]
  /\ \E d \in dropped .. Len(log) :
       PrunedTo(d, clock) /\ ~Full(d) /\ dropped' = d
  /\ \E late \in {0, 1} : clock + late <= MaxTime /\ clock' = clock + late
  /\ log' = Append(log, clock')
  /\ place' = [place EXCEPT ![t] = "admitted"]
  /\ UNCHANGED <<wake, allowed>>

\* Mutant of Refuse: an entry is popped without a look at it.
RefusePops(t) ==
  /\ place[t] = "asking" /\ ~allowed[t]
  /\ \E d \in dropped .. Len(log) :
       PrunedTo(d, clock) /\ ~Full(d) /\ dropped' = d + 1
  /\ place' = [place EXCEPT ![t] = "refused"]
  /\ UNCHANGED <<clock, log, wake, allowed>>

Refuse(t) ==
  /\ place[t] = "asking" /\ ~allowed[t]
  /\ \E d \in dropped .. Len(log) :
       PrunedTo(d, clock) /\ ~Full(d) /\ dropped' = d
  /\ place' = [place EXCEPT ![t] = "refused"]
  /\ UNCHANGED <<clock, log, wake, allowed>>

\* Mutant of SleepsUntil: wait for the newest entry to expire.
SleepsUntilLast(d) == log[Len(log)] + Window

SleepsUntil(d) == log[d + 1] + Window

\* No room: sleep until the oldest entry expires.
Wait(t) ==
  /\ place[t] = "asking"
  /\ \E d \in dropped .. Len(log) :
       /\ PrunedTo(d, clock) /\ Full(d) /\ dropped' = d
       /\ wake' = [wake EXCEPT ![t] = SleepsUntil(d)]
  /\ place' = [place EXCEPT ![t] = "sleeping"]
  /\ UNCHANGED <<clock, log, allowed>>

\* Mutant of Wakes: whoever wakes up is admitted without another look.
WakeUpAdmitted(t) ==
  /\ place[t] = "sleeping" /\ clock >= wake[t]
  /\ log' = Append(log, clock)
  /\ place' = [place EXCEPT ![t] = "admitted"]
  /\ UNCHANGED <<clock, dropped, wake, allowed>>

\* The sleep is over: back to the top of the loop.
Wakes(t) ==
  /\ place[t] = "sleeping" /\ clock >= wake[t]
  /\ place' = [place EXCEPT ![t] = "asking"]
  /\ UNCHANGED <<clock, log, dropped, wake, allowed>>

CancelAsk(t) ==
  /\ place[t] = "sleeping"
  /\ place' = [place EXCEPT ![t] = "cancelled"]
  /\ UNCHANGED <<clock, log, dropped, wake, allowed>>

Tick ==
  /\ clock < MaxTime
  /\ clock' = clock + 1
  /\ UNCHANGED <<log, dropped, place, wake, allowed>>

\* The bound is reached: time stands still.
ClockStopped == clock = MaxTime /\ UNCHANGED windowVars

Turn(t) == Grant(t) \/ Refuse(t) \/ Wait(t)

Acquire(t) == Ask(t) \/ Forbid(t) \/ Turn(t) \/ Wakes(t) \/ CancelAsk(t)

WindowNext == (\E t \in Tasks : Acquire(t)) \/ Tick \/ ClockStopped

WindowSpec == WindowInit /\ [][WindowNext]_windowVars

(* Nobody has to ask, and conditions and cancellations are the callers' own       *)
(* affair; the event loop runs every ready task. With a clock that stops, time    *)
(* must not run past tasks that are ready, so here it passes only when none is.   *)
Ready(t) == place[t] = "asking" \/ (place[t] = "sleeping" /\ clock >= wake[t])

PromptTick == Tick /\ \A t \in Tasks : ~Ready(t)

PromptNext == (\E t \in Tasks : Acquire(t)) \/ PromptTick \/ ClockStopped

FairWindowSpec ==
  /\ WindowInit /\ [][PromptNext]_windowVars
  /\ WF_windowVars(PromptTick)
  /\ \A t \in Tasks : WF_windowVars(Turn(t)) /\ WF_windowVars(Wakes(t))

-----------------------------------------------------------------------------
(* Properties *)

\* The log is a log, and what was dropped is a part of it.
WindowTypeOK ==
  /\ clock \in 0 .. MaxTime
  /\ log \in Seq(0 .. MaxTime)
  /\ dropped \in 0 .. Len(log)
  /\ place \in [Tasks -> Places]
  /\ wake \in [Tasks -> Nat]
  /\ allowed \in [Tasks -> BOOLEAN]

\* "At most rate_limit acquisitions in any interval of length rate_window": any
\* Limit + 1 consecutive admissions span at least one window, whichever tasks
\* slept, woke up together or were cancelled in between.
WindowBound ==
  \A i \in 1 .. Len(log) : i + Limit <= Len(log) => log[i] + Window <= log[i + Limit]

\* Nobody sleeps while there is room: until its sleep is over, the Limit most
\* recent admissions are all still in the window.
SleepersBlocked ==
  \A t \in Tasks : place[t] = "sleeping" /\ clock < wake[t] =>
     /\ Limit <= Len(log)
     /\ ~Expired(Len(log) + 1 - Limit, clock)

\* Whoever asks is answered: the tasks that wake up for the same entry and find its
\* place taken do not wait for ever, as only so many others can overtake them.
EveryAskerAnswered ==
  \A t \in Tasks : place[t] = "asking" ~> place[t] \in Finished

=============================================================================
