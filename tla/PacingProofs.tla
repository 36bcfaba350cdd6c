------------------------------- MODULE PacingProofs -------------------------------
(***************************************************************************)
(* Proofs about what paces a call: SlidingWindow, for every limit, window, *)
(* number of callers and clock, and MessagingDelivery, the queue of chat   *)
(* messages before it, for every number of calls, keys and tries.          *)
(***************************************************************************)
EXTENDS SlidingWindow, MessagingDelivery, OrderedLinesProofs

--------------------------------------------------------------------------------
(***************************************************************************)
(* The sliding window.                                                     *)
(*                                                                         *)
(* The bound itself is not inductive: the log is also sorted and not in    *)
(* the future, and what was dropped from it has expired, so that room in   *)
(* _times means that the entry Limit places back is a whole window old.    *)
(***************************************************************************)

\* The log is in order and ends in the past.
LogSorted ==
  /\ \A i, j \in 1 .. Len(log) : i <= j => log[i] <= log[j]
  /\ \A i \in 1 .. Len(log) : log[i] <= clock

DroppedExpired == \A i \in 1 .. dropped : Expired(i, clock)

\* Whoever sleeps waits for an entry that Limit - 1 later ones still follow.
SleepersEntry ==
  \A t \in Tasks : place[t] = "sleeping" =>
     \E i \in 1 .. Len(log) : wake[t] = log[i] + Window /\ i + Limit <= Len(log) + 1

WindowInv == WindowTypeOK /\ LogSorted /\ DroppedExpired /\ SleepersEntry /\ WindowBound

USE WindowAssumption DEF Places

-----------------------------------------------------------------------------

\* The log starts empty.
LEMMA WindowStarts == WindowInit => WindowInv
<1> SUFFICES ASSUME WindowInit PROVE WindowInv
    OBVIOUS
<1>1. WindowTypeOK
  <2>1. log \in Seq(0 .. MaxTime) /\ Len(log) = 0
    BY DEF WindowInit
  <2> QED
    BY <2>1 DEF WindowInit, WindowTypeOK
<1>2. LogSorted /\ DroppedExpired /\ SleepersEntry /\ WindowBound
    BY DEF WindowInit, LogSorted, DroppedExpired, SleepersEntry, WindowBound
<1> QED
    BY <1>1, <1>2 DEF WindowInv

\* A step that leaves the log alone keeps the invariant, if time does not run
\* backwards, only expired entries are dropped, and no sleeper appears.
LEMMA LogKept ==
    ASSUME WindowInv, log' = log, WindowTypeOK', clock <= clock',
           \A i \in dropped + 1 .. dropped' : Expired(i, clock'),
           \A t \in Tasks : place'[t] = "sleeping" => place[t] = "sleeping" /\ wake'[t] = wake[t]
    PROVE  WindowInv'
<1>1. WindowTypeOK /\ LogSorted /\ DroppedExpired /\ SleepersEntry /\ WindowBound
    BY DEF WindowInv
<1>2. \A i \in 1 .. Len(log) : log[i] \in Nat
    BY <1>1 DEF WindowTypeOK
<1>3. LogSorted'
    BY <1>1, <1>2 DEF WindowTypeOK, LogSorted
<1>4. DroppedExpired'
  <2> SUFFICES ASSUME NEW i \in 1 .. dropped' PROVE log[i] + Window <= clock'
    BY DEF DroppedExpired, Expired
  <2>1. i \in 1 .. Len(log)
    BY DEF WindowTypeOK
  <2>2. CASE i <= dropped
    BY <1>1, <1>2, <2>1, <2>2 DEF WindowTypeOK, DroppedExpired, Expired
  <2>3. CASE i > dropped
    BY <1>1, <2>1, <2>3 DEF WindowTypeOK, Expired
  <2> QED
    BY <1>1, <2>2, <2>3 DEF WindowTypeOK
<1>5. SleepersEntry'
    BY <1>1 DEF SleepersEntry
<1>6. WindowBound'
    BY <1>1 DEF WindowBound
<1> QED
    BY <1>3, <1>4, <1>5, <1>6 DEF WindowInv

\* An admission is recorded only when the entry Limit places back has expired.
LEMMA GrantStep == ASSUME WindowInv, NEW t \in Tasks, Grant(t) PROVE WindowInv'
<1>1. WindowTypeOK /\ LogSorted /\ DroppedExpired /\ SleepersEntry /\ WindowBound
    BY DEF WindowInv
<1>2. PICK d \in dropped .. Len(log) : PrunedTo(d, clock) /\ ~Full(d) /\ dropped' = d
    BY DEF Grant
<1> DEFINE n == Len(log)
<1>3. /\ n \in Nat /\ dropped \in 0 .. n /\ d \in 0 .. n /\ clock \in Nat
      /\ \A i \in 1 .. n : log[i] \in Nat
    BY <1>1 DEF WindowTypeOK
<1>4. clock' \in 0 .. MaxTime /\ clock <= clock'
    BY <1>3 DEF Grant
<1>5. /\ log' \in Seq(0 .. MaxTime) /\ Len(log') = n + 1
      /\ log'[n + 1] = clock' /\ \A i \in 1 .. n : log'[i] = log[i]
    BY <1>1, <1>4 DEF WindowTypeOK, Grant
<1>6. \A i \in 1 .. d : log[i] + Window <= clock
    BY <1>1, <1>2, <1>3 DEF DroppedExpired, PrunedTo, Expired
<1>7. n - d < Limit
    BY <1>2, <1>3 DEF Full
<1> HIDE DEF n
<1>8. WindowTypeOK'
    BY <1>1, <1>2, <1>3, <1>4, <1>5 DEF WindowTypeOK, Grant
<1>9. LogSorted'
  <2>0. \A i \in 1 .. n : log[i] <= clock
    BY <1>1 DEF LogSorted, n
  <2>1. \A i \in 1 .. n : log'[i] <= clock'
    BY <1>3, <1>4, <1>5, <2>0, SMTT(20)
  <2>2. \A i, j \in 1 .. n : i <= j => log'[i] <= log'[j]
    BY <1>1, <1>5 DEF LogSorted, n
  <2> QED
    BY <1>3, <1>4, <1>5, <2>1, <2>2 DEF LogSorted
<1>10. DroppedExpired'
  <2> SUFFICES ASSUME NEW i \in 1 .. d PROVE log'[i] + Window <= clock'
    BY <1>2 DEF DroppedExpired, Expired
  <2>1. log'[i] = log[i] /\ log[i] \in Nat
    BY <1>3, <1>5
  <2>2. log[i] + Window <= clock
    BY <1>6
  <2> QED
    BY <1>3, <1>4, <2>1, <2>2
<1>11. SleepersEntry'
  <2> SUFFICES ASSUME NEW u \in Tasks, place'[u] = "sleeping"
               PROVE  \E i \in 1 .. n + 1 :
                        wake'[u] = log'[i] + Window /\ i + Limit <= n + 2
    BY <1>3, <1>5 DEF SleepersEntry
  <2>1. place[u] = "sleeping" /\ wake'[u] = wake[u]
    BY <1>1 DEF WindowTypeOK, Grant
  <2>2. PICK i \in 1 .. n : wake[u] = log[i] + Window /\ i + Limit <= n + 1
    BY <1>1, <2>1 DEF SleepersEntry, n
  <2>3. i \in 1 .. n + 1 /\ log'[i] = log[i]
    BY <1>3, <1>5
  <2>4. i + Limit <= n + 2
    BY <1>3, <2>2
  <2> QED
    BY <2>1, <2>2, <2>3, <2>4
<1>12. WindowBound'
  <2> SUFFICES ASSUME NEW i \in 1 .. n + 1, i + Limit <= n + 1
               PROVE  log'[i] + Window <= log'[i + Limit]
    BY <1>5 DEF WindowBound
  <2>1. i \in 1 .. n
    BY <1>3
  <2>2. CASE i + Limit <= n
    <3>1. log[i] + Window <= log[i + Limit]
      BY <1>1, <2>1, <2>2 DEF WindowBound, n
    <3>2. i + Limit \in 1 .. n
      BY <1>3, <2>1, <2>2
    <3> QED
      BY <1>5, <2>1, <3>1, <3>2
  <2>3. CASE i + Limit = n + 1
    <3>1. i <= d
      BY <1>3, <1>7, <2>1, <2>3
    <3>2. log[i] + Window <= clock /\ log[i] \in Nat
      BY <1>3, <1>6, <2>1, <3>1
    <3>3. log'[i] = log[i] /\ log'[i + Limit] = clock'
      BY <1>5, <2>1, <2>3
    <3> QED
      BY <1>3, <1>4, <3>2, <3>3
  <2> QED
    BY <1>3, <2>1, <2>2, <2>3
<1> QED
    BY <1>8, <1>9, <1>10, <1>11, <1>12 DEF WindowInv

\* A refusal only prunes.
LEMMA RefuseStep == ASSUME WindowInv, NEW t \in Tasks, Refuse(t) PROVE WindowInv'
<1>1. PICK d \in dropped .. Len(log) : PrunedTo(d, clock) /\ dropped' = d
    BY DEF Refuse
<1>2. WindowTypeOK'
    BY <1>1 DEF WindowInv, WindowTypeOK, Refuse
<1>3. \A i \in dropped + 1 .. dropped' : Expired(i, clock')
    BY <1>1 DEF PrunedTo, Expired, Refuse
<1>4. clock <= clock' /\ log' = log
    BY DEF WindowInv, WindowTypeOK, Refuse
<1>5. \A u \in Tasks : place'[u] = "sleeping" => place[u] = "sleeping" /\ wake'[u] = wake[u]
    BY DEF WindowInv, WindowTypeOK, Refuse
<1> QED
    BY <1>2, <1>3, <1>4, <1>5, LogKept

\* A task that goes to sleep waits for the oldest entry of a full window.
LEMMA WaitStep == ASSUME WindowInv, NEW t \in Tasks, Wait(t) PROVE WindowInv'
<1>1. WindowTypeOK /\ LogSorted /\ DroppedExpired /\ SleepersEntry /\ WindowBound
    BY DEF WindowInv
<1>2. PICK d \in dropped .. Len(log) :
        /\ PrunedTo(d, clock) /\ Full(d) /\ dropped' = d
        /\ wake' = [wake EXCEPT ![t] = log[d + 1] + Window]
    BY DEF Wait, SleepsUntil
<1>3. /\ d \in 0 .. Len(log) /\ d + 1 \in 1 .. Len(log) /\ Len(log) \in Nat
      /\ d + 1 + Limit <= Len(log) + 1
    BY <1>1, <1>2 DEF WindowTypeOK, Full
<1>4. log[d + 1] \in Nat
    BY <1>1, <1>3 DEF WindowTypeOK
<1>5. UNCHANGED <<clock, log, allowed>> /\ place' = [place EXCEPT ![t] = "sleeping"]
    BY DEF Wait
<1>6. WindowTypeOK'
  <2>1. wake' \in [Tasks -> Nat]
    BY <1>1, <1>2, <1>4 DEF WindowTypeOK
  <2>2. dropped' \in 0 .. Len(log)
    BY <1>2, <1>3
  <2>3. place' \in [Tasks -> Places]
    BY <1>1, <1>5 DEF WindowTypeOK
  <2> QED
    BY <1>1, <1>5, <2>1, <2>2, <2>3 DEF WindowTypeOK
<1>7. DroppedExpired'
  <2>1. dropped' = d /\ UNCHANGED <<clock, log>>
    BY <1>2, <1>5
  <2>2. \A i \in dropped + 1 .. d : log[i] + Window <= clock
    BY <1>2 DEF PrunedTo, Expired
  <2>3. \A i \in 1 .. dropped : log[i] + Window <= clock
    BY <1>1 DEF DroppedExpired, Expired
  <2>4. \A i \in 1 .. d : log[i] + Window <= clock
    BY <1>1, <1>3, <2>2, <2>3 DEF WindowTypeOK
  <2> QED
    BY <2>1, <2>4 DEF DroppedExpired, Expired
<1>8. SleepersEntry'
  <2> SUFFICES ASSUME NEW u \in Tasks, place'[u] = "sleeping"
               PROVE  \E i \in 1 .. Len(log) :
                        wake'[u] = log[i] + Window /\ i + Limit <= Len(log) + 1
    BY <1>5 DEF SleepersEntry
  <2>1. CASE u = t
    BY <1>1, <1>2, <1>3, <2>1 DEF WindowTypeOK
  <2>2. CASE u # t
    BY <1>1, <1>2, <1>5, <2>2 DEF WindowTypeOK, SleepersEntry
  <2> QED
    BY <2>1, <2>2
<1>9. LogSorted' /\ WindowBound'
    BY <1>1, <1>5 DEF LogSorted, WindowBound
<1> QED
    BY <1>6, <1>7, <1>8, <1>9 DEF WindowInv

\* Steps that touch neither the log nor the pruning.
LEMMA QuietStep ==
    ASSUME WindowInv, UNCHANGED <<log, dropped>>, WindowTypeOK', clock <= clock',
           \A t \in Tasks : place'[t] = "sleeping" => place[t] = "sleeping" /\ wake'[t] = wake[t]
    PROVE  WindowInv'
<1>1. \A i \in dropped + 1 .. dropped' : Expired(i, clock')
    BY DEF WindowInv, WindowTypeOK
<1> QED
    BY <1>1, LogKept

\* Every step keeps the invariant.
LEMMA WindowStep == WindowInv /\ [WindowNext]_windowVars => WindowInv'
<1> SUFFICES ASSUME WindowInv, [WindowNext]_windowVars PROVE WindowInv'
    OBVIOUS
<1>1. ASSUME NEW t \in Tasks, Acquire(t) PROVE WindowInv'
  <2>1. CASE Turn(t)
    BY <2>1, GrantStep, RefuseStep, WaitStep DEF Turn
  <2>2. CASE Ask(t) \/ Forbid(t) \/ Wakes(t) \/ CancelAsk(t)
    <3>1. UNCHANGED <<clock, log, dropped, wake>>
      BY <2>2 DEF Ask, Forbid, Wakes, CancelAsk
    <3>2. place' \in [Tasks -> Places] /\ allowed' \in [Tasks -> BOOLEAN]
      BY <2>2 DEF WindowInv, WindowTypeOK, Ask, Forbid, Wakes, CancelAsk
    <3>3. WindowTypeOK' /\ clock <= clock'
      BY <3>1, <3>2 DEF WindowInv, WindowTypeOK
    <3>4. \A u \in Tasks :
            place'[u] = "sleeping" => place[u] = "sleeping" /\ wake'[u] = wake[u]
      BY <2>2 DEF WindowInv, WindowTypeOK, Ask, Forbid, Wakes, CancelAsk
    <3> QED
      BY <3>1, <3>3, <3>4, QuietStep
  <2> QED
    BY <1>1, <2>1, <2>2 DEF Acquire
<1>2. CASE Tick
  <2>1. WindowTypeOK' /\ clock <= clock'
    BY <1>2 DEF WindowInv, WindowTypeOK, Tick
  <2> QED
    BY <1>2, <2>1, QuietStep DEF Tick
<1>3. CASE UNCHANGED windowVars
  <2>1. WindowTypeOK' /\ clock <= clock'
    BY <1>3 DEF WindowInv, WindowTypeOK, windowVars
  <2> QED
    BY <1>3, <2>1, QuietStep DEF windowVars
<1> QED
    BY <1>1, <1>2, <1>3 DEF WindowNext, ClockStopped

\* The inductive invariant holds throughout.
THEOREM WindowInvariance == WindowSpec => []WindowInv
    BY WindowStarts, WindowStep, PTL DEF WindowSpec

\* The limiter's state is always well formed.
THEOREM WindowTypeCorrect == WindowSpec => []WindowTypeOK
<1>1. WindowInv => WindowTypeOK
    BY DEF WindowInv
<1> QED
    BY <1>1, WindowInvariance, PTL

\* At most rate_limit acquisitions in any interval of length rate_window.
THEOREM StrictWindow == WindowSpec => []WindowBound
<1>1. WindowInv => WindowBound
    BY DEF WindowInv
<1> QED
    BY <1>1, WindowInvariance, PTL

\* A task sleeps only while the window is full: no capacity is wasted.
THEOREM NoIdleSleep == WindowSpec => []SleepersBlocked
<1>1. WindowInv => SleepersBlocked
  <2> SUFFICES ASSUME WindowInv, NEW t \in Tasks, place[t] = "sleeping", clock < wake[t]
               PROVE  Limit <= Len(log) /\ ~Expired(Len(log) + 1 - Limit, clock)
    BY DEF SleepersBlocked
  <2>1. PICK i \in 1 .. Len(log) : wake[t] = log[i] + Window /\ i + Limit <= Len(log) + 1
    BY DEF WindowInv, SleepersEntry
  <2>2. /\ Len(log) \in Nat /\ clock \in Nat
        /\ \A j \in 1 .. Len(log) : log[j] \in Nat
    BY DEF WindowInv, WindowTypeOK
  <2>3. Len(log) + 1 - Limit \in 1 .. Len(log) /\ i <= Len(log) + 1 - Limit
    BY <2>1, <2>2
  <2>4. log[i] <= log[Len(log) + 1 - Limit]
    BY <2>1, <2>3 DEF WindowInv, LogSorted
  <2> QED
    BY <2>1, <2>2, <2>3, <2>4 DEF Expired
<1> QED
    BY <1>1, WindowInvariance, PTL

HIDE WindowAssumption DEF Places

--------------------------------------------------------------------------------
(***************************************************************************)
(* Delivery to a platform.                                                 *)
(*                                                                         *)
(* No future is forgotten because the line has exactly the keys that are   *)
(* queued (Queue), and because the close ends the worker before the tasks  *)
(* (Closings).  That texts are shown in order is a longer argument: two    *)
(* calls that take the same way are started in turn (ReadyInTurn), so that *)
(* the older is enqueued first (FirstTries); hence an operation follows    *)
(* only what it may follow (Newest), through the queue and the worker.     *)
(***************************************************************************)

\* What is known of a call by where it is: a task that has not started has not tried, a
\* call that waits has, and one that retries has a try left.
Callers ==
  \A c \in Calls :
    /\ c <= made <=> call[c] # "unmade"
    /\ c <= made => callKey[c] \in Keys /\ mode[c] \in AllModes
    /\ call[c] \in {"unmade", "owned", "spawned"} => tries[c] = 0
    /\ call[c] \in {"waiting", "backoff"} => tries[c] > 0
    /\ call[c] = "backoff" => tries[c] < MaxTries
    /\ call[c] = "owned" => mode[c] = "owned"
    /\ call[c] = "spawned" => mode[c] # "awaited"
    /\ call[c] \in {"owned", "spawned"} <=> c \in ToSet(ready)

\* An operation, under its key, with the calls it answers.
Carries(op, k) ==
  /\ op.func # NoCall /\ callKey[op.func] = k /\ tries[op.func] > 0
  /\ \A c \in op.futures : callKey[c] = k /\ tries[c] > 0

\* The line has the keys that are queued, once each; the worker has an operation in hand
\* except while it waits and when it is over.
Queue ==
  /\ IsInjective(line)
  /\ \A k \in Keys : IF k \in ToSet(line) THEN Carries(entry[k], k) ELSE entry[k] = Absent
  /\ IF worker \in {"waiting", "over"} THEN work = Idle
     ELSE work.key \in Keys /\ Carries(work, work.key)

\* NoFutureForgotten, of the calls that wait.
Answers ==
  \A c \in Calls : call[c] = "waiting" =>
    \/ c \in entry[callKey[c]].futures /\ callKey[c] \in ToSet(line)
    \/ c \in work.futures /\ worker \in Busy

\* How far the platform's close has come tells what is left: the worker is stopped before
\* the limiter's tasks are cancelled, and nobody waits any more.
Closings ==
  /\ worker \in {"stopping", "over"} <=> closing \in {"draining", "closed"}
  /\ closing \in {"draining", "closed"} => \A c \in Calls : call[c] # "waiting"
  /\ closing # "open" => \A c \in Calls : call[c] # "owned"
  /\ closing = "closed" => worker = "over" /\ \A c \in Calls : call[c] \notin {"spawned", "backoff"}

\* f is the older call and takes no longer way to the queue than c.
Comes(f, c) == f < c /\ Hops(f) <= Hops(c)

\* Of two such calls the older is started first: it has made its second task already, or
\* it is before the other in line.
ReadyInTurn ==
  /\ IsInjective(ready)
  /\ \A i, j \in DOMAIN ready : Comes(ready[i], ready[j]) =>
       \/ call[ready[i]] = "spawned" /\ call[ready[j]] = "owned"
       \/ call[ready[i]] = call[ready[j]] /\ i < j

\* So the older call is enqueued first, unless it has been refused or cancelled.
FirstTries ==
  \A f, c \in 1 .. made : Comes(f, c) /\ tries[c] > 0 => tries[f] > 0 \/ call[f] \in CallEnded

\* f may follow c in the queue: it is the newer, or retries, or came a longer way.
Excused(f, c) == f < c => tries[f] > 1 \/ Hops(f) > Hops(c)

\* The calls whose text operation f replaces, or answers, when it is carried out.
After(f, c, k) ==
  \/ work.key = k /\ f = work.func /\ (c = shown[k] \/ c \in work.futures)
  \/ /\ k \in ToSet(line) /\ f = entry[k].func
     /\ c = shown[k] \/ (work.key = k /\ c = work.func) \/ c \in entry[k].futures

\* Every operation may follow what was shown or taken before it and what it has replaced.
Newest ==
  /\ \A k \in Keys, c \in Calls : c = shown[k] => callKey[c] = k /\ tries[c] > 0
  /\ \A k \in Keys, f, c \in Calls : After(f, c, k) => Excused(f, c)

DeliveryInv ==
  /\ DeliveryTypeOK /\ Callers /\ Queue /\ Answers /\ Closings
  /\ ReadyInTurn /\ FirstTries /\ Newest

\* What a step never takes back of a call that was enqueued.
TriedKept ==
  \A d \in Calls : tries[d] > 0 =>
    /\ callKey'[d] = callKey[d] /\ mode'[d] = mode[d]
    /\ tries'[d] \in Nat /\ tries'[d] >= tries[d]

USE DeliveryAssumption DEF Calls, NoCall, AllModes, CallEnded, Busy

--------------------------------------------------------------------------------
(* What a step leaves alone *)

\* Contains says of a key what ToSet says.
LEMMA InLine ==
  ASSUME NEW k \in Keys, line \in Seq(Keys)
  PROVE  Contains(line, k) <=> k \in ToSet(line)
BY DEF Contains, ToSet

\* Whatever a field may hold is a call, or none.
LEMMA NumbersKnown ==
  ASSUME DeliveryInv
  PROVE  /\ \A d \in Calls : d \in Nat /\ tries[d] \in Nat
         /\ \A k \in Keys : /\ shown[k] \in Nat /\ entry[k].func \in Nat
                            /\ shown[k] # NoCall => shown[k] \in Calls
                            /\ entry[k].func # NoCall => entry[k].func \in Calls
                            /\ entry[k].futures \subseteq Calls
         /\ work.func \in Nat /\ (work.func # NoCall => work.func \in Calls)
         /\ work.futures \subseteq Calls
BY DEF DeliveryInv, DeliveryTypeOK

\* A newer operation stays the newer one.
LEMMA StaysExcused ==
  ASSUME DeliveryInv, TriedKept, NEW f \in Calls, NEW c \in Calls, tries[f] > 0, tries[c] > 0,
         Excused(f, c)
  PROVE  Excused(f, c)'
BY NumbersKnown DEF TriedKept, Excused, Hops

\* What is queued, in hand or shown has been enqueued.
LEMMA AfterTried ==
  ASSUME DeliveryInv, NEW k \in Keys, NEW f \in Calls, NEW c \in Calls, After(f, c, k)
  PROVE  tries[f] > 0 /\ tries[c] > 0
BY DEF After, DeliveryInv, Newest, Queue, Carries, Idle

\* A step that changes neither the queue nor what is shown.
LEMMA QueueKept ==
  ASSUME DeliveryInv, TriedKept, UNCHANGED <<line, entry, worker, work, shown>>
  PROVE  Queue' /\ Newest'
<1>1. Queue'
  <2>1. ASSUME NEW k \in Keys, k \in ToSet(line) PROVE Carries(entry[k], k)'
    BY <2>1, NumbersKnown DEF DeliveryInv, Queue, Carries, TriedKept
  <2>2. ASSUME worker \notin {"waiting", "over"} PROVE Carries(work, work.key)'
    BY <2>2, NumbersKnown DEF DeliveryInv, Queue, Carries, TriedKept
  <2> QED
    BY <2>1, <2>2 DEF DeliveryInv, Queue
<1>2. Newest'
  <2>1. \A k \in Keys, f, c \in Calls : After(f, c, k)' => After(f, c, k)
    BY DEF After
  <2>2. \A k \in Keys, c \in Calls : c = shown'[k] => callKey'[c] = k /\ tries'[c] > 0
    BY NumbersKnown DEF DeliveryInv, Newest, TriedKept
  <2>3. ASSUME NEW k \in Keys, NEW f \in Calls, NEW c \in Calls, After(f, c, k)
        PROVE  Excused(f, c)'
    BY <2>3, AfterTried, StaysExcused DEF DeliveryInv, Newest
  <2> QED
    BY <2>1, <2>2, <2>3 DEF Newest
<1> QED
  BY <1>1, <1>2

\* The tasks are those of calls.
LEMMA ReadyElements ==
  ASSUME DeliveryInv
  PROVE  /\ ready \in Seq(Calls) /\ Len(ready) \in Nat /\ DOMAIN ready = 1 .. Len(ready)
         /\ \A i \in DOMAIN ready : ready[i] \in ToSet(ready) /\ ready[i] \in Calls
         /\ ToSet(ready) \subseteq Calls
<1>1. ready \in Seq(Calls)
  BY DEF DeliveryInv, DeliveryTypeOK
<1>2. Len(ready) \in Nat /\ DOMAIN ready = 1 .. Len(ready)
  BY <1>1
<1>3. \A i \in DOMAIN ready : ready[i] \in ToSet(ready) /\ ready[i] \in Calls
  BY <1>1 DEF ToSet
<1> QED
  BY <1>1, <1>2, <1>3 DEF ToSet

\* Where the elements of a longer line are.
LEMMA AppendedElements ==
  ASSUME NEW X, NEW s \in Seq(X), NEW x \in X
  PROVE  /\ DOMAIN Append(s, x) = 1 .. Len(s) + 1 /\ Append(s, x)[Len(s) + 1] = x
         /\ \A i \in DOMAIN s : Append(s, x)[i] = s[i]
OBVIOUS

\* A step that starts no task and makes none.
LEMMA ReadyKept ==
  ASSUME DeliveryInv, ready' = ready,
         \A d \in ToSet(ready) : call'[d] = call[d] /\ mode'[d] = mode[d]
  PROVE  ReadyInTurn'
<1>1. \A i \in DOMAIN ready : ready[i] \in ToSet(ready)
  BY DEF ToSet
<1>2. \A f, c \in ToSet(ready) : Comes(f, c)' => Comes(f, c)
  BY DEF Comes, Hops
<1> QED
  BY <1>1, <1>2 DEF DeliveryInv, ReadyInTurn

\* A step by which nobody tries, and none that has ended comes back.
LEMMA FirstTriesKept ==
  ASSUME DeliveryInv, UNCHANGED <<made, mode, tries>>,
         \A d \in Calls : call[d] \in CallEnded => call'[d] \in CallEnded
  PROVE  FirstTries'
<1>1. 1 .. made \subseteq Calls
  BY DEF DeliveryInv, DeliveryTypeOK
<1> QED
  BY <1>1 DEF DeliveryInv, FirstTries, Comes, Hops

\* A step that ends calls, or lets them wait for a retry, and starts none.
LEMMA CallersEnd ==
  ASSUME DeliveryInv, UNCHANGED <<made, callKey, mode, tries>>,
         \A d \in Calls :
           \/ call'[d] = call[d]
           \/ call[d] # "unmade" /\ call'[d] \in CallEnded
           \/ call'[d] = "backoff" /\ call[d] = "waiting" /\ tries[d] < MaxTries,
         \A d \in Calls : call'[d] \in {"owned", "spawned"} <=> d \in ToSet(ready')
  PROVE  Callers'
BY DEF DeliveryInv, Callers
--------------------------------------------------------------------------------
(* A call is enqueued *)

\* What becomes of the call, and of nobody else.
LEMMA EnqueueTypes ==
  ASSUME DeliveryInv, NEW c \in Calls, NEW k \in Keys, Enqueue(c, k), tries[c] < MaxTries
  PROVE  /\ call' \in [Calls -> {"unmade", "owned", "spawned", "waiting", "backoff"} \cup CallEnded]
         /\ tries' \in [Calls -> 0 .. MaxTries]
         /\ entry' \in [Keys -> [func : 0 .. MaxCalls, futures : SUBSET Calls]]
         /\ line' \in Seq(Keys)
         /\ \/ call'[c] = "waiting" /\ tries'[c] = tries[c] + 1
            \/ call'[c] = "failed" /\ tries'[c] = tries[c]
         /\ \A d \in Calls \ {c} : call'[d] = call[d] /\ tries'[d] = tries[d]
<1>1. DeliveryTypeOK
  BY DEF DeliveryInv
<1>2. CASE LimiterOpen
  <2>1. /\ entry' = [entry EXCEPT ![k] = Compacted(c, k)]
        /\ line' = IF entry[k] = Absent THEN Append(line, k) ELSE line
        /\ call' = [call EXCEPT ![c] = "waiting"]
        /\ tries' = [tries EXCEPT ![c] = @ + 1]
    BY <1>2 DEF Enqueue
  <2>2. /\ call' \in [Calls -> {"unmade", "owned", "spawned", "waiting", "backoff"} \cup CallEnded]
        /\ tries' \in [Calls -> 0 .. MaxTries]
        /\ call'[c] = "waiting" /\ tries'[c] = tries[c] + 1
        /\ \A d \in Calls \ {c} : call'[d] = call[d] /\ tries'[d] = tries[d]
    <3>1. /\ call \in [Calls -> {"unmade", "owned", "spawned", "waiting", "backoff"} \cup CallEnded]
          /\ tries \in [Calls -> 0 .. MaxTries]
      BY <1>1 DEF DeliveryTypeOK
    <3>2. tries[c] + 1 \in 0 .. MaxTries
      BY <3>1
    <3>3. tries' \in [Calls -> 0 .. MaxTries] /\ tries'[c] = tries[c] + 1
      BY <2>1, <3>1, <3>2
    <3>4. /\ call' \in [Calls -> {"unmade", "owned", "spawned", "waiting", "backoff"} \cup CallEnded]
          /\ call'[c] = "waiting"
      BY <2>1, <3>1
    <3>5. \A d \in Calls \ {c} : call'[d] = call[d] /\ tries'[d] = tries[d]
      BY <2>1, <3>1
    <3> QED
      BY <3>3, <3>4, <3>5
  <2>3. entry' \in [Keys -> [func : 0 .. MaxCalls, futures : SUBSET Calls]]
    BY <1>1, <2>1 DEF DeliveryTypeOK, Compacted
  <2>4. line' \in Seq(Keys)
    BY <1>1, <2>1 DEF DeliveryTypeOK
  <2> QED
    BY <2>2, <2>3, <2>4
<1>3. CASE ~LimiterOpen
  BY <1>1, <1>3 DEF Enqueue, DeliveryTypeOK
<1> QED
  BY <1>2, <1>3

\* The queue by the step of any caller: whatever is in it, in hand or shown may be
\* followed by a call that tries again, or that tries first before all newer ones.
LEMMA EnqueuedOrRefused ==
  ASSUME DeliveryInv, NEW c \in Calls, NEW k \in Keys, Enqueue(c, k),
         UNCHANGED <<worker, work, closing, shown>>,
         call[c] \in {"unmade", "spawned", "backoff"}, callKey'[c] = k,
         \A d \in Calls \ {c} : callKey'[d] = callKey[d] /\ mode'[d] = mode[d],
         tries[c] > 0 => callKey[c] = k /\ mode'[c] = mode[c],
         tries[c] = 0 => \A d \in Calls : tries[d] > 0 /\ c < d => Hops(c)' > Hops(d)
  PROVE  Queue' /\ Answers' /\ Newest' /\ Closings'
<1>0. c \in Nat /\ tries[c] \in Nat /\ call \in [Calls -> {"unmade", "owned", "spawned",
          "waiting", "backoff"} \cup CallEnded] /\ tries \in [Calls -> 0 .. MaxTries]
  BY DEF DeliveryInv, DeliveryTypeOK
<1>1. CASE ~LimiterOpen
  <2>1. call' = [call EXCEPT ![c] = "failed"] /\ UNCHANGED <<entry, line, tries>>
    BY <1>1 DEF Enqueue
  <2>2. TriedKept
    BY <2>1, <1>0 DEF TriedKept
  <2>3. closing \in {"draining", "closed"}
    BY <1>1 DEF LimiterOpen, DeliveryInv, DeliveryTypeOK
  <2>4. Answers' /\ Closings'
    BY <2>1, <2>3, <1>0 DEF DeliveryInv, Closings, Answers
  <2> QED
    BY <2>1, <2>2, <2>4, QueueKept
<1>2. CASE LimiterOpen
  <2>1. /\ entry' = [entry EXCEPT ![k] = Compacted(c, k)]
        /\ line' = IF entry[k] = Absent THEN Append(line, k) ELSE line
        /\ call' = [call EXCEPT ![c] = "waiting"]
        /\ tries' = [tries EXCEPT ![c] = @ + 1]
    BY <1>2 DEF Enqueue
  <2>2. /\ tries'[c] = tries[c] + 1 /\ \A d \in Calls \ {c} : tries'[d] = tries[d]
        /\ call'[c] = "waiting" /\ \A d \in Calls \ {c} : call'[d] = call[d]
    BY <2>1, <1>0
  <2>3. TriedKept
    BY <2>2, <1>0 DEF TriedKept
  <2>4. /\ entry'[k].func = c /\ entry'[k].futures = entry[k].futures \cup {c}
        /\ \A other \in Keys \ {k} : entry'[other] = entry[other]
    BY <2>1 DEF Compacted, DeliveryInv, DeliveryTypeOK
  <2>5. /\ line' \in Seq(Keys) /\ ToSet(line') = ToSet(line) \cup {k} /\ IsInjective(line')
    <3>1. line \in Seq(Keys) /\ IsInjective(line)
      BY DEF DeliveryInv, DeliveryTypeOK, Queue
    <3>2. CASE entry[k] = Absent
      <4>1. k \notin ToSet(line)
        BY <3>2 DEF DeliveryInv, Queue, Carries, Absent
      <4> QED
        BY <2>1, <3>1, <3>2, <4>1, AppendedLine
    <3>3. CASE entry[k] # Absent
      <4>1. k \in ToSet(line)
        BY <3>3 DEF DeliveryInv, Queue
      <4> QED
        BY <2>1, <3>1, <3>3, <4>1
    <3> QED
      BY <3>2, <3>3
  <2>6. \A d \in entry[k].futures : d \in Calls /\ callKey[d] = k /\ tries[d] > 0
    BY NumbersKnown DEF DeliveryInv, Queue, Carries, Absent
  <2>7. Queue'
    <3>1. Carries(entry[k], k)'
      BY <2>2, <2>3, <2>4, <2>6, <1>0 DEF Carries, TriedKept
    <3>2. ASSUME NEW other \in Keys \ {k}, other \in ToSet(line)
          PROVE  Carries(entry[other], other)'
      BY <2>3, <2>4, <3>2, NumbersKnown DEF DeliveryInv, Queue, Carries, TriedKept
    <3>3. ASSUME NEW other \in Keys \ {k}, other \notin ToSet(line)
          PROVE  entry'[other] = Absent
      BY <2>4, <3>3 DEF DeliveryInv, Queue
    <3>4. ASSUME worker \notin {"waiting", "over"}
          PROVE  work.key \in Keys /\ Carries(work, work.key)'
      BY <2>3, <3>4, NumbersKnown DEF DeliveryInv, Queue, Carries, TriedKept
    <3> QED
      BY <2>5, <3>1, <3>2, <3>3, <3>4 DEF DeliveryInv, Queue
  <2>8. Answers'
    <3> SUFFICES ASSUME NEW d \in Calls, call'[d] = "waiting"
                 PROVE  \/ d \in entry'[callKey'[d]].futures /\ callKey'[d] \in ToSet(line')
                        \/ d \in work.futures /\ worker \in Busy
      BY DEF Answers
    <3>1. CASE d = c
      BY <3>1, <2>4, <2>5
    <3>2. CASE d # c
      <4>1. call[d] = "waiting" /\ callKey'[d] = callKey[d] /\ callKey[d] \in Keys
        BY <3>2, <2>2 DEF DeliveryInv, Callers
      <4> QED
        BY <4>1, <2>4, <2>5 DEF DeliveryInv, Answers
    <3> QED
      BY <3>1, <3>2
  <2>9. ASSUME NEW d \in Calls, tries[d] > 0 \/ d = c
        PROVE  Excused(c, d)'
    <3>1. CASE tries[c] > 0
      BY <3>1, <2>2, <1>0 DEF Excused
    <3>2. CASE tries[c] = 0 /\ d # c
      BY <3>2, <2>9, <1>0 DEF Excused, Hops
    <3>3. CASE d = c
      BY <3>3, <1>0 DEF Excused
    <3> QED
      BY <3>1, <3>2, <3>3, <1>0
  <2>10. Newest'
    <3>1. \A o \in Keys, d \in Calls : d = shown'[o] => callKey'[d] = o /\ tries'[d] > 0
      BY <2>3, NumbersKnown DEF DeliveryInv, Newest, TriedKept
    <3>2. ASSUME NEW o \in Keys, NEW f \in Calls, NEW d \in Calls, After(f, d, o)'
          PROVE  \/ After(f, d, o)
                 \/ f = c /\ (d = c \/ tries[d] > 0)
      <4>1. o \in Keys \ {k} => After(f, d, o)
        BY <3>2, <2>4, <2>5 DEF After
      <4>2. o = k /\ f = c => d = c \/ tries[d] > 0
        BY <3>2, <2>4, <2>5, <2>6 DEF After, DeliveryInv, Newest, Queue, Carries, Idle
      <4>3. o = k /\ f # c => After(f, d, o)
        BY <3>2, <2>4, <2>5 DEF After
      <4> QED
        BY <4>1, <4>2, <4>3
    <3>3. ASSUME NEW o \in Keys, NEW f \in Calls, NEW d \in Calls, After(f, d, o)
          PROVE  Excused(f, d)'
      BY <3>3, <2>3, AfterTried, StaysExcused DEF DeliveryInv, Newest
    <3> QED
      BY <3>1, <3>2, <3>3, <2>9 DEF Newest
  <2>11. Closings'
    BY <1>2, <2>2 DEF LimiterOpen, DeliveryInv, Closings
  <2> QED
    BY <2>7, <2>8, <2>10, <2>11
<1> QED
  BY <1>1, <1>2
--------------------------------------------------------------------------------
(* The callers *)

\* A call that is made now was never tried and is the newest.
LEMMA NewCall ==
  ASSUME DeliveryInv, NEW c \in Calls, c = made + 1
  PROVE  /\ call[c] = "unmade" /\ tries[c] = 0 /\ c \notin ToSet(ready)
         /\ c \in Nat /\ made \in Nat /\ 1 .. made' \subseteq Nat
         /\ \A d \in Calls : tries[d] > 0 => d <= made
         /\ \A d \in ToSet(ready) : d \in Calls /\ d <= made
         /\ \A d \in Calls \ {c} : d <= made + 1 <=> d <= made
<1>1. made \in Nat /\ c \in Nat /\ ~(c <= made)
  BY DEF DeliveryInv, DeliveryTypeOK
<1>2. call[c] = "unmade" /\ tries[c] = 0 /\ c \notin ToSet(ready)
  BY <1>1 DEF DeliveryInv, Callers
<1>3. \A d \in Calls : tries[d] > 0 => d <= made
  BY DEF DeliveryInv, Callers
<1>4. \A d \in ToSet(ready) : d \in Calls
  BY DEF DeliveryInv, DeliveryTypeOK, ToSet
<1>5. \A d \in ToSet(ready) : d <= made
  BY <1>4 DEF DeliveryInv, Callers
<1> QED
  BY <1>1, <1>2, <1>3, <1>4, <1>5

\* A caller waits in enqueue(): no task that is older and not started came this way.
LEMMA CallAwaitedStep ==
  ASSUME DeliveryInv, NEW c \in Calls, NEW k \in Keys, CallAwaited(c, k)
  PROVE  DeliveryInv'
<1>1. /\ c = made + 1 /\ made' = c /\ closing = "open" /\ Enqueue(c, k)
      /\ callKey' = [callKey EXCEPT ![c] = k] /\ mode' = [mode EXCEPT ![c] = "awaited"]
      /\ UNCHANGED <<ready, worker, work, flooded, closing, shown>>
  BY DEF CallAwaited, OutboxOpen
<1>2. /\ call' = [call EXCEPT ![c] = "waiting"] /\ tries' = [tries EXCEPT ![c] = @ + 1]
      /\ entry' = [entry EXCEPT ![k] = Compacted(c, k)]
      /\ line' = IF entry[k] = Absent THEN Append(line, k) ELSE line
  BY <1>1 DEF Enqueue, LimiterOpen
<1>3. DeliveryTypeOK
  BY DEF DeliveryInv
<1>4. DeliveryTypeOK'
  <2>1. callKey' \in [Calls -> Keys \cup {NoKey}] /\ mode' \in [Calls -> AllModes \cup {"none"}]
    BY <1>1, <1>3 DEF DeliveryTypeOK
  <2>2. tries' \in [Calls -> 0 .. MaxTries]
    BY <1>1, <1>2, <1>3, NewCall DEF DeliveryTypeOK
  <2>3. entry' \in [Keys -> [func : 0 .. MaxCalls, futures : SUBSET Calls]]
    BY <1>2, <1>3 DEF DeliveryTypeOK, Compacted
  <2>4. line' \in Seq(Keys)
    BY <1>2, <1>3 DEF DeliveryTypeOK
  <2>5. call' \in [Calls -> {"unmade", "owned", "spawned", "waiting", "backoff"} \cup CallEnded]
    BY <1>2, <1>3 DEF DeliveryTypeOK
  <2> QED
    BY <1>1, <1>3, <2>1, <2>2, <2>3, <2>4, <2>5, SMTT(20) DEF DeliveryTypeOK
<1>5. /\ call'[c] = "waiting" /\ tries'[c] = 1 /\ mode'[c] = "awaited" /\ callKey'[c] = k
      /\ \A d \in Calls \ {c} : /\ call'[d] = call[d] /\ tries'[d] = tries[d]
                                /\ mode'[d] = mode[d] /\ callKey'[d] = callKey[d]
  BY <1>1, <1>2, <1>3, NewCall DEF DeliveryTypeOK
<1>6. Callers'
  BY <1>1, <1>5, NewCall DEF DeliveryInv, Callers
<1>7. Queue' /\ Answers' /\ Newest' /\ Closings'
  BY <1>1, <1>5, NewCall, EnqueuedOrRefused
<1>8. ReadyInTurn'
  BY <1>1, <1>5, NewCall, ReadyKept
<1>9. FirstTries'
  <2> SUFFICES ASSUME NEW f \in 1 .. made', NEW d \in 1 .. made', Comes(f, d)', tries'[d] > 0
               PROVE  tries'[f] > 0 \/ call'[f] \in CallEnded
    BY DEF FirstTries
  <2>1. f \in Calls /\ d \in Calls
    BY <1>1
  <2>2. CASE f = c
    BY <1>5, <2>2
  <2>3. CASE f # c /\ d # c
    <3>1. f \in 1 .. made /\ d \in 1 .. made /\ Comes(f, d) /\ tries[d] > 0
      BY <1>1, <1>5, <2>1, <2>3, NewCall DEF Comes, Hops
    <3> QED
      BY <1>5, <2>1, <2>3, <3>1 DEF DeliveryInv, FirstTries
  <2>4. CASE f # c /\ d = c
    <3>1. mode[f] = "awaited" /\ f <= made
      BY <1>1, <1>5, <2>1, <2>4, NewCall DEF Comes, Hops, DeliveryInv, Callers
    <3>2. call[f] \in CallEnded \cup {"waiting", "backoff"}
      BY <1>3, <2>1, <3>1 DEF DeliveryInv, Callers, DeliveryTypeOK
    <3> QED
      BY <1>5, <2>1, <2>4, <3>2 DEF DeliveryInv, Callers
  <2> QED
    BY <2>2, <2>3, <2>4
<1> QED
  BY <1>4, <1>6, <1>7, <1>8, <1>9 DEF DeliveryInv

\* A call that makes a task gets the last place.
LEMMA CallForgottenStep ==
  ASSUME DeliveryInv, NEW c \in Calls, NEW k \in Keys, NEW m \in Modes \ {"awaited"},
         CallForgotten(c, k, m)
  PROVE  DeliveryInv'
<1> DEFINE first == IF m = "owned" THEN "owned" ELSE "spawned"
<1>1. /\ c = made + 1 /\ made' = c /\ closing = "open" /\ call' = [call EXCEPT ![c] = first]
      /\ callKey' = [callKey EXCEPT ![c] = k] /\ mode' = [mode EXCEPT ![c] = m]
      /\ ready' = Append(ready, c)
      /\ UNCHANGED <<tries, line, entry, worker, work, flooded, closing, shown>>
  BY DEF CallForgotten, OutboxOpen
<1>2. m \in {"direct", "owned"}
  OBVIOUS
<1> HIDE DEF first
<1>3. DeliveryTypeOK
  BY DEF DeliveryInv
<1>4. /\ ready' \in Seq(Calls) /\ ToSet(ready') = ToSet(ready) \cup {c} /\ IsInjective(ready')
  <2>1. ready \in Seq(Calls) /\ IsInjective(ready)
    BY DEF DeliveryInv, DeliveryTypeOK, ReadyInTurn
  <2>2. c \in Calls /\ c \notin ToSet(ready)
    BY <1>1, NewCall
  <2> QED
    BY <1>1, <2>1, <2>2, AppendedLine
<1>5. DeliveryTypeOK'
  <2>1. callKey' \in [Calls -> Keys \cup {NoKey}] /\ mode' \in [Calls -> AllModes \cup {"none"}]
    BY <1>1, <1>2, <1>3 DEF DeliveryTypeOK
  <2>2. call' \in [Calls -> {"unmade", "owned", "spawned", "waiting", "backoff"} \cup CallEnded]
    BY <1>1, <1>3 DEF DeliveryTypeOK, first
  <2>3. made' \in 0 .. MaxCalls /\ closing' = closing
    BY <1>1
  <2> QED
    BY <1>1, <1>3, <1>4, <2>1, <2>2, <2>3 DEF DeliveryTypeOK
<1>6. /\ call'[c] = first /\ mode'[c] = m /\ callKey'[c] = k
      /\ \A d \in Calls \ {c} : /\ call'[d] = call[d] /\ mode'[d] = mode[d]
                                /\ callKey'[d] = callKey[d]
  BY <1>1, <1>3 DEF DeliveryTypeOK
<1>7. Callers'
  BY <1>1, <1>2, <1>4, <1>6, NewCall DEF DeliveryInv, Callers, first
<1>8. TriedKept
  BY <1>1, <1>6, NewCall, NumbersKnown DEF TriedKept
<1>9. Queue' /\ Newest'
  BY <1>1, <1>8, QueueKept
<1>10. Answers' /\ Closings'
  <2>1. \A d \in Calls : call'[d] = "waiting" =>
          call[d] = "waiting" /\ callKey'[d] = callKey[d]
    BY <1>6 DEF first
  <2> QED
    BY <1>1, <2>1 DEF DeliveryInv, Answers, Closings
<1>11. ReadyInTurn'
  <2> SUFFICES ASSUME NEW i \in DOMAIN ready', NEW j \in DOMAIN ready',
                      Comes(ready[i], ready[j])'
               PROVE  \/ call'[ready'[i]] = "spawned" /\ call'[ready'[j]] = "owned"
                      \/ call'[ready'[i]] = call'[ready'[j]] /\ i < j
    BY <1>4 DEF ReadyInTurn
  <2>1. /\ Len(ready) \in Nat /\ DOMAIN ready = 1 .. Len(ready)
        /\ DOMAIN ready' = 1 .. Len(ready) + 1 /\ ready'[Len(ready) + 1] = c
        /\ \A x \in DOMAIN ready : ready'[x] = ready[x] /\ ready[x] \in ToSet(ready)
    <3>1. /\ DOMAIN Append(ready, c) = 1 .. Len(ready) + 1
          /\ Append(ready, c)[Len(ready) + 1] = c
          /\ \A x \in DOMAIN ready : Append(ready, c)[x] = ready[x]
      BY ReadyElements, AppendedElements
    <3> QED
      BY <1>1, <3>1, ReadyElements
  <2>2. CASE i \in DOMAIN ready /\ j \in DOMAIN ready
    <3>1. /\ ready'[i] \in Calls \ {c} /\ ready'[j] \in Calls \ {c}
          /\ ready'[i] = ready[i] /\ ready'[j] = ready[j]
      BY <1>1, <2>1, <2>2, NewCall
    <3>2. Comes(ready[i], ready[j])
      BY <1>6, <3>1 DEF Comes, Hops
    <3> QED
      BY <1>6, <2>2, <3>1, <3>2 DEF DeliveryInv, ReadyInTurn
  <2>3. CASE i = Len(ready) + 1
    <3>1. ready'[j] = c \/ ready'[j] <= made
      BY <1>1, <2>1, NewCall
    <3> QED
      BY <1>1, <2>1, <2>3, <3>1, NewCall DEF Comes
  <2>4. CASE i \in DOMAIN ready /\ j = Len(ready) + 1
    <3>1. /\ ready'[i] \in Calls \ {c} /\ ready'[i] = ready[i] /\ ready[i] \in ToSet(ready)
      BY <1>1, <2>1, <2>4, NewCall
    <3>2. call[ready[i]] \in {"owned", "spawned"}
      BY <3>1 DEF DeliveryInv, Callers
    <3>3. CASE m = "owned"
      BY <1>6, <2>1, <2>4, <3>1, <3>2, <3>3 DEF first
    <3>4. CASE m = "direct"
      <4>1. mode[ready[i]] # "owned"
        BY <1>6, <2>1, <2>4, <3>1, <3>4 DEF Comes, Hops
      <4>2. call[ready[i]] = "spawned"
        BY <3>1, <3>2, <4>1 DEF DeliveryInv, Callers
      <4> QED
        BY <1>6, <2>1, <2>4, <3>1, <3>4, <4>2 DEF first
    <3> QED
      BY <1>2, <3>3, <3>4
  <2> QED
    BY <2>1, <2>2, <2>3, <2>4
<1>12. FirstTries'
  <2> SUFFICES ASSUME NEW f \in 1 .. made', NEW d \in 1 .. made', Comes(f, d)', tries'[d] > 0
               PROVE  tries'[f] > 0 \/ call'[f] \in CallEnded
    BY DEF FirstTries
  <2>1. /\ f \in Calls \ {c} /\ d \in Calls \ {c}
        /\ f \in 1 .. made /\ d \in 1 .. made
    BY <1>1, NewCall DEF Comes
  <2>2. Comes(f, d)
    BY <1>6, <2>1 DEF Comes, Hops
  <2> QED
    BY <1>1, <1>6, <2>1, <2>2 DEF DeliveryInv, FirstTries
<1> QED
  BY <1>5, <1>7, <1>9, <1>10, <1>11, <1>12 DEF DeliveryInv
\* The task at the head leaves the line.
LEMMA StartedCall ==
  ASSUME DeliveryInv, NEW c \in Calls, ready # <<>>, c = Head(ready)
  PROVE  /\ c \in ToSet(ready) /\ ready[1] = c /\ 1 \in DOMAIN ready
         /\ Tail(ready) \in Seq(Calls) /\ ToSet(Tail(ready)) = ToSet(ready) \ {c}
         /\ IsInjective(Tail(ready)) /\ Len(Tail(ready)) = Len(ready) - 1
         /\ DOMAIN Tail(ready) = 1 .. Len(ready) - 1
         /\ \A i \in DOMAIN Tail(ready) : Tail(ready)[i] = ready[i + 1] /\ i + 1 \in DOMAIN ready
<1>1. ready \in Seq(Calls) /\ IsInjective(ready)
  BY DEF DeliveryInv, DeliveryTypeOK, ReadyInTurn
<1>2. /\ c \in ToSet(ready) /\ ready[1] = c /\ Tail(ready) \in Seq(Calls)
      /\ ToSet(Tail(ready)) = ToSet(ready) \ {c} /\ IsInjective(Tail(ready))
  BY <1>1, TailOfLine
<1>3. /\ Len(ready) \in Nat \ {0} /\ DOMAIN ready = 1 .. Len(ready)
      /\ Len(Tail(ready)) = Len(ready) - 1 /\ DOMAIN Tail(ready) = 1 .. Len(ready) - 1
      /\ \A i \in DOMAIN Tail(ready) : Tail(ready)[i] = ready[i + 1]
  BY <1>1
<1> QED
  BY <1>2, <1>3

\* A call at the head of the tasks comes after none that is still to be started.
LEMMA StartsInTurn ==
  ASSUME DeliveryInv, NEW c \in Calls, ready # <<>>, c = Head(ready), call[c] = "spawned",
         NEW f \in Calls, f <= made, Comes(f, c)
  PROVE  tries[f] > 0 \/ call[f] \in CallEnded
<1>1. f # c
  BY DEF Comes
<1>2. ASSUME f \in ToSet(ready) PROVE FALSE
  <2>1. PICK i \in DOMAIN ready : ready[i] = f
    BY <1>2 DEF ToSet
  <2>2. ready[1] = c /\ 1 \in DOMAIN ready /\ DOMAIN ready \subseteq Nat
    BY StartedCall, ReadyElements
  <2>3. ~(i < 1)
    BY <2>1, ReadyElements
  <2> QED
    BY <2>1, <2>2, <2>3 DEF DeliveryInv, ReadyInTurn
<1>3. call[f] \notin {"unmade", "owned", "spawned"}
  BY <1>2 DEF DeliveryInv, Callers
<1>4. call[f] \in {"waiting", "backoff"} \cup CallEnded
  BY <1>3 DEF DeliveryInv, DeliveryTypeOK
<1> QED
  BY <1>4 DEF DeliveryInv, Callers

\* The limiter's task gets the last place: newer tasks of the outbox still have to come.
LEMMA OwnedStartsStep ==
  ASSUME DeliveryInv, NEW c \in Calls, OwnedStarts(c)
  PROVE  DeliveryInv'
<1>1. /\ ready # <<>> /\ c = Head(ready) /\ call[c] = "owned" /\ closing = "open"
      /\ call' = [call EXCEPT ![c] = "spawned"] /\ ready' = Append(Tail(ready), c)
      /\ UNCHANGED <<made, callKey, mode, tries, line, entry, worker, work, flooded, closing,
                     shown>>
  BY DEF OwnedStarts, OutboxOpen
<1>2. DeliveryTypeOK
  BY DEF DeliveryInv
<1>3. /\ ready' \in Seq(Calls) /\ ToSet(ready') = ToSet(ready) /\ IsInjective(ready')
  <2>1. /\ Tail(ready) \in Seq(Calls) /\ IsInjective(Tail(ready)) /\ c \in ToSet(ready)
        /\ ToSet(Tail(ready)) = ToSet(ready) \ {c}
    BY <1>1, StartedCall
  <2> DEFINE rest == Tail(ready)
  <2>2. rest \in Seq(Calls) /\ IsInjective(rest) /\ c \notin ToSet(rest)
    BY <2>1
  <2> HIDE DEF rest
  <2>3. /\ Append(rest, c) \in Seq(Calls) /\ ToSet(Append(rest, c)) = ToSet(rest) \cup {c}
        /\ IsInjective(Append(rest, c))
    BY <2>2, AppendedLine
  <2>4. ToSet(rest) \cup {c} = ToSet(ready)
    BY <2>1 DEF rest
  <2> QED
    BY <1>1, <2>3, <2>4 DEF rest
<1>4. DeliveryTypeOK'
  <2>1. call' \in [Calls -> {"unmade", "owned", "spawned", "waiting", "backoff"} \cup CallEnded]
    BY <1>1, <1>2 DEF DeliveryTypeOK
  <2> QED
    BY <1>1, <1>2, <1>3, <2>1 DEF DeliveryTypeOK
<1>5. call'[c] = "spawned" /\ \A d \in Calls \ {c} : call'[d] = call[d]
  BY <1>1, <1>2 DEF DeliveryTypeOK
<1>6. Callers'
  <2>1. mode[c] = "owned" /\ tries[c] = 0 /\ c \in ToSet(ready)
    BY <1>1 DEF DeliveryInv, Callers
  <2> QED
    BY <1>1, <1>3, <1>5, <2>1 DEF DeliveryInv, Callers
<1>7. TriedKept
  BY <1>1, NumbersKnown DEF TriedKept
<1>8. Queue' /\ Newest'
  BY <1>1, <1>7, QueueKept
<1>9. Answers' /\ Closings'
  <2>1. \A d \in Calls : call'[d] = "waiting" => call[d] = "waiting"
    BY <1>5
  <2> QED
    BY <1>1, <2>1 DEF DeliveryInv, Answers, Closings
<1>10. ReadyInTurn'
  <2>1. /\ Len(ready) \in Nat \ {0} /\ DOMAIN ready = 1 .. Len(ready)
        /\ DOMAIN ready' = 1 .. Len(ready) /\ ready'[Len(ready)] = c
        /\ \A i \in 1 .. Len(ready) - 1 : ready'[i] = ready[i + 1]
    <3>1. /\ DOMAIN ready' = 1 .. Len(Tail(ready)) + 1 /\ ready'[Len(Tail(ready)) + 1] = c
          /\ \A i \in DOMAIN Tail(ready) : ready'[i] = Tail(ready)[i]
      BY <1>1, StartedCall, AppendedElements
    <3>2. /\ DOMAIN Tail(ready) = 1 .. Len(ready) - 1 /\ Len(Tail(ready)) = Len(ready) - 1
          /\ \A i \in DOMAIN Tail(ready) : Tail(ready)[i] = ready[i + 1]
          /\ 1 \in DOMAIN ready
      BY <1>1, StartedCall
    <3> QED
      BY <3>1, <3>2, ReadyElements
  <2> SUFFICES ASSUME NEW i \in DOMAIN ready', NEW j \in DOMAIN ready',
                      Comes(ready[i], ready[j])'
               PROVE  \/ call'[ready'[i]] = "spawned" /\ call'[ready'[j]] = "owned"
                      \/ call'[ready'[i]] = call'[ready'[j]] /\ i < j
    BY <1>3 DEF ReadyInTurn
  <2>2. ready[1] = c /\ 1 \in DOMAIN ready /\ IsInjective(ready)
    BY <1>1, StartedCall DEF DeliveryInv, ReadyInTurn
  <2>3. i = Len(ready) /\ j = Len(ready) => FALSE
    BY <2>1 DEF Comes
  <2>4. CASE i \in 1 .. Len(ready) - 1 /\ j \in 1 .. Len(ready) - 1
    <3>1. /\ i + 1 \in DOMAIN ready /\ j + 1 \in DOMAIN ready
          /\ ready'[i] = ready[i + 1] /\ ready'[j] = ready[j + 1]
          /\ ready[i + 1] # c /\ ready[j + 1] # c
      BY <2>1, <2>2, <2>4 DEF IsInjective
    <3>2. Comes(ready[i + 1], ready[j + 1])
      BY <1>1, <3>1 DEF Comes, Hops
    <3>3. \/ call[ready[i + 1]] = "spawned" /\ call[ready[j + 1]] = "owned"
          \/ call[ready[i + 1]] = call[ready[j + 1]] /\ i + 1 < j + 1
      BY <3>1, <3>2 DEF DeliveryInv, ReadyInTurn
    <3>4. ready[i + 1] \in Calls \ {c} /\ ready[j + 1] \in Calls \ {c} /\ i \in Nat /\ j \in Nat
      BY <2>1, <2>4, <3>1, ReadyElements, SMTT(20)
    <3> QED
      BY <1>5, <3>1, <3>3, <3>4
  <2>5. CASE i = Len(ready) /\ j \in 1 .. Len(ready) - 1
    <3>1. j + 1 \in DOMAIN ready /\ ready'[j] = ready[j + 1] /\ ready[j + 1] # c
      BY <2>1, <2>2, <2>5 DEF IsInjective
    <3>2. Comes(ready[1], ready[j + 1])
      BY <1>1, <2>1, <2>2, <2>5, <3>1 DEF Comes, Hops
    <3>3. call[ready[j + 1]] = "owned"
      BY <1>1, <2>2, <3>1, <3>2 DEF DeliveryInv, ReadyInTurn
    <3> QED
      BY <1>5, <2>1, <2>5, <3>1, <3>3, ReadyElements
  <2>6. CASE i \in 1 .. Len(ready) - 1 /\ j = Len(ready)
    <3>1. i + 1 \in DOMAIN ready /\ ready'[i] = ready[i + 1] /\ ready[i + 1] # c /\ ~(i + 1 < 1)
      BY <2>1, <2>2, <2>6 DEF IsInjective
    <3>2. Comes(ready[i + 1], ready[1])
      BY <1>1, <2>1, <2>2, <2>6, <3>1 DEF Comes, Hops
    <3>3. call[ready[i + 1]] = "spawned"
      BY <1>1, <2>2, <3>1, <3>2 DEF DeliveryInv, ReadyInTurn
    <3> QED
      BY <1>5, <2>1, <2>6, <3>1, <3>3, ReadyElements, SMTT(20)
  <2> QED
    BY <2>1, <2>3, <2>4, <2>5, <2>6
<1>11. FirstTries'
  BY <1>1, <1>5, FirstTriesKept
<1> QED
  BY <1>4, <1>6, <1>8, <1>9, <1>10, <1>11 DEF DeliveryInv
\* A task starts: all that should be tried before it have been.
LEMMA SpawnedStartsStep ==
  ASSUME DeliveryInv, NEW c \in Calls, SpawnedStarts(c)
  PROVE  DeliveryInv'
<1> DEFINE k == callKey[c]
<1>1. /\ ready # <<>> /\ c = Head(ready) /\ call[c] = "spawned" /\ ready' = Tail(ready)
      /\ Enqueue(c, k)
      /\ UNCHANGED <<made, callKey, mode, worker, work, flooded, closing, shown>>
  BY DEF SpawnedStarts
<1>2. /\ k \in Keys /\ tries[c] = 0 /\ c <= made
  BY <1>1 DEF DeliveryInv, Callers
<1> HIDE DEF k
<1>3. DeliveryTypeOK
  BY DEF DeliveryInv
<1>4. \A d \in Calls : tries[d] > 0 => d <= made /\ ~Comes(c, d)
  <2> SUFFICES ASSUME NEW d \in Calls, tries[d] > 0, Comes(c, d) PROVE FALSE
    BY DEF DeliveryInv, Callers
  <2>1. c \in 1 .. made /\ d \in 1 .. made
    BY <1>2, <1>3 DEF DeliveryInv, Callers, DeliveryTypeOK
  <2>2. tries[c] > 0 \/ call[c] \in CallEnded
    BY <2>1 DEF DeliveryInv, FirstTries
  <2> QED
    BY <1>1, <1>2, <2>2
<1>5. Queue' /\ Answers' /\ Newest' /\ Closings'
  <2>1. \A d \in Calls : tries[d] > 0 /\ c < d => Hops(c)' > Hops(d)
    <3> SUFFICES ASSUME NEW d \in Calls, tries[d] > 0, c < d PROVE Hops(c) > Hops(d)
      BY <1>1 DEF Hops
    <3>1. Hops(c) \in Nat /\ Hops(d) \in Nat
      BY DEF Hops
    <3> QED
      BY <1>4, <3>1 DEF Comes
  <2>2. callKey'[c] = k
    BY <1>1 DEF k
  <2> QED
    BY <1>1, <1>2, <2>1, <2>2, EnqueuedOrRefused
<1>6. /\ call' \in [Calls -> {"unmade", "owned", "spawned", "waiting", "backoff"} \cup CallEnded]
      /\ tries' \in [Calls -> 0 .. MaxTries]
      /\ entry' \in [Keys -> [func : 0 .. MaxCalls, futures : SUBSET Calls]]
      /\ line' \in Seq(Keys)
      /\ \/ call'[c] = "waiting" /\ tries'[c] = 1
         \/ call'[c] = "failed" /\ tries'[c] = 0
      /\ \A d \in Calls \ {c} : call'[d] = call[d] /\ tries'[d] = tries[d]
  BY <1>1, <1>2, EnqueueTypes, SMTT(20)
<1>7. /\ ready' \in Seq(Calls) /\ ToSet(ready') = ToSet(ready) \ {c} /\ IsInjective(ready')
      /\ DOMAIN ready' \subseteq Nat
      /\ \A i \in DOMAIN ready' : ready'[i] = ready[i + 1] /\ i + 1 \in DOMAIN ready
  BY <1>1, StartedCall, ReadyElements
<1>8. DeliveryTypeOK'
  BY <1>1, <1>3, <1>6, <1>7 DEF DeliveryTypeOK
<1>9. Callers'
  <2>1. mode[c] # "awaited" /\ callKey[c] \in Keys /\ mode[c] \in AllModes
    BY <1>1, <1>2 DEF DeliveryInv, Callers
  <2>2. ASSUME NEW d \in Calls \ {c}
        PROVE  /\ call'[d] = call[d] /\ tries'[d] = tries[d]
               /\ d \in ToSet(ready') <=> d \in ToSet(ready)
    BY <1>6, <1>7
  <2>3. c \notin ToSet(ready') /\ call'[c] \notin {"owned", "spawned", "unmade", "backoff"}
    BY <1>6, <1>7
  <2> QED
    <3> SUFFICES ASSUME NEW d \in Calls
        PROVE
          /\ d <= made <=> call'[d] # "unmade"
          /\ d <= made => callKey[d] \in Keys /\ mode[d] \in AllModes
          /\ call'[d] \in {"unmade", "owned", "spawned"} => tries'[d] = 0
          /\ call'[d] \in {"waiting", "backoff"} => tries'[d] > 0
          /\ call'[d] = "backoff" => tries'[d] < MaxTries
          /\ call'[d] = "owned" => mode[d] = "owned"
          /\ call'[d] = "spawned" => mode[d] # "awaited"
          /\ call'[d] \in {"owned", "spawned"} <=> d \in ToSet(ready')
      BY <1>1 DEF Callers
    <3>1. CASE d = c
      BY <1>2, <1>6, <2>1, <2>3, <3>1
    <3>2. CASE d # c
      BY <2>2, <3>2 DEF DeliveryInv, Callers
    <3> QED
      BY <3>1, <3>2
<1>10. ReadyInTurn'
  <2> SUFFICES ASSUME NEW i \in DOMAIN ready', NEW j \in DOMAIN ready',
                      Comes(ready[i], ready[j])'
               PROVE  \/ call'[ready'[i]] = "spawned" /\ call'[ready'[j]] = "owned"
                      \/ call'[ready'[i]] = call'[ready'[j]] /\ i < j
    BY <1>7 DEF ReadyInTurn
  <2>1. /\ ready[1] = c /\ 1 \in DOMAIN ready /\ IsInjective(ready)
    BY <1>1, StartedCall DEF DeliveryInv, ReadyInTurn
  <2>2. /\ i + 1 \in DOMAIN ready /\ j + 1 \in DOMAIN ready /\ i \in Nat /\ j \in Nat
        /\ ready'[i] = ready[i + 1] /\ ready'[j] = ready[j + 1]
    BY <1>7
  <2>3. i # 0 /\ j # 0
    BY <1>7, ReadyElements
  <2>4. /\ ready[i + 1] \in Calls \ {c} /\ ready[j + 1] \in Calls \ {c}
    <3>1. i + 1 # 1 /\ j + 1 # 1
      BY <2>2, <2>3
    <3>2. ready[i + 1] # ready[1] /\ ready[j + 1] # ready[1]
      BY <2>1, <2>2, <3>1 DEF IsInjective
    <3> QED
      BY <2>1, <2>2, <3>2, ReadyElements
  <2>5. Comes(ready[i + 1], ready[j + 1])
    BY <1>1, <2>2 DEF Comes, Hops
  <2>6. \/ call[ready[i + 1]] = "spawned" /\ call[ready[j + 1]] = "owned"
        \/ call[ready[i + 1]] = call[ready[j + 1]] /\ i + 1 < j + 1
    BY <2>2, <2>5 DEF DeliveryInv, ReadyInTurn
  <2> QED
    BY <1>6, <2>2, <2>4, <2>6
<1>11. FirstTries'
  <2> SUFFICES ASSUME NEW f \in 1 .. made, NEW d \in 1 .. made, Comes(f, d), tries'[d] > 0
               PROVE  tries'[f] > 0 \/ call'[f] \in CallEnded
    BY <1>1 DEF FirstTries, Comes, Hops
  <2>1. f \in Calls /\ d \in Calls /\ f <= made
    BY <1>3 DEF DeliveryTypeOK
  <2>2. CASE f = c
    BY <1>6, <2>2
  <2>3. CASE f # c
    <3>1. tries[f] > 0 \/ call[f] \in CallEnded
      <4>1. CASE d = c
        BY <1>1, <2>1, <4>1, StartsInTurn
      <4>2. CASE d # c
        BY <1>6, <2>1, <4>2 DEF DeliveryInv, FirstTries
      <4> QED
        BY <4>1, <4>2
    <3> QED
      BY <1>6, <2>1, <2>3, <3>1
  <2> QED
    BY <2>2, <2>3
<1> QED
  BY <1>5, <1>8, <1>9, <1>10, <1>11 DEF DeliveryInv

\* A retry is excused whatever it follows.
LEMMA RetryStep ==
  ASSUME DeliveryInv, NEW c \in Calls, Retry(c)
  PROVE  DeliveryInv'
<1> DEFINE k == callKey[c]
<1>1. /\ call[c] = "backoff" /\ Enqueue(c, k)
      /\ UNCHANGED <<made, callKey, mode, ready, worker, work, flooded, closing, shown>>
  BY DEF Retry
<1>2. /\ k \in Keys /\ tries[c] > 0 /\ c <= made /\ tries[c] < MaxTries
  BY <1>1 DEF DeliveryInv, Callers
<1>3. DeliveryTypeOK
  BY DEF DeliveryInv
<1>4. Queue' /\ Answers' /\ Newest' /\ Closings'
  <2>1. callKey'[c] = k /\ callKey[c] = k /\ mode'[c] = mode[c]
    BY <1>1
  <2> HIDE DEF k
  <2> QED
    BY <1>1, <1>2, <2>1, EnqueuedOrRefused
<1> HIDE DEF k
<1>5. /\ call' \in [Calls -> {"unmade", "owned", "spawned", "waiting", "backoff"} \cup CallEnded]
      /\ tries' \in [Calls -> 0 .. MaxTries]
      /\ entry' \in [Keys -> [func : 0 .. MaxCalls, futures : SUBSET Calls]]
      /\ line' \in Seq(Keys)
      /\ call'[c] \in {"waiting", "failed"} /\ tries'[c] > 0
      /\ \A d \in Calls \ {c} : call'[d] = call[d] /\ tries'[d] = tries[d]
  <2>1. tries[c] \in Nat
    BY <1>3 DEF DeliveryTypeOK
  <2> QED
    BY <1>1, <1>2, <2>1, EnqueueTypes
<1>6. DeliveryTypeOK'
  BY <1>1, <1>3, <1>5 DEF DeliveryTypeOK
<1>7. c \notin ToSet(ready)
  BY <1>1 DEF DeliveryInv, Callers
<1>8. Callers'
  BY <1>1, <1>2, <1>5, <1>7 DEF DeliveryInv, Callers
<1>9. ReadyInTurn'
  <2>1. \A d \in ToSet(ready) : d \in Calls
    BY ReadyElements
  <2> QED
    BY <1>1, <1>5, <1>7, <2>1, ReadyKept
<1>10. FirstTries'
  <2> SUFFICES ASSUME NEW f \in 1 .. made, NEW d \in 1 .. made, Comes(f, d), tries'[d] > 0
               PROVE  tries'[f] > 0 \/ call'[f] \in CallEnded
    BY <1>1 DEF FirstTries, Comes, Hops
  <2>1. f \in Calls /\ d \in Calls /\ tries[d] > 0
    <3>1. f \in Calls /\ d \in Calls
      BY <1>3 DEF DeliveryTypeOK
    <3> QED
      BY <1>2, <1>5, <3>1
  <2>2. tries[f] > 0 \/ call[f] \in CallEnded
    BY <2>1 DEF DeliveryInv, FirstTries
  <2> QED
    BY <1>5, <2>1, <2>2
<1> QED
  BY <1>4, <1>6, <1>8, <1>9, <1>10 DEF DeliveryInv

\* A caller goes, the operation stays.
LEMMA CallerCancelledStep ==
  ASSUME DeliveryInv, NEW c \in Calls, CallerCancelled(c)
  PROVE  DeliveryInv'
<1>1. /\ call[c] = "waiting" /\ call' = [call EXCEPT ![c] = "cancelled"]
      /\ UNCHANGED <<made, callKey, mode, tries, ready, line, entry, worker, work, flooded,
                     closing, shown>>
  BY DEF CallerCancelled
<1>2. DeliveryTypeOK
  BY DEF DeliveryInv
<1>3. call'[c] = "cancelled" /\ \A d \in Calls \ {c} : call'[d] = call[d]
  BY <1>1, <1>2 DEF DeliveryTypeOK
<1>4. DeliveryTypeOK'
  BY <1>1, <1>2 DEF DeliveryTypeOK
<1>5. \A d \in Calls : call'[d] \in {"owned", "spawned"} <=> d \in ToSet(ready')
  BY <1>1, <1>3 DEF DeliveryInv, Callers
<1>6. Callers'
  BY <1>1, <1>3, <1>5, CallersEnd
<1>7. Queue' /\ Newest'
  <2>1. TriedKept
    BY <1>1, NumbersKnown DEF TriedKept
  <2> QED
    BY <1>1, <2>1, QueueKept
<1>8. Answers' /\ Closings'
  BY <1>1, <1>3 DEF DeliveryInv, Answers, Closings
<1>9. ReadyInTurn'
  <2>1. \A d \in ToSet(ready) : d \in Calls \ {c}
    BY <1>1, ReadyElements DEF DeliveryInv, Callers
  <2> QED
    BY <1>1, <1>3, <2>1, ReadyKept
<1>10. FirstTries'
  BY <1>1, <1>3, FirstTriesKept
<1> QED
  BY <1>4, <1>6, <1>7, <1>8, <1>9, <1>10 DEF DeliveryInv
--------------------------------------------------------------------------------
(* The worker *)

\* Steps that leave the callers alone.
LEMMA CallersAlone ==
  ASSUME DeliveryInv, UNCHANGED <<made, call, callKey, mode, tries, ready>>
  PROVE  /\ Callers' /\ ReadyInTurn' /\ FirstTries' /\ TriedKept
<1>1. Callers'
  BY DEF DeliveryInv, Callers
<1>2. ReadyInTurn'
  BY ReadyKept
<1>3. FirstTries'
  BY FirstTriesKept
<1>4. TriedKept
  BY NumbersKnown DEF TriedKept
<1> QED
  BY <1>1, <1>2, <1>3, <1>4

\* What was queued under the key is in hand: each future still belongs to one.
LEMMA TakeStep ==
  ASSUME DeliveryInv, Take
  PROVE  DeliveryInv'
<1> DEFINE k == Head(line)
<1>1. /\ worker = "waiting" /\ line # <<>> /\ worker' = "pacing" /\ line' = Tail(line)
      /\ work' = [key |-> k, func |-> entry[k].func, futures |-> entry[k].futures]
      /\ entry' = [entry EXCEPT ![k] = Absent]
      /\ UNCHANGED <<made, call, callKey, mode, tries, ready, flooded, closing, shown>>
  BY DEF Take
<1>2. DeliveryTypeOK
  BY DEF DeliveryInv
<1>3. /\ k \in Keys /\ k \in ToSet(line) /\ line' \in Seq(Keys)
      /\ ToSet(line') = ToSet(line) \ {k} /\ IsInjective(line')
  BY <1>1, <1>2, TailOfLine DEF DeliveryTypeOK, DeliveryInv, Queue
<1> HIDE DEF k
<1>4. /\ entry'[k] = Absent /\ \A o \in Keys \ {k} : entry'[o] = entry[o]
      /\ entry' \in [Keys -> [func : 0 .. MaxCalls, futures : SUBSET Calls]]
  BY <1>1, <1>2, <1>3 DEF DeliveryTypeOK, Absent
<1>5. /\ work' \in [key : Keys \cup {NoKey}, func : 0 .. MaxCalls, futures : SUBSET Calls]
      /\ work'.key = k /\ work'.func = entry[k].func /\ work'.futures = entry[k].futures
  BY <1>1, <1>2, <1>3 DEF DeliveryTypeOK
<1>6. DeliveryTypeOK'
  BY <1>1, <1>2, <1>3, <1>4, <1>5 DEF DeliveryTypeOK
<1>7. Queue'
  <2>1. Carries(work, work.key)'
    BY <1>1, <1>3, <1>5 DEF DeliveryInv, Queue, Carries
  <2>2. ASSUME NEW o \in Keys, o \in ToSet(line')
        PROVE  Carries(entry[o], o)'
    BY <1>1, <1>3, <1>4, <2>2 DEF DeliveryInv, Queue, Carries
  <2>3. ASSUME NEW o \in Keys, o \notin ToSet(line')
        PROVE  entry'[o] = Absent
    BY <1>3, <1>4, <2>3 DEF DeliveryInv, Queue
  <2> QED
    BY <1>1, <1>3, <1>5, <2>1, <2>2, <2>3 DEF Queue
<1>8. work = Idle
  BY <1>1 DEF DeliveryInv, Queue
<1>9. Answers'
  <2> SUFFICES ASSUME NEW d \in Calls, call[d] = "waiting"
               PROVE  \/ d \in entry'[callKey[d]].futures /\ callKey[d] \in ToSet(line')
                      \/ d \in work'.futures /\ worker' \in Busy
    BY <1>1 DEF Answers
  <2>1. d \in entry[callKey[d]].futures /\ callKey[d] \in ToSet(line)
    BY <1>8 DEF DeliveryInv, Answers, Idle
  <2>2. callKey[d] \in Keys
    BY DEF DeliveryInv, Callers
  <2> QED
    BY <1>1, <1>3, <1>4, <1>5, <2>1, <2>2
<1>10. Newest'
  <2>1. ASSUME NEW o \in Keys, NEW f \in Calls, NEW d \in Calls, After(f, d, o)'
        PROVE  After(f, d, o)
    <3>1. CASE o = k
      BY <1>1, <1>3, <1>5, <2>1, <3>1 DEF After
    <3>2. CASE o # k
      BY <1>1, <1>3, <1>4, <1>5, <2>1, <3>2 DEF After
    <3> QED
      BY <3>1, <3>2
  <2>2. \A o \in Keys, d \in Calls : d = shown'[o] => callKey'[d] = o /\ tries'[d] > 0
    BY <1>1 DEF DeliveryInv, Newest
  <2>3. \A f, d \in Calls : Excused(f, d) => Excused(f, d)'
    BY <1>1 DEF Excused, Hops
  <2> QED
    BY <2>1, <2>2, <2>3 DEF DeliveryInv, Newest
<1>11. Closings'
  BY <1>1 DEF DeliveryInv, Closings
<1> QED
  BY <1>1, <1>6, <1>7, <1>9, <1>10, <1>11, CallersAlone DEF DeliveryInv

\* Steps that only change where the worker is, or that a flood is over.
LEMMA WorkerMovesStep ==
  ASSUME DeliveryInv, Paced \/ FloodOver \/ UNCHANGED deliveryVars
  PROVE  DeliveryInv'
<1>1. /\ UNCHANGED <<made, call, callKey, mode, tries, ready, line, entry, work, closing, shown>>
      /\ \/ worker = "pacing" /\ worker' = "running" /\ flooded' = flooded
         \/ worker' = worker /\ flooded' \in BOOLEAN
  BY DEF Paced, FloodOver, deliveryVars, DeliveryInv, DeliveryTypeOK
<1>2. DeliveryTypeOK'
  BY <1>1 DEF DeliveryInv, DeliveryTypeOK
<1>3. Queue'
  BY <1>1 DEF DeliveryInv, Queue, Carries
<1>4. Answers' /\ Closings'
  BY <1>1 DEF DeliveryInv, Answers, Closings
<1>5. Newest'
  BY <1>1 DEF DeliveryInv, Newest, After, Excused, Hops
<1> QED
  BY <1>1, <1>2, <1>3, <1>4, <1>5, CallersAlone DEF DeliveryInv

\* The operation in hand is shown, or not; those it was to answer wait no more.
LEMMA OperationEndsStep ==
  ASSUME DeliveryInv, NEW o \in {"answered", "failed", "cancelled", "flood", "transient"},
         OperationEnds(o)
  PROVE  DeliveryInv'
<1> DEFINE how == IF o = "flood" THEN "failed" ELSE o
<1>1. /\ worker = "running" /\ worker' = "waiting" /\ work' = Idle /\ call' = Resolved(how)
      /\ flooded' = (flooded \/ o = "flood")
      /\ shown' = IF o = "answered" THEN [shown EXCEPT ![work.key] = work.func] ELSE shown
      /\ UNCHANGED <<made, callKey, mode, tries, ready, line, entry, closing>>
  BY DEF OperationEnds
<1>2. DeliveryTypeOK
  BY DEF DeliveryInv
<1>3. how \in CallEnded \cup {"transient"}
  OBVIOUS
<1> HIDE DEF how
<1>4. \A d \in Calls :
        \/ call'[d] = call[d] /\ ~(d \in work.futures /\ call[d] = "waiting")
        \/ call[d] = "waiting" /\ d \in work.futures /\ call'[d] \in CallEnded
        \/ call[d] = "waiting" /\ d \in work.futures /\ call'[d] = "backoff" /\ tries[d] < MaxTries
  BY <1>1, <1>3 DEF Resolved
<1>5. call' \in [Calls -> {"unmade", "owned", "spawned", "waiting", "backoff"} \cup CallEnded]
  <2>1. DOMAIN call' = Calls /\ call' = [d \in Calls |-> call'[d]]
    BY <1>1 DEF Resolved
  <2>2. \A d \in Calls :
          call'[d] \in {"unmade", "owned", "spawned", "waiting", "backoff"} \cup CallEnded
    BY <1>2, <1>4 DEF DeliveryTypeOK
  <2> QED
    BY <2>1, <2>2
<1>6. /\ work.key \in Keys /\ work.func \in Calls /\ callKey[work.func] = work.key
      /\ tries[work.func] > 0
  BY <1>1, NumbersKnown DEF DeliveryInv, Queue, Carries
<1>7. DeliveryTypeOK'
  <2>1. flooded' \in BOOLEAN
    BY <1>1, <1>2 DEF DeliveryTypeOK
  <2>2. shown' \in [Keys -> 0 .. MaxCalls]
    BY <1>1, <1>2, <1>6 DEF DeliveryTypeOK
  <2>3. work' \in [key : Keys \cup {NoKey}, func : 0 .. MaxCalls, futures : SUBSET Calls]
    BY <1>1 DEF Idle
  <2> QED
    BY <1>1, <1>2, <1>5, <2>1, <2>2, <2>3 DEF DeliveryTypeOK
<1>8. Callers'
  <2>1. \A d \in Calls : call'[d] \in {"owned", "spawned"} <=> d \in ToSet(ready')
    BY <1>1, <1>4 DEF DeliveryInv, Callers
  <2>2. \A d \in Calls :
           \/ call'[d] = call[d]
           \/ call[d] # "unmade" /\ call'[d] \in CallEnded
           \/ call'[d] = "backoff" /\ call[d] = "waiting" /\ tries[d] < MaxTries
    BY <1>4
  <2> QED
    BY <1>1, <2>1, <2>2, CallersEnd
<1>9. Queue'
  BY <1>1 DEF DeliveryInv, Queue, Carries
<1>10. Answers' /\ Closings'
  BY <1>1, <1>4 DEF DeliveryInv, Answers, Closings
<1>11. ReadyInTurn'
  <2>1. \A d \in ToSet(ready) : call[d] # "waiting"
    BY ReadyElements DEF DeliveryInv, Callers
  <2> QED
    BY <1>1, <1>4, <2>1, ReadyElements, ReadyKept
<1>12. FirstTries'
  BY <1>1, <1>4, FirstTriesKept
<1>13. Newest'
  <2>1. NoKey \notin Keys /\ work'.key = NoKey
    BY <1>1 DEF Idle
  <2>2. \A k \in Keys, d \in Calls : d = shown'[k] =>
          d = shown[k] \/ (k = work.key /\ d = work.func)
    BY <1>1, <1>2 DEF DeliveryTypeOK
  <2>3. ASSUME NEW k \in Keys, NEW f \in Calls, NEW d \in Calls, After(f, d, k)'
        PROVE  After(f, d, k)
    BY <1>1, <2>1, <2>2, <2>3 DEF After
  <2>4. \A k \in Keys, d \in Calls : d = shown'[k] => callKey'[d] = k /\ tries'[d] > 0
    BY <1>1, <1>6, <2>2 DEF DeliveryInv, Newest
  <2>5. \A f, d \in Calls : Excused(f, d) => Excused(f, d)'
    BY <1>1 DEF Excused, Hops
  <2> QED
    BY <2>3, <2>4, <2>5 DEF DeliveryInv, Newest
<1> QED
  BY <1>7, <1>8, <1>9, <1>10, <1>11, <1>12, <1>13 DEF DeliveryInv
--------------------------------------------------------------------------------
(* Closing the platform *)

\* The tasks of the outbox leave the line, and the others keep their order.
LEMMA OutboxClosesStep ==
  ASSUME DeliveryInv, OutboxCloses
  PROVE  DeliveryInv'
<1> DEFINE gone == {c \in Calls : call[c] = "owned"}
<1>1. /\ closing = "open" /\ closing' = "outbox" /\ ready' = Without(ready, gone)
      /\ call' = [c \in Calls |-> IF call[c] = "owned" THEN "cancelled" ELSE call[c]]
      /\ UNCHANGED <<made, callKey, mode, tries, line, entry, worker, work, flooded, shown>>
  BY DEF OutboxCloses
<1>2. DeliveryTypeOK
  BY DEF DeliveryInv
<1>3. \A d \in Calls : /\ d \in gone <=> call[d] = "owned"
                       /\ call'[d] = IF d \in gone THEN "cancelled" ELSE call[d]
  BY <1>1
<1> HIDE DEF gone
<1>4. /\ ready' \in Seq(Calls) /\ ToSet(ready') = ToSet(ready) \ gone
      /\ Thinned(ready', ready) /\ IsInjective(ready')
  BY <1>1, ReadyElements, WithoutIsThinned, WithoutIsInjective DEF DeliveryInv, ReadyInTurn
<1>5. DeliveryTypeOK'
  <2>1. call' \in [Calls -> {"unmade", "owned", "spawned", "waiting", "backoff"} \cup CallEnded]
    BY <1>1, <1>2 DEF DeliveryTypeOK
  <2> QED
    BY <1>1, <1>2, <1>4, <2>1 DEF DeliveryTypeOK
<1>6. Callers'
  <2>1. \A d \in Calls : call'[d] \in {"owned", "spawned"} <=> d \in ToSet(ready')
    BY <1>3, <1>4 DEF DeliveryInv, Callers
  <2> QED
    BY <1>1, <1>3, <2>1, CallersEnd
<1>7. Queue' /\ Newest'
  <2>1. TriedKept
    BY <1>1, NumbersKnown DEF TriedKept
  <2> QED
    BY <1>1, <2>1, QueueKept
<1>8. Answers' /\ Closings'
  BY <1>1, <1>3 DEF DeliveryInv, Answers, Closings
<1>9. ReadyInTurn'
  <2>1. PICK g \in [DOMAIN ready' -> DOMAIN ready] :
          /\ \A i, j \in DOMAIN ready' : i < j => g[i] < g[j]
          /\ \A i \in DOMAIN ready' : ready'[i] = ready[g[i]]
    BY <1>4 DEF Thinned
  <2>2. DOMAIN ready' \subseteq Nat /\ DOMAIN ready \subseteq Nat
    BY <1>4, ReadyElements
  <2> SUFFICES ASSUME NEW i \in DOMAIN ready', NEW j \in DOMAIN ready',
                      Comes(ready[i], ready[j])'
               PROVE  \/ call'[ready'[i]] = "spawned" /\ call'[ready'[j]] = "owned"
                      \/ call'[ready'[i]] = call'[ready'[j]] /\ i < j
    BY <1>4 DEF ReadyInTurn
  <2>3. /\ ready'[i] = ready[g[i]] /\ ready'[j] = ready[g[j]]
        /\ g[i] \in DOMAIN ready /\ g[j] \in DOMAIN ready
    BY <2>1
  <2>4. ready'[i] \in ToSet(ready) \ gone /\ ready'[j] \in ToSet(ready) \ gone
    BY <1>4 DEF ToSet
  <2>5. /\ call[ready'[i]] = "spawned" /\ call[ready'[j]] = "spawned"
        /\ call'[ready'[i]] = "spawned" /\ call'[ready'[j]] = "spawned"
    BY <1>3, <2>4, ReadyElements DEF DeliveryInv, Callers
  <2>6. Comes(ready[g[i]], ready[g[j]])
    BY <1>1, <2>3 DEF Comes, Hops
  <2>7. g[i] < g[j]
    BY <2>3, <2>5, <2>6 DEF DeliveryInv, ReadyInTurn
  <2>8. i < j
    <3>1. i \in Nat /\ j \in Nat /\ g[i] \in Nat /\ g[j] \in Nat
      BY <2>2, <2>3
    <3>2. i # j /\ ~(j < i)
      BY <2>1, <2>7, <3>1
    <3> QED
      BY <3>1, <3>2
  <2> QED
    BY <2>5, <2>8
<1>10. FirstTries'
  BY <1>1, <1>3, FirstTriesKept
<1> QED
  BY <1>5, <1>6, <1>7, <1>8, <1>9, <1>10 DEF DeliveryInv

\* Every future is cancelled, as each is in the queue or in hand.
LEMMA ShutdownBeginsStep ==
  ASSUME DeliveryInv, ShutdownBegins
  PROVE  DeliveryInv'
<1>1. /\ closing = "outbox" /\ closing' = "draining"
      /\ call' = [c \in Calls |->
                    IF call[c] = "waiting" /\ \/ c \in work.futures
                                              \/ \E k \in Keys : c \in entry[k].futures
                    THEN "cancelled" ELSE call[c]]
      /\ line' = <<>> /\ entry' = [k \in Keys |-> Absent]
      /\ UNCHANGED <<made, callKey, mode, tries, ready, flooded, shown>>
  BY DEF ShutdownBegins
<1>2. DeliveryTypeOK
  BY DEF DeliveryInv
<1>3. \A d \in Calls : IF call[d] = "waiting" THEN call'[d] = "cancelled"
                       ELSE call'[d] = call[d]
  BY <1>1 DEF DeliveryInv, Answers, Callers
<1>4. call' \in [Calls -> {"unmade", "owned", "spawned", "waiting", "backoff"} \cup CallEnded]
  BY <1>1, <1>2 DEF DeliveryTypeOK
<1>5. \/ /\ worker = "running" /\ worker' = "stopping" /\ work' = [work EXCEPT !.futures = {}]
      \/ /\ worker # "running" /\ worker' = "over" /\ work' = Idle
  BY DEF ShutdownBegins
<1>6. /\ work' \in [key : Keys \cup {NoKey}, func : 0 .. MaxCalls, futures : SUBSET Calls]
      /\ work' = Idle \/ (work'.key = work.key /\ work'.func = work.func /\ work'.futures = {})
  <2>1. CASE work' = Idle
    BY <2>1 DEF Idle
  <2>2. CASE work' = [work EXCEPT !.futures = {}]
    BY <1>2, <2>2 DEF DeliveryTypeOK
  <2> QED
    BY <1>5, <2>1, <2>2
<1>7. DeliveryTypeOK'
  BY <1>1, <1>2, <1>4, <1>5, <1>6 DEF DeliveryTypeOK, Absent
<1>8. Callers'
  <2>1. \A d \in Calls : call'[d] \in {"owned", "spawned"} <=> d \in ToSet(ready')
    BY <1>1, <1>3 DEF DeliveryInv, Callers
  <2> QED
    BY <1>1, <1>3, <2>1, CallersEnd
<1>9. Queue'
  <2>1. IsInjective(line') /\ ToSet(line') = {}
    BY <1>1, NobodyWaits
  <2>2. worker' = "stopping" => work'.key \in Keys /\ Carries(work, work.key)'
    BY <1>1, <1>5, <1>2 DEF DeliveryInv, Queue, Carries, DeliveryTypeOK
  <2> QED
    BY <1>1, <1>5, <2>1, <2>2 DEF Queue
<1>10. Answers' /\ Closings'
  <2>1. \A d \in Calls : call'[d] # "waiting" /\ (call'[d] = "owned" => call[d] = "owned")
    BY <1>3
  <2> QED
    BY <1>1, <1>5, <2>1 DEF DeliveryInv, Answers, Closings
<1>11. ReadyInTurn'
  <2>1. \A d \in ToSet(ready) : call[d] # "waiting"
    BY ReadyElements DEF DeliveryInv, Callers
  <2> QED
    BY <1>1, <1>3, <2>1, ReadyElements, ReadyKept
<1>12. FirstTries'
  BY <1>1, <1>3, FirstTriesKept
<1>13. Newest'
  <2>1. ToSet(line') = {}
    BY <1>1, NobodyWaits
  <2>2. ASSUME NEW k \in Keys, NEW f \in Calls, NEW d \in Calls, After(f, d, k)'
        PROVE  After(f, d, k)
    BY <1>1, <1>6, <2>1, <2>2 DEF After, Idle
  <2>3. \A k \in Keys, d \in Calls : d = shown'[k] => callKey'[d] = k /\ tries'[d] > 0
    BY <1>1 DEF DeliveryInv, Newest
  <2>4. \A f, d \in Calls : Excused(f, d) => Excused(f, d)'
    BY <1>1 DEF Excused, Hops
  <2> QED
    BY <2>2, <2>3, <2>4 DEF DeliveryInv, Newest
<1> QED
  BY <1>7, <1>8, <1>9, <1>10, <1>11, <1>12, <1>13 DEF DeliveryInv

\* A running operation has nobody to answer any more.
LEMMA OperationStopsStep ==
  ASSUME DeliveryInv, OperationStops
  PROVE  DeliveryInv'
<1>1. /\ worker = "stopping" /\ worker' = "over" /\ work' = Idle
      /\ shown' \in {shown, [shown EXCEPT ![work.key] = work.func]}
      /\ UNCHANGED <<made, call, callKey, mode, tries, ready, line, entry, flooded, closing>>
  BY DEF OperationStops
<1>2. DeliveryTypeOK
  BY DEF DeliveryInv
<1>3. /\ work.key \in Keys /\ work.func \in Calls /\ callKey[work.func] = work.key
      /\ tries[work.func] > 0
  BY <1>1, NumbersKnown DEF DeliveryInv, Queue, Carries
<1>4. DeliveryTypeOK'
  <2>1. shown' \in [Keys -> 0 .. MaxCalls]
    BY <1>1, <1>2, <1>3 DEF DeliveryTypeOK
  <2>2. work' \in [key : Keys \cup {NoKey}, func : 0 .. MaxCalls, futures : SUBSET Calls]
    BY <1>1 DEF Idle
  <2> QED
    BY <1>1, <1>2, <2>1, <2>2 DEF DeliveryTypeOK
<1>5. Queue'
  BY <1>1 DEF DeliveryInv, Queue, Carries
<1>6. Answers' /\ Closings'
  BY <1>1 DEF DeliveryInv, Answers, Closings
<1>7. Newest'
  <2>1. NoKey \notin Keys /\ work'.key = NoKey
    BY <1>1 DEF Idle
  <2>2. \A k \in Keys, d \in Calls : d = shown'[k] =>
          d = shown[k] \/ (k = work.key /\ d = work.func)
    BY <1>1, <1>2 DEF DeliveryTypeOK
  <2>3. ASSUME NEW k \in Keys, NEW f \in Calls, NEW d \in Calls, After(f, d, k)'
        PROVE  After(f, d, k)
    BY <1>1, <2>1, <2>2, <2>3 DEF After
  <2>4. \A k \in Keys, d \in Calls : d = shown'[k] => callKey'[d] = k /\ tries'[d] > 0
    BY <1>1, <1>3, <2>2 DEF DeliveryInv, Newest
  <2>5. \A f, d \in Calls : Excused(f, d) => Excused(f, d)'
    BY <1>1 DEF Excused, Hops
  <2> QED
    BY <2>3, <2>4, <2>5 DEF DeliveryInv, Newest
<1> QED
  BY <1>1, <1>4, <1>5, <1>6, <1>7, CallersAlone DEF DeliveryInv

\* The worker is over and so is every task.
LEMMA ShutdownEndsStep ==
  ASSUME DeliveryInv, ShutdownEnds
  PROVE  DeliveryInv'
<1>1. /\ closing = "draining" /\ worker = "over" /\ closing' = "closed" /\ ready' = <<>>
      /\ call' = [c \in Calls |->
                    IF call[c] \in {"spawned", "backoff"} THEN "cancelled" ELSE call[c]]
      /\ UNCHANGED <<made, callKey, mode, tries, line, entry, worker, work, flooded, shown>>
  BY DEF ShutdownEnds
<1>2. DeliveryTypeOK
  BY DEF DeliveryInv
<1>3. ready' \in Seq(Calls) /\ ToSet(ready') = {} /\ IsInjective(ready') /\ DOMAIN ready' = {}
  BY <1>1, NobodyWaits
<1>4. \A d \in Calls : call'[d] = IF call[d] \in {"spawned", "backoff"}
                                  THEN "cancelled" ELSE call[d]
  BY <1>1
<1>5. \A d \in Calls : call'[d] \notin {"owned", "spawned", "backoff", "waiting"}
  BY <1>1, <1>4 DEF DeliveryInv, Closings
<1>6. DeliveryTypeOK'
  <2>1. call' \in [Calls -> {"unmade", "owned", "spawned", "waiting", "backoff"} \cup CallEnded]
    BY <1>1, <1>2 DEF DeliveryTypeOK
  <2> QED
    BY <1>1, <1>2, <1>3, <2>1 DEF DeliveryTypeOK
<1>7. Callers'
  BY <1>1, <1>3, <1>4, <1>5, CallersEnd
<1>8. Queue' /\ Newest'
  <2>1. TriedKept
    BY <1>1, NumbersKnown DEF TriedKept
  <2> QED
    BY <1>1, <2>1, QueueKept
<1>9. Answers' /\ Closings'
  BY <1>1, <1>5 DEF DeliveryInv, Answers, Closings
<1>10. ReadyInTurn'
  BY <1>3 DEF ReadyInTurn
<1>11. FirstTries'
  BY <1>1, <1>4, FirstTriesKept
<1> QED
  BY <1>6, <1>7, <1>8, <1>9, <1>10, <1>11 DEF DeliveryInv

--------------------------------------------------------------------------------
(* The theorems *)

\* Every step keeps the invariant.
LEMMA DeliveryStep ==
  ASSUME DeliveryInv, [DeliveryNext]_deliveryVars
  PROVE  DeliveryInv'
<1>1. ASSUME NEW c \in Calls, NEW k \in Keys,
             CallAwaited(c, k) \/ \E m \in Modes \ {"awaited"} : CallForgotten(c, k, m)
      PROVE  DeliveryInv'
  BY <1>1, CallAwaitedStep, CallForgottenStep
<1>2. ASSUME NEW c \in Calls, CallerCancelled(c) \/ TaskSteps(c)
      PROVE  DeliveryInv'
  BY <1>2, CallerCancelledStep, OwnedStartsStep, SpawnedStartsStep, RetryStep DEF TaskSteps
<1>3. CASE WorkerSteps
  BY <1>3, TakeStep, WorkerMovesStep, OperationEndsStep DEF WorkerSteps
<1>4. CASE Closes
  BY <1>4, OutboxClosesStep, ShutdownBeginsStep, OperationStopsStep, ShutdownEndsStep
     DEF Closes
<1>5. CASE FloodOver \/ Quiet \/ UNCHANGED deliveryVars
  BY <1>5, WorkerMovesStep DEF Quiet
<1> QED
  BY <1>1, <1>2, <1>3, <1>4, <1>5 DEF DeliveryNext

\* A call is answered only when its operation ends well.
LEMMA CallAnswered ==
  ASSUME DeliveryInv, [DeliveryNext]_deliveryVars, NEW c \in Calls,
         call[c] # "answered", call'[c] = "answered"
  PROVE  OperationEnds("answered")
<1>0. call \in [Calls -> {"unmade", "owned", "spawned", "waiting", "backoff"} \cup CallEnded]
  BY DEF DeliveryInv, DeliveryTypeOK
<1>1. ASSUME NEW d \in Calls, NEW k \in Keys, Enqueue(d, k) PROVE FALSE
  BY <1>0, <1>1 DEF Enqueue
<1>2. ASSUME NEW d \in Calls, NEW k \in Keys,
             CallAwaited(d, k) \/ \E m \in Modes \ {"awaited"} : CallForgotten(d, k, m)
      PROVE  FALSE
  BY <1>0, <1>1, <1>2 DEF CallAwaited, CallForgotten
<1>3. ASSUME NEW d \in Calls, CallerCancelled(d) \/ TaskSteps(d)
      PROVE  FALSE
  <2>1. CASE CallerCancelled(d) \/ OwnedStarts(d)
    BY <1>0, <2>1 DEF CallerCancelled, OwnedStarts
  <2>2. CASE SpawnedStarts(d) \/ Retry(d)
    <3>1. callKey[d] \in Keys /\ Enqueue(d, callKey[d])
      BY <2>2 DEF SpawnedStarts, Retry, DeliveryInv, Callers
    <3> QED
      BY <1>1, <3>1
  <2> QED
    BY <1>3, <2>1, <2>2 DEF TaskSteps
<1>4. CASE Closes \/ FloodOver \/ Quiet \/ UNCHANGED deliveryVars \/ Take \/ Paced
  BY <1>0, <1>4 DEF Closes, OutboxCloses, ShutdownBegins, OperationStops, ShutdownEnds,
                    FloodOver, Quiet, deliveryVars, Take, Paced
<1>5. ASSUME NEW o \in {"failed", "cancelled", "flood", "transient"}, OperationEnds(o)
      PROVE  FALSE
  BY <1>0, <1>5 DEF OperationEnds, Resolved
<1> QED
  BY <1>2, <1>3, <1>4, <1>5 DEF DeliveryNext, WorkerSteps

\* A text is shown only when an operation ends.
LEMMA TextShown ==
  ASSUME [DeliveryNext]_deliveryVars, shown' # shown
  PROVE  OperationStops \/ OperationEnds("answered")
BY DEF DeliveryNext, CallAwaited, CallForgotten, CallerCancelled, TaskSteps, OwnedStarts,
       SpawnedStarts, Retry, WorkerSteps, Take, Paced, OperationEnds, FloodOver, Closes,
       OutboxCloses, ShutdownBegins, ShutdownEnds, Quiet, deliveryVars

\* The invariant that the theorems about delivery rest on.
THEOREM DeliveryInvariance == DeliverySpec => []DeliveryInv
<1>1. DeliveryInit => DeliveryInv
  <2> SUFFICES ASSUME DeliveryInit PROVE DeliveryInv
    OBVIOUS
  <2>1. /\ made = 0 /\ ready = <<>> /\ line = <<>> /\ worker = "waiting" /\ work = Idle
        /\ closing = "open"
        /\ \A c \in Calls : /\ call[c] = "unmade" /\ callKey[c] = NoKey /\ mode[c] = "none"
                            /\ tries[c] = 0
        /\ \A k \in Keys : entry[k] = Absent /\ shown[k] = 0
    BY DEF DeliveryInit
  <2>2. ToSet(line) = {} /\ ToSet(ready) = {} /\ IsInjective(line) /\ IsInjective(ready)
        /\ DOMAIN ready = {}
    BY <2>1, NobodyWaits
  <2>3. DeliveryTypeOK
    <3>1. flooded \in BOOLEAN
      BY DEF DeliveryInit
    <3>2. work \in [key : Keys \cup {NoKey}, func : 0 .. MaxCalls, futures : SUBSET Calls]
      BY <2>1 DEF Idle
    <3>3. entry \in [Keys -> [func : 0 .. MaxCalls, futures : SUBSET Calls]]
      BY DEF DeliveryInit, Absent
    <3>4. ready \in Seq(Calls) /\ line \in Seq(Keys)
      BY <2>1
    <3> QED
      BY <3>1, <3>2, <3>3, <3>4 DEF DeliveryInit, DeliveryTypeOK
  <2>4. Callers /\ Queue /\ Answers /\ Closings
    BY <2>1, <2>2 DEF Callers, Queue, Answers, Closings
  <2>5. ReadyInTurn /\ FirstTries
    BY <2>1, <2>2 DEF ReadyInTurn, FirstTries
  <2>6. Newest
    BY <2>1, <2>2 DEF Newest, After, Idle
  <2> QED
    BY <2>3, <2>4, <2>5, <2>6 DEF DeliveryInv
<1> QED
  BY <1>1, DeliveryStep, PTL DEF DeliverySpec

\* The calls, the queue, the worker and what is shown keep their types.
THEOREM DeliveryTypeCorrect == DeliverySpec => []DeliveryTypeOK
<1>1. DeliveryInv => DeliveryTypeOK
  BY DEF DeliveryInv
<1> QED
  BY <1>1, DeliveryInvariance, PTL

\* Whatever is compacted, fails, is cancelled, retried or shut down: the future of a
\* caller that waits is in the queue or with the worker, and a close leaves no task.
THEOREM FuturesAreKept == DeliverySpec => []NoFutureForgotten
<1>1. DeliveryInv => NoFutureForgotten
  <2> SUFFICES ASSUME DeliveryInv PROVE NoFutureForgotten
    OBVIOUS
  <2>1. ASSUME NEW c \in Calls, call[c] = "waiting"
        PROVE  \/ c \in entry[callKey[c]].futures /\ Contains(line, callKey[c])
               \/ c \in work.futures /\ worker \in Busy
    <3>1. callKey[c] \in Keys /\ line \in Seq(Keys)
      BY <2>1 DEF DeliveryInv, Callers, DeliveryTypeOK
    <3> QED
      BY <2>1, <3>1, InLine DEF DeliveryInv, Answers
  <2>2. ASSUME closing = "closed", NEW c \in Calls
        PROVE  worker = "over" /\ call[c] \in CallEnded \cup {"unmade"}
    <3>1. call[c] \notin {"owned", "spawned", "backoff", "waiting"} /\ worker = "over"
      BY <2>2 DEF DeliveryInv, Closings
    <3> QED
      BY <3>1 DEF DeliveryInv, DeliveryTypeOK
  <2>3. closing = "closed" => worker = "over"
    BY DEF DeliveryInv, Closings
  <2> QED
    BY <2>1, <2>2, <2>3 DEF NoFutureForgotten
<1> QED
  BY <1>1, DeliveryInvariance, PTL

\* Only the latest version of a message update is processed: a text is hidden, or
\* reported as delivered, by an older one only if that one is the retry of a failed
\* call or took a longer way to the queue.
THEOREM EditsStayInOrder == DeliverySpec => EditsInOrder
<1> DEFINE Ordered ==
      \A c \in 1 .. made :
        LET f == shown'[callKey[c]] IN
        /\ shown[callKey[c]] = c \/ (call[c] # "answered" /\ call'[c] = "answered")
        /\ f < c
        => tries[f] > 1 \/ Hops(f) > Hops(c)
<1>1. ASSUME DeliveryInv, [DeliveryNext]_deliveryVars, NEW c \in Calls, c <= made
      PROVE  LET f == shown'[callKey[c]] IN
             /\ shown[callKey[c]] = c \/ (call[c] # "answered" /\ call'[c] = "answered")
             /\ f < c
             => tries[f] > 1 \/ Hops(f) > Hops(c)
  <2> DEFINE k == callKey[c]
  <2>1. k \in Keys /\ c \in Nat
    BY <1>1 DEF DeliveryInv, Callers
  <2> HIDE DEF k
  <2>2. CASE shown'[k] = shown[k] /\ ~(call[c] # "answered" /\ call'[c] = "answered")
    BY <2>1, <2>2 DEF k
  <2>3. ASSUME \/ shown'[k] # shown[k]
               \/ call[c] # "answered" /\ call'[c] = "answered"
        PROVE  \/ OperationStops
               \/ OperationEnds("answered")
    <3>1. call[c] # "answered" /\ call'[c] = "answered" => OperationEnds("answered")
      BY <1>1, CallAnswered
    <3>2. shown' # shown => OperationStops \/ OperationEnds("answered")
      BY <1>1, TextShown
    <3> QED
      BY <2>3, <3>1, <3>2
  <2>4. ASSUME OperationStops \/ OperationEnds("answered"),
               shown'[k] < c, \/ shown[k] = c
                              \/ call[c] # "answered" /\ call'[c] = "answered",
               shown'[k] # shown[k] \/ call'[c] # call[c]
        PROVE  tries[shown'[k]] > 1 \/ Hops(shown'[k]) > Hops(c)
    <3>1. /\ work.key \in Keys /\ work.func \in Calls
          /\ \A d \in work.futures : callKey[d] = work.key
      BY <1>1, <2>4, NumbersKnown DEF DeliveryInv, Queue, Carries, OperationStops, OperationEnds
    <3>2. \/ shown' = shown /\ OperationStops
          \/ shown' = [shown EXCEPT ![work.key] = work.func]
      BY <2>4 DEF OperationStops, OperationEnds
    <3>3. call'[c] # call[c] => c \in work.futures /\ OperationEnds("answered")
      BY <1>1, <2>4 DEF OperationStops, OperationEnds, Resolved
    <3>4. shown'[k] # shown[k] => k = work.key /\ shown'[k] = work.func
      BY <1>1, <2>1, <3>1, <3>2 DEF DeliveryInv, DeliveryTypeOK
    <3>5. OperationEnds("answered") => shown'[work.key] = work.func
      BY <1>1, <3>1 DEF OperationEnds, DeliveryInv, DeliveryTypeOK
    <3>6. k = work.key /\ shown'[k] = work.func /\ (c = shown[k] \/ c \in work.futures)
      BY <2>4, <3>1, <3>3, <3>4, <3>5 DEF k
    <3>7. After(work.func, c, k)
      BY <3>6 DEF After
    <3>8. Excused(work.func, c)
      BY <1>1, <2>1, <3>1, <3>7 DEF DeliveryInv, Newest
    <3> QED
      BY <2>4, <3>6, <3>8 DEF Excused
  <2> QED
    BY <2>1, <2>2, <2>3, <2>4 DEF k
<1>2. ASSUME DeliveryInv, [DeliveryNext]_deliveryVars PROVE Ordered
  <2>1. 1 .. made \subseteq Calls /\ \A c \in 1 .. made : c <= made
    BY <1>2 DEF DeliveryInv, DeliveryTypeOK
  <2> QED
    BY <1>1, <1>2, <2>1
<1>3. DeliveryInv /\ [DeliveryNext]_deliveryVars => [Ordered]_deliveryVars
  BY <1>2
<1> QED
  BY <1>3, DeliveryInvariance, PTL DEF DeliverySpec, EditsInOrder
================================================================================
