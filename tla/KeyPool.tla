--------------------------------- MODULE KeyPool ---------------------------------
(* The key pool: round-robin rotation of API keys with per-key pacing and          *)
(* cooldowns. The event loop runs a request from one await to the next in one      *)
(* step: an error, the cooldown it causes, the choice of the next key and, unless  *)
(* the lap is slowed down, the next dispatch happen together. The per-key limiter  *)
(* is only ever counted and recorded to, so it is the log of the key's dispatches. *)
EXTENDS Naturals, Sequences, FiniteSetsExt

CONSTANTS
  KeyCount,                 \* the keys, in ring order, are 1 .. KeyCount
  Laps,                     \* who calls create_with_rotation, at most so many at once
  PerKeyRpm, Headroom,      \* per_key_rpm, pacing_headroom
  Window,                   \* rate_window
  Cooldown,                 \* cooldown_seconds
  OverloadCooldown,         \* overload_cooldown_seconds
  Beat,                     \* escalation_backoff
  MaxTime                   \* bound: where the clock stops

ASSUME PoolAssumption ==
  /\ IsFiniteSet(Laps)
  /\ KeyCount \in Nat \ {0}
  /\ PerKeyRpm \in Nat \ {0} /\ Headroom \in Nat
  /\ Window \in Nat \ {0}
  /\ Cooldown \in Nat /\ OverloadCooldown \in Nat /\ Beat \in Nat
  /\ MaxTime \in Nat \ {0}

VARIABLES
  clock,
  index,                    \* _index
  cooldown,                 \* cooldown[k]: cooldown_until of key k
  sent,                     \* sent[k]: when key k was dispatched with, in order
  lap,                      \* where each request is in its lap
  key,                      \* key[r]: the key selected for r, 0 before the first
  tried,                    \* tried[r]: the keys of r's lap
  refusals,                 \* refusals[r]: consecutive_429
  wake,                     \* wake[r]: when r's backoff is over
  uses                      \* history: how often r dispatched in its lap

lapVars == <<lap, key, tried, refusals, wake, uses>>
poolVars == <<clock, index, cooldown, sent, lapVars>>

Keys == 1 .. KeyCount
None == 0

\* a tiny quota still admits one request
Threshold == IF PerKeyRpm > Headroom + 1 THEN PerKeyRpm - Headroom ELSE 1

PoolInit ==
  /\ clock = 1 /\ index = 1
  /\ cooldown = [k \in Keys |-> 0]
  /\ sent = [k \in Keys |-> <<>>]
  /\ lap = [r \in Laps |-> "idle"]
  /\ key = [r \in Laps |-> None]
  /\ tried = [r \in Laps |-> {}]
  /\ refusals = [r \in Laps |-> 0]
  /\ wake = [r \in Laps |-> 0]
  /\ uses = [r \in Laps |-> 0]

-----------------------------------------------------------------------------
(* Selection *)

InCooldown(cool, k, now) == now < cool[k]

CountInWindow(k, now) ==
  Cardinality({i \in DOMAIN sent[k] : sent[k][i] + Window > now})

\* Mutant of IsEligible: only the cooldown is looked at.
IsCool(cool, k, now) == ~InCooldown(cool, k, now)

IsEligible(cool, k, now) ==
  ~InCooldown(cool, k, now) /\ CountInWindow(k, now) < Threshold

\* the ring from the pointer on
Ring(i) == ((index - 1 + i) % KeyCount) + 1

\* Mutant of Hits: the scan stops one key early.
HitsButLast(cool, skip) ==
  {i \in 0 .. KeyCount - 2 : Ring(i) \notin skip /\ IsEligible(cool, Ring(i), clock)}

Hits(cool, skip) ==
  {i \in 0 .. KeyCount - 1 : Ring(i) \notin skip /\ IsEligible(cool, Ring(i), clock)}

Selected(cool, skip) ==
  IF Hits(cool, skip) = {} THEN None ELSE Ring(Min(Hits(cool, skip)))

After(k) == (k % KeyCount) + 1

-----------------------------------------------------------------------------
(* create_with_rotation *)

\* popleft, while the first has expired
Pruned(times) ==
  LET end == Len(times) + 1
  IN  SubSeq(times, Min({i \in 1 .. end : i = end \/ times[i] + Window > clock}), Len(times))

\* record_dispatch, and the first step of create_fn; what has expired was pruned when
\* the key was last counted
Dispatch(r, k) ==
  /\ sent' = [sent EXCEPT ![k] = Append(Pruned(sent[k]), clock)]
  /\ uses' = [uses EXCEPT ![r] = @ + 1]
  /\ lap' = [lap EXCEPT ![r] = "sent"]

\* the lap is over, with its local variables; the caller may come back with another
End(r, how) ==
  /\ lap' = [lap EXCEPT ![r] = how]
  /\ key' = [key EXCEPT ![r] = None] /\ tried' = [tried EXCEPT ![r] = {}]
  /\ refusals' = [refusals EXCEPT ![r] = 0] /\ wake' = [wake EXCEPT ![r] = 0]
  /\ uses' = [uses EXCEPT ![r] = 0]

\* The rest of the loop from its top, with the cooldowns and the count of 429
\* answers as the request's last attempt left them.
NextTry(r, cool, count) ==
  LET k == Selected(cool, tried[r])
  IN  IF k = None
        THEN End(r, "exhausted") /\ UNCHANGED <<index, sent>>
        ELSE /\ index' = After(k)
             /\ key' = [key EXCEPT ![r] = k]
             /\ tried' = [tried EXCEPT ![r] = @ \cup {k}]
             /\ refusals' = [refusals EXCEPT ![r] = count]
             /\ IF count >= 2
                  THEN /\ lap' = [lap EXCEPT ![r] = "beat"]
                       /\ wake' = [wake EXCEPT ![r] = clock + Beat]
                       /\ UNCHANGED <<sent, uses>>
                  ELSE Dispatch(r, k) /\ UNCHANGED wake

Start(r) ==
  /\ lap[r] \in {"idle", "exhausted"}
  /\ NextTry(r, cooldown, 0)
  /\ UNCHANGED <<clock, cooldown>>

BeatOver(r) ==
  /\ lap[r] = "beat" /\ clock >= wake[r]
  /\ Dispatch(r, key[r])
  /\ UNCHANGED <<clock, index, cooldown, key, tried, refusals, wake>>

\* create_fn returned, or raised what the lap does not handle; or the request was
\* cancelled.
LapEnds(r) ==
  /\ lap[r] \in {"beat", "sent"}
  /\ End(r, "idle")
  /\ UNCHANGED <<clock, index, cooldown, sent>>

EnterCooldown(k, seconds) == [cooldown EXCEPT ![k] = clock + seconds]

RateLimited(r) ==
  /\ lap[r] = "sent"
  /\ cooldown' = EnterCooldown(key[r], Cooldown)
  /\ NextTry(r, cooldown', refusals[r] + 1)
  /\ UNCHANGED clock

\* 5xx and overload answers
Overloaded(r) ==
  /\ lap[r] = "sent"
  /\ cooldown' = EnterCooldown(key[r], OverloadCooldown)
  /\ NextTry(r, cooldown', refusals[r])
  /\ UNCHANGED clock

\* A call without a lap, such as a model listing, takes the next eligible key.
ListModels ==
  /\ Selected(cooldown, {}) # None
  /\ index' = After(Selected(cooldown, {}))
  /\ UNCHANGED <<clock, cooldown, sent, lapVars>>

Tick ==
  /\ clock < MaxTime
  /\ clock' = clock + 1
  /\ UNCHANGED <<index, cooldown, sent, lapVars>>

\* The bound is reached: time stands still.
ClockStopped == clock = MaxTime /\ UNCHANGED poolVars

Lap(r) == Start(r) \/ BeatOver(r) \/ LapEnds(r) \/ RateLimited(r) \/ Overloaded(r)

PoolNext == (\E r \in Laps : Lap(r)) \/ ListModels \/ Tick \/ ClockStopped

PoolSpec == PoolInit /\ [][PoolNext]_poolVars

-----------------------------------------------------------------------------
(* Properties *)

LapSteps == {"idle", "beat", "sent", "exhausted"}

\* The pointer stays in the ring and every time is a time.
PoolTypeOK ==
  /\ clock \in 1 .. MaxTime /\ index \in Keys
  /\ cooldown \in [Keys -> Nat]
  /\ sent \in [Keys -> Seq(1 .. MaxTime)]
  /\ lap \in [Laps -> LapSteps]
  /\ key \in [Laps -> Keys \cup {None}]
  /\ tried \in [Laps -> SUBSET Keys]
  /\ refusals \in [Laps -> 0 .. KeyCount]
  /\ wake \in [Laps -> Nat]
  /\ uses \in [Laps -> 0 .. KeyCount]

\* "Try every loaded key once": a lap dispatches once with each key it has selected,
\* however long it takes and whatever other requests and listings do to the pointer
\* in the meantime; so it uses no key twice.
LapTriesOnce ==
  \A r \in Laps :
    Cardinality(tried[r]) = uses[r] + (IF lap[r] = "beat" THEN 1 ELSE 0)

\* "A key at/near its ceiling is skipped": no key is dispatched with more often than
\* the pacing threshold in one window, but for the requests that were slowed down
\* after they had selected it: each of them adds one at most, and all of them
\* together never more than the other requests there are.
PacingHolds ==
  \A k \in Keys : CountInWindow(k, clock) <= Threshold + Cardinality(Laps) - 1

\* The pool is well formed; a lap uses a key once, and no key more often than its
\* pacing allows.
LapsKeepPace == PoolTypeOK /\ LapTriesOnce /\ PacingHolds

\* A request is turned away only when each key was used in its lap, or is cooling
\* down, or has reached its ceiling; and a key in cooldown is dispatched with only by a
\* request that selected it and then sat out its backoff while another request cooled
\* the key.
CooldownsDecide ==
  [][/\ \A r \in Laps : lap[r] # "exhausted" /\ lap'[r] = "exhausted" =>
           \A k \in Keys : k \in tried[r] \/ ~IsEligible(cooldown', k, clock)
     /\ \A k \in Keys : sent'[k] # sent[k] /\ InCooldown(cooldown', k, clock) =>
           \E r \in Laps : lap[r] = "beat" /\ key[r] = k]_poolVars

\* The cooldown after a 429 is "flat 3h": whatever else the key answers while it is
\* cooling down, the end of its cooldown is not brought forward.
CooldownIsFlat ==
  [][\A k \in Keys : cooldown'[k] >= cooldown[k]]_poolVars

=============================================================================
