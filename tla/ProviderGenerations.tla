--------------------------- MODULE ProviderGenerations ---------------------------
(* The provider manager: generations of provider clients, the leases requests    *)
(* hold on them, hot replacement, the background model refresh and the           *)
(* retryable shutdown. Everything runs on one event loop; a step below is what   *)
(* one task does between two awaits. An await that finds nothing to wait for     *)
(* does not yield in the code; the model lets other tasks in there too.           *)
EXTENDS Naturals, FiniteSets

CONSTANTS
  Requests,                 \* tasks that take a lease around their work
  MaxGeneration,            \* bound: generations the manager publishes
  MaxFaults                 \* bound: failed cleanups and cancelled operations

ASSUME GenerationsAssumption ==
  /\ MaxGeneration \in Nat \ {0}
  /\ MaxFaults \in Nat
  /\ Requests # {}

VARIABLES
  gens,                     \* the generations, published or not yet
  current,                  \* _current
  nextId,                   \* _next_generation_id
  closing, closed,          \* _closing, _closed
  lease,                    \* lease[r]: generation r holds a lease on, 0 for none
  started,                  \* start_model_list_refresh ran, the server is up
  refresh,                  \* refresh[g]: the background refresh created for g
  refreshTask,              \* _refresh_task: generation of the task, 0 for None
  awaited,                  \* the refresh _cancel_refresh is gathering, 0 for none
  admin,                    \* where replace() is
  previous,                 \* replace()'s previous
  fetch,                    \* where refresh_model_list_cache() is
  closer,                   \* where close() is
  snapshot,                 \* close()'s generations
  pending,                  \* cleanups close() still gathers
  incomplete,               \* some cleanup close() gathered failed
  unpublished,              \* size of _unpublished
  retryLeft,                \* candidates _retry_unpublished_cleanup has to visit
  broken,                   \* history: generations whose cleanup raised
  faults                    \* faults so far

managerVars == <<current, nextId, closing, closed>>
refreshVars == <<refresh, refreshTask>>
closeVars == <<snapshot, pending, incomplete>>
vars == <<gens, managerVars, lease, started, refreshVars, awaited, admin, previous,
          fetch, closer, closeVars, unpublished, retryLeft, broken, faults>>

Gen == 1 .. MaxGeneration
Generation == [leases : Nat, retired : BOOLEAN, closed : BOOLEAN, cleaning : BOOLEAN]
NewGeneration == [leases |-> 0, retired |-> FALSE, closed |-> FALSE, cleaning |-> FALSE]

Init ==
  /\ gens = [g \in Gen |-> NewGeneration]
  /\ current = 1 /\ nextId = 2
  /\ closing = FALSE /\ closed = FALSE
  /\ lease = [r \in Requests |-> 0]
  /\ started = FALSE
  /\ refresh = [g \in Gen |-> "none"] /\ refreshTask = 0 /\ awaited = 0
  /\ admin = "idle" /\ previous = 0 /\ fetch = "idle"
  /\ closer = "idle" /\ snapshot = {} /\ pending = {} /\ incomplete = FALSE
  /\ unpublished = 0 /\ retryLeft = 0
  /\ broken = {} /\ faults = 0

\* _retired: generations retired and not closed yet
Retired == {g \in Gen : gens[g].retired /\ ~gens[g].closed}

Drained(g) == gens[g].leases = 0

\* _replace_lock is held from a call's first step to its last
ReplaceLockFree == admin = "idle" /\ fetch = "idle" /\ closer # "cancelling"

\* Mutant of Returned: the last return does not start the cleanup.
ReturnedLeavesOpen(gs, g) ==
  IF gs[g].leases = 0 THEN gs ELSE [gs EXCEPT ![g].leases = @ - 1]

\* one more and one lease fewer on g; the last return of a retired generation
\* closes it, unless the shutdown already does
Leased(gs, g) == [gs EXCEPT ![g].leases = @ + 1]
Cleaning(gs, g) ==
  IF gs[g].closed \/ gs[g].leases # 0 THEN gs ELSE [gs EXCEPT ![g].cleaning = TRUE]
Returned(gs, g) ==
  LET fewer == [gs EXCEPT ![g].leases = @ - 1]
  IN  IF gs[g].leases = 0 THEN gs
      ELSE IF fewer[g].leases = 0 /\ fewer[g].retired /\ ~closing
           THEN Cleaning(fewer, g) ELSE fewer

-----------------------------------------------------------------------------
(* Leases *)

Acquire(r) ==
  /\ lease[r] = 0
  /\ ~closing /\ ~closed
  /\ lease' = [lease EXCEPT ![r] = current]
  /\ gens' = Leased(gens, current)
  /\ UNCHANGED <<managerVars, started, refreshVars, awaited, admin, previous, fetch,
                 closer, closeVars, unpublished, retryLeft, broken, faults>>

\* The releasing task then waits for the cleanup behind a shield; nothing depends
\* on when, or whether, that wait ends.
ReleaseLease(r) ==
  /\ lease[r] # 0
  /\ gens' = Returned(gens, lease[r])
  /\ lease' = [lease EXCEPT ![r] = 0]
  /\ UNCHANGED <<managerVars, started, refreshVars, awaited, admin, previous, fetch,
                 closer, closeVars, unpublished, retryLeft, broken, faults>>

-----------------------------------------------------------------------------
(* The background refresh *)

StartModelListRefresh ==
  /\ ~started /\ ~closing /\ ~closed /\ closer = "idle"
  /\ started' = TRUE
  /\ refresh' = [refresh EXCEPT ![current] = "created"]
  /\ refreshTask' = current
  /\ UNCHANGED <<gens, managerVars, lease, awaited, admin, previous, fetch, closer,
                 closeVars, unpublished, retryLeft, broken, faults>>

\* The task's first step: it takes a lease unless its generation is closed.
RefreshBegins(g) ==
  /\ refresh[g] = "created"
  /\ IF gens[g].closed
       THEN refresh' = [refresh EXCEPT ![g] = "done"] /\ UNCHANGED gens
       ELSE refresh' = [refresh EXCEPT ![g] = "running"] /\ gens' = Leased(gens, g)
  /\ UNCHANGED <<managerVars, lease, started, refreshTask, awaited, admin, previous,
                 fetch, closer, closeVars, unpublished, retryLeft, broken, faults>>

\* Discovery answered, failed or was cancelled.
RefreshEnds(g) ==
  /\ refresh[g] = "running"
  /\ refresh' = [refresh EXCEPT ![g] = "done"]
  /\ gens' = Returned(gens, g)
  /\ UNCHANGED <<managerVars, lease, started, refreshTask, awaited, admin, previous,
                 fetch, closer, closeVars, unpublished, retryLeft, broken, faults>>

\* Mutant of CancelRefresh: the handle is dropped, the task is not cancelled.
DropRefresh ==
  /\ refreshTask' = 0
  /\ UNCHANGED refresh
  /\ awaited' = 0

\* _cancel_refresh up to its gather: a task that has not begun never will.
CancelRefresh ==
  /\ refreshTask' = 0
  /\ refresh' = IF refreshTask # 0 /\ refresh[refreshTask] = "created"
                THEN [refresh EXCEPT ![refreshTask] = "done"] ELSE refresh
  /\ awaited' = refreshTask

RefreshGathered == awaited # 0 => refresh[awaited] = "done"

-----------------------------------------------------------------------------
(* replace() *)

ReplaceBegins ==
  /\ started /\ ReplaceLockFree
  /\ ~closing /\ ~closed
  /\ admin' = "cancelling"
  /\ CancelRefresh
  /\ UNCHANGED <<gens, managerVars, lease, started, previous, fetch, closer, closeVars,
                 unpublished, retryLeft, broken, faults>>

ReplaceRetries ==
  /\ admin = "cancelling" /\ RefreshGathered
  /\ admin' = "retrying"
  /\ awaited' = 0
  /\ retryLeft' = unpublished
  /\ UNCHANGED <<gens, managerVars, lease, started, refreshVars, previous, fetch,
                 closer, closeVars, unpublished, broken, faults>>

\* The candidate's construction raises: nothing is left behind.
ConstructionFails ==
  /\ admin = "retrying" /\ retryLeft = 0
  /\ admin' = "idle"
  /\ UNCHANGED <<gens, managerVars, lease, started, refreshVars, awaited, previous,
                 fetch, closer, closeVars, unpublished, retryLeft, broken, faults>>

\* commit() raises: the candidate is owned until its cleanup succeeds.
CommitFails ==
  /\ admin = "retrying" /\ retryLeft = 0
  /\ admin' = "cleaning"
  /\ unpublished' = unpublished + 1
  /\ UNCHANGED <<gens, managerVars, lease, started, refreshVars, awaited, previous,
                 fetch, closer, closeVars, retryLeft, broken, faults>>

CandidateCleaned ==
  /\ admin = "cleaning"
  /\ admin' = "idle"
  /\ unpublished' = unpublished - 1
  /\ UNCHANGED <<gens, managerVars, lease, started, refreshVars, awaited, previous,
                 fetch, closer, closeVars, retryLeft, broken, faults>>

CandidateCleanupFails ==
  /\ admin = "cleaning" /\ faults < MaxFaults
  /\ admin' = "idle"
  /\ faults' = faults + 1
  /\ UNCHANGED <<gens, managerVars, lease, started, refreshVars, awaited, previous,
                 fetch, closer, closeVars, unpublished, retryLeft, broken>>

\* The commit succeeded: publish, retire the previous generation, start the
\* candidate's refresh and close the previous one if nobody holds it.
Publish ==
  /\ admin = "retrying" /\ retryLeft = 0
  /\ nextId <= MaxGeneration
  /\ current' = nextId
  /\ nextId' = nextId + 1
  /\ gens' = Cleaning([gens EXCEPT ![current].retired = TRUE], current)
  /\ refresh' = [refresh EXCEPT ![nextId] = "created"]
  /\ refreshTask' = nextId
  /\ IF Drained(current) THEN admin' = "closing" /\ previous' = current
                         ELSE admin' = "idle" /\ previous' = 0
  /\ UNCHANGED <<closing, closed, lease, started, awaited, fetch, closer, closeVars,
                 unpublished, retryLeft, broken, faults>>

\* The calling task is cancelled where replace() is suspended; an owned cleanup
\* goes on without it.
ReplaceSuspended ==
  \/ admin = "cancelling" /\ awaited # 0
  \/ admin = "retrying" /\ retryLeft > 0
  \/ admin \in {"cleaning", "closing"}

CancelReplace ==
  /\ ReplaceSuspended /\ faults < MaxFaults
  /\ admin' = "idle" /\ previous' = 0
  /\ awaited' = 0 /\ retryLeft' = 0
  /\ faults' = faults + 1
  /\ UNCHANGED <<gens, managerVars, lease, started, refreshVars, fetch, closer,
                 closeVars, unpublished, broken>>

-----------------------------------------------------------------------------
(* refresh_model_list_cache() *)

FetchBegins ==
  /\ started /\ ReplaceLockFree
  /\ ~closing /\ ~closed
  /\ fetch' = "cancelling"
  /\ CancelRefresh
  /\ UNCHANGED <<gens, managerVars, lease, started, admin, previous, closer, closeVars,
                 unpublished, retryLeft, broken, faults>>

FetchRuns ==
  /\ fetch = "cancelling" /\ RefreshGathered
  /\ fetch' = "running"
  /\ awaited' = 0
  /\ gens' = Leased(gens, current)
  /\ UNCHANGED <<managerVars, lease, started, refreshVars, admin, previous, closer,
                 closeVars, unpublished, retryLeft, broken, faults>>

FetchEnds ==
  /\ fetch = "running"
  /\ fetch' = "idle"
  /\ gens' = Returned(gens, current)
  /\ UNCHANGED <<managerVars, lease, started, refreshVars, awaited, admin, previous,
                 closer, closeVars, unpublished, retryLeft, broken, faults>>

CancelFetch ==
  /\ fetch = "cancelling" /\ awaited # 0 /\ faults < MaxFaults
  /\ fetch' = "idle" /\ awaited' = 0
  /\ faults' = faults + 1
  /\ UNCHANGED <<gens, managerVars, lease, started, refreshVars, admin, previous,
                 closer, closeVars, unpublished, retryLeft, broken>>

-----------------------------------------------------------------------------
(* close() *)

CloseCalled ==
  /\ closer = "idle" /\ ~closed
  /\ closer' = "waiting"
  /\ UNCHANGED <<gens, managerVars, lease, started, refreshVars, awaited, admin,
                 previous, fetch, closeVars, unpublished, retryLeft, broken, faults>>

\* Mutant of CloseBegins: leases are still granted during the shutdown.
CloseBeginsOpen ==
  /\ closer = "waiting" /\ ReplaceLockFree
  /\ closer' = "cancelling"
  /\ CancelRefresh
  /\ UNCHANGED <<gens, managerVars, lease, started, admin, previous, fetch, closeVars,
                 unpublished, retryLeft, broken, faults>>

CloseBegins ==
  /\ closer = "waiting" /\ ReplaceLockFree
  /\ closing' = TRUE
  /\ closer' = "cancelling"
  /\ CancelRefresh
  /\ UNCHANGED <<gens, current, nextId, closed, lease, started, admin, previous, fetch,
                 closeVars, unpublished, retryLeft, broken, faults>>

CloseDrains ==
  /\ closer = "cancelling" /\ RefreshGathered
  /\ closer' = "draining"
  /\ awaited' = 0
  /\ gens' = [gens EXCEPT ![current].retired = TRUE]
  /\ snapshot' = {g \in Gen : gens'[g].retired /\ ~gens'[g].closed}
  /\ UNCHANGED <<managerVars, lease, started, refreshVars, admin, previous, fetch,
                 pending, incomplete, unpublished, retryLeft, broken, faults>>

\* Every lease is back: gather the cleanup of every generation.
CloseCleans ==
  /\ closer = "draining"
  /\ \A g \in snapshot : Drained(g)
  /\ closer' = "closing"
  /\ gens' = [g \in Gen |-> IF g \in snapshot /\ ~gens[g].closed
                            THEN [gens[g] EXCEPT !.cleaning = TRUE] ELSE gens[g]]
  /\ pending' = {g \in snapshot : ~gens[g].closed}
  /\ incomplete' = FALSE
  /\ UNCHANGED <<managerVars, lease, started, refreshVars, awaited, admin, previous,
                 fetch, snapshot, unpublished, retryLeft, broken, faults>>

CloseRetries ==
  /\ closer = "closing" /\ pending = {}
  /\ closer' = "retrying"
  /\ retryLeft' = unpublished
  /\ UNCHANGED <<gens, managerVars, lease, started, refreshVars, awaited, admin,
                 previous, fetch, closeVars, unpublished, broken, faults>>

\* Mutant of CloseEnds: failed cleanups are not looked at.
CloseEndsAnyway ==
  /\ closer = "retrying" /\ retryLeft = 0
  /\ closer' = "idle"
  /\ closed' = TRUE
  /\ snapshot' = {} /\ incomplete' = FALSE
  /\ UNCHANGED <<gens, current, nextId, closing, lease, started, refreshVars, awaited,
                 admin, previous, fetch, pending, unpublished, retryLeft, broken, faults>>

CloseEnds ==
  /\ closer = "retrying" /\ retryLeft = 0
  /\ closer' = "idle"
  /\ closed' = ~incomplete
  /\ snapshot' = {} /\ incomplete' = FALSE
  /\ UNCHANGED <<gens, current, nextId, closing, lease, started, refreshVars, awaited,
                 admin, previous, fetch, pending, unpublished, retryLeft, broken, faults>>

\* The task that called close() is cancelled: _closing stays set, and only the
\* next close() goes on.
CloseSuspended ==
  \/ closer = "cancelling" /\ awaited # 0
  \/ closer = "retrying" /\ retryLeft > 0
  \/ closer \in {"waiting", "draining", "closing"}

CancelClose ==
  /\ CloseSuspended /\ faults < MaxFaults
  /\ closer' = "idle"
  /\ snapshot' = {} /\ pending' = {} /\ incomplete' = FALSE
  /\ awaited' = IF closer = "cancelling" THEN 0 ELSE awaited
  /\ retryLeft' = IF closer = "retrying" THEN 0 ELSE retryLeft
  /\ faults' = faults + 1
  /\ UNCHANGED <<gens, managerVars, lease, started, refreshVars, admin, previous, fetch,
                 unpublished, broken>>

-----------------------------------------------------------------------------
(* Cleanups. A generation's cleanup is one task whoever waits for it. *)

\* Mutant of CleanupOver: a failed cleanup is not reported to close().
CleanupNotReported(g, failed) ==
  /\ IF admin = "closing" /\ previous = g
       THEN admin' = "idle" /\ previous' = 0 ELSE UNCHANGED <<admin, previous>>
  /\ pending' = IF failed THEN pending ELSE pending \ {g}
  /\ incomplete' = (incomplete \/ (failed /\ g \in pending))

\* replace() and close() wake up when the cleanup they wait for is over
CleanupOver(g, failed) ==
  /\ IF admin = "closing" /\ previous = g
       THEN admin' = "idle" /\ previous' = 0 ELSE UNCHANGED <<admin, previous>>
  /\ pending' = pending \ {g}
  /\ incomplete' = (incomplete \/ (failed /\ g \in pending))

CleanupSucceeds(g) ==
  /\ gens[g].cleaning
  /\ gens' = [gens EXCEPT ![g].cleaning = FALSE, ![g].closed = TRUE]
  /\ CleanupOver(g, FALSE)
  /\ UNCHANGED <<managerVars, lease, started, refreshVars, awaited, fetch, closer,
                 snapshot, unpublished, retryLeft, broken, faults>>

CleanupFails(g) ==
  /\ gens[g].cleaning /\ faults < MaxFaults
  /\ gens' = [gens EXCEPT ![g].cleaning = FALSE]
  /\ CleanupOver(g, TRUE)
  /\ broken' = broken \cup {g}
  /\ faults' = faults + 1
  /\ UNCHANGED <<managerVars, lease, started, refreshVars, awaited, fetch, closer,
                 snapshot, unpublished, retryLeft>>

\* _retry_unpublished_cleanup visits the next candidate
Retrying == (admin = "retrying" \/ closer = "retrying") /\ retryLeft > 0

RetrySucceeds ==
  /\ Retrying
  /\ retryLeft' = retryLeft - 1
  /\ unpublished' = unpublished - 1
  /\ UNCHANGED <<gens, managerVars, lease, started, refreshVars, awaited, admin,
                 previous, fetch, closer, closeVars, broken, faults>>

RetryFails ==
  /\ Retrying /\ faults < MaxFaults
  /\ retryLeft' = retryLeft - 1
  /\ incomplete' = (incomplete \/ closer = "retrying")
  /\ faults' = faults + 1
  /\ UNCHANGED <<gens, managerVars, lease, started, refreshVars, awaited, admin,
                 previous, fetch, closer, snapshot, pending, unpublished, broken>>

-----------------------------------------------------------------------------

Leases == \E r \in Requests : Acquire(r) \/ ReleaseLease(r)
Refresh == \/ StartModelListRefresh
           \/ \E g \in Gen : RefreshBegins(g) \/ RefreshEnds(g)
Replace == \/ ReplaceBegins \/ ReplaceRetries \/ ConstructionFails \/ CommitFails
           \/ CandidateCleaned \/ CandidateCleanupFails \/ Publish \/ CancelReplace
Fetch == FetchBegins \/ FetchRuns \/ FetchEnds \/ CancelFetch
Shutdown == \/ CloseCalled \/ CloseBegins \/ CloseDrains \/ CloseCleans
            \/ CloseRetries \/ CloseEnds \/ CancelClose
Cleanups == \/ \E g \in Gen : CleanupSucceeds(g) \/ CleanupFails(g)
            \/ RetrySucceeds \/ RetryFails

\* The manager is closed and nothing it owns can move.
Terminated == closed /\ UNCHANGED vars

Next == Leases \/ Refresh \/ Replace \/ Fetch \/ Shutdown \/ Cleanups \/ Terminated

Spec == Init /\ [][Next]_vars

(* The event loop runs every ready task; requests, discoveries and cleanups end  *)
(* (clients and HTTP calls have timeouts); _replace_lock is granted in FIFO      *)
(* order, so the shutdown is not overtaken for ever. Nobody has to call          *)
(* replace(), refresh_model_list_cache() or close(), and nothing has to fail.    *)
Fairness ==
  /\ \A r \in Requests : WF_vars(ReleaseLease(r))
  /\ \A g \in Gen : /\ WF_vars(RefreshBegins(g)) /\ WF_vars(RefreshEnds(g))
                    /\ WF_vars(CleanupSucceeds(g))
  /\ WF_vars(ReplaceRetries) /\ WF_vars(ConstructionFails \/ CommitFails \/ Publish)
  /\ WF_vars(CandidateCleaned) /\ WF_vars(RetrySucceeds)
  /\ WF_vars(FetchRuns) /\ WF_vars(FetchEnds)
  /\ SF_vars(CloseBegins) /\ WF_vars(CloseDrains) /\ WF_vars(CloseCleans)
  /\ WF_vars(CloseRetries) /\ WF_vars(CloseEnds)

FairSpec == Spec /\ Fairness

-----------------------------------------------------------------------------
(* Properties *)

AdminSteps == {"idle", "cancelling", "retrying", "cleaning", "closing"}
FetchSteps == {"idle", "cancelling", "running"}
CloseSteps == {"idle", "waiting", "cancelling", "draining", "closing", "retrying"}

\* The shape of the manager's state, with every count a natural number.
TypeOK ==
  /\ gens \in [Gen -> Generation]
  /\ current \in Gen /\ nextId = current + 1
  /\ closing \in BOOLEAN /\ closed \in BOOLEAN /\ started \in BOOLEAN
  /\ lease \in [Requests -> Gen \cup {0}]
  /\ refresh \in [Gen -> {"none", "created", "running", "done"}]
  /\ refreshTask \in Gen \cup {0} /\ awaited \in Gen \cup {0}
  /\ admin \in AdminSteps /\ previous \in Gen \cup {0}
  /\ fetch \in FetchSteps /\ closer \in CloseSteps
  /\ snapshot \subseteq Gen /\ pending \subseteq Gen /\ incomplete \in BOOLEAN
  /\ unpublished \in Nat /\ retryLeft \in Nat
  /\ broken \subseteq Gen /\ faults \in Nat

\* A generation is never cleaned up, or closed, while a request, a refresh or an
\* explicit fetch holds a lease on it: active_leases guards _close_generation
\* against every order of release, replacement and shutdown.
NeverCleanedInUse ==
  \A g \in Gen : gens[g].cleaning \/ gens[g].closed => gens[g].retired /\ Drained(g)

\* active_leases counts exactly the holders, whichever of them are cancelled: no
\* lease is lost (the shutdown would wait for ever) or returned twice.
LeaseAccounting ==
  \A g \in Gen : gens[g].leases = Cardinality({r \in Requests : lease[r] = g})
                                  + (IF refresh[g] = "running" THEN 1 ELSE 0)
                                  + (IF fetch = "running" /\ current = g THEN 1 ELSE 0)

\* A retired generation nobody holds is being cleaned up, or its cleanup failed,
\* or the shutdown takes care of it: its clients are never just forgotten.
NothingForgotten ==
  \A g \in Retired : Drained(g) /\ ~gens[g].cleaning => closing \/ g \in broken

\* When close() has succeeded every published generation is closed and every
\* failed candidate is cleaned up, whatever failed or was cancelled on the way.
ClosedOwnsNothing ==
  closed => /\ \A g \in Gen : g <= current => gens[g].closed
            /\ unpublished = 0

\* A refresh that has not begun belongs to the serving generation and is the one
\* _refresh_task names, so cancelling _refresh_task is enough: no refresh ever
\* wakes up on a retired generation and takes a lease on it.
NoOrphanRefresh ==
  \A g \in Gen : refresh[g] = "created" =>
                    g = current /\ refreshTask = g /\ ~gens[g].retired

\* The state is well formed, no generation is cleaned up under a lease, and no refresh
\* is left to take a lease on a retired one.
UseIsSafe == TypeOK /\ NeverCleanedInUse /\ NoOrphanRefresh

\* No lease is lost and no retired generation is.
NothingLost == LeaseAccounting /\ NothingForgotten

\* The manager implements the lease discipline of LeasedGenerations: leases on the
\* serving generation only, one generation serving, each closed once and unheld.
PhaseOf(g) ==
  CASE g > current -> "absent"
    [] gens[g].closed -> "closed"
    [] gens[g].retired /\ ~gens[g].closed -> "retired"
    [] OTHER -> "serving"

Abstract == INSTANCE LeasedGenerations
              WITH LastGeneration <- MaxGeneration,
                   phase <- [g \in Gen |-> PhaseOf(g)],
                   held <- [g \in Gen |-> gens[g].leases]

LeaseDiscipline == Abstract!AbsSpec

\* close() always returns or raises, whatever fails or is cancelled around it: it
\* never waits for a lease nobody returns or a cleanup nobody finishes.
CloseReturns == closer = "waiting" ~> closer = "idle"

\* A replaced generation is closed in the end without anybody asking, unless its
\* cleanup failed or the manager is shutting down.
RetiredIsReclaimed ==
  \A g \in Gen : gens[g].retired ~> gens[g].closed \/ g \in broken \/ closing

\* Shutdowns return, and replaced generations are reclaimed.
GenerationsEnd == CloseReturns /\ RetiredIsReclaimed

=============================================================================
