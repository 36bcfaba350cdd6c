------------------------ MODULE ProviderGenerationsProofs ------------------------
(* Proofs about ProviderGenerations, for every number of requests, generations   *)
(* and faults.                                                                    *)
(*                                                                                *)
(* NeverCleanedInUse, NoOrphanRefresh and ClosedOwnsNothing are not inductive by  *)
(* themselves: IInv adds the order of generations in time, who can be inside the  *)
(* replace lock, which refresh the handle names, and what a close() in progress   *)
(* still has to do. With it every step is also shown to be a step of              *)
(* LeasedGenerations or a stutter. NothingLost counts leases: Ledger adds that    *)
(* finitely many requests hold one, and every change of a count is one element.   *)
EXTENDS ProviderGenerations, FiniteSetTheorems, TLAPS

\* Generations after the serving one are untouched, those before it are retired,
\* and the serving one is not before the shutdown begins.
Timeline ==
  /\ \A g \in Gen : g > current => gens[g] = NewGeneration /\ refresh[g] = "none"
  /\ \A g \in Gen : g < current => gens[g].retired
  /\ ~closing => ~gens[current].retired /\ ~closed

\* What _replace_lock excludes: no replacement and no fetch once the shutdown has
\* begun, and close() beyond its first await has retired the serving generation.
LockOwners ==
  /\ closing => admin = "idle" /\ fetch = "idle"
  /\ admin # "idle" => fetch = "idle"
  /\ closer \notin {"idle", "waiting"} => closing
  /\ closer \in {"draining", "closing", "retrying"} => gens[current].retired

\* No refresh is orphaned, and whoever is between _cancel_refresh and its next
\* step has left no refresh behind.
RefreshHandle ==
  /\ NoOrphanRefresh
  /\ admin \in {"cancelling", "retrying"} \/ closer = "cancelling" => refreshTask = 0
  /\ ~started => refreshTask = 0 /\ admin = "idle" /\ fetch = "idle"

\* Cleaned generations are retired and unheld, and close() cleans retired ones.
CleanedUnheld ==
  /\ NeverCleanedInUse
  /\ \A g \in snapshot : gens[g].retired

\* The candidates still to visit are among the ones owned, and somebody visits them.
Candidates ==
  /\ retryLeft <= unpublished
  /\ admin = "cleaning" => unpublished > 0
  /\ retryLeft > 0 => admin = "retrying" \/ closer = "retrying"

\* What close() has gathered, and still gathers, covers every open generation and
\* every candidate unless it already knows it is incomplete.
ShutdownOwns ==
  /\ closer \in {"draining", "closing", "retrying"} =>
       \A g \in Gen : g <= current => gens[g].closed \/ g \in snapshot
  /\ closer = "closing" /\ ~incomplete =>
       \A g \in snapshot : gens[g].closed \/ g \in pending
  /\ closer # "closing" => pending = {}
  /\ closer \notin {"closing", "retrying"} => ~incomplete
  /\ closer = "retrying" /\ ~incomplete =>
       /\ \A g \in snapshot : gens[g].closed
       /\ unpublished = retryLeft
  /\ closed => closing
  /\ ClosedOwnsNothing

\* The inductive invariant.
IInv ==
  /\ TypeOK /\ Timeline /\ LockOwners /\ RefreshHandle /\ CleanedUnheld
  /\ Candidates /\ ShutdownOwns

\* What a returned lease does to a generation: it may start its cleanup, no more.
Kept(old, new) ==
  /\ new.retired = old.retired
  /\ new.closed = old.closed
  /\ new.leases <= old.leases
  /\ old.leases = 0 => new = old
  /\ new.cleaning => old.cleaning \/ (new.leases = 0 /\ old.retired)

-----------------------------------------------------------------------------
(* What the helpers make of gens *)

\* Taking a lease changes one count and nothing else.
LEMMA LeasedShape ==
    ASSUME gens \in [Gen -> Generation], NEW g \in Gen
    PROVE  /\ Leased(gens, g) \in [Gen -> Generation]
           /\ \A h \in Gen : /\ Leased(gens, g)[h].retired = gens[h].retired
                             /\ Leased(gens, g)[h].closed = gens[h].closed
                             /\ Leased(gens, g)[h].cleaning = gens[h].cleaning
                             /\ h # g => Leased(gens, g)[h] = gens[h]
    BY DEF Leased, Generation

\* Giving a lease back changes one generation as Kept says.
LEMMA ReturnedShape ==
    ASSUME gens \in [Gen -> Generation], NEW g \in Gen
    PROVE  /\ Returned(gens, g) \in [Gen -> Generation]
           /\ \A h \in Gen : Kept(gens[h], Returned(gens, g)[h])
<1> DEFINE fewer == [gens EXCEPT ![g].leases = @ - 1]
<1>1. CASE gens[g].leases = 0
    BY <1>1 DEF Returned, Generation, Kept
<1>2. CASE gens[g].leases # 0
  <2>1. /\ fewer \in [Gen -> Generation]
        /\ \A h \in Gen : h # g => fewer[h] = gens[h]
        /\ fewer[g] = [gens[g] EXCEPT !.leases = gens[g].leases - 1]
    BY <1>2 DEF Generation
  <2>2. CASE fewer[g].leases = 0 /\ fewer[g].retired /\ ~closing
    <3>1. Returned(gens, g) = Cleaning(fewer, g)
      BY <1>2, <2>2 DEF Returned
    <3> HIDE DEF fewer
    <3>2. CASE fewer[g].closed
      BY <1>2, <2>1, <3>1, <3>2 DEF Cleaning, Generation, Kept
    <3>3. CASE ~fewer[g].closed
      <4>1. Returned(gens, g) = [fewer EXCEPT ![g].cleaning = TRUE]
        BY <2>2, <3>1, <3>3 DEF Cleaning
      <4>2. /\ Returned(gens, g)[g] = [fewer[g] EXCEPT !.cleaning = TRUE]
            /\ \A h \in Gen : h # g => Returned(gens, g)[h] = gens[h]
            /\ Returned(gens, g) \in [Gen -> Generation]
        <5>1. /\ fewer \in [Gen -> Generation] /\ fewer[g] \in Generation
              /\ \A h \in Gen : h # g => fewer[h] = gens[h]
          BY <2>1
        <5>2. [fewer[g] EXCEPT !.cleaning = TRUE] \in Generation
          BY <5>1 DEF Generation
        <5> HIDE DEF Generation
        <5> QED
          BY <4>1, <5>1, <5>2
      <4>3. Kept(gens[g], Returned(gens, g)[g])
        <5>1. gens[g] \in Generation /\ fewer[g] \in Generation
          BY <2>1
        <5>2. /\ Returned(gens, g)[g].retired = gens[g].retired
              /\ Returned(gens, g)[g].closed = gens[g].closed
          BY <2>1, <4>2, <5>1 DEF Generation
        <5>3. Returned(gens, g)[g].leases = gens[g].leases - 1
          BY <2>1, <4>2, <5>1 DEF Generation
        <5>4. gens[g].leases \in Nat
          BY <5>1 DEF Generation
        <5> HIDE DEF Generation
        <5>5. Returned(gens, g)[g].leases <= gens[g].leases /\ gens[g].leases # 0
          BY <1>2, <5>3, <5>4
        <5>6. Returned(gens, g)[g].leases = 0 /\ gens[g].retired
          BY <2>1, <2>2, <4>2, <5>1 DEF Generation
        <5> QED
          BY <5>2, <5>5, <5>6 DEF Kept
      <4>4. \A h \in Gen : h # g => Kept(gens[h], Returned(gens, g)[h])
        BY <4>2 DEF Generation, Kept
      <4> QED
        BY <4>2, <4>3, <4>4
    <3> QED
      BY <3>2, <3>3
  <2>3. CASE ~(fewer[g].leases = 0 /\ fewer[g].retired /\ ~closing)
    <3>1. Returned(gens, g) = fewer
      BY <1>2, <2>3 DEF Returned
    <3> HIDE DEF fewer
    <3> QED
      BY <1>2, <2>1, <3>1 DEF Generation, Kept
  <2> QED
    BY <2>2, <2>3
<1> QED
    BY <1>1, <1>2

\* A returned lease is one lease fewer on its own generation and on no other.
LEMMA ReturnedCount ==
    ASSUME gens \in [Gen -> Generation], NEW g \in Gen
    PROVE  /\ \A h \in Gen : h # g => Returned(gens, g)[h].leases = gens[h].leases
           /\ gens[g].leases = 0 => Returned(gens, g) = gens
           /\ gens[g].leases # 0 => Returned(gens, g)[g].leases = gens[g].leases - 1
    BY DEF Returned, Cleaning, Generation

-----------------------------------------------------------------------------
(* Every action preserves the invariant *)

\* A lease is counted on the serving generation, which is not retired.
LEMMA AcquireStep ==
    ASSUME IInv, NEW r \in Requests, Acquire(r)
    PROVE  IInv'
<1> USE GenerationsAssumption DEF managerVars, refreshVars, closeVars
<1>0. TypeOK /\ Timeline /\ LockOwners /\ RefreshHandle /\ CleanedUnheld
      /\ Candidates /\ ShutdownOwns
    BY DEF IInv
<1>1. /\ gens' \in [Gen -> Generation]
      /\ \A h \in Gen : /\ gens'[h].retired = gens[h].retired
                        /\ gens'[h].closed = gens[h].closed
                        /\ gens'[h].cleaning = gens[h].cleaning
                        /\ h # current => gens'[h] = gens[h]
        BY <1>0, LeasedShape DEF TypeOK, Gen, Acquire
<1>2. ~gens[current].retired /\ current <= current
        BY <1>0 DEF TypeOK, Generation, Gen, Timeline, LockOwners, RefreshHandle,
           NoOrphanRefresh, Acquire
<1>3. TypeOK'
        BY <1>0, <1>1, <1>2 DEF TypeOK, Generation, Gen, AdminSteps, FetchSteps,
           CloseSteps, Candidates, Acquire
<1>4. Timeline'
        BY <1>0, <1>1, <1>2 DEF TypeOK, Generation, Gen, Timeline, LockOwners,
           RefreshHandle, NoOrphanRefresh, NewGeneration, Acquire
<1>5. LockOwners'
        BY <1>0, <1>1, <1>2 DEF TypeOK, Generation, Gen, Timeline, LockOwners,
           RefreshHandle, Acquire
<1>6. RefreshHandle'
        BY <1>0, <1>1, <1>2 DEF TypeOK, Generation, Gen, Timeline, LockOwners,
           RefreshHandle, NoOrphanRefresh, Acquire
<1>7. CleanedUnheld'
        BY <1>0, <1>1, <1>2 DEF TypeOK, Generation, Gen, CleanedUnheld,
           NeverCleanedInUse, Drained, Timeline, Acquire
<1>8. Candidates'
        BY <1>0, <1>1, <1>2 DEF TypeOK, Candidates, LockOwners, Acquire
<1>9. ShutdownOwns'
        BY <1>0, <1>1, <1>2 DEF TypeOK, Generation, Gen, ShutdownOwns,
           ClosedOwnsNothing, Timeline, LockOwners, Candidates, Acquire
<1> QED
    BY <1>3, <1>4, <1>5, <1>6, <1>7, <1>8, <1>9 DEF IInv

\* A returned lease starts a cleanup only when it was the last one.
LEMMA ReleaseLeaseStep ==
    ASSUME IInv, NEW r \in Requests, ReleaseLease(r)
    PROVE  IInv'
<1> USE GenerationsAssumption DEF managerVars, refreshVars, closeVars
<1>0. TypeOK /\ Timeline /\ LockOwners /\ RefreshHandle /\ CleanedUnheld
      /\ Candidates /\ ShutdownOwns
    BY DEF IInv
<1>1. /\ gens' \in [Gen -> Generation]
      /\ \A h \in Gen : Kept(gens[h], gens'[h])
        BY <1>0, ReturnedShape DEF TypeOK, Gen, ReleaseLease
<1>3. TypeOK'
        BY <1>0, <1>1 DEF TypeOK, Generation, Gen, AdminSteps, FetchSteps,
           CloseSteps, Candidates, ReleaseLease
<1>4. Timeline'
        BY <1>0, <1>1 DEF TypeOK, Generation, Gen, Timeline, LockOwners,
           RefreshHandle, NoOrphanRefresh, NewGeneration, Kept, ReleaseLease
<1>5. LockOwners'
        BY <1>0, <1>1 DEF TypeOK, Generation, Gen, Timeline, LockOwners,
           RefreshHandle, Kept, ReleaseLease
<1>6. RefreshHandle'
        BY <1>0, <1>1 DEF TypeOK, Generation, Gen, Timeline, LockOwners,
           RefreshHandle, NoOrphanRefresh, Kept, ReleaseLease
<1>7. CleanedUnheld'
        BY <1>0, <1>1 DEF TypeOK, Generation, Gen, CleanedUnheld,
           NeverCleanedInUse, Drained, Timeline, Kept, ReleaseLease
<1>8. Candidates'
        BY <1>0, <1>1 DEF TypeOK, Candidates, LockOwners, ReleaseLease
<1>9. ShutdownOwns'
        BY <1>0, <1>1 DEF TypeOK, Generation, Gen, ShutdownOwns,
           ClosedOwnsNothing, Timeline, LockOwners, Candidates, Kept, ReleaseLease
<1> QED
    BY <1>3, <1>4, <1>5, <1>6, <1>7, <1>8, <1>9 DEF IInv

\* The first refresh is created for the serving generation.
LEMMA StartModelListRefreshStep ==
    ASSUME IInv, StartModelListRefresh
    PROVE  IInv'
<1> USE GenerationsAssumption DEF managerVars, refreshVars, closeVars
<1>0. TypeOK /\ Timeline /\ LockOwners /\ RefreshHandle /\ CleanedUnheld
      /\ Candidates /\ ShutdownOwns
    BY DEF IInv
<1>1. gens' = gens
        BY DEF StartModelListRefresh
<1>3. TypeOK'
        BY <1>0, <1>1 DEF TypeOK, Generation, Gen, AdminSteps, FetchSteps,
           CloseSteps, Candidates, StartModelListRefresh
<1>4. Timeline'
        BY <1>0, <1>1 DEF TypeOK, Generation, Gen, Timeline, LockOwners,
           RefreshHandle, NoOrphanRefresh, NewGeneration, StartModelListRefresh
<1>5. LockOwners'
        BY <1>0, <1>1 DEF TypeOK, Generation, Gen, Timeline, LockOwners,
           RefreshHandle, StartModelListRefresh
<1>6. RefreshHandle'
        BY <1>0, <1>1 DEF TypeOK, Generation, Gen, Timeline, LockOwners,
           RefreshHandle, NoOrphanRefresh, StartModelListRefresh
<1>7. CleanedUnheld'
        BY <1>0, <1>1 DEF TypeOK, Generation, Gen, CleanedUnheld,
           NeverCleanedInUse, Drained, Timeline, StartModelListRefresh
<1>8. Candidates'
        BY <1>0, <1>1 DEF TypeOK, Candidates, LockOwners, StartModelListRefresh
<1>9. ShutdownOwns'
        BY <1>0, <1>1 DEF TypeOK, Generation, Gen, ShutdownOwns,
           ClosedOwnsNothing, Timeline, LockOwners, Candidates,
           StartModelListRefresh
<1> QED
    BY <1>3, <1>4, <1>5, <1>6, <1>7, <1>8, <1>9 DEF IInv

\* A refresh that has not begun leases the serving generation.
LEMMA RefreshBeginsStep ==
    ASSUME IInv, NEW g \in Gen, RefreshBegins(g)
    PROVE  IInv'
<1> USE GenerationsAssumption DEF managerVars, refreshVars, closeVars
<1>0. TypeOK /\ Timeline /\ LockOwners /\ RefreshHandle /\ CleanedUnheld
      /\ Candidates /\ ShutdownOwns
    BY DEF IInv
<1>1. /\ gens' \in [Gen -> Generation]
      /\ \A h \in Gen : /\ gens'[h].retired = gens[h].retired
                        /\ gens'[h].closed = gens[h].closed
                        /\ gens'[h].cleaning = gens[h].cleaning
                        /\ h # g => gens'[h] = gens[h]
        BY <1>0, LeasedShape DEF TypeOK, Gen, RefreshBegins
<1>2. ~gens[g].retired /\ g <= current
        BY <1>0 DEF TypeOK, Generation, Gen, Timeline, LockOwners, RefreshHandle,
           NoOrphanRefresh, RefreshBegins
<1>3. TypeOK'
  <2>1. refresh' \in [Gen -> {"none", "created", "running", "done"}]
    BY <1>0 DEF TypeOK, RefreshBegins
  <2>2. UNCHANGED <<current, nextId, closing, closed, lease, started, refreshTask,
                    awaited, admin, previous, fetch, closer, snapshot, pending,
                    incomplete, unpublished, retryLeft, broken, faults>>
    BY DEF RefreshBegins
  <2> QED
    BY <1>0, <1>1, <2>1, <2>2 DEF TypeOK
<1>4. Timeline'
        BY <1>0, <1>1, <1>2 DEF TypeOK, Generation, Gen, Timeline, LockOwners,
           RefreshHandle, NoOrphanRefresh, NewGeneration, RefreshBegins
<1>5. LockOwners'
        BY <1>0, <1>1, <1>2 DEF TypeOK, Generation, Gen, Timeline, LockOwners,
           RefreshHandle, RefreshBegins
<1>6. RefreshHandle'
        BY <1>0, <1>1, <1>2 DEF TypeOK, Generation, Gen, Timeline, LockOwners,
           RefreshHandle, NoOrphanRefresh, RefreshBegins
<1>7. CleanedUnheld'
  <2>1. \A h \in Gen : gens'[h].cleaning \/ gens'[h].closed => h # g
    BY <1>0, <1>1, <1>2 DEF CleanedUnheld, NeverCleanedInUse
  <2>2. NeverCleanedInUse'
    BY <1>0, <1>1, <2>1 DEF CleanedUnheld, NeverCleanedInUse, Drained
  <2>3. snapshot' = snapshot /\ snapshot \subseteq Gen
    BY <1>0 DEF TypeOK, RefreshBegins
  <2> QED
    BY <1>0, <1>1, <2>2, <2>3 DEF CleanedUnheld
<1>8. Candidates'
        BY <1>0, <1>1, <1>2 DEF TypeOK, Candidates, LockOwners, RefreshBegins
<1>9. ShutdownOwns'
        BY <1>0, <1>1, <1>2 DEF TypeOK, Generation, Gen, ShutdownOwns,
           ClosedOwnsNothing, Timeline, LockOwners, Candidates, RefreshBegins
<1> QED
    BY <1>3, <1>4, <1>5, <1>6, <1>7, <1>8, <1>9 DEF IInv

\* The refresh gives its lease back like a request does.
LEMMA RefreshEndsStep ==
    ASSUME IInv, NEW g \in Gen, RefreshEnds(g)
    PROVE  IInv'
<1> USE GenerationsAssumption DEF managerVars, refreshVars, closeVars
<1>0. TypeOK /\ Timeline /\ LockOwners /\ RefreshHandle /\ CleanedUnheld
      /\ Candidates /\ ShutdownOwns
    BY DEF IInv
<1>1. /\ gens' \in [Gen -> Generation]
      /\ \A h \in Gen : Kept(gens[h], gens'[h])
        BY <1>0, ReturnedShape DEF TypeOK, Gen, RefreshEnds
<1>3. TypeOK'
        BY <1>0, <1>1 DEF TypeOK, Generation, Gen, AdminSteps, FetchSteps,
           CloseSteps, Candidates, RefreshEnds
<1>4. Timeline'
        BY <1>0, <1>1 DEF TypeOK, Generation, Gen, Timeline, LockOwners,
           RefreshHandle, NoOrphanRefresh, NewGeneration, Kept, RefreshEnds
<1>5. LockOwners'
        BY <1>0, <1>1 DEF TypeOK, Generation, Gen, Timeline, LockOwners,
           RefreshHandle, Kept, RefreshEnds
<1>6. RefreshHandle'
        BY <1>0, <1>1 DEF TypeOK, Generation, Gen, Timeline, LockOwners,
           RefreshHandle, NoOrphanRefresh, Kept, RefreshEnds
<1>7. CleanedUnheld'
        BY <1>0, <1>1 DEF TypeOK, Generation, Gen, CleanedUnheld,
           NeverCleanedInUse, Drained, Timeline, Kept, RefreshEnds
<1>8. Candidates'
        BY <1>0, <1>1 DEF TypeOK, Candidates, LockOwners, RefreshEnds
<1>9. ShutdownOwns'
        BY <1>0, <1>1 DEF TypeOK, Generation, Gen, ShutdownOwns,
           ClosedOwnsNothing, Timeline, LockOwners, Candidates, Kept, RefreshEnds
<1> QED
    BY <1>3, <1>4, <1>5, <1>6, <1>7, <1>8, <1>9 DEF IInv

\* Replace() leaves no refresh that has not begun.
LEMMA ReplaceBeginsStep ==
    ASSUME IInv, ReplaceBegins
    PROVE  IInv'
<1> USE GenerationsAssumption DEF managerVars, refreshVars, closeVars
<1>0. TypeOK /\ Timeline /\ LockOwners /\ RefreshHandle /\ CleanedUnheld
      /\ Candidates /\ ShutdownOwns
    BY DEF IInv
<1>1. gens' = gens
        BY DEF ReplaceBegins, CancelRefresh, ReplaceLockFree
<1>3. TypeOK'
        BY <1>0, <1>1 DEF TypeOK, Generation, Gen, AdminSteps, FetchSteps,
           CloseSteps, Candidates, ReplaceBegins, CancelRefresh, ReplaceLockFree
<1>4. Timeline'
        BY <1>0, <1>1 DEF TypeOK, Generation, Gen, Timeline, LockOwners,
           RefreshHandle, NoOrphanRefresh, NewGeneration, ReplaceBegins,
           CancelRefresh, ReplaceLockFree
<1>5. LockOwners'
        BY <1>0, <1>1 DEF TypeOK, Generation, Gen, Timeline, LockOwners,
           RefreshHandle, ReplaceBegins, CancelRefresh, ReplaceLockFree
<1>6. RefreshHandle'
        BY <1>0, <1>1 DEF TypeOK, Generation, Gen, Timeline, LockOwners,
           RefreshHandle, NoOrphanRefresh, ReplaceBegins, CancelRefresh,
           ReplaceLockFree
<1>7. CleanedUnheld'
        BY <1>0, <1>1 DEF TypeOK, Generation, Gen, CleanedUnheld,
           NeverCleanedInUse, Drained, Timeline, ReplaceBegins, CancelRefresh,
           ReplaceLockFree
<1>8. Candidates'
        BY <1>0, <1>1 DEF TypeOK, Candidates, LockOwners, ReplaceBegins,
           CancelRefresh, ReplaceLockFree
<1>9. ShutdownOwns'
        BY <1>0, <1>1 DEF TypeOK, Generation, Gen, ShutdownOwns,
           ClosedOwnsNothing, Timeline, LockOwners, Candidates, ReplaceBegins,
           CancelRefresh, ReplaceLockFree
<1> QED
    BY <1>3, <1>4, <1>5, <1>6, <1>7, <1>8, <1>9 DEF IInv

\* The candidates to visit are the ones owned now.
LEMMA ReplaceRetriesStep ==
    ASSUME IInv, ReplaceRetries
    PROVE  IInv'
<1> USE GenerationsAssumption DEF managerVars, refreshVars, closeVars
<1>0. TypeOK /\ Timeline /\ LockOwners /\ RefreshHandle /\ CleanedUnheld
      /\ Candidates /\ ShutdownOwns
    BY DEF IInv
<1>1. gens' = gens
        BY DEF ReplaceRetries, RefreshGathered
<1>3. TypeOK'
        BY <1>0, <1>1 DEF TypeOK, Generation, Gen, AdminSteps, FetchSteps,
           CloseSteps, Candidates, ReplaceRetries, RefreshGathered
<1>4. Timeline'
        BY <1>0, <1>1 DEF TypeOK, Generation, Gen, Timeline, LockOwners,
           RefreshHandle, NoOrphanRefresh, NewGeneration, ReplaceRetries,
           RefreshGathered
<1>5. LockOwners'
        BY <1>0, <1>1 DEF TypeOK, Generation, Gen, Timeline, LockOwners,
           RefreshHandle, ReplaceRetries, RefreshGathered
<1>6. RefreshHandle'
        BY <1>0, <1>1 DEF TypeOK, Generation, Gen, Timeline, LockOwners,
           RefreshHandle, NoOrphanRefresh, ReplaceRetries, RefreshGathered
<1>7. CleanedUnheld'
        BY <1>0, <1>1 DEF TypeOK, Generation, Gen, CleanedUnheld,
           NeverCleanedInUse, Drained, Timeline, ReplaceRetries, RefreshGathered
<1>8. Candidates'
        BY <1>0, <1>1 DEF TypeOK, Candidates, LockOwners, ReplaceRetries,
           RefreshGathered
<1>9. ShutdownOwns'
        BY <1>0, <1>1 DEF TypeOK, Generation, Gen, ShutdownOwns,
           ClosedOwnsNothing, Timeline, LockOwners, Candidates, ReplaceRetries,
           RefreshGathered
<1> QED
    BY <1>3, <1>4, <1>5, <1>6, <1>7, <1>8, <1>9 DEF IInv

\* A construction that raises leaves the manager as it was.
LEMMA ConstructionFailsStep ==
    ASSUME IInv, ConstructionFails
    PROVE  IInv'
<1> USE GenerationsAssumption DEF managerVars, refreshVars, closeVars
<1>0. TypeOK /\ Timeline /\ LockOwners /\ RefreshHandle /\ CleanedUnheld
      /\ Candidates /\ ShutdownOwns
    BY DEF IInv
<1>1. gens' = gens
        BY DEF ConstructionFails
<1>3. TypeOK'
        BY <1>0, <1>1 DEF TypeOK, Generation, Gen, AdminSteps, FetchSteps,
           CloseSteps, Candidates, ConstructionFails
<1>4. Timeline'
        BY <1>0, <1>1 DEF TypeOK, Generation, Gen, Timeline, LockOwners,
           RefreshHandle, NoOrphanRefresh, NewGeneration, ConstructionFails
<1>5. LockOwners'
        BY <1>0, <1>1 DEF TypeOK, Generation, Gen, Timeline, LockOwners,
           RefreshHandle, ConstructionFails
<1>6. RefreshHandle'
        BY <1>0, <1>1 DEF TypeOK, Generation, Gen, Timeline, LockOwners,
           RefreshHandle, NoOrphanRefresh, ConstructionFails
<1>7. CleanedUnheld'
        BY <1>0, <1>1 DEF TypeOK, Generation, Gen, CleanedUnheld,
           NeverCleanedInUse, Drained, Timeline, ConstructionFails
<1>8. Candidates'
        BY <1>0, <1>1 DEF TypeOK, Candidates, LockOwners, ConstructionFails
<1>9. ShutdownOwns'
        BY <1>0, <1>1 DEF TypeOK, Generation, Gen, ShutdownOwns,
           ClosedOwnsNothing, Timeline, LockOwners, Candidates, ConstructionFails
<1> QED
    BY <1>3, <1>4, <1>5, <1>6, <1>7, <1>8, <1>9 DEF IInv

\* The candidate is owned from here on.
LEMMA CommitFailsStep ==
    ASSUME IInv, CommitFails
    PROVE  IInv'
<1> USE GenerationsAssumption DEF managerVars, refreshVars, closeVars
<1>0. TypeOK /\ Timeline /\ LockOwners /\ RefreshHandle /\ CleanedUnheld
      /\ Candidates /\ ShutdownOwns
    BY DEF IInv
<1>1. gens' = gens
        BY DEF CommitFails
<1>3. TypeOK'
        BY <1>0, <1>1 DEF TypeOK, Generation, Gen, AdminSteps, FetchSteps,
           CloseSteps, Candidates, CommitFails
<1>4. Timeline'
        BY <1>0, <1>1 DEF TypeOK, Generation, Gen, Timeline, LockOwners,
           RefreshHandle, NoOrphanRefresh, NewGeneration, CommitFails
<1>5. LockOwners'
        BY <1>0, <1>1 DEF TypeOK, Generation, Gen, Timeline, LockOwners,
           RefreshHandle, CommitFails
<1>6. RefreshHandle'
        BY <1>0, <1>1 DEF TypeOK, Generation, Gen, Timeline, LockOwners,
           RefreshHandle, NoOrphanRefresh, CommitFails
<1>7. CleanedUnheld'
        BY <1>0, <1>1 DEF TypeOK, Generation, Gen, CleanedUnheld,
           NeverCleanedInUse, Drained, Timeline, CommitFails
<1>8. Candidates'
        BY <1>0, <1>1 DEF TypeOK, Candidates, LockOwners, CommitFails
<1>9. ShutdownOwns'
        BY <1>0, <1>1 DEF TypeOK, Generation, Gen, ShutdownOwns,
           ClosedOwnsNothing, Timeline, LockOwners, Candidates, CommitFails
<1> QED
    BY <1>3, <1>4, <1>5, <1>6, <1>7, <1>8, <1>9 DEF IInv

\* One owned candidate fewer.
LEMMA CandidateCleanedStep ==
    ASSUME IInv, CandidateCleaned
    PROVE  IInv'
<1> USE GenerationsAssumption DEF managerVars, refreshVars, closeVars
<1>0. TypeOK /\ Timeline /\ LockOwners /\ RefreshHandle /\ CleanedUnheld
      /\ Candidates /\ ShutdownOwns
    BY DEF IInv
<1>1. gens' = gens
        BY DEF CandidateCleaned
<1>3. TypeOK'
        BY <1>0, <1>1 DEF TypeOK, Generation, Gen, AdminSteps, FetchSteps,
           CloseSteps, Candidates, CandidateCleaned
<1>4. Timeline'
        BY <1>0, <1>1 DEF TypeOK, Generation, Gen, Timeline, LockOwners,
           RefreshHandle, NoOrphanRefresh, NewGeneration, CandidateCleaned
<1>5. LockOwners'
        BY <1>0, <1>1 DEF TypeOK, Generation, Gen, Timeline, LockOwners,
           RefreshHandle, CandidateCleaned
<1>6. RefreshHandle'
        BY <1>0, <1>1 DEF TypeOK, Generation, Gen, Timeline, LockOwners,
           RefreshHandle, NoOrphanRefresh, CandidateCleaned
<1>7. CleanedUnheld'
        BY <1>0, <1>1 DEF TypeOK, Generation, Gen, CleanedUnheld,
           NeverCleanedInUse, Drained, Timeline, CandidateCleaned
<1>8. Candidates'
        BY <1>0, <1>1 DEF TypeOK, Candidates, LockOwners, CandidateCleaned
<1>9. ShutdownOwns'
        BY <1>0, <1>1 DEF TypeOK, Generation, Gen, ShutdownOwns,
           ClosedOwnsNothing, Timeline, LockOwners, Candidates, CandidateCleaned
<1> QED
    BY <1>3, <1>4, <1>5, <1>6, <1>7, <1>8, <1>9 DEF IInv

\* The candidate stays owned.
LEMMA CandidateCleanupFailsStep ==
    ASSUME IInv, CandidateCleanupFails
    PROVE  IInv'
<1> USE GenerationsAssumption DEF managerVars, refreshVars, closeVars
<1>0. TypeOK /\ Timeline /\ LockOwners /\ RefreshHandle /\ CleanedUnheld
      /\ Candidates /\ ShutdownOwns
    BY DEF IInv
<1>1. gens' = gens
        BY DEF CandidateCleanupFails
<1>3. TypeOK'
        BY <1>0, <1>1 DEF TypeOK, Generation, Gen, AdminSteps, FetchSteps,
           CloseSteps, Candidates, CandidateCleanupFails
<1>4. Timeline'
        BY <1>0, <1>1 DEF TypeOK, Generation, Gen, Timeline, LockOwners,
           RefreshHandle, NoOrphanRefresh, NewGeneration, CandidateCleanupFails
<1>5. LockOwners'
        BY <1>0, <1>1 DEF TypeOK, Generation, Gen, Timeline, LockOwners,
           RefreshHandle, CandidateCleanupFails
<1>6. RefreshHandle'
        BY <1>0, <1>1 DEF TypeOK, Generation, Gen, Timeline, LockOwners,
           RefreshHandle, NoOrphanRefresh, CandidateCleanupFails
<1>7. CleanedUnheld'
        BY <1>0, <1>1 DEF TypeOK, Generation, Gen, CleanedUnheld,
           NeverCleanedInUse, Drained, Timeline, CandidateCleanupFails
<1>8. Candidates'
        BY <1>0, <1>1 DEF TypeOK, Candidates, LockOwners, CandidateCleanupFails
<1>9. ShutdownOwns'
        BY <1>0, <1>1 DEF TypeOK, Generation, Gen, ShutdownOwns,
           ClosedOwnsNothing, Timeline, LockOwners, Candidates,
           CandidateCleanupFails
<1> QED
    BY <1>3, <1>4, <1>5, <1>6, <1>7, <1>8, <1>9 DEF IInv

\* The previous generation is retired and cleaned only if nobody holds it.
LEMMA PublishStep ==
    ASSUME IInv, Publish
    PROVE  IInv'
<1> USE GenerationsAssumption DEF managerVars, refreshVars, closeVars
<1>0. TypeOK /\ Timeline /\ LockOwners /\ RefreshHandle /\ CleanedUnheld
      /\ Candidates /\ ShutdownOwns
    BY DEF IInv
<1>1. /\ gens' \in [Gen -> Generation]
      /\ \A h \in Gen : /\ gens'[h].leases = gens[h].leases
                        /\ gens'[h].closed = gens[h].closed
                        /\ h # current => gens'[h] = gens[h]
      /\ gens'[current].retired
      /\ gens'[current].cleaning => gens[current].leases = 0
  <2>1. gens[current].cleaning => gens[current].leases = 0
    BY <1>0 DEF TypeOK, CleanedUnheld, NeverCleanedInUse, Drained
  <2> QED
    BY <1>0, <2>1 DEF TypeOK, Gen, Generation, Publish, Cleaning
<1>2. /\ current' = current + 1 /\ current' \in Gen
      /\ nextId' = current' + 1
      /\ gens'[current'] = NewGeneration
      /\ refresh' = [refresh EXCEPT ![current'] = "created"] /\ refreshTask' = current'
      /\ refreshTask = 0 /\ ~closing /\ started
      /\ admin' \in {"closing", "idle"}
      /\ UNCHANGED <<closing, closed, started, fetch, closer, snapshot>>
  <2>1. current' = current + 1 /\ current' \in Gen /\ nextId' = current' + 1
    BY <1>0 DEF TypeOK, Gen, Publish
  <2>2. gens'[current'] = NewGeneration
    BY <1>0, <1>1, <2>1 DEF TypeOK, Gen, Timeline
  <2>3. refreshTask = 0 /\ ~closing /\ started
    BY <1>0 DEF LockOwners, RefreshHandle, Publish
  <2> QED
    BY <1>0, <2>1, <2>2, <2>3 DEF TypeOK, Publish
<1>3. TypeOK'
  <2>1. refresh' \in [Gen -> {"none", "created", "running", "done"}]
    BY <1>0, <1>2 DEF TypeOK
  <2>2. admin' \in AdminSteps /\ previous' \in Gen \cup {0}
    BY <1>0 DEF TypeOK, AdminSteps, Publish
  <2>3. UNCHANGED <<lease, awaited, pending, incomplete, unpublished, retryLeft,
                    broken, faults>>
    BY DEF Publish
  <2> QED
    BY <1>0, <1>1, <1>2, <2>1, <2>2, <2>3 DEF TypeOK
<1>4. Timeline'
  <2>1. \A h \in Gen : h > current' => gens'[h] = NewGeneration /\ refresh'[h] = "none"
        BY <1>0, <1>1, <1>2 DEF TypeOK, Gen, Timeline
  <2>2. \A h \in Gen : h < current' => gens'[h].retired
        BY <1>0, <1>1, <1>2 DEF TypeOK, Gen, Timeline
  <2>3. ~closing' => ~gens'[current'].retired /\ ~closed'
        BY <1>0, <1>1, <1>2 DEF TypeOK, Gen, Timeline, LockOwners, NewGeneration
  <2> QED
    BY <2>1, <2>2, <2>3 DEF Timeline
<1>5. LockOwners'
  <2>1. closer \in {"idle", "waiting"} /\ fetch = "idle"
    BY <1>0, <1>2 DEF LockOwners, Publish
  <2> QED
    BY <1>2, <2>1 DEF LockOwners
<1>6. RefreshHandle'
  <2>1. closer # "cancelling"
    BY <1>0, <1>2 DEF LockOwners
  <2>2. NoOrphanRefresh'
    <3>1. \A g \in Gen : refresh[g] # "created"
      BY <1>0, <1>2 DEF RefreshHandle, NoOrphanRefresh, Gen
    <3>2. \A g \in Gen : refresh'[g] = "created" => g = current'
      BY <1>0, <1>2, <3>1 DEF TypeOK
    <3>3. ~gens'[current'].retired
      BY <1>2 DEF NewGeneration
    <3> QED
      BY <1>2, <3>2, <3>3 DEF NoOrphanRefresh
  <2> QED
    BY <1>2, <2>1, <2>2 DEF RefreshHandle
<1>7. CleanedUnheld'
  <2>1. NeverCleanedInUse'
    <3> SUFFICES ASSUME NEW h \in Gen, gens'[h].cleaning \/ gens'[h].closed
                 PROVE  gens'[h].retired /\ gens'[h].leases = 0
      BY DEF NeverCleanedInUse, Drained
    <3>1. CASE h # current
      BY <1>0, <1>1, <3>1 DEF CleanedUnheld, NeverCleanedInUse, Drained
    <3>2. CASE h = current /\ gens'[h].closed
      BY <1>0, <1>1, <3>2 DEF CleanedUnheld, NeverCleanedInUse, Drained
    <3>3. CASE h = current /\ gens'[h].cleaning
      BY <1>1, <3>3
    <3> QED
      BY <3>1, <3>2, <3>3
  <2>2. snapshot' = snapshot /\ snapshot \subseteq Gen
    BY <1>0, <1>2 DEF TypeOK, Publish
  <2>3. \A h \in snapshot : gens'[h].retired
    BY <1>0, <1>1, <1>2, <2>2 DEF CleanedUnheld
  <2> QED
    BY <2>1, <2>2, <2>3 DEF CleanedUnheld
<1>8. Candidates'
        BY <1>0, <1>1, <1>2 DEF TypeOK, Candidates, LockOwners, Publish, Drained
<1>9. ShutdownOwns'
        BY <1>0, <1>1, <1>2 DEF TypeOK, Generation, Gen, ShutdownOwns,
           ClosedOwnsNothing, Timeline, LockOwners, Candidates, Publish, Drained
<1> QED
    BY <1>3, <1>4, <1>5, <1>6, <1>7, <1>8, <1>9 DEF IInv

\* A cancelled replace() drops only its own bookkeeping.
LEMMA CancelReplaceStep ==
    ASSUME IInv, CancelReplace
    PROVE  IInv'
<1> USE GenerationsAssumption DEF managerVars, refreshVars, closeVars
<1>0. TypeOK /\ Timeline /\ LockOwners /\ RefreshHandle /\ CleanedUnheld
      /\ Candidates /\ ShutdownOwns
    BY DEF IInv
<1>1. gens' = gens
        BY DEF CancelReplace, ReplaceSuspended
<1>3. TypeOK'
        BY <1>0, <1>1 DEF TypeOK, Generation, Gen, AdminSteps, FetchSteps,
           CloseSteps, Candidates, CancelReplace, ReplaceSuspended
<1>4. Timeline'
        BY <1>0, <1>1 DEF TypeOK, Generation, Gen, Timeline, LockOwners,
           RefreshHandle, NoOrphanRefresh, NewGeneration, CancelReplace,
           ReplaceSuspended
<1>5. LockOwners'
        BY <1>0, <1>1 DEF TypeOK, Generation, Gen, Timeline, LockOwners,
           RefreshHandle, CancelReplace, ReplaceSuspended
<1>6. RefreshHandle'
        BY <1>0, <1>1 DEF TypeOK, Generation, Gen, Timeline, LockOwners,
           RefreshHandle, NoOrphanRefresh, CancelReplace, ReplaceSuspended
<1>7. CleanedUnheld'
        BY <1>0, <1>1 DEF TypeOK, Generation, Gen, CleanedUnheld,
           NeverCleanedInUse, Drained, Timeline, CancelReplace, ReplaceSuspended
<1>8. Candidates'
        BY <1>0, <1>1 DEF TypeOK, Candidates, LockOwners, CancelReplace,
           ReplaceSuspended
<1>9. ShutdownOwns'
        BY <1>0, <1>1 DEF TypeOK, Generation, Gen, ShutdownOwns,
           ClosedOwnsNothing, Timeline, LockOwners, Candidates, CancelReplace,
           ReplaceSuspended
<1> QED
    BY <1>3, <1>4, <1>5, <1>6, <1>7, <1>8, <1>9 DEF IInv

\* An explicit fetch leaves no refresh that has not begun.
LEMMA FetchBeginsStep ==
    ASSUME IInv, FetchBegins
    PROVE  IInv'
<1> USE GenerationsAssumption DEF managerVars, refreshVars, closeVars
<1>0. TypeOK /\ Timeline /\ LockOwners /\ RefreshHandle /\ CleanedUnheld
      /\ Candidates /\ ShutdownOwns
    BY DEF IInv
<1>1. gens' = gens
        BY DEF FetchBegins, CancelRefresh, ReplaceLockFree
<1>3. TypeOK'
        BY <1>0, <1>1 DEF TypeOK, Generation, Gen, AdminSteps, FetchSteps,
           CloseSteps, Candidates, FetchBegins, CancelRefresh, ReplaceLockFree
<1>4. Timeline'
        BY <1>0, <1>1 DEF TypeOK, Generation, Gen, Timeline, LockOwners,
           RefreshHandle, NoOrphanRefresh, NewGeneration, FetchBegins,
           CancelRefresh, ReplaceLockFree
<1>5. LockOwners'
        BY <1>0, <1>1 DEF TypeOK, Generation, Gen, Timeline, LockOwners,
           RefreshHandle, FetchBegins, CancelRefresh, ReplaceLockFree
<1>6. RefreshHandle'
        BY <1>0, <1>1 DEF TypeOK, Generation, Gen, Timeline, LockOwners,
           RefreshHandle, NoOrphanRefresh, FetchBegins, CancelRefresh,
           ReplaceLockFree
<1>7. CleanedUnheld'
        BY <1>0, <1>1 DEF TypeOK, Generation, Gen, CleanedUnheld,
           NeverCleanedInUse, Drained, Timeline, FetchBegins, CancelRefresh,
           ReplaceLockFree
<1>8. Candidates'
        BY <1>0, <1>1 DEF TypeOK, Candidates, LockOwners, FetchBegins,
           CancelRefresh, ReplaceLockFree
<1>9. ShutdownOwns'
        BY <1>0, <1>1 DEF TypeOK, Generation, Gen, ShutdownOwns,
           ClosedOwnsNothing, Timeline, LockOwners, Candidates, FetchBegins,
           CancelRefresh, ReplaceLockFree
<1> QED
    BY <1>3, <1>4, <1>5, <1>6, <1>7, <1>8, <1>9 DEF IInv

\* Under the lock the serving generation is not retired.
LEMMA FetchRunsStep ==
    ASSUME IInv, FetchRuns
    PROVE  IInv'
<1> USE GenerationsAssumption DEF managerVars, refreshVars, closeVars
<1>0. TypeOK /\ Timeline /\ LockOwners /\ RefreshHandle /\ CleanedUnheld
      /\ Candidates /\ ShutdownOwns
    BY DEF IInv
<1>1. /\ gens' \in [Gen -> Generation]
      /\ \A h \in Gen : /\ gens'[h].retired = gens[h].retired
                        /\ gens'[h].closed = gens[h].closed
                        /\ gens'[h].cleaning = gens[h].cleaning
                        /\ h # current => gens'[h] = gens[h]
        BY <1>0, LeasedShape DEF TypeOK, Gen, FetchRuns, RefreshGathered
<1>2. ~gens[current].retired /\ current <= current
        BY <1>0 DEF TypeOK, Generation, Gen, Timeline, LockOwners, RefreshHandle,
           NoOrphanRefresh, FetchRuns, RefreshGathered
<1>3. TypeOK'
        BY <1>0, <1>1, <1>2 DEF TypeOK, Generation, Gen, AdminSteps, FetchSteps,
           CloseSteps, Candidates, FetchRuns, RefreshGathered
<1>4. Timeline'
        BY <1>0, <1>1, <1>2 DEF TypeOK, Generation, Gen, Timeline, LockOwners,
           RefreshHandle, NoOrphanRefresh, NewGeneration, FetchRuns,
           RefreshGathered
<1>5. LockOwners'
        BY <1>0, <1>1, <1>2 DEF TypeOK, Generation, Gen, Timeline, LockOwners,
           RefreshHandle, FetchRuns, RefreshGathered
<1>6. RefreshHandle'
        BY <1>0, <1>1, <1>2 DEF TypeOK, Generation, Gen, Timeline, LockOwners,
           RefreshHandle, NoOrphanRefresh, FetchRuns, RefreshGathered
<1>7. CleanedUnheld'
        BY <1>0, <1>1, <1>2 DEF TypeOK, Generation, Gen, CleanedUnheld,
           NeverCleanedInUse, Drained, Timeline, FetchRuns, RefreshGathered
<1>8. Candidates'
        BY <1>0, <1>1, <1>2 DEF TypeOK, Candidates, LockOwners, FetchRuns,
           RefreshGathered
<1>9. ShutdownOwns'
        BY <1>0, <1>1, <1>2 DEF TypeOK, Generation, Gen, ShutdownOwns,
           ClosedOwnsNothing, Timeline, LockOwners, Candidates, FetchRuns,
           RefreshGathered
<1> QED
    BY <1>3, <1>4, <1>5, <1>6, <1>7, <1>8, <1>9 DEF IInv

\* The fetch gives its lease back.
LEMMA FetchEndsStep ==
    ASSUME IInv, FetchEnds
    PROVE  IInv'
<1> USE GenerationsAssumption DEF managerVars, refreshVars, closeVars
<1>0. TypeOK /\ Timeline /\ LockOwners /\ RefreshHandle /\ CleanedUnheld
      /\ Candidates /\ ShutdownOwns
    BY DEF IInv
<1>1. /\ gens' \in [Gen -> Generation]
      /\ \A h \in Gen : Kept(gens[h], gens'[h])
        BY <1>0, ReturnedShape DEF TypeOK, Gen, FetchEnds
<1>3. TypeOK'
        BY <1>0, <1>1 DEF TypeOK, Generation, Gen, AdminSteps, FetchSteps,
           CloseSteps, Candidates, FetchEnds
<1>4. Timeline'
        BY <1>0, <1>1 DEF TypeOK, Generation, Gen, Timeline, LockOwners,
           RefreshHandle, NoOrphanRefresh, NewGeneration, Kept, FetchEnds
<1>5. LockOwners'
        BY <1>0, <1>1 DEF TypeOK, Generation, Gen, Timeline, LockOwners,
           RefreshHandle, Kept, FetchEnds
<1>6. RefreshHandle'
        BY <1>0, <1>1 DEF TypeOK, Generation, Gen, Timeline, LockOwners,
           RefreshHandle, NoOrphanRefresh, Kept, FetchEnds
<1>7. CleanedUnheld'
        BY <1>0, <1>1 DEF TypeOK, Generation, Gen, CleanedUnheld,
           NeverCleanedInUse, Drained, Timeline, Kept, FetchEnds
<1>8. Candidates'
        BY <1>0, <1>1 DEF TypeOK, Candidates, LockOwners, FetchEnds
<1>9. ShutdownOwns'
        BY <1>0, <1>1 DEF TypeOK, Generation, Gen, ShutdownOwns,
           ClosedOwnsNothing, Timeline, LockOwners, Candidates, Kept, FetchEnds
<1> QED
    BY <1>3, <1>4, <1>5, <1>6, <1>7, <1>8, <1>9 DEF IInv

\* A cancelled fetch drops only its own bookkeeping.
LEMMA CancelFetchStep ==
    ASSUME IInv, CancelFetch
    PROVE  IInv'
<1> USE GenerationsAssumption DEF managerVars, refreshVars, closeVars
<1>0. TypeOK /\ Timeline /\ LockOwners /\ RefreshHandle /\ CleanedUnheld
      /\ Candidates /\ ShutdownOwns
    BY DEF IInv
<1>1. gens' = gens
        BY DEF CancelFetch
<1>3. TypeOK'
        BY <1>0, <1>1 DEF TypeOK, Generation, Gen, AdminSteps, FetchSteps,
           CloseSteps, Candidates, CancelFetch
<1>4. Timeline'
        BY <1>0, <1>1 DEF TypeOK, Generation, Gen, Timeline, LockOwners,
           RefreshHandle, NoOrphanRefresh, NewGeneration, CancelFetch
<1>5. LockOwners'
        BY <1>0, <1>1 DEF TypeOK, Generation, Gen, Timeline, LockOwners,
           RefreshHandle, CancelFetch
<1>6. RefreshHandle'
        BY <1>0, <1>1 DEF TypeOK, Generation, Gen, Timeline, LockOwners,
           RefreshHandle, NoOrphanRefresh, CancelFetch
<1>7. CleanedUnheld'
        BY <1>0, <1>1 DEF TypeOK, Generation, Gen, CleanedUnheld,
           NeverCleanedInUse, Drained, Timeline, CancelFetch
<1>8. Candidates'
        BY <1>0, <1>1 DEF TypeOK, Candidates, LockOwners, CancelFetch
<1>9. ShutdownOwns'
        BY <1>0, <1>1 DEF TypeOK, Generation, Gen, ShutdownOwns,
           ClosedOwnsNothing, Timeline, LockOwners, Candidates, CancelFetch
<1> QED
    BY <1>3, <1>4, <1>5, <1>6, <1>7, <1>8, <1>9 DEF IInv

\* Close() queues behind the lock.
LEMMA CloseCalledStep ==
    ASSUME IInv, CloseCalled
    PROVE  IInv'
<1> USE GenerationsAssumption DEF managerVars, refreshVars, closeVars
<1>0. TypeOK /\ Timeline /\ LockOwners /\ RefreshHandle /\ CleanedUnheld
      /\ Candidates /\ ShutdownOwns
    BY DEF IInv
<1>1. gens' = gens
        BY DEF CloseCalled
<1>3. TypeOK'
        BY <1>0, <1>1 DEF TypeOK, Generation, Gen, AdminSteps, FetchSteps,
           CloseSteps, Candidates, CloseCalled
<1>4. Timeline'
        BY <1>0, <1>1 DEF TypeOK, Generation, Gen, Timeline, LockOwners,
           RefreshHandle, NoOrphanRefresh, NewGeneration, CloseCalled
<1>5. LockOwners'
        BY <1>0, <1>1 DEF TypeOK, Generation, Gen, Timeline, LockOwners,
           RefreshHandle, CloseCalled
<1>6. RefreshHandle'
        BY <1>0, <1>1 DEF TypeOK, Generation, Gen, Timeline, LockOwners,
           RefreshHandle, NoOrphanRefresh, CloseCalled
<1>7. CleanedUnheld'
        BY <1>0, <1>1 DEF TypeOK, Generation, Gen, CleanedUnheld,
           NeverCleanedInUse, Drained, Timeline, CloseCalled
<1>8. Candidates'
        BY <1>0, <1>1 DEF TypeOK, Candidates, LockOwners, CloseCalled
<1>9. ShutdownOwns'
        BY <1>0, <1>1 DEF TypeOK, Generation, Gen, ShutdownOwns,
           ClosedOwnsNothing, Timeline, LockOwners, Candidates, CloseCalled
<1> QED
    BY <1>3, <1>4, <1>5, <1>6, <1>7, <1>8, <1>9 DEF IInv

\* Nobody else is inside the lock when _closing is set.
LEMMA CloseBeginsStep ==
    ASSUME IInv, CloseBegins
    PROVE  IInv'
<1> USE GenerationsAssumption DEF managerVars, refreshVars, closeVars
<1>0. TypeOK /\ Timeline /\ LockOwners /\ RefreshHandle /\ CleanedUnheld
      /\ Candidates /\ ShutdownOwns
    BY DEF IInv
<1>1. gens' = gens
        BY DEF CloseBegins, CancelRefresh, ReplaceLockFree
<1>3. TypeOK'
        BY <1>0, <1>1 DEF TypeOK, Generation, Gen, AdminSteps, FetchSteps,
           CloseSteps, Candidates, CloseBegins, CancelRefresh, ReplaceLockFree
<1>4. Timeline'
        BY <1>0, <1>1 DEF TypeOK, Generation, Gen, Timeline, LockOwners,
           RefreshHandle, NoOrphanRefresh, NewGeneration, CloseBegins,
           CancelRefresh, ReplaceLockFree
<1>5. LockOwners'
        BY <1>0, <1>1 DEF TypeOK, Generation, Gen, Timeline, LockOwners,
           RefreshHandle, CloseBegins, CancelRefresh, ReplaceLockFree
<1>6. RefreshHandle'
        BY <1>0, <1>1 DEF TypeOK, Generation, Gen, Timeline, LockOwners,
           RefreshHandle, NoOrphanRefresh, CloseBegins, CancelRefresh,
           ReplaceLockFree
<1>7. CleanedUnheld'
        BY <1>0, <1>1 DEF TypeOK, Generation, Gen, CleanedUnheld,
           NeverCleanedInUse, Drained, Timeline, CloseBegins, CancelRefresh,
           ReplaceLockFree
<1>8. Candidates'
        BY <1>0, <1>1 DEF TypeOK, Candidates, LockOwners, CloseBegins,
           CancelRefresh, ReplaceLockFree
<1>9. ShutdownOwns'
        BY <1>0, <1>1 DEF TypeOK, Generation, Gen, ShutdownOwns,
           ClosedOwnsNothing, Timeline, LockOwners, Candidates, CloseBegins,
           CancelRefresh, ReplaceLockFree
<1> QED
    BY <1>3, <1>4, <1>5, <1>6, <1>7, <1>8, <1>9 DEF IInv

\* From here on every published generation is closed or in the snapshot.
LEMMA CloseDrainsStep ==
    ASSUME IInv, CloseDrains
    PROVE  IInv'
<1> USE GenerationsAssumption DEF managerVars, refreshVars, closeVars
<1>0. TypeOK /\ Timeline /\ LockOwners /\ RefreshHandle /\ CleanedUnheld
      /\ Candidates /\ ShutdownOwns
    BY DEF IInv
<1>1. /\ gens' \in [Gen -> Generation]
      /\ gens'[current].retired
      /\ \A h \in Gen : /\ gens'[h].leases = gens[h].leases
                        /\ gens'[h].closed = gens[h].closed
                        /\ gens'[h].cleaning = gens[h].cleaning
                        /\ gens[h].retired => gens'[h].retired
                        /\ gens'[h].retired => gens[h].retired \/ h = current
                        /\ h # current => gens'[h] = gens[h]
    BY <1>0 DEF TypeOK, Gen, Generation, CloseDrains
<1>3. TypeOK'
        BY <1>0, <1>1 DEF TypeOK, Generation, Gen, AdminSteps, FetchSteps,
           CloseSteps, Candidates, CloseDrains, RefreshGathered
<1>4. Timeline'
  <2>1. \A h \in Gen : h > current' => gens'[h] = NewGeneration /\ refresh'[h] = "none"
        BY <1>0, <1>1 DEF TypeOK, Gen, Timeline, CloseDrains, RefreshGathered
  <2>2. \A h \in Gen : h < current' => gens'[h].retired
        BY <1>0, <1>1 DEF TypeOK, Gen, Timeline, CloseDrains, RefreshGathered
  <2>3. ~closing' => ~gens'[current'].retired /\ ~closed'
        BY <1>0, <1>1 DEF TypeOK, Gen, Timeline, LockOwners, NewGeneration,
           CloseDrains, RefreshGathered
  <2> QED
    BY <2>1, <2>2, <2>3 DEF Timeline
<1>5. LockOwners'
        BY <1>0, <1>1 DEF TypeOK, Generation, Gen, Timeline, LockOwners,
           RefreshHandle, CloseDrains, RefreshGathered
<1>6. RefreshHandle'
        BY <1>0, <1>1 DEF TypeOK, Generation, Gen, Timeline, LockOwners,
           RefreshHandle, NoOrphanRefresh, CloseDrains, RefreshGathered
<1>7. CleanedUnheld'
        BY <1>0, <1>1 DEF TypeOK, Generation, Gen, CleanedUnheld,
           NeverCleanedInUse, Drained, Timeline, CloseDrains, RefreshGathered
<1>8. Candidates'
        BY <1>0, <1>1 DEF TypeOK, Candidates, LockOwners, CloseDrains,
           RefreshGathered
<1>9. ShutdownOwns'
        BY <1>0, <1>1 DEF TypeOK, Generation, Gen, ShutdownOwns,
           ClosedOwnsNothing, Timeline, LockOwners, Candidates, CloseDrains,
           RefreshGathered
<1> QED
    BY <1>3, <1>4, <1>5, <1>6, <1>7, <1>8, <1>9 DEF IInv

\* Every open generation of the snapshot is gathered.
LEMMA CloseCleansStep ==
    ASSUME IInv, CloseCleans
    PROVE  IInv'
<1> USE GenerationsAssumption DEF managerVars, refreshVars, closeVars
<1>0. TypeOK /\ Timeline /\ LockOwners /\ RefreshHandle /\ CleanedUnheld
      /\ Candidates /\ ShutdownOwns
    BY DEF IInv
<1>1. /\ gens' \in [Gen -> Generation]
      /\ \A h \in Gen : /\ gens'[h].leases = gens[h].leases
                        /\ gens'[h].closed = gens[h].closed
                        /\ gens'[h].retired = gens[h].retired
                        /\ gens'[h].cleaning => gens[h].cleaning \/ h \in snapshot
                        /\ h \notin snapshot => gens'[h] = gens[h]
    BY <1>0 DEF TypeOK, Gen, Generation, CloseCleans
<1>3. TypeOK'
        BY <1>0, <1>1 DEF TypeOK, Generation, Gen, AdminSteps, FetchSteps,
           CloseSteps, Candidates, CloseCleans, Drained
<1>4. Timeline'
  <2>0. \A h \in Gen : h > current => h \notin snapshot
    BY <1>0 DEF TypeOK, Gen, Timeline, CleanedUnheld, NewGeneration
  <2>1. \A h \in Gen : h > current' => gens'[h] = NewGeneration /\ refresh'[h] = "none"
        BY <1>0, <1>1, <2>0 DEF TypeOK, Gen, Timeline, CloseCleans, Drained
  <2>2. \A h \in Gen : h < current' => gens'[h].retired
        BY <1>0, <1>1, <2>0 DEF TypeOK, Gen, Timeline, CloseCleans, Drained
  <2>3. ~closing' => ~gens'[current'].retired /\ ~closed'
        BY <1>0, <1>1, <2>0 DEF TypeOK, Gen, Timeline, LockOwners, NewGeneration,
           CloseCleans, Drained
  <2> QED
    BY <2>1, <2>2, <2>3 DEF Timeline
<1>5. LockOwners'
        BY <1>0, <1>1 DEF TypeOK, Generation, Gen, Timeline, LockOwners,
           RefreshHandle, CloseCleans, Drained
<1>6. RefreshHandle'
        BY <1>0, <1>1 DEF TypeOK, Generation, Gen, Timeline, LockOwners,
           RefreshHandle, NoOrphanRefresh, CloseCleans, Drained
<1>7. CleanedUnheld'
        BY <1>0, <1>1 DEF TypeOK, Generation, Gen, CleanedUnheld,
           NeverCleanedInUse, Drained, Timeline, CloseCleans, Drained
<1>8. Candidates'
        BY <1>0, <1>1 DEF TypeOK, Candidates, LockOwners, CloseCleans, Drained
<1>9. ShutdownOwns'
        BY <1>0, <1>1 DEF TypeOK, Generation, Gen, ShutdownOwns,
           ClosedOwnsNothing, Timeline, LockOwners, Candidates, CloseCleans,
           Drained
<1> QED
    BY <1>3, <1>4, <1>5, <1>6, <1>7, <1>8, <1>9 DEF IInv

\* All gathered cleanups are over, and none failed unless incomplete.
LEMMA CloseRetriesStep ==
    ASSUME IInv, CloseRetries
    PROVE  IInv'
<1> USE GenerationsAssumption DEF managerVars, refreshVars, closeVars
<1>0. TypeOK /\ Timeline /\ LockOwners /\ RefreshHandle /\ CleanedUnheld
      /\ Candidates /\ ShutdownOwns
    BY DEF IInv
<1>1. gens' = gens
        BY DEF CloseRetries
<1>3. TypeOK'
        BY <1>0, <1>1 DEF TypeOK, Generation, Gen, AdminSteps, FetchSteps,
           CloseSteps, Candidates, CloseRetries
<1>4. Timeline'
        BY <1>0, <1>1 DEF TypeOK, Generation, Gen, Timeline, LockOwners,
           RefreshHandle, NoOrphanRefresh, NewGeneration, CloseRetries
<1>5. LockOwners'
        BY <1>0, <1>1 DEF TypeOK, Generation, Gen, Timeline, LockOwners,
           RefreshHandle, CloseRetries
<1>6. RefreshHandle'
        BY <1>0, <1>1 DEF TypeOK, Generation, Gen, Timeline, LockOwners,
           RefreshHandle, NoOrphanRefresh, CloseRetries
<1>7. CleanedUnheld'
        BY <1>0, <1>1 DEF TypeOK, Generation, Gen, CleanedUnheld,
           NeverCleanedInUse, Drained, Timeline, CloseRetries
<1>8. Candidates'
        BY <1>0, <1>1 DEF TypeOK, Candidates, LockOwners, CloseRetries
<1>9. ShutdownOwns'
        BY <1>0, <1>1 DEF TypeOK, Generation, Gen, ShutdownOwns,
           ClosedOwnsNothing, Timeline, LockOwners, Candidates, CloseRetries
<1> QED
    BY <1>3, <1>4, <1>5, <1>6, <1>7, <1>8, <1>9 DEF IInv

\* Closed is set only when nothing is left.
LEMMA CloseEndsStep ==
    ASSUME IInv, CloseEnds
    PROVE  IInv'
<1> USE GenerationsAssumption DEF managerVars, refreshVars, closeVars
<1>0. TypeOK /\ Timeline /\ LockOwners /\ RefreshHandle /\ CleanedUnheld
      /\ Candidates /\ ShutdownOwns
    BY DEF IInv
<1>1. gens' = gens
        BY DEF CloseEnds
<1>3. TypeOK'
        BY <1>0, <1>1 DEF TypeOK, Generation, Gen, AdminSteps, FetchSteps,
           CloseSteps, Candidates, CloseEnds
<1>4. Timeline'
        BY <1>0, <1>1 DEF TypeOK, Generation, Gen, Timeline, LockOwners,
           RefreshHandle, NoOrphanRefresh, NewGeneration, CloseEnds
<1>5. LockOwners'
        BY <1>0, <1>1 DEF TypeOK, Generation, Gen, Timeline, LockOwners,
           RefreshHandle, CloseEnds
<1>6. RefreshHandle'
        BY <1>0, <1>1 DEF TypeOK, Generation, Gen, Timeline, LockOwners,
           RefreshHandle, NoOrphanRefresh, CloseEnds
<1>7. CleanedUnheld'
        BY <1>0, <1>1 DEF TypeOK, Generation, Gen, CleanedUnheld,
           NeverCleanedInUse, Drained, Timeline, CloseEnds
<1>8. Candidates'
        BY <1>0, <1>1 DEF TypeOK, Candidates, LockOwners, CloseEnds
<1>9. ShutdownOwns'
        BY <1>0, <1>1 DEF TypeOK, Generation, Gen, ShutdownOwns,
           ClosedOwnsNothing, Timeline, LockOwners, Candidates, CloseEnds
<1> QED
    BY <1>3, <1>4, <1>5, <1>6, <1>7, <1>8, <1>9 DEF IInv

\* _closing stays set and the snapshot is dropped.
LEMMA CancelCloseStep ==
    ASSUME IInv, CancelClose
    PROVE  IInv'
<1> USE GenerationsAssumption DEF managerVars, refreshVars, closeVars
<1>0. TypeOK /\ Timeline /\ LockOwners /\ RefreshHandle /\ CleanedUnheld
      /\ Candidates /\ ShutdownOwns
    BY DEF IInv
<1>1. gens' = gens
        BY DEF CancelClose, CloseSuspended
<1>3. TypeOK'
  <2>1. incomplete' \in BOOLEAN
    BY <1>0 DEF TypeOK, CancelClose, CloseSuspended
  <2>2. awaited' \in Gen \cup {0} /\ retryLeft' \in Nat
    BY <1>0 DEF TypeOK, CancelClose, CloseSuspended
  <2>3. /\ admin' \in AdminSteps /\ previous' \in Gen \cup {0}
        /\ pending' \subseteq Gen /\ faults' \in Nat
    BY <1>0 DEF TypeOK, AdminSteps, CancelClose, CloseSuspended
  <2> QED
        BY <1>0, <1>1, <2>1, <2>2, <2>3 DEF TypeOK, Generation, Gen, AdminSteps,
           FetchSteps, CloseSteps, CancelClose, CloseSuspended
<1>4. Timeline'
        BY <1>0, <1>1 DEF TypeOK, Generation, Gen, Timeline, LockOwners,
           RefreshHandle, NoOrphanRefresh, NewGeneration, CancelClose,
           CloseSuspended
<1>5. LockOwners'
        BY <1>0, <1>1 DEF TypeOK, Generation, Gen, Timeline, LockOwners,
           RefreshHandle, CancelClose, CloseSuspended
<1>6. RefreshHandle'
        BY <1>0, <1>1 DEF TypeOK, Generation, Gen, Timeline, LockOwners,
           RefreshHandle, NoOrphanRefresh, CancelClose, CloseSuspended
<1>7. CleanedUnheld'
        BY <1>0, <1>1 DEF TypeOK, Generation, Gen, CleanedUnheld,
           NeverCleanedInUse, Drained, Timeline, CancelClose, CloseSuspended
<1>8. Candidates'
        BY <1>0, <1>1 DEF TypeOK, Candidates, LockOwners, CancelClose,
           CloseSuspended
<1>9. ShutdownOwns'
        BY <1>0, <1>1 DEF TypeOK, Generation, Gen, ShutdownOwns,
           ClosedOwnsNothing, Timeline, LockOwners, Candidates, CancelClose,
           CloseSuspended
<1> QED
    BY <1>3, <1>4, <1>5, <1>6, <1>7, <1>8, <1>9 DEF IInv

\* The generation is closed and nobody waits for it any more.
LEMMA CleanupSucceedsStep ==
    ASSUME IInv, NEW g \in Gen, CleanupSucceeds(g)
    PROVE  IInv'
<1> USE GenerationsAssumption DEF managerVars, refreshVars, closeVars
<1>0. TypeOK /\ Timeline /\ LockOwners /\ RefreshHandle /\ CleanedUnheld
      /\ Candidates /\ ShutdownOwns
    BY DEF IInv
<1>1. /\ gens' \in [Gen -> Generation]
      /\ \A h \in Gen : /\ gens'[h].leases = gens[h].leases
                        /\ gens'[h].retired = gens[h].retired
                        /\ gens[h].closed \/ h = g => gens'[h].closed
                        /\ gens'[h].closed => gens[h].closed \/ h = g
                        /\ gens'[h].cleaning => gens[h].cleaning
                        /\ h # g => gens'[h] = gens[h]
      /\ gens[g].cleaning
    BY <1>0 DEF TypeOK, Gen, Generation, CleanupSucceeds
<1>2. g <= current
    BY <1>0, <1>1 DEF TypeOK, Gen, Timeline, NewGeneration
<1>3. TypeOK'
  <2>1. admin' \in AdminSteps /\ previous' \in Gen \cup {0}
    BY <1>0 DEF TypeOK, AdminSteps, CleanupSucceeds, CleanupOver
  <2>2. pending' \subseteq Gen /\ incomplete' \in BOOLEAN
    BY <1>0 DEF TypeOK, CleanupSucceeds, CleanupOver
  <2>3. UNCHANGED <<current, nextId, closing, closed, lease, started, refresh,
                    refreshTask, awaited, fetch, closer, snapshot, unpublished,
                    retryLeft, broken, faults>>
    BY DEF CleanupSucceeds
  <2> QED
    BY <1>0, <1>1, <2>1, <2>2, <2>3 DEF TypeOK
<1>4. Timeline'
  <2>1. \A h \in Gen : h > current' => gens'[h] = NewGeneration /\ refresh'[h] = "none"
        BY <1>0, <1>1, <1>2 DEF TypeOK, Gen, Timeline, CleanupSucceeds,
           CleanupOver
  <2>2. \A h \in Gen : h < current' => gens'[h].retired
        BY <1>0, <1>1, <1>2 DEF TypeOK, Gen, Timeline, CleanupSucceeds,
           CleanupOver
  <2>3. ~closing' => ~gens'[current'].retired /\ ~closed'
        BY <1>0, <1>1, <1>2 DEF TypeOK, Gen, Timeline, LockOwners, NewGeneration,
           CleanupSucceeds, CleanupOver
  <2> QED
    BY <2>1, <2>2, <2>3 DEF Timeline
<1>5. LockOwners'
        BY <1>0, <1>1, <1>2 DEF TypeOK, Generation, Gen, Timeline, LockOwners,
           RefreshHandle, CleanupSucceeds, CleanupOver
<1>6. RefreshHandle'
        BY <1>0, <1>1, <1>2 DEF TypeOK, Generation, Gen, Timeline, LockOwners,
           RefreshHandle, NoOrphanRefresh, CleanupSucceeds, CleanupOver
<1>7. CleanedUnheld'
  <2>1. gens[g].retired /\ gens[g].leases = 0
    BY <1>0, <1>1 DEF CleanedUnheld, NeverCleanedInUse, Drained
  <2>2. NeverCleanedInUse'
    BY <1>0, <1>1, <2>1 DEF CleanedUnheld, NeverCleanedInUse, Drained
  <2> QED
    BY <1>0, <1>1, <2>2 DEF TypeOK, CleanedUnheld, CleanupSucceeds
<1>8. Candidates'
        BY <1>0, <1>1, <1>2 DEF TypeOK, Candidates, LockOwners, CleanupSucceeds,
           CleanupOver
<1>9. ShutdownOwns'
        BY <1>0, <1>1, <1>2 DEF TypeOK, Generation, Gen, ShutdownOwns,
           ClosedOwnsNothing, Timeline, LockOwners, Candidates, CleanupSucceeds,
           CleanupOver
<1> QED
    BY <1>3, <1>4, <1>5, <1>6, <1>7, <1>8, <1>9 DEF IInv

\* The generation stays retired and open, and close() is incomplete.
LEMMA CleanupFailsStep ==
    ASSUME IInv, NEW g \in Gen, CleanupFails(g)
    PROVE  IInv'
<1> USE GenerationsAssumption DEF managerVars, refreshVars, closeVars
<1>0. TypeOK /\ Timeline /\ LockOwners /\ RefreshHandle /\ CleanedUnheld
      /\ Candidates /\ ShutdownOwns
    BY DEF IInv
<1>1. /\ gens' \in [Gen -> Generation]
      /\ \A h \in Gen : /\ gens'[h].leases = gens[h].leases
                        /\ gens'[h].retired = gens[h].retired
                        /\ gens'[h].closed = gens[h].closed
                        /\ gens'[h].cleaning => gens[h].cleaning
                        /\ h # g => gens'[h] = gens[h]
      /\ gens[g].cleaning
    BY <1>0 DEF TypeOK, Gen, Generation, CleanupFails
<1>2. g <= current
    BY <1>0, <1>1 DEF TypeOK, Gen, Timeline, NewGeneration
<1>3. TypeOK'
  <2>1. incomplete' \in BOOLEAN
    BY <1>0 DEF TypeOK, CleanupFails, CleanupOver
  <2>2. broken' \subseteq Gen /\ faults' \in Nat
    BY <1>0 DEF TypeOK, CleanupFails
  <2>3. admin' \in AdminSteps /\ previous' \in Gen \cup {0} /\ pending' \subseteq Gen
    BY <1>0 DEF TypeOK, AdminSteps, CleanupFails, CleanupOver
  <2>4. UNCHANGED <<current, nextId, closing, closed, lease, started, refresh,
                    refreshTask, awaited, fetch, closer, snapshot, unpublished,
                    retryLeft>>
    BY DEF CleanupFails
  <2> QED
    BY <1>0, <1>1, <2>1, <2>2, <2>3, <2>4 DEF TypeOK
<1>4. Timeline'
  <2>1. \A h \in Gen : h > current' => gens'[h] = NewGeneration /\ refresh'[h] = "none"
        BY <1>0, <1>1, <1>2 DEF TypeOK, Gen, Timeline, CleanupFails, CleanupOver
  <2>2. \A h \in Gen : h < current' => gens'[h].retired
        BY <1>0, <1>1, <1>2 DEF TypeOK, Gen, Timeline, CleanupFails, CleanupOver
  <2>3. ~closing' => ~gens'[current'].retired /\ ~closed'
        BY <1>0, <1>1, <1>2 DEF TypeOK, Gen, Timeline, LockOwners, NewGeneration,
           CleanupFails, CleanupOver
  <2> QED
    BY <2>1, <2>2, <2>3 DEF Timeline
<1>5. LockOwners'
        BY <1>0, <1>1, <1>2 DEF TypeOK, Generation, Gen, Timeline, LockOwners,
           RefreshHandle, CleanupFails, CleanupOver
<1>6. RefreshHandle'
        BY <1>0, <1>1, <1>2 DEF TypeOK, Generation, Gen, Timeline, LockOwners,
           RefreshHandle, NoOrphanRefresh, CleanupFails, CleanupOver
<1>7. CleanedUnheld'
        BY <1>0, <1>1, <1>2 DEF TypeOK, Generation, Gen, CleanedUnheld,
           NeverCleanedInUse, Drained, Timeline, CleanupFails, CleanupOver
<1>8. Candidates'
        BY <1>0, <1>1, <1>2 DEF TypeOK, Candidates, LockOwners, CleanupFails,
           CleanupOver
<1>9. ShutdownOwns'
        BY <1>0, <1>1, <1>2 DEF TypeOK, Generation, Gen, ShutdownOwns,
           ClosedOwnsNothing, Timeline, LockOwners, Candidates, CleanupFails,
           CleanupOver
<1> QED
    BY <1>3, <1>4, <1>5, <1>6, <1>7, <1>8, <1>9 DEF IInv

\* One owned candidate fewer, and one fewer to visit.
LEMMA RetrySucceedsStep ==
    ASSUME IInv, RetrySucceeds
    PROVE  IInv'
<1> USE GenerationsAssumption DEF managerVars, refreshVars, closeVars
<1>0. TypeOK /\ Timeline /\ LockOwners /\ RefreshHandle /\ CleanedUnheld
      /\ Candidates /\ ShutdownOwns
    BY DEF IInv
<1>1. gens' = gens
        BY DEF RetrySucceeds, Retrying
<1>3. TypeOK'
        BY <1>0, <1>1 DEF TypeOK, Generation, Gen, AdminSteps, FetchSteps,
           CloseSteps, Candidates, RetrySucceeds, Retrying
<1>4. Timeline'
        BY <1>0, <1>1 DEF TypeOK, Generation, Gen, Timeline, LockOwners,
           RefreshHandle, NoOrphanRefresh, NewGeneration, RetrySucceeds, Retrying
<1>5. LockOwners'
        BY <1>0, <1>1 DEF TypeOK, Generation, Gen, Timeline, LockOwners,
           RefreshHandle, RetrySucceeds, Retrying
<1>6. RefreshHandle'
        BY <1>0, <1>1 DEF TypeOK, Generation, Gen, Timeline, LockOwners,
           RefreshHandle, NoOrphanRefresh, RetrySucceeds, Retrying
<1>7. CleanedUnheld'
        BY <1>0, <1>1 DEF TypeOK, Generation, Gen, CleanedUnheld,
           NeverCleanedInUse, Drained, Timeline, RetrySucceeds, Retrying
<1>8. Candidates'
        BY <1>0, <1>1 DEF TypeOK, Candidates, LockOwners, RetrySucceeds, Retrying
<1>9. ShutdownOwns'
        BY <1>0, <1>1 DEF TypeOK, Generation, Gen, ShutdownOwns,
           ClosedOwnsNothing, Timeline, LockOwners, Candidates, RetrySucceeds,
           Retrying
<1> QED
    BY <1>3, <1>4, <1>5, <1>6, <1>7, <1>8, <1>9 DEF IInv

\* Close() is incomplete when a candidate stays owned.
LEMMA RetryFailsStep ==
    ASSUME IInv, RetryFails
    PROVE  IInv'
<1> USE GenerationsAssumption DEF managerVars, refreshVars, closeVars
<1>0. TypeOK /\ Timeline /\ LockOwners /\ RefreshHandle /\ CleanedUnheld
      /\ Candidates /\ ShutdownOwns
    BY DEF IInv
<1>1. gens' = gens
        BY DEF RetryFails, Retrying
<1>3. TypeOK'
        BY <1>0, <1>1 DEF TypeOK, Generation, Gen, AdminSteps, FetchSteps,
           CloseSteps, Candidates, RetryFails, Retrying
<1>4. Timeline'
        BY <1>0, <1>1 DEF TypeOK, Generation, Gen, Timeline, LockOwners,
           RefreshHandle, NoOrphanRefresh, NewGeneration, RetryFails, Retrying
<1>5. LockOwners'
        BY <1>0, <1>1 DEF TypeOK, Generation, Gen, Timeline, LockOwners,
           RefreshHandle, RetryFails, Retrying
<1>6. RefreshHandle'
        BY <1>0, <1>1 DEF TypeOK, Generation, Gen, Timeline, LockOwners,
           RefreshHandle, NoOrphanRefresh, RetryFails, Retrying
<1>7. CleanedUnheld'
        BY <1>0, <1>1 DEF TypeOK, Generation, Gen, CleanedUnheld,
           NeverCleanedInUse, Drained, Timeline, RetryFails, Retrying
<1>8. Candidates'
        BY <1>0, <1>1 DEF TypeOK, Candidates, LockOwners, RetryFails, Retrying
<1>9. ShutdownOwns'
        BY <1>0, <1>1 DEF TypeOK, Generation, Gen, ShutdownOwns,
           ClosedOwnsNothing, Timeline, LockOwners, Candidates, RetryFails,
           Retrying
<1> QED
    BY <1>3, <1>4, <1>5, <1>6, <1>7, <1>8, <1>9 DEF IInv

-----------------------------------------------------------------------------
(* The safety theorems *)

\* The manager starts with generation 1 serving and nobody inside.
LEMMA InitIInv == Init => IInv
<1> SUFFICES ASSUME Init PROVE IInv
    OBVIOUS
<1> USE GenerationsAssumption
<1>1. TypeOK
  <2>1. gens \in [Gen -> Generation] /\ current \in Gen /\ nextId = current + 1
    BY DEF Init, Gen, Generation, NewGeneration
  <2>2. /\ lease \in [Requests -> Gen \cup {0}]
        /\ refresh \in [Gen -> {"none", "created", "running", "done"}]
    BY DEF Init
  <2> QED
    BY <2>1, <2>2 DEF Init, TypeOK, AdminSteps, FetchSteps, CloseSteps
<1>2. Timeline /\ LockOwners /\ RefreshHandle
    BY DEF Init, Gen, NewGeneration, Timeline, LockOwners, RefreshHandle, NoOrphanRefresh
<1>3. CleanedUnheld /\ Candidates /\ ShutdownOwns
    BY DEF Init, Gen, NewGeneration, CleanedUnheld, NeverCleanedInUse, Drained, Candidates,
           ShutdownOwns, ClosedOwnsNothing
<1> QED
    BY <1>1, <1>2, <1>3 DEF IInv

\* A step that changes nothing keeps the invariant.
LEMMA StutterIInv == IInv /\ UNCHANGED vars => IInv'
<1> SUFFICES ASSUME IInv, UNCHANGED vars PROVE IInv'
    OBVIOUS
<1> USE DEF vars, managerVars, refreshVars, closeVars
<1>1. TypeOK'
    BY DEF IInv, TypeOK
<1>2. Timeline' /\ LockOwners' /\ RefreshHandle'
    BY DEF IInv, Timeline, LockOwners, RefreshHandle, NoOrphanRefresh
<1>3. CleanedUnheld' /\ Candidates' /\ ShutdownOwns'
    BY DEF IInv, CleanedUnheld, NeverCleanedInUse, Drained, Candidates, ShutdownOwns,
           ClosedOwnsNothing
<1> QED
    BY <1>1, <1>2, <1>3 DEF IInv

\* Every step of the manager keeps the invariant.
LEMMA NextIInv == IInv /\ [Next]_vars => IInv'
<1> SUFFICES ASSUME IInv, [Next]_vars PROVE IInv'
    OBVIOUS
<1>1. CASE Leases
    BY <1>1, AcquireStep, ReleaseLeaseStep DEF Leases
<1>2. CASE Refresh
    BY <1>2, StartModelListRefreshStep, RefreshBeginsStep, RefreshEndsStep DEF Refresh
<1>3. CASE Replace
    BY <1>3, ReplaceBeginsStep, ReplaceRetriesStep, ConstructionFailsStep, CommitFailsStep,
       CandidateCleanedStep, CandidateCleanupFailsStep, PublishStep, CancelReplaceStep
       DEF Replace
<1>4. CASE Fetch
    BY <1>4, FetchBeginsStep, FetchRunsStep, FetchEndsStep, CancelFetchStep DEF Fetch
<1>5. CASE Shutdown
    BY <1>5, CloseCalledStep, CloseBeginsStep, CloseDrainsStep, CloseCleansStep,
       CloseRetriesStep, CloseEndsStep, CancelCloseStep DEF Shutdown
<1>6. CASE Cleanups
    BY <1>6, CleanupSucceedsStep, CleanupFailsStep, RetrySucceedsStep, RetryFailsStep
       DEF Cleanups
<1>7. CASE UNCHANGED vars
    BY <1>7, StutterIInv
<1> QED
    BY <1>1, <1>2, <1>3, <1>4, <1>5, <1>6, <1>7 DEF Next, Terminated

\* The inductive invariant holds in every behaviour of the manager.
THEOREM Invariance == Spec => []IInv
    BY InitIInv, NextIInv, PTL DEF Spec

\* The manager's state keeps its shape: counts are natural numbers and the
\* serving generation is the last one published.
THEOREM TypeCorrect == Spec => []TypeOK
<1>1. IInv => TypeOK
    BY DEF IInv
<1> QED
    BY <1>1, Invariance, PTL

\* No generation's clients are cleaned up while a lease on it is out, and no refresh
\* ever wakes up on a retired generation, for every number of requests, generations
\* and cleanup errors: cancelling _refresh_task reaches every refresh there is.
THEOREM UsesAreSafe == Spec => []UseIsSafe
<1>1. IInv => NeverCleanedInUse
    BY DEF IInv, CleanedUnheld
<1>2. IInv => NoOrphanRefresh
    BY DEF IInv, RefreshHandle
<1>3. IInv => UseIsSafe
    BY <1>1, <1>2 DEF UseIsSafe, IInv
<1> QED
    BY <1>3, Invariance, PTL

\* A close() that returned normally left nothing behind, whatever was cancelled or
\* failed before it.
THEOREM CloseIsComplete == Spec => []ClosedOwnsNothing
<1>1. IInv => ClosedOwnsNothing
    BY DEF IInv, ShutdownOwns
<1> QED
    BY <1>1, Invariance, PTL

-----------------------------------------------------------------------------
(* Leases are counted and retired generations are remembered *)

\* The requests that hold a lease on g; the refresh and the fetch that do.
Holders(g) == {r \in Requests : lease[r] = g}
Refreshing(g) == IF refresh[g] = "running" THEN 1 ELSE 0
Fetching(g) == IF fetch = "running" /\ current = g THEN 1 ELSE 0

\* What the accounting rests on: however many requests there are, finitely many hold a
\* lease at a time, and no refresh was created before the server was up.
Ledger ==
  /\ \A g \in Gen : IsFiniteSet(Holders(g))
  /\ ~started => \A g \in Gen : refresh[g] = "none"
  /\ LeaseAccounting

\* The step touches no lease and starts or ends nothing that holds one.
NoLeaseMoves ==
  /\ lease' = lease
  /\ \A g \in Gen : /\ gens'[g].leases = gens[g].leases
                    /\ Refreshing(g)' = Refreshing(g) /\ Fetching(g)' = Fetching(g)
  /\ ~started' => ~started /\ refresh' = refresh

\* Such a step keeps the accounts.
LEMMA AccountsKept ==
    ASSUME Ledger, NoLeaseMoves
    PROVE  Ledger'
<1>1. \A g \in Gen : Holders(g)' = Holders(g)
    BY DEF NoLeaseMoves, Holders
<1>2. LeaseAccounting'
    BY <1>1 DEF Ledger, LeaseAccounting, NoLeaseMoves, Holders, Refreshing, Fetching
<1> QED
    BY <1>1, <1>2 DEF Ledger, NoLeaseMoves

\* A lease that is taken is counted once.
LEMMA AcquireCounted ==
    ASSUME IInv, Ledger, NEW r \in Requests, Acquire(r)
    PROVE  Ledger'
<1> USE GenerationsAssumption DEF managerVars, refreshVars, closeVars
<1>0. PICK p \in Gen : p = current
    BY DEF IInv, TypeOK
<1>1. TypeOK /\ p = current /\ lease[r] = 0 /\ 0 \notin Gen
    BY <1>0 DEF IInv, TypeOK, Gen, Acquire
<1>2. /\ Holders(p)' = Holders(p) \cup {r} /\ r \notin Holders(p)
      /\ \A g \in Gen : g # p => Holders(g)' = Holders(g)
    BY <1>1 DEF Holders, Acquire, TypeOK
<1>3. /\ gens'[p].leases = gens[p].leases + 1
      /\ \A g \in Gen : g # p => gens'[g].leases = gens[g].leases
    BY <1>1 DEF Acquire, Leased, TypeOK, Generation
<1>4. \A g \in Gen : Refreshing(g)' = Refreshing(g) /\ Fetching(g)' = Fetching(g)
    BY DEF Acquire, Refreshing, Fetching
<1>5. /\ \A g \in Gen : IsFiniteSet(Holders(g)')
      /\ Cardinality(Holders(p)') = Cardinality(Holders(p)) + 1
      /\ Cardinality(Holders(p)) \in Nat
    BY <1>1, <1>2, FS_AddElement, FS_CardinalityType DEF Ledger
<1>6. Refreshing(p) \in Nat /\ Fetching(p) \in Nat
    BY DEF Refreshing, Fetching
<1>7. \A g \in Gen : gens[g].leases = Cardinality(Holders(g)) + Refreshing(g) + Fetching(g)
    BY DEF Ledger, LeaseAccounting, Holders, Refreshing, Fetching
<1>8. \A g \in Gen : gens'[g].leases
                       = Cardinality(Holders(g)') + Refreshing(g)' + Fetching(g)'
  <2> TAKE g \in Gen
  <2>1. CASE g = p
    BY <1>1, <1>3, <1>4, <1>5, <1>6, <1>7, <2>1
  <2>2. CASE g # p
    BY <1>2, <1>3, <1>4, <1>7, <2>2
  <2> QED
    BY <2>1, <2>2
<1> QED
    BY <1>5, <1>8 DEF Ledger, LeaseAccounting, Holders, Refreshing, Fetching, Acquire

\* A lease that comes back is counted no more; it was counted, so that it does come back.
LEMMA ReleaseCounted ==
    ASSUME IInv, Ledger, NEW r \in Requests, ReleaseLease(r)
    PROVE  Ledger'
<1> USE GenerationsAssumption DEF managerVars, refreshVars, closeVars
<1>0. PICK own \in Gen : own = lease[r]
    BY DEF IInv, TypeOK, ReleaseLease
<1>1. TypeOK /\ own = lease[r] /\ 0 \notin Gen
    BY <1>0 DEF IInv, TypeOK, Gen, ReleaseLease
<1>2. /\ Holders(own)' = Holders(own) \ {r} /\ r \in Holders(own)
      /\ \A g \in Gen : g # own => Holders(g)' = Holders(g)
    BY <1>1 DEF Holders, ReleaseLease, TypeOK
<1>3. \A g \in Gen : Refreshing(g)' = Refreshing(g) /\ Fetching(g)' = Fetching(g)
    BY DEF ReleaseLease, Refreshing, Fetching
<1>4. /\ \A g \in Gen : IsFiniteSet(Holders(g)')
      /\ Cardinality(Holders(own)') = Cardinality(Holders(own)) - 1
      /\ Cardinality(Holders(own)) \in Nat /\ Cardinality(Holders(own)) # 0
    BY <1>1, <1>2, FS_RemoveElement, FS_CardinalityType, FS_EmptySet DEF Ledger
<1>5. Refreshing(own) \in Nat /\ Fetching(own) \in Nat
    BY DEF Refreshing, Fetching
<1>6. \A g \in Gen : gens[g].leases = Cardinality(Holders(g)) + Refreshing(g) + Fetching(g)
    BY DEF Ledger, LeaseAccounting, Holders, Refreshing, Fetching
<1>7. gens[own].leases # 0
    BY <1>1, <1>4, <1>5, <1>6
<1>8. /\ gens'[own].leases = gens[own].leases - 1
      /\ \A g \in Gen : g # own => gens'[g].leases = gens[g].leases
    BY <1>1, <1>7, ReturnedCount DEF ReleaseLease, TypeOK
<1>9. \A g \in Gen : gens'[g].leases
                       = Cardinality(Holders(g)') + Refreshing(g)' + Fetching(g)'
  <2> TAKE g \in Gen
  <2>1. CASE g = own
    <3>1. gens'[own].leases = Cardinality(Holders(own)) + Refreshing(own) + Fetching(own) - 1
      <4>1. gens[own].leases = Cardinality(Holders(own)) + Refreshing(own) + Fetching(own)
        BY <1>1, <1>6
      <4>2. gens'[own].leases = gens[own].leases - 1
        BY <1>8
      <4> QED
        BY <1>4, <1>5, <4>1, <4>2
    <3> QED
      BY <1>3, <1>4, <1>5, <2>1, <3>1
  <2>2. CASE g # own
    BY <1>2, <1>3, <1>6, <1>8, <2>2
  <2> QED
    BY <2>1, <2>2
<1> QED
    BY <1>4, <1>9 DEF Ledger, LeaseAccounting, Holders, Refreshing, Fetching, ReleaseLease

\* The leases of a background refresh and of an explicit fetch are counted as long as
\* they run.
LEMMA RefreshCounted ==
    ASSUME IInv, Ledger, NEW g \in Gen, RefreshBegins(g) \/ RefreshEnds(g)
    PROVE  Ledger'
<1> USE GenerationsAssumption DEF managerVars, refreshVars, closeVars
<1>1. TypeOK
    BY DEF IInv
<1>2. \A h \in Gen : Holders(h)' = Holders(h) /\ Fetching(h)' = Fetching(h)
    BY DEF RefreshBegins, RefreshEnds, Holders, Fetching
<1>3. \A h \in Gen : h # g => Refreshing(h)' = Refreshing(h)
    BY <1>1 DEF RefreshBegins, RefreshEnds, Refreshing, TypeOK
<1>4. \A h \in Gen : gens[h].leases = Cardinality(Holders(h)) + Refreshing(h) + Fetching(h)
    BY DEF Ledger, LeaseAccounting, Holders, Refreshing, Fetching
<1>5. Cardinality(Holders(g)) \in Nat /\ Fetching(g) \in Nat
    BY FS_CardinalityType DEF Ledger, Fetching
<1>6. started' = started /\ started
    BY DEF RefreshBegins, RefreshEnds, Ledger
<1>7. /\ gens'[g].leases = Cardinality(Holders(g)) + Refreshing(g)' + Fetching(g)
      /\ \A h \in Gen : h # g => gens'[h].leases = gens[h].leases
  <2>1. CASE RefreshBegins(g) /\ gens[g].closed
    <3>1. Refreshing(g)' = 0 /\ Refreshing(g) = 0 /\ gens' = gens
      BY <1>1, <2>1 DEF RefreshBegins, Refreshing, TypeOK
    <3> QED
      BY <1>4, <3>1
  <2>2. CASE RefreshBegins(g) /\ ~gens[g].closed
    <3>1. Refreshing(g)' = 1 /\ Refreshing(g) = 0 /\ gens' = Leased(gens, g)
      BY <1>1, <2>2 DEF RefreshBegins, Refreshing, TypeOK
    <3>2. /\ gens'[g].leases = gens[g].leases + 1
          /\ \A h \in Gen : h # g => gens'[h].leases = gens[h].leases
      BY <1>1, <3>1 DEF Leased, TypeOK, Generation
    <3> QED
      BY <1>4, <1>5, <3>1, <3>2
  <2>3. CASE RefreshEnds(g)
    <3>1. Refreshing(g)' = 0 /\ Refreshing(g) = 1 /\ gens' = Returned(gens, g)
      BY <1>1, <2>3 DEF RefreshEnds, Refreshing, TypeOK
    <3>2. gens[g].leases # 0
      BY <1>4, <1>5, <3>1
    <3>3. /\ gens'[g].leases = gens[g].leases - 1
          /\ \A h \in Gen : h # g => gens'[h].leases = gens[h].leases
      BY <1>1, <3>1, <3>2, ReturnedCount DEF TypeOK
    <3> QED
      BY <1>4, <1>5, <3>1, <3>3
  <2> QED
    BY <2>1, <2>2, <2>3
<1>8. \A h \in Gen : gens'[h].leases
                       = Cardinality(Holders(h)') + Refreshing(h)' + Fetching(h)'
  <2> TAKE h \in Gen
  <2>1. CASE h = g
    BY <1>2, <1>7, <2>1
  <2>2. CASE h # g
    BY <1>2, <1>3, <1>4, <1>7, <2>2
  <2> QED
    BY <2>1, <2>2
<1>9. \A h \in Gen : IsFiniteSet(Holders(h)')
    BY <1>2 DEF Ledger
<1> QED
    BY <1>6, <1>8, <1>9 DEF Ledger, LeaseAccounting, Holders, Refreshing, Fetching

\* So is that of an explicit fetch, on the generation that serves all the while.
LEMMA FetchCounted ==
    ASSUME IInv, Ledger, FetchRuns \/ FetchEnds
    PROVE  Ledger'
<1> USE GenerationsAssumption DEF managerVars, refreshVars, closeVars
<1>0. PICK p \in Gen : p = current
    BY DEF IInv, TypeOK
<1>1. TypeOK /\ p = current /\ current' = current
    BY <1>0 DEF IInv, TypeOK, FetchRuns, FetchEnds
<1>2. \A h \in Gen : Holders(h)' = Holders(h) /\ Refreshing(h)' = Refreshing(h)
    BY DEF FetchRuns, FetchEnds, Holders, Refreshing
<1>3. \A h \in Gen : h # p => Fetching(h)' = Fetching(h)
    BY <1>1 DEF Fetching
<1>4. \A h \in Gen : gens[h].leases = Cardinality(Holders(h)) + Refreshing(h) + Fetching(h)
    BY DEF Ledger, LeaseAccounting, Holders, Refreshing, Fetching
<1>5. Cardinality(Holders(p)) \in Nat /\ Refreshing(p) \in Nat
    BY <1>1, FS_CardinalityType DEF Ledger, Refreshing
<1>6. started' = started /\ refresh' = refresh
    BY DEF FetchRuns, FetchEnds
<1>7. /\ gens'[p].leases
           = Cardinality(Holders(p)) + Refreshing(p) + Fetching(p)'
      /\ \A h \in Gen : h # p => gens'[h].leases = gens[h].leases
  <2>1. CASE FetchRuns
    <3>1. Fetching(p)' = 1 /\ Fetching(p) = 0 /\ gens' = Leased(gens, p)
      BY <1>1, <2>1 DEF FetchRuns, Fetching
    <3>2. /\ gens'[p].leases = gens[p].leases + 1
          /\ \A h \in Gen : h # p => gens'[h].leases = gens[h].leases
      BY <1>1, <3>1 DEF Leased, TypeOK, Generation
    <3> QED
      BY <1>1, <1>4, <1>5, <3>1, <3>2
  <2>2. CASE FetchEnds
    <3>1. Fetching(p)' = 0 /\ Fetching(p) = 1 /\ gens' = Returned(gens, p)
      BY <1>1, <2>2 DEF FetchEnds, Fetching
    <3>2. gens[p].leases # 0
      BY <1>1, <1>4, <1>5, <3>1
    <3>3. /\ gens'[p].leases = gens[p].leases - 1
          /\ \A h \in Gen : h # p => gens'[h].leases = gens[h].leases
      BY <1>1, <3>1, <3>2, ReturnedCount DEF TypeOK
    <3> QED
      BY <1>1, <1>4, <1>5, <3>1, <3>3
  <2> QED
    BY <2>1, <2>2
<1>8. \A h \in Gen : gens'[h].leases
                       = Cardinality(Holders(h)') + Refreshing(h)' + Fetching(h)'
  <2> TAKE h \in Gen
  <2>1. CASE h = p
    BY <1>1, <1>2, <1>7, <2>1
  <2>2. CASE h # p
    BY <1>2, <1>3, <1>4, <1>7, <2>2
  <2> QED
    BY <2>1, <2>2
<1>9. \A h \in Gen : IsFiniteSet(Holders(h)')
    BY <1>2 DEF Ledger
<1> QED
    BY <1>6, <1>8, <1>9 DEF Ledger, LeaseAccounting, Holders, Refreshing, Fetching

\* Every other step leaves the leases alone.
LEMMA LedgerStep == IInv /\ Ledger /\ [Next]_vars => Ledger'
<1> SUFFICES ASSUME IInv, Ledger, [Next]_vars PROVE Ledger'
    OBVIOUS
<1> USE GenerationsAssumption DEF managerVars, refreshVars, closeVars
<1>0. TypeOK /\ Timeline /\ LockOwners /\ RefreshHandle
    BY DEF IInv
<1>1. CASE Leases
    BY <1>1, AcquireCounted, ReleaseCounted DEF Leases
<1>2. CASE Refresh
  <2>1. CASE StartModelListRefresh
    <3>1. \A g \in Gen : refresh[g] # "running" /\ refresh'[g] # "running"
      BY <1>0, <2>1 DEF StartModelListRefresh, Ledger, TypeOK
    <3> QED
      BY <2>1, <3>1, AccountsKept
         DEF StartModelListRefresh, NoLeaseMoves, Refreshing, Fetching
  <2> QED
    BY <1>2, <2>1, RefreshCounted DEF Refresh
<1>3. CASE ReplaceBegins \/ FetchBegins \/ CloseBegins
  <2>1. \A g \in Gen : refresh'[g] = "running" <=> refresh[g] = "running"
    BY <1>0, <1>3 DEF ReplaceBegins, FetchBegins, CloseBegins, CancelRefresh, TypeOK
  <2>2. fetch' # "running" /\ fetch # "running" /\ current' = current
    BY <1>3 DEF ReplaceBegins, FetchBegins, CloseBegins, ReplaceLockFree
  <2>3. gens' = gens /\ lease' = lease /\ started' = started
    BY <1>3 DEF ReplaceBegins, FetchBegins, CloseBegins
  <2>4. ~started' => ~started /\ refresh' = refresh
    BY <1>0, <1>3, <2>3 DEF ReplaceBegins, FetchBegins, CloseBegins, CancelRefresh,
       RefreshHandle
  <2> QED
    BY <2>1, <2>2, <2>3, <2>4, AccountsKept DEF NoLeaseMoves, Refreshing, Fetching
<1>4. CASE Publish
  <2>1. admin # "idle" /\ fetch = "idle" /\ fetch' = "idle" /\ started /\ started'
    BY <1>0, <1>4 DEF Publish, LockOwners, RefreshHandle
  <2>2. \A g \in Gen : gens'[g].leases = gens[g].leases
    BY <1>0, <1>4 DEF Publish, Cleaning, TypeOK, Generation
  <2>3. nextId \in Gen /\ refresh[nextId] = "none"
    BY <1>0, <1>4 DEF Publish, TypeOK, Timeline, Gen
  <2>4. \A g \in Gen : refresh'[g] = "running" <=> refresh[g] = "running"
    BY <1>0, <1>4, <2>3 DEF Publish, TypeOK
  <2>5. lease' = lease
    BY <1>4 DEF Publish
  <2> QED
    BY <2>1, <2>2, <2>4, <2>5, AccountsKept DEF NoLeaseMoves, Refreshing, Fetching
<1>5. CASE FetchRuns \/ FetchEnds
    BY <1>5, FetchCounted
<1>6. CASE \/ ReplaceRetries \/ ConstructionFails \/ CommitFails \/ CandidateCleaned
           \/ CandidateCleanupFails \/ CancelReplace \/ CancelFetch \/ CloseCalled
           \/ CloseRetries \/ CloseEnds \/ CancelClose \/ RetrySucceeds \/ RetryFails
           \/ UNCHANGED vars
  <2>1. /\ gens' = gens /\ lease' = lease /\ started' = started /\ refresh' = refresh
        /\ current' = current /\ (fetch' = "running" <=> fetch = "running")
    BY <1>6 DEF ReplaceRetries, ConstructionFails, CommitFails, CandidateCleaned,
       CandidateCleanupFails, CancelReplace, CancelFetch, CloseCalled, CloseRetries,
       CloseEnds, CancelClose, RetrySucceeds, RetryFails, vars
  <2> QED
    BY <2>1, AccountsKept DEF NoLeaseMoves, Refreshing, Fetching
<1>7. CASE CloseDrains \/ CloseCleans \/ \E g \in Gen : CleanupSucceeds(g) \/ CleanupFails(g)
  <2>1. \A g \in Gen : gens'[g].leases = gens[g].leases
    <3>1. CASE CloseDrains
      BY <1>0, <3>1 DEF CloseDrains, TypeOK, Generation
    <3>2. CASE CloseCleans
      BY <1>0, <3>2 DEF CloseCleans, TypeOK, Generation
    <3>3. ASSUME NEW g \in Gen, CleanupSucceeds(g) \/ CleanupFails(g)
          PROVE  \A h \in Gen : gens'[h].leases = gens[h].leases
      <4>1. CASE CleanupSucceeds(g)
        <5>1. gens' = [gens EXCEPT ![g].cleaning = FALSE, ![g].closed = TRUE]
          BY <4>1 DEF CleanupSucceeds
        <5> QED
          BY <1>0, <5>1 DEF TypeOK, Generation
      <4>2. CASE CleanupFails(g)
        <5>1. gens' = [gens EXCEPT ![g].cleaning = FALSE]
          BY <4>2 DEF CleanupFails
        <5> QED
          BY <1>0, <5>1 DEF TypeOK, Generation
      <4> QED
        BY <3>3, <4>1, <4>2
    <3> QED
      BY <1>7, <3>1, <3>2, <3>3
  <2>2. /\ lease' = lease /\ started' = started /\ refresh' = refresh
        /\ current' = current /\ fetch' = fetch
    BY <1>7 DEF CloseDrains, CloseCleans, CleanupSucceeds, CleanupFails
  <2> QED
    BY <2>1, <2>2, AccountsKept DEF NoLeaseMoves, Refreshing, Fetching
<1> QED
    BY <1>1, <1>2, <1>3, <1>4, <1>5, <1>6, <1>7
       DEF Next, Replace, Fetch, Shutdown, Cleanups, Terminated

\* The last lease that comes back to a retired generation starts its cleanup.
LEMMA ReturnedRemembers ==
    ASSUME gens \in [Gen -> Generation], NEW g \in Gen, NEW h \in Gen,
           Returned(gens, g)[h].retired, ~Returned(gens, g)[h].closed,
           Returned(gens, g)[h].leases = 0, ~Returned(gens, g)[h].cleaning
    PROVE  closing \/ Returned(gens, g)[h] = gens[h]
<1> DEFINE fewer == [gens EXCEPT ![g].leases = @ - 1]
<1>1. CASE gens[g].leases = 0 \/ h # g
    BY <1>1 DEF Returned, Cleaning, Generation
<1>2. CASE gens[g].leases # 0 /\ h = g /\ ~closing
  <2>1. /\ fewer \in [Gen -> Generation]
        /\ fewer[g] = [gens[g] EXCEPT !.leases = gens[g].leases - 1]
    BY <1>2 DEF Generation
  <2> HIDE DEF fewer
  <2>2. Returned(gens, g) = IF fewer[g].leases = 0 /\ fewer[g].retired
                            THEN Cleaning(fewer, g) ELSE fewer
    BY <1>2 DEF Returned, fewer
  <2>3. CASE fewer[g].leases = 0 /\ fewer[g].retired /\ ~fewer[g].closed
    <3>1. Returned(gens, g) = [fewer EXCEPT ![g].cleaning = TRUE]
      BY <2>2, <2>3 DEF Cleaning
    <3>2. Returned(gens, g)[g].cleaning
      BY <2>1, <3>1 DEF Generation
    <3> QED
      BY <1>2, <3>2
  <2>4. CASE ~(fewer[g].leases = 0 /\ fewer[g].retired /\ ~fewer[g].closed)
    <3>1. Returned(gens, g) = fewer
      BY <2>2, <2>4 DEF Cleaning
    <3> QED
      BY <1>2, <2>4, <3>1
  <2> QED
    BY <2>3, <2>4
<1> QED
    BY <1>1, <1>2

\* No step forgets a retired generation.
LEMMA ForgottenStep == IInv /\ NothingForgotten /\ [Next]_vars => NothingForgotten'
<1> SUFFICES ASSUME IInv, NothingForgotten, [Next]_vars,
                    NEW g \in Gen, gens'[g].retired, ~gens'[g].closed,
                    gens'[g].leases = 0, ~gens'[g].cleaning
             PROVE  closing' \/ g \in broken'
    BY DEF NothingForgotten, Retired, Drained
<1> USE GenerationsAssumption DEF managerVars, refreshVars, closeVars
<1>0. TypeOK /\ Timeline /\ LockOwners /\ RefreshHandle
    BY DEF IInv
<1>1. gens[g] = gens'[g] => closing \/ g \in broken
    BY DEF NothingForgotten, Retired, Drained
<1>2. (closing => closing') /\ broken \subseteq broken'
  <2>1. CASE Leases \/ Refresh
    BY <2>1 DEF Leases, Acquire, ReleaseLease, Refresh, StartModelListRefresh,
       RefreshBegins, RefreshEnds
  <2>2. CASE Replace
    BY <2>2 DEF Replace, ReplaceBegins, ReplaceRetries, ConstructionFails, CommitFails,
       CandidateCleaned, CandidateCleanupFails, Publish, CancelReplace
  <2>3. CASE Fetch
    BY <2>3 DEF Fetch, FetchBegins, FetchRuns, FetchEnds, CancelFetch
  <2>4. CASE Shutdown
    BY <2>4 DEF Shutdown, CloseCalled, CloseBegins, CloseDrains, CloseCleans,
       CloseRetries, CloseEnds, CancelClose
  <2>5. CASE Cleanups
    <3>1. ASSUME NEW h \in Gen, CleanupSucceeds(h)
          PROVE  closing' = closing /\ broken' = broken
      BY <3>1 DEF CleanupSucceeds
    <3>2. ASSUME NEW h \in Gen, CleanupFails(h)
          PROVE  closing' = closing /\ broken' = broken \cup {h}
      BY <3>2 DEF CleanupFails
    <3>3. CASE RetrySucceeds \/ RetryFails
      BY <3>3 DEF RetrySucceeds, RetryFails
    <3> QED
      BY <2>5, <3>1, <3>2, <3>3 DEF Cleanups
  <2>6. CASE UNCHANGED vars
    BY <2>6 DEF vars
  <2> QED
    BY <2>1, <2>2, <2>3, <2>4, <2>5, <2>6 DEF Next, Terminated
<1>3. CASE \/ \E r \in Requests : Acquire(r)
           \/ \E h \in Gen : RefreshBegins(h)
           \/ FetchRuns
  <2>1. gens' = gens \/ \E h \in Gen : gens' = Leased(gens, h) /\ ~gens[h].retired
    BY <1>0, <1>3 DEF Acquire, RefreshBegins, FetchRuns, Timeline, LockOwners,
       RefreshHandle, NoOrphanRefresh, TypeOK
  <2>2. gens'[g] = gens[g]
    BY <1>0, <2>1, LeasedShape DEF TypeOK
  <2> QED
    BY <1>1, <1>2, <2>2
<1>4. CASE \/ \E r \in Requests : ReleaseLease(r)
           \/ \E h \in Gen : RefreshEnds(h)
           \/ FetchEnds
  <2>1. \E h \in Gen : gens' = Returned(gens, h)
    BY <1>0, <1>4 DEF ReleaseLease, RefreshEnds, FetchEnds, TypeOK
  <2>2. closing \/ gens'[g] = gens[g]
    BY <1>0, <2>1, ReturnedRemembers DEF TypeOK
  <2> QED
    BY <1>1, <1>2, <2>2
<1>5. CASE Publish
  <2>1. g # current => gens'[g] = gens[g]
    BY <1>0, <1>5 DEF Publish, Cleaning, TypeOK, Generation
  <2>2. CASE g = current
    <3> DEFINE retired == [gens EXCEPT ![current].retired = TRUE]
    <3>1. /\ retired \in [Gen -> Generation] /\ retired[g].leases = gens[g].leases
          /\ retired[g].closed = gens[g].closed
      BY <1>0, <2>2, ZenonT(40) DEF TypeOK, Generation
    <3>2. gens' = Cleaning(retired, g)
      BY <1>5, <2>2 DEF Publish
    <3> HIDE DEF retired
    <3>3. gens'[g].leases = retired[g].leases /\ gens'[g].closed = retired[g].closed
      BY <3>1, <3>2 DEF Cleaning, Generation
    <3>4. gens' = [retired EXCEPT ![g].cleaning = TRUE]
      BY <3>2, <3>3 DEF Cleaning
    <3>5. gens'[g].cleaning
      BY <3>1, <3>4 DEF Generation
    <3> QED
      BY <3>5
  <2> QED
    BY <1>1, <1>2, <2>1, <2>2
<1>6. CASE CloseDrains \/ CloseCleans
    BY <1>0, <1>2, <1>6 DEF CloseDrains, CloseCleans, LockOwners
<1>7. ASSUME NEW h \in Gen, CleanupSucceeds(h) \/ CleanupFails(h)
      PROVE  closing' \/ g \in broken'
  <2>1. CASE g = h
    BY <1>0, <1>7, <2>1, ZenonT(40) DEF CleanupSucceeds, CleanupFails, TypeOK, Generation
  <2>2. CASE g # h
    BY <1>0, <1>1, <1>2, <1>7, <2>2 DEF CleanupSucceeds, CleanupFails, TypeOK, Generation
  <2> QED
    BY <2>1, <2>2
<1>8. CASE gens' = gens
    BY <1>1, <1>2, <1>8
<1> QED
    BY <1>3, <1>4, <1>5, <1>6, <1>7, <1>8
       DEF Next, Leases, Refresh, StartModelListRefresh, Replace, ReplaceBegins,
       ReplaceRetries, ConstructionFails, CommitFails, CandidateCleaned,
       CandidateCleanupFails, CancelReplace, Fetch, FetchBegins, CancelFetch, Shutdown,
       CloseCalled, CloseBegins, CloseRetries, CloseEnds, CancelClose, Cleanups,
       RetrySucceeds, RetryFails, Terminated, vars

\* active_leases counts the requests, the refresh and the fetch that hold a lease, for
\* however many requests, and a retired generation that nobody holds is being cleaned
\* up, or its cleanup has failed, or the shutdown takes care of it.
THEOREM LeasesAreCounted == Spec => []NothingLost
<1>1. Init => Ledger /\ NothingForgotten
  <2> SUFFICES ASSUME Init PROVE Ledger /\ NothingForgotten
    OBVIOUS
  <2>1. \A g \in Gen : Holders(g) = {} /\ refresh[g] = "none" /\ gens[g] = NewGeneration
    BY GenerationsAssumption DEF Init, Holders, Gen
  <2>2. Cardinality({}) = 0 /\ IsFiniteSet({}) /\ fetch = "idle"
    BY FS_EmptySet DEF Init
  <2>3. LeaseAccounting
    <3> SUFFICES ASSUME NEW g \in Gen
                 PROVE  gens[g].leases = Cardinality(Holders(g)) + 0 + 0
      BY <2>1, <2>2 DEF LeaseAccounting, Holders
    <3> QED
      BY <2>1, <2>2 DEF NewGeneration
  <2> QED
    BY <2>1, <2>2, <2>3 DEF Ledger, NothingForgotten, Retired, NewGeneration
<1>2. Ledger /\ NothingForgotten => NothingLost
    BY DEF Ledger, NothingLost
<1> QED
    BY <1>1, <1>2, LedgerStep, ForgottenStep, Invariance, PTL DEF Spec

-----------------------------------------------------------------------------
(* The manager implements LeasedGenerations *)

\* A step of the abstract specification, or none.
AbstractSteps == [Abstract!AbsNext]_(Abstract!absVars)

\* Nothing a reader of LeasedGenerations sees changes.
Invisible ==
  /\ current' = current
  /\ \A h \in Gen : /\ gens'[h].leases = gens[h].leases
                    /\ gens'[h].retired = gens[h].retired
                    /\ gens'[h].closed = gens[h].closed

\* The initial state is the abstract one.
LEMMA InitRefines == Init => Abstract!AbsInit
    BY GenerationsAssumption
       DEF Init, Abstract!AbsInit, Abstract!Ids, PhaseOf, Gen, NewGeneration

\* A step on anything but leases, retirement and closing is a stutter.
LEMMA InvisibleStutters == Invisible => AbstractSteps
    BY DEF Invisible, AbstractSteps, Abstract!absVars, PhaseOf

\* A lease taken on a generation that is neither retired nor closed is a Grant.
LEMMA LeaseIsGrant ==
    ASSUME TypeOK, NEW g \in Gen, g <= current, ~gens[g].retired, ~gens[g].closed,
           current' = current, gens' = Leased(gens, g)
    PROVE  AbstractSteps
<1>1. \A h \in Gen : /\ gens'[h].retired = gens[h].retired
                     /\ gens'[h].closed = gens[h].closed
                     /\ gens'[h].leases = IF h = g THEN gens[h].leases + 1
                                          ELSE gens[h].leases
    BY DEF TypeOK, Leased, Generation
<1>2. PhaseOf(g) = "serving"
    BY DEF PhaseOf, TypeOK, Gen
<1>3. [h \in Gen |-> PhaseOf(h)]' = [h \in Gen |-> PhaseOf(h)]
    BY <1>1 DEF PhaseOf
<1>4. [h \in Gen |-> gens[h].leases]'
        = [[h \in Gen |-> gens[h].leases] EXCEPT ![g] = @ + 1]
    BY <1>1
<1>5. Abstract!Grant(g)
    BY <1>2, <1>3, <1>4 DEF Abstract!Grant
<1> QED
    BY <1>5 DEF AbstractSteps, Abstract!AbsNext, Abstract!Ids, Gen

\* A lease given back is a Return, or a stutter if the count is already zero.
LEMMA ReturnIsReturn ==
    ASSUME TypeOK, NEW g \in Gen, current' = current, gens' = Returned(gens, g)
    PROVE  AbstractSteps
<1>1. /\ \A h \in Gen : /\ gens'[h].retired = gens[h].retired
                        /\ gens'[h].closed = gens[h].closed
                        /\ h # g => gens'[h].leases = gens[h].leases
      /\ gens[g].leases = 0 => gens' = gens
      /\ gens[g].leases # 0 => gens'[g].leases = gens[g].leases - 1
    BY ReturnedShape, ReturnedCount DEF TypeOK, Kept
<1>2. [h \in Gen |-> PhaseOf(h)]' = [h \in Gen |-> PhaseOf(h)]
    BY <1>1 DEF PhaseOf
<1>3. CASE gens[g].leases = 0
    BY <1>1, <1>2, <1>3 DEF AbstractSteps, Abstract!absVars
<1>4. CASE gens[g].leases # 0
  <2>1. [h \in Gen |-> gens[h].leases]'
          = [[h \in Gen |-> gens[h].leases] EXCEPT ![g] = @ - 1]
    BY <1>1, <1>4
  <2>2. gens[g].leases > 0
    BY <1>4 DEF TypeOK, Generation
  <2>3. Abstract!Return(g)
    BY <1>2, <2>1, <2>2 DEF Abstract!Return
  <2> QED
    BY <2>3 DEF AbstractSteps, Abstract!AbsNext, Abstract!Ids, Gen
<1> QED
    BY <1>3, <1>4

\* Publishing a candidate is the abstract TakeOver, in one step.
LEMMA PublishIsTakeOver == ASSUME IInv, Publish PROVE AbstractSteps
<1>1. TypeOK /\ Timeline /\ LockOwners /\ CleanedUnheld
    BY DEF IInv
<1>2. ~closing /\ ~gens[current].retired
    BY <1>1 DEF Timeline, LockOwners, Publish
<1>3. /\ current' = current + 1 /\ current' \in Gen /\ current \in Gen
      /\ ~gens[current].closed
    BY <1>1, <1>2 DEF TypeOK, Gen, Publish, CleanedUnheld, NeverCleanedInUse
<1>4. /\ \A h \in Gen : /\ gens'[h].leases = gens[h].leases
                        /\ gens'[h].closed = gens[h].closed
                        /\ h # current => gens'[h].retired = gens[h].retired
      /\ gens'[current].retired
    BY <1>1, <1>3 DEF TypeOK, Generation, Publish, Cleaning
<1>5. gens[current'] = NewGeneration
    BY <1>1, <1>3 DEF Timeline, TypeOK, Gen
<1>6. [h \in Gen |-> gens[h].leases]' = [h \in Gen |-> gens[h].leases]
    BY <1>4
<1>7. PhaseOf(current) = "serving"
    BY <1>2, <1>3 DEF PhaseOf, Gen
<1>8. [h \in Gen |-> PhaseOf(h)]'
        = [[h \in Gen |-> PhaseOf(h)] EXCEPT ![current] = "retired",
                                             ![current + 1] = "serving"]
  <2> SUFFICES ASSUME NEW h \in Gen
               PROVE  PhaseOf(h)' = IF h = current + 1 THEN "serving"
                                    ELSE IF h = current THEN "retired" ELSE PhaseOf(h)
    BY <1>3 DEF Gen
  <2>1. CASE h = current
    BY <1>3, <1>4, <2>1 DEF PhaseOf, Gen
  <2>2. CASE h = current + 1
    BY <1>3, <1>4, <1>5, <2>2 DEF PhaseOf, Gen, NewGeneration
  <2>3. CASE h # current /\ h # current + 1
    <3>1. h > current' <=> h > current
      BY <1>3, <2>3 DEF Gen
    <3> QED
      BY <1>3, <1>4, <2>3, <3>1 DEF PhaseOf
  <2> QED
    BY <2>1, <2>2, <2>3
<1>9. Abstract!TakeOver(current)
    BY <1>3, <1>6, <1>7, <1>8 DEF Abstract!TakeOver, Abstract!Ids, Gen
<1> QED
    BY <1>3, <1>9 DEF AbstractSteps, Abstract!AbsNext, Abstract!Ids, Gen

\* The shutdown retires the serving generation, or finds it retired by a close()
\* that was cancelled before.
LEMMA CloseDrainsIsRetire == ASSUME IInv, CloseDrains PROVE AbstractSteps
<1>1. TypeOK /\ CleanedUnheld
    BY DEF IInv
<1>2. /\ current' = current /\ current \in Gen
      /\ \A h \in Gen : /\ gens'[h].leases = gens[h].leases
                        /\ gens'[h].closed = gens[h].closed
                        /\ h # current => gens'[h].retired = gens[h].retired
      /\ gens'[current].retired
    BY <1>1 DEF TypeOK, Generation, CloseDrains, managerVars
<1>3. CASE gens[current].retired
  <2>1. Invisible
    BY <1>1, <1>2, <1>3 DEF Invisible, TypeOK, Generation
  <2> QED
    BY <2>1, InvisibleStutters
<1>4. CASE ~gens[current].retired
  <2>1. ~gens[current].closed
    BY <1>1, <1>2, <1>4 DEF CleanedUnheld, NeverCleanedInUse
  <2>2. PhaseOf(current) = "serving"
    BY <1>2, <1>4, <2>1 DEF PhaseOf, Gen
  <2>3. [h \in Gen |-> gens[h].leases]' = [h \in Gen |-> gens[h].leases]
    BY <1>2
  <2>4. \A h \in Gen : h # current => PhaseOf(h)' = PhaseOf(h)
    BY <1>2 DEF PhaseOf
  <2>5. PhaseOf(current)' = "retired"
    BY <1>2, <2>1 DEF PhaseOf, Gen
  <2>6. [h \in Gen |-> PhaseOf(h)]'
          = [[h \in Gen |-> PhaseOf(h)] EXCEPT ![current] = "retired"]
    BY <1>2, <2>4, <2>5
  <2>7. Abstract!Retire(current)
    BY <1>2, <2>2, <2>3, <2>6 DEF Abstract!Retire
  <2> QED
    BY <1>2, <2>7 DEF AbstractSteps, Abstract!AbsNext, Abstract!Ids, Gen
<1> QED
    BY <1>3, <1>4

\* A cleanup that succeeds closes its generation: it is retired and unheld.
LEMMA CleanupIsClose ==
    ASSUME IInv, NEW g \in Gen, CleanupSucceeds(g) PROVE AbstractSteps
<1>1. TypeOK /\ CleanedUnheld /\ Timeline
    BY DEF IInv
<1>2. /\ gens[g].cleaning /\ current' = current
      /\ \A h \in Gen : /\ gens'[h].leases = gens[h].leases
                        /\ gens'[h].retired = gens[h].retired
                        /\ h # g => gens'[h].closed = gens[h].closed
      /\ gens'[g].closed
    BY <1>1 DEF TypeOK, Generation, CleanupSucceeds, managerVars
<1>3. gens[g].retired /\ gens[g].leases = 0
    BY <1>1, <1>2 DEF CleanedUnheld, NeverCleanedInUse, Drained
<1>4. g <= current
    BY <1>1, <1>2 DEF TypeOK, Gen, Timeline, NewGeneration
<1>5. [h \in Gen |-> gens[h].leases]' = [h \in Gen |-> gens[h].leases]
    BY <1>2
<1>6. CASE gens[g].closed
  <2>1. Invisible
    BY <1>1, <1>2, <1>6 DEF Invisible, TypeOK, Generation
  <2> QED
    BY <2>1, InvisibleStutters
<1>7. CASE ~gens[g].closed
  <2>1. PhaseOf(g) = "retired"
    BY <1>1, <1>3, <1>4, <1>7 DEF PhaseOf, TypeOK, Gen
  <2>2. \A h \in Gen : h # g => PhaseOf(h)' = PhaseOf(h)
    BY <1>2 DEF PhaseOf
  <2>3. PhaseOf(g)' = "closed"
    BY <1>1, <1>2, <1>4 DEF PhaseOf, TypeOK, Gen
  <2>4. [h \in Gen |-> PhaseOf(h)]'
          = [[h \in Gen |-> PhaseOf(h)] EXCEPT ![g] = "closed"]
    BY <2>2, <2>3
  <2>5. Abstract!Close(g)
    BY <1>3, <1>5, <2>1, <2>4 DEF Abstract!Close
  <2> QED
    BY <2>5 DEF AbstractSteps, Abstract!AbsNext, Abstract!Ids, Gen
<1> QED
    BY <1>6, <1>7

\* Every step of the manager is a step of LeasedGenerations or a stutter.
LEMMA StepRefines == IInv /\ [Next]_vars => AbstractSteps
<1> SUFFICES ASSUME IInv, [Next]_vars PROVE AbstractSteps
    OBVIOUS
<1>1. /\ TypeOK /\ Timeline /\ LockOwners /\ RefreshHandle /\ CleanedUnheld
      /\ current \in Gen
      /\ \A g \in Gen : gens[g].closed => gens[g].retired
    BY DEF IInv, TypeOK, CleanedUnheld, NeverCleanedInUse
<1> USE DEF managerVars
<1>2. ASSUME gens' = gens, current' = current PROVE AbstractSteps
    BY <1>2, InvisibleStutters DEF Invisible
<1>3. CASE Leases
  <2>1. ASSUME NEW r \in Requests, Acquire(r) PROVE AbstractSteps
    <3>1. ~gens[current].retired
      BY <1>1, <2>1 DEF Acquire, Timeline
    <3> QED
      BY <1>1, <2>1, <3>1, LeaseIsGrant DEF Acquire, Gen
  <2>2. ASSUME NEW r \in Requests, ReleaseLease(r) PROVE AbstractSteps
    <3>1. lease[r] \in Gen
      BY <1>1, <2>2 DEF TypeOK, ReleaseLease
    <3> QED
      BY <1>1, <2>2, <3>1, ReturnIsReturn DEF ReleaseLease
  <2> QED
    BY <1>3, <2>1, <2>2 DEF Leases
<1>4. CASE Refresh
  <2>1. CASE StartModelListRefresh
    BY <1>2, <2>1 DEF StartModelListRefresh
  <2>2. ASSUME NEW g \in Gen, RefreshBegins(g) PROVE AbstractSteps
    <3>1. g = current /\ ~gens[g].retired /\ ~gens[g].closed
      BY <1>1, <2>2 DEF RefreshBegins, RefreshHandle, NoOrphanRefresh
    <3>2. gens' = Leased(gens, g) /\ current' = current
      BY <2>2, <3>1 DEF RefreshBegins
    <3> QED
      BY <1>1, <3>1, <3>2, LeaseIsGrant DEF Gen
  <2>3. ASSUME NEW g \in Gen, RefreshEnds(g) PROVE AbstractSteps
    BY <1>1, <2>3, ReturnIsReturn DEF RefreshEnds
  <2> QED
    BY <1>4, <2>1, <2>2, <2>3 DEF Refresh
<1>5. CASE Replace
  <2>1. CASE Publish
    BY <2>1, PublishIsTakeOver
  <2>2. CASE ~Publish
    BY <1>2, <1>5, <2>2
       DEF Replace, ReplaceBegins, ReplaceRetries, ConstructionFails, CommitFails,
           CandidateCleaned, CandidateCleanupFails, CancelReplace
  <2> QED
    BY <2>1, <2>2
<1>6. CASE Fetch
  <2>1. CASE FetchBegins \/ CancelFetch
    BY <1>2, <2>1 DEF FetchBegins, CancelFetch
  <2>2. CASE FetchRuns
    <3>1. ~gens[current].retired
      BY <1>1, <2>2 DEF FetchRuns, LockOwners, Timeline
    <3> QED
      BY <1>1, <2>2, <3>1, LeaseIsGrant DEF FetchRuns, Gen
  <2>3. CASE FetchEnds
    BY <1>1, <2>3, ReturnIsReturn DEF FetchEnds
  <2> QED
    BY <1>6, <2>1, <2>2, <2>3 DEF Fetch
<1>7. CASE Shutdown
  <2>1. CASE CloseDrains
    BY <2>1, CloseDrainsIsRetire
  <2>2. CASE CloseCleans
    <3>1. Invisible
      BY <1>1, <2>2 DEF CloseCleans, Invisible, TypeOK, Generation
    <3> QED
      BY <3>1, InvisibleStutters
  <2>3. CASE ~CloseDrains /\ ~CloseCleans
    BY <1>2, <1>7, <2>3
       DEF Shutdown, CloseCalled, CloseBegins, CloseRetries, CloseEnds, CancelClose
  <2> QED
    BY <2>1, <2>2, <2>3
<1>8. CASE Cleanups
  <2>1. ASSUME NEW g \in Gen, CleanupSucceeds(g) PROVE AbstractSteps
    BY <2>1, CleanupIsClose
  <2>2. ASSUME NEW g \in Gen, CleanupFails(g) PROVE AbstractSteps
    <3>1. Invisible
      BY <1>1, <2>2 DEF CleanupFails, Invisible, TypeOK, Generation
    <3> QED
      BY <3>1, InvisibleStutters
  <2>3. CASE RetrySucceeds \/ RetryFails
    BY <1>2, <2>3 DEF RetrySucceeds, RetryFails
  <2> QED
    BY <1>8, <2>1, <2>2, <2>3 DEF Cleanups
<1>9. CASE UNCHANGED vars
    BY <1>2, <1>9 DEF vars
<1> QED
    BY <1>3, <1>4, <1>5, <1>6, <1>7, <1>8, <1>9 DEF Next, Terminated

\* The provider manager implements LeasedGenerations: one generation serves at a
\* time, leases are granted on it alone, and each generation is closed at most
\* once, after its retirement and its last return.
THEOREM Refinement == Spec => LeaseDiscipline
<1>1. IInv /\ [Next]_vars => [Abstract!AbsNext]_(Abstract!absVars)
    BY StepRefines DEF AbstractSteps
<1> QED
    BY <1>1, InitRefines, Invariance, PTL DEF Spec, LeaseDiscipline, Abstract!AbsSpec
=============================================================================
