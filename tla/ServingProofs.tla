------------------------------ MODULE ServingProofs ------------------------------
(* Proofs about what serves: that the administrator sees the truth, that responses  *)
(* keep their leases, that servers follow each other in order, that a Responses     *)
(* stream is read whole, and that it does not matter how content is cut; for any    *)
(* number of requests, generations, tests, providers, restarts, turns, mishaps,     *)
(* stream events and characters.                                                    *)
EXTENDS AdminConfig, ResponseStreams, ServerSupervisor, ResponsesAssembly,
        ThinkTags, OrderedLinesProofs, FiniteSetTheorems

-----------------------------------------------------------------------------
(* The administration *)

Applications ==
  {NotApplying, [step |-> "closing"]} \cup [step : {"waiting", "preparing"}, target : Settings]

Discoveries ==
  {NoDiscovery} \cup
  [kind : {"new", "missing", "full", "explicit"}, gen : Nat, asked : SUBSET Providers]

\* The administration's state keeps its shape: there is a generation, of settings.
AdminTypeOK ==
  /\ file \in Settings
  /\ published \in Seq(Settings) /\ Serving \in Nat \ {0}
  /\ supervised \in BOOLEAN /\ restarting \in BOOLEAN /\ reported \in BOOLEAN
  /\ applying \in Applications
  /\ discovery \in Discoveries
  /\ catalog \subseteq Providers
  /\ halfDone \in BOOLEAN /\ forgotten \in BOOLEAN

\* From its publication to its answer an update holds the config lock, so that the
\* file stays what was published.
ClosingIsInUse == applying.step = "closing" => file = published[Serving]

\* And until then it has the port that the update was compared with.
TargetsKeepPort == applying.step \in {"waiting", "preparing"} => applying.target.port = file.port

AdminInv == AdminTypeOK /\ FileIsInUse /\ CatalogInScope /\ ClosingIsInUse /\ TargetsKeepPort

\* The settings that serve are settings.
LEMMA ServingSettings ==
  ASSUME AdminTypeOK
  PROVE  /\ published[Serving] \in Settings
         /\ Available \subseteq Providers
<1>1. published \in Seq(Settings) /\ Len(published) \in Nat \ {0}
  BY DEF AdminTypeOK, Serving
<1>2. published[Len(published)] \in Settings
  BY <1>1
<1> QED
  BY <1>2 DEF Serving, Available, Settings

\* An appended generation is the one that serves.
LEMMA AppendServes ==
  ASSUME NEW s \in Seq(Settings), NEW target \in Settings
  PROVE  /\ Append(s, target) \in Seq(Settings)
         /\ Len(Append(s, target)) = Len(s) + 1
         /\ Append(s, target)[Len(s) + 1] = target
         /\ Len(s) \in Nat
OBVIOUS

\* Nothing of the shape of updates and discoveries needs more than their fields.
LEMMA Shapes ==
  ASSUME AdminTypeOK
  PROVE  /\ applying.step = "waiting" \/ applying.step = "preparing" =>
              /\ applying.target \in Settings
              /\ [applying EXCEPT !.step = "preparing"] \in Applications
         /\ discovery.kind \notin {"none"} =>
              discovery \in [kind : {"new", "missing", "full", "explicit"}, gen : Nat, asked : SUBSET Providers]
         /\ NotApplying.step # "closing" /\ NoDiscovery.kind = "none"
BY DEF AdminTypeOK, Applications, Discoveries, NotApplying, NoDiscovery

LEMMA InitHolds == AdminInit => AdminInv
<1> SUFFICES ASSUME AdminInit PROVE AdminInv
  OBVIOUS
<1>1. file \in Settings
  BY DEF AdminInit
<1>2. published = <<file>> /\ published \in Seq(Settings) /\ Serving = 1 /\ published[Serving] = file
  BY <1>1 DEF AdminInit, Serving
<1>3. discovery \in Discoveries /\ discovery.gen = Serving
  BY <1>1, <1>2 DEF AdminInit, Discoveries, Settings
<1>4. catalog \subseteq file.providers /\ catalog \subseteq Providers
  BY <1>1 DEF AdminInit, Warmed, Settings
<1>5. applying \in Applications
  BY DEF AdminInit, Applications
<1>6. AdminTypeOK
  <2>1. Serving \in Nat \ {0}
    BY <1>2
  <2>2. supervised \in BOOLEAN /\ restarting \in BOOLEAN /\ reported \in BOOLEAN /\ halfDone \in BOOLEAN
        /\ forgotten \in BOOLEAN
    BY DEF AdminInit
  <2> QED
    BY <1>1, <1>2, <1>3, <1>4, <1>5, <2>1, <2>2 DEF AdminTypeOK
<1> QED
  BY <1>2, <1>3, <1>4, <1>6
     DEF AdminInit, AdminInv, FileIsInUse, IsRun, CatalogInScope, ClosingIsInUse, TargetsKeepPort,
         Available, NotApplying

\* Steps that leave settings and updates alone: only the catalog and the discovery
\* in flight are to be looked at.
LEMMA CatalogSteps ==
  ASSUME AdminInv,
         UNCHANGED <<file, published, supervised, restarting, reported, applying, halfDone, forgotten>>,
         catalog' \subseteq Available,
         discovery' \in Discoveries,
         discovery'.kind # "none" => discovery'.gen = Serving
  PROVE  AdminInv'
<1>1. Serving' = Serving /\ Available' = Available
  BY DEF Serving, Available
<1>2. catalog' \subseteq Providers
  BY ServingSettings DEF AdminInv
<1>3. AdminTypeOK'
  BY <1>1, <1>2 DEF AdminInv, AdminTypeOK
<1> QED
  BY <1>1, <1>3 DEF AdminInv, FileIsInUse, IsRun, CatalogInScope, ClosingIsInUse, TargetsKeepPort, Available

\* Discoveries and refreshes know only models of configured providers.
LEMMA DiscoveryKeeps ==
  ASSUME AdminInv, DiscoveryBegins \/ DiscoveryEnds \/ RefreshModels \/ RefreshLeaves
  PROVE  AdminInv'
<1>0. AdminTypeOK /\ CatalogInScope /\ published[Serving] \in Settings
  BY ServingSettings DEF AdminInv
<1>1. CASE DiscoveryBegins
  <2>1. discovery' \in Discoveries /\ discovery'.gen = Serving
    BY <1>0, <1>1, Shapes DEF DiscoveryBegins, CatalogInScope, Discoveries
  <2> QED
    BY <1>0, <1>1, <2>1, CatalogSteps DEF DiscoveryBegins, CatalogInScope
<1>2. CASE DiscoveryEnds
  <2>1. catalog' \subseteq Available
    BY <1>0, <1>2 DEF DiscoveryEnds, Cached, CatalogInScope
  <2>2. discovery' \in Discoveries /\ discovery'.kind = "none"
    BY <1>2 DEF DiscoveryEnds, Discoveries, NoDiscovery
  <2> QED
    BY <1>2, <2>1, <2>2, CatalogSteps DEF DiscoveryEnds
<1>3. CASE RefreshModels
  <2>1. Listed(Serving) \subseteq Providers
    BY <1>0, <1>3 DEF RefreshModels, Listed, Settings
  <2>2. discovery' \in Discoveries /\ discovery'.gen = Serving
    BY <1>0, <1>3, <2>1 DEF RefreshModels, Begin, Discoveries, AdminTypeOK
  <2> QED
    BY <1>0, <1>3, <2>2, CatalogSteps DEF RefreshModels, CatalogInScope
<1>4. CASE RefreshLeaves
  <2>1. discovery' \in Discoveries /\ discovery'.kind = "none"
    BY <1>4 DEF RefreshLeaves, Discoveries, NoDiscovery
  <2> QED
    BY <1>0, <1>4, <2>1, CatalogSteps DEF RefreshLeaves, CatalogInScope
<1> QED
  BY <1>1, <1>2, <1>3, <1>4

\* A test may be answered by a generation that does not serve any more: what it
\* lists is kept only of a provider that still does.
LEMMA TestsKeep ==
  ASSUME AdminInv, NEW t \in Testers,
         TestCaches(t) \/ TestFails(t) \/ \E p \in Providers : TestBegins(t, p)
  PROVE  AdminInv'
<1>1. catalog' \subseteq Available
  BY DEF AdminInv, CatalogInScope, TestBegins, TestCaches, TestFails, Cached
<1>2. discovery' = discovery
  BY DEF TestBegins, TestCaches, TestFails
<1>3. UNCHANGED <<file, published, supervised, restarting, reported, applying, halfDone, forgotten>>
  BY DEF TestBegins, TestCaches, TestFails
<1> QED
  BY <1>1, <1>2, <1>3, CatalogSteps DEF AdminInv, AdminTypeOK, CatalogInScope

\* Steps that leave generations, discovery and catalog alone.
LEMMA FileSteps ==
  ASSUME AdminInv,
         UNCHANGED <<published, supervised, discovery, catalog>>,
         file' \in Settings, restarting' \in BOOLEAN, reported' \in BOOLEAN,
         halfDone' \in BOOLEAN, forgotten' \in BOOLEAN,
         applying' \in Applications, applying'.step # "closing",
         FileIsInUse', TargetsKeepPort'
  PROVE  AdminInv'
<1>1. Serving' = Serving /\ Available' = Available
  BY DEF Serving, Available
<1>2. AdminTypeOK'
  BY <1>1 DEF AdminInv, AdminTypeOK
<1> QED
  BY <1>1, <1>2 DEF AdminInv, CatalogInScope, ClosingIsInUse, TargetsKeepPort

\* A write replaces the file, after a publication or before a restart.
LEMMA WritesKeep ==
  ASSUME AdminInv, NEW target \in Settings,
         ApplyByRestart(target) \/ ApplyByReplacing(target)
  PROVE  AdminInv'
<1>0. AdminTypeOK /\ FileIsInUse
  BY DEF AdminInv
<1>1. CASE ApplyByRestart(target)
  <2>1. file' \in Settings /\ restarting' \in BOOLEAN /\ reported' \in BOOLEAN
        /\ halfDone' \in BOOLEAN /\ forgotten' \in BOOLEAN
    BY <1>0, <1>1 DEF ApplyByRestart, UpdateFails, AdminTypeOK
  <2>2. applying' = NotApplying
    BY <1>1 DEF ApplyByRestart, UpdateFails
  <2>3. FileIsInUse'
    <3>1. CASE UpdateFails(target) /\ UNCHANGED <<restarting, reported, forgotten>>
      BY <1>0, <1>1, <3>1 DEF ApplyByRestart, UpdateFails, FileIsInUse, IsRun, Serving, Available
    <3>2. CASE restarting' = supervised /\ reported' = ~supervised
      BY <1>0, <3>2 DEF FileIsInUse, IsRun, AdminTypeOK, Available
    <3> QED
      BY <1>1, <3>1, <3>2 DEF ApplyByRestart
  <2> QED
    BY <1>1, <2>1, <2>2, <2>3, FileSteps
       DEF ApplyByRestart, Applications, NotApplying, TargetsKeepPort
<1>2. CASE ApplyByReplacing(target)
  <2>1. applying' \in Applications /\ applying'.step # "closing"
    BY <1>2 DEF ApplyByReplacing, Applications
  <2>2. FileIsInUse'
    BY <1>0, <1>2 DEF ApplyByReplacing, FileIsInUse, IsRun, Serving, Available
  <2>3. TargetsKeepPort'
    BY <1>2 DEF ApplyByReplacing, NeedsRestart, TargetsKeepPort
  <2> QED
    BY <1>0, <1>2, <2>1, <2>2, <2>3, FileSteps DEF ApplyByReplacing, AdminTypeOK
<1> QED
  BY <1>1, <1>2

\* An update begins and ends with the file that is in use.
LEMMA UpdatesKeep ==
  ASSUME AdminInv, UpdateBegins \/ UpdateUnpublished \/ ApplyEnds \/ ApplyLeaves
  PROVE  AdminInv'
<1>0. AdminTypeOK /\ FileIsInUse /\ ClosingIsInUse /\ TargetsKeepPort
  BY DEF AdminInv
<1>a. NotApplying \in Applications /\ NotApplying.step = "idle"
  BY DEF NotApplying, Applications
<1>1. CASE UpdateBegins
  <2>1. applying' \in Applications /\ applying'.step = "preparing"
    BY <1>0, <1>1, Shapes DEF UpdateBegins, AdminTypeOK, Applications, NotApplying
  <2>2. discovery' \in Discoveries /\ discovery'.kind = "none"
    BY <1>1 DEF UpdateBegins, Discoveries, NoDiscovery
  <2>3. Serving' = Serving /\ Available' = Available
    BY <1>1 DEF UpdateBegins, Serving, Available
  <2>4. AdminTypeOK'
    BY <1>0, <1>1, <2>1, <2>2, <2>3 DEF UpdateBegins, AdminTypeOK
  <2> QED
    <3>1. FileIsInUse'
      BY <1>0, <1>1, <2>3 DEF UpdateBegins, FileIsInUse, IsRun
    <3>2. applying'.target = applying.target /\ applying.step = "waiting" /\ file' = file
      BY <1>0, <1>1, Shapes DEF UpdateBegins, AdminTypeOK, Applications, NotApplying
    <3>3. TargetsKeepPort'
      BY <1>0, <3>2 DEF TargetsKeepPort
    <3> QED
      BY <1>1, <2>1, <2>2, <2>3, <2>4, <3>1, <3>3
         DEF UpdateBegins, AdminInv, CatalogInScope, ClosingIsInUse
<1>2. CASE UpdateUnpublished
  <2>1. file' \in Settings /\ halfDone' \in BOOLEAN /\ forgotten' \in BOOLEAN
    BY <1>0, <1>2, Shapes DEF UpdateUnpublished, UpdateFails, AdminTypeOK
  <2>2. FileIsInUse'
    BY <1>0, <1>2 DEF UpdateUnpublished, UpdateFails, FileIsInUse, IsRun, Serving, Available
  <2> QED
    BY <1>0, <1>2, <1>a, <2>1, <2>2, FileSteps DEF UpdateUnpublished, UpdateFails, AdminTypeOK, TargetsKeepPort
<1>3. CASE ApplyEnds
  <2>1. FileIsInUse'
    BY <1>0, <1>3 DEF ApplyEnds, FileIsInUse, IsRun, ClosingIsInUse, TargetsKeepPort, Serving, Available
  <2> QED
    BY <1>0, <1>3, <1>a, <2>1, FileSteps DEF ApplyEnds, AdminTypeOK, TargetsKeepPort
<1>4. CASE ApplyLeaves
  <2>1. FileIsInUse'
    BY <1>0, <1>4 DEF ApplyLeaves, FileIsInUse, IsRun, Serving, Available
  <2> QED
    BY <1>0, <1>4, <1>a, <2>1, FileSteps DEF ApplyLeaves, AdminTypeOK, TargetsKeepPort
<1> QED
  BY <1>1, <1>2, <1>3, <1>4

\* A publication serves what was written.
LEMMA PublicationKeeps ==
  ASSUME AdminInv, PublishUpdate
  PROVE  AdminInv'
<1>0. AdminTypeOK /\ applying.target \in Settings
  BY Shapes DEF AdminInv, PublishUpdate
<1> DEFINE target == applying.target
<1>1. /\ published' \in Seq(Settings) /\ Serving' = Serving + 1
      /\ published'[Serving + 1] = target /\ Serving \in Nat
  BY <1>0, AppendServes DEF PublishUpdate, AdminTypeOK, Serving
<1>2. Available' = target.providers /\ file' = target
  BY <1>1 DEF Available, PublishUpdate
<1>3. target.providers \subseteq Providers
  BY <1>0 DEF Settings
<1>4. catalog' \subseteq target.providers
  BY DEF PublishUpdate, Pruned
<1>5. discovery' \in Discoveries /\ discovery'.gen = Serving'
  BY <1>1, <1>3 DEF PublishUpdate, Begin, Listed, Discoveries
<1>6. applying' \in Applications
  BY DEF PublishUpdate, Applications
<1>7. AdminTypeOK'
  <2>1. Serving' \in Nat \ {0}
    BY <1>1
  <2>2. supervised' \in BOOLEAN /\ restarting' \in BOOLEAN /\ reported' \in BOOLEAN
        /\ halfDone' \in BOOLEAN /\ forgotten' \in BOOLEAN
    BY <1>0 DEF PublishUpdate, AdminTypeOK
  <2>3. catalog' \subseteq Providers
    BY <1>3, <1>4
  <2> QED
    BY <1>0, <1>1, <1>2, <1>5, <1>6, <2>1, <2>2, <2>3 DEF AdminTypeOK
<1> QED
  <2>1. published'[1] = published[1]
    BY <1>0 DEF PublishUpdate, AdminTypeOK, Serving
  <2>2. target.port = file.port
    BY DEF PublishUpdate, AdminInv, TargetsKeepPort
  <2>3. FileIsInUse'
    BY <1>0, <1>2, <2>1, <2>2 DEF AdminInv, PublishUpdate, FileIsInUse, IsRun, AdminTypeOK
  <2> QED
    BY <1>1, <1>2, <1>4, <1>5, <1>7, <2>3
       DEF PublishUpdate, AdminInv, CatalogInScope, ClosingIsInUse, TargetsKeepPort

\* A restart serves the file.
LEMMA RestartKeeps ==
  ASSUME AdminInv, Restart
  PROVE  AdminInv'
<1>0. AdminTypeOK
  BY DEF AdminInv
<1>1. published' \in Seq(Settings) /\ Serving' = 1 /\ published'[1] = file /\ file' = file
  BY <1>0 DEF Restart, StartedWith, Serving, AdminTypeOK
<1>2. Available' = file.providers /\ file.providers \subseteq Providers
  BY <1>0, <1>1 DEF Available, AdminTypeOK, Settings
<1>3. catalog' \subseteq file.providers
  BY DEF Restart, Warmed
<1>4. discovery' \in Discoveries /\ discovery'.gen = 1
  BY <1>1, <1>2 DEF Restart, StartedWith, Begin, Listed, Discoveries
<1>5. applying' = NotApplying /\ restarting' = FALSE /\ reported' = FALSE /\ halfDone' = FALSE
      /\ supervised' = supervised /\ forgotten' = FALSE
  BY DEF Restart, StartedWith
<1>6. applying' \in Applications
  BY <1>5 DEF Applications
<1>7. AdminTypeOK'
  <2>1. Serving' \in Nat \ {0}
    BY <1>1
  <2>2. supervised' \in BOOLEAN /\ restarting' \in BOOLEAN /\ reported' \in BOOLEAN
        /\ halfDone' \in BOOLEAN /\ forgotten' \in BOOLEAN
    BY <1>0, <1>5 DEF AdminTypeOK
  <2>3. catalog' \subseteq Providers
    BY <1>2, <1>3
  <2> QED
    BY <1>0, <1>1, <1>4, <1>6, <2>1, <2>2, <2>3 DEF AdminTypeOK
<1> QED
  BY <1>1, <1>2, <1>3, <1>4, <1>5, <1>7
     DEF AdminInv, FileIsInUse, IsRun, CatalogInScope, ClosingIsInUse, TargetsKeepPort, NotApplying

\* Every step of the administration keeps the invariant.
LEMMA StepKeeps == AdminInv /\ [AdminNext]_adminVars => AdminInv'
<1> SUFFICES ASSUME AdminInv, [AdminNext]_adminVars PROVE AdminInv'
  OBVIOUS
<1>1. CASE DiscoveryBegins \/ DiscoveryEnds \/ RefreshModels \/ RefreshLeaves
  BY <1>1, DiscoveryKeeps
<1>2. CASE \E t \in Testers : TestCaches(t) \/ TestFails(t) \/ \E p \in Providers : TestBegins(t, p)
  BY <1>2, TestsKeep
<1>3. CASE \E target \in Settings : ApplyByRestart(target) \/ ApplyByReplacing(target)
  BY <1>3, WritesKeep
<1>4. CASE UpdateBegins \/ UpdateUnpublished \/ ApplyEnds \/ ApplyLeaves
  BY <1>4, UpdatesKeep
<1>5. CASE PublishUpdate
  BY <1>5, PublicationKeeps
<1>6. CASE Restart
  BY <1>6, RestartKeeps
<1>7. CASE UNCHANGED adminVars
  BY <1>7
     DEF adminVars, AdminInv, AdminTypeOK, FileIsInUse, IsRun, CatalogInScope, ClosingIsInUse,
         TargetsKeepPort, Serving, Available
<1> QED
  BY <1>1, <1>2, <1>3, <1>4, <1>5, <1>6, <1>7 DEF AdminNext

\* The administration's state keeps its shape for any number of generations.
THEOREM TypeCorrect == AdminSpec => []AdminTypeOK
<1>1. AdminInv => AdminTypeOK
  BY DEF AdminInv
<1> QED
  BY <1>1, InitHolds, StepKeeps, PTL DEF AdminSpec

\* What the administrator sees is so: settings that are in the file and not in use
\* are on their way, reported, or the rest of an update that failed halfway; and the
\* catalog, whoever writes it, is of the providers that serve.
THEOREM AdministratorSeesTruth == AdminSpec => []AdminSeesTruth
<1>1. AdminInv => AdminSeesTruth
  BY DEF AdminInv, AdminSeesTruth
<1> QED
  BY <1>1, InitHolds, StepKeeps, PTL DEF AdminSpec

-----------------------------------------------------------------------------
(* Responses and their leases *)

Steps == {"idle", "handling", "aggregating", "unwinding", "prefetching", "abandoning",
          "responding", "finalizing", "over"}

\* The shape of the requests' state.
ResponsesTypeOK ==
  /\ phase \in [Ids -> Phases] /\ held \in [Ids -> Nat]
  /\ step \in [Callers -> Steps]
  /\ leased \in [Callers -> Ids \cup {NoLease}]
  /\ body \in [Callers -> {"none", "open", "closing", "closed"}]
  /\ cleaner \in [Callers -> {"none", "closing", "releasing", "done"}]
  /\ cut \in [Callers -> BOOLEAN]
  /\ reply \in [Callers -> {"none", "error", "answer", "stream", "broken_stream"}]

\* Where a request is says what it holds: a lease from its admission until the lease is
\* given back, a stream that its cleaner closes before that.
WhatStepsHold ==
  \A c \in Callers :
    /\ step[c] \in {"idle", "over"} => leased[c] = NoLease
    /\ step[c] = "idle" => body[c] = "none" /\ cleaner[c] = "none"
    /\ step[c] = "over" => body[c] \in {"none", "closed"} /\ cleaner[c] \in {"none", "done"}
    /\ step[c] = "handling" => body[c] = "none"
    /\ step[c] \in {"handling", "aggregating", "unwinding", "prefetching", "responding"} =>
          leased[c] # NoLease /\ cleaner[c] = "none"
    /\ step[c] \in {"abandoning", "finalizing"} => cleaner[c] # "none"
    /\ step[c] = "abandoning" => leased[c] # NoLease /\ cleaner[c] # "releasing"
    /\ step[c] = "finalizing" /\ cleaner[c] # "done" => leased[c] # NoLease
    /\ step[c] = "finalizing" /\ cleaner[c] = "done" => leased[c] = NoLease
    /\ cleaner[c] \in {"releasing", "done"} => body[c] = "closed"

Lessees(g) == {c \in Callers : leased[c] = g}

\* held counts exactly the requests that hold a lease, and a closed generation has none.
LeasesCounted ==
  \A g \in Ids : /\ IsFiniteSet(Lessees(g)) /\ held[g] = Cardinality(Lessees(g))
                 /\ phase[g] = "closed" => held[g] = 0

ResponsesInv == ResponsesTypeOK /\ WhatStepsHold /\ LeasesCounted

\* A request that gets a lease is one lessee more.
LEMMA GrantCounted ==
  ASSUME ResponsesTypeOK, LeasesCounted, NEW c \in Callers, NEW g \in Ids,
         leased[c] = NoLease, Grant(g), leased' = [leased EXCEPT ![c] = g]
  PROVE  LeasesCounted'
<1>1. Lessees(g)' = Lessees(g) \cup {c} /\ c \notin Lessees(g)
  BY DEF Lessees, ResponsesTypeOK, Ids, NoLease
<1>2. \A h \in Ids \ {g} : Lessees(h)' = Lessees(h)
  BY DEF Lessees, ResponsesTypeOK, Ids, NoLease
<1>3. /\ IsFiniteSet(Lessees(g)')
      /\ Cardinality(Lessees(g)') = Cardinality(Lessees(g)) + 1
  BY <1>1, FS_AddElement DEF LeasesCounted
<1>4. SUFFICES ASSUME NEW h \in Ids
               PROVE  /\ IsFiniteSet(Lessees(h)') /\ held'[h] = Cardinality(Lessees(h)')
                      /\ phase'[h] = "closed" => held'[h] = 0
  BY DEF LeasesCounted
<1>5. CASE h = g
  BY <1>3, <1>5 DEF LeasesCounted, Grant, ResponsesTypeOK
<1>6. CASE h # g
  BY <1>2, <1>6 DEF LeasesCounted, Grant, ResponsesTypeOK
<1> QED
  BY <1>5, <1>6

\* A request that gives its lease back is one lessee less.
LEMMA ReturnCounted ==
  ASSUME ResponsesTypeOK, LeasesCounted, NEW c \in Callers,
         leased[c] # NoLease, GivesBack(c)
  PROVE  LeasesCounted'
<1> DEFINE own == leased[c]
<1>0. own \in Ids /\ held[own] \in Nat /\ held[own] > 0
  BY DEF ResponsesTypeOK, GivesBack, Return
<1>1. Lessees(own)' \in SUBSET Callers /\ \A d \in Callers :
          leased'[d] = IF d = c THEN NoLease ELSE leased[d]
  BY DEF Lessees, ResponsesTypeOK, GivesBack
<1> HIDE DEF own
<1>2. {d \in Callers : leased'[d] = own} = Lessees(own) \ {c} /\ c \in Lessees(own)
  BY <1>0, <1>1 DEF Lessees, Ids, NoLease, own
<1>3. \A h \in Ids \ {own} : Lessees(h)' = Lessees(h)
  BY <1>1 DEF Lessees, Ids, NoLease, own
<1>4. /\ IsFiniteSet({d \in Callers : leased'[d] = own})
      /\ Cardinality({d \in Callers : leased'[d] = own}) = Cardinality(Lessees(own)) - 1
  <2>1. IsFiniteSet(Lessees(own))
    BY <1>0 DEF LeasesCounted
  <2>2. /\ IsFiniteSet(Lessees(own) \ {c})
        /\ Cardinality(Lessees(own) \ {c}) = Cardinality(Lessees(own)) - 1
    BY <1>2, <2>1, FS_RemoveElement
  <2> QED
    BY <1>2, <2>2
<1>5. SUFFICES ASSUME NEW h \in Ids
               PROVE  /\ IsFiniteSet({d \in Callers : leased'[d] = h})
                      /\ held'[h] = Cardinality({d \in Callers : leased'[d] = h})
                      /\ phase'[h] = "closed" => held'[h] = 0
  BY DEF LeasesCounted, Lessees
<1>6. held' = [held EXCEPT ![own] = held[own] - 1] /\ phase' = phase
  BY DEF GivesBack, Return, own
<1>7. CASE h = own
  BY <1>0, <1>4, <1>6, <1>7 DEF LeasesCounted, ResponsesTypeOK
<1>8. CASE h # own
  BY <1>3, <1>6, <1>8 DEF LeasesCounted, ResponsesTypeOK, Lessees
<1> QED
  BY <1>7, <1>8

\* Nothing else moves a lease.
LEMMA LeasesKept ==
  ASSUME ResponsesTypeOK, LeasesCounted, leased' = leased, held' = held,
         phase' = phase \/ \E g \in Ids : TakeOver(g) \/ Retire(g) \/ Close(g)
  PROVE  LeasesCounted'
<1>1. \A g \in Ids : Lessees(g)' = Lessees(g)
  BY DEF Lessees
<1>2. \A g \in Ids : phase'[g] = "closed" => held[g] = 0
  BY DEF LeasesCounted, TakeOver, Retire, Close, ResponsesTypeOK
<1> QED
  BY <1>1, <1>2 DEF LeasesCounted

\* No step leaves a request with a lease it should not have, or without the one it needs.
LEMMA RequestStep ==
  ASSUME ResponsesInv, NEW c \in Callers,
         ServesRequest(c) \/ Sends(c) \/ CancelledAgain(c)
  PROVE  ResponsesInv'
<1>0. ResponsesTypeOK /\ WhatStepsHold /\ LeasesCounted
  BY DEF ResponsesInv
<1> USE DEF Goes, Replies, Ends, absVars
<1>1. ASSUME NEW g \in Ids, AcquireLease(c, g) PROVE ResponsesInv'
  <2>1. LeasesCounted'
    BY <1>0, <1>1, GrantCounted DEF AcquireLease, WhatStepsHold
  <2>2. ResponsesTypeOK'
    BY <1>0, <1>1 DEF AcquireLease, Grant, ResponsesTypeOK, Steps
  <2>3. WhatStepsHold'
    BY <1>0, <1>1 DEF AcquireLease, WhatStepsHold, ResponsesTypeOK, Ids, NoLease
  <2> QED
    BY <2>1, <2>2, <2>3 DEF ResponsesInv
<1>2. CASE AnsweredAtOnce(c) \/ Aggregated(c) \/ PrefetchAbandoned(c) \/ LeaseReturns(c)
  <2>0. leased[c] # NoLease /\ GivesBack(c)
    BY <1>0, <1>2 DEF AnsweredAtOnce, Aggregated, PrefetchAbandoned, LeaseReturns,
       WhatStepsHold, ResponsesTypeOK, Steps
  <2>1. LeasesCounted'
    BY <1>0, <2>0, ReturnCounted
  <2>2. ResponsesTypeOK'
    <3>1. phase' \in [Ids -> Phases] /\ held' \in [Ids -> Nat]
          /\ leased' \in [Callers -> Ids \cup {NoLease}]
      BY <1>0, <2>0 DEF GivesBack, Return, ResponsesTypeOK
    <3> QED
      BY <1>0, <1>2, <3>1 DEF AnsweredAtOnce, Aggregated, PrefetchAbandoned, LeaseReturns,
         ResponsesTypeOK, Steps
  <2>3. leased' = [leased EXCEPT ![c] = NoLease]
    BY <2>0 DEF GivesBack
  <2>4. WhatStepsHold'
    <3>1. CASE AnsweredAtOnce(c)
      BY <1>0, <2>3, <3>1 DEF AnsweredAtOnce, WhatStepsHold, ResponsesTypeOK
    <3>2. CASE Aggregated(c)
      BY <1>0, <2>3, <3>2 DEF Aggregated, WhatStepsHold, ResponsesTypeOK
    <3>3. CASE PrefetchAbandoned(c)
      BY <1>0, <2>3, <3>3 DEF PrefetchAbandoned, CleanupDone, WhatStepsHold, ResponsesTypeOK
    <3>4. CASE LeaseReturns(c)
      BY <1>0, <2>3, <3>4 DEF LeaseReturns, WhatStepsHold, ResponsesTypeOK, Steps
    <3> QED
      BY <1>2, <3>1, <3>2, <3>3, <3>4
  <2> QED
    BY <2>1, <2>2, <2>4 DEF ResponsesInv
<1>3. CASE \/ Refused(c) \/ OpensBody(c) \/ AggregationStops(c) \/ FirstChunkRead(c)
           \/ PrefetchStops(c) \/ BodyCloses(c) \/ SendingStops(c) \/ Finalized(c)
           \/ Sends(c) \/ CancelledAgain(c)
  <2>1. LeasesCounted'
    BY <1>0, <1>3, LeasesKept DEF Refused, OpensBody, AggregationStops, FirstChunkRead,
       PrefetchStops, BodyCloses, SendingStops, Finalized, Sends, CancelledAgain
  <2>2. ResponsesTypeOK' /\ WhatStepsHold'
    <3>1. CASE Refused(c)
      BY <1>0, <3>1 DEF Refused, ResponsesTypeOK, Steps, WhatStepsHold
    <3>2. CASE OpensBody(c)
      BY <1>0, <3>2 DEF OpensBody, ResponsesTypeOK, Steps, WhatStepsHold
    <3>3. CASE AggregationStops(c)
      BY <1>0, <3>3 DEF AggregationStops, ResponsesTypeOK, Steps, WhatStepsHold
    <3>4. CASE FirstChunkRead(c)
      BY <1>0, <3>4 DEF FirstChunkRead, ResponsesTypeOK, Steps, WhatStepsHold
    <3>5. CASE PrefetchStops(c)
      BY <1>0, <3>5 DEF PrefetchStops, StartsCleaner, ResponsesTypeOK, Steps, WhatStepsHold
    <3>6. CASE BodyCloses(c)
      BY <1>0, <3>6 DEF BodyCloses, ResponsesTypeOK, Steps, WhatStepsHold
    <3>7. CASE SendingStops(c)
      BY <1>0, <3>7 DEF SendingStops, StartsCleaner, ResponsesTypeOK, Steps, WhatStepsHold
    <3>8. CASE Finalized(c)
      BY <1>0, <3>8 DEF Finalized, CleanupDone, ResponsesTypeOK, Steps, WhatStepsHold
    <3>9. CASE Sends(c)
      BY <1>0, <3>9 DEF Sends, ResponsesTypeOK, Steps, WhatStepsHold
    <3>10. CASE CancelledAgain(c)
      BY <1>0, <3>10 DEF CancelledAgain, ResponsesTypeOK, Steps, WhatStepsHold
    <3> QED
      BY <1>3, <3>1, <3>2, <3>3, <3>4, <3>5, <3>6, <3>7, <3>8, <3>9, <3>10
  <2> QED
    BY <2>1, <2>2 DEF ResponsesInv
<1> QED
  BY <1>1, <1>2, <1>3 DEF ServesRequest

\* Initially, and at every step, the requests hold what they should.
LEMMA ResponsesInvariance == ResponsesSpec => []ResponsesInv
<1>1. ResponsesInit => ResponsesInv
  <2> SUFFICES ASSUME ResponsesInit PROVE ResponsesInv
    OBVIOUS
  <2>1. \A g \in Ids : Lessees(g) = {}
    BY DEF ResponsesInit, Lessees, Ids, NoLease
  <2>2. LeasesCounted
    BY <2>1, FS_EmptySet DEF LeasesCounted, ResponsesInit, AbsInit
  <2> QED
    BY <2>2 DEF ResponsesInit, AbsInit, ResponsesInv, ResponsesTypeOK, WhatStepsHold,
       Steps, Phases
<1>2. ResponsesInv /\ [ResponsesNext]_servingVars => ResponsesInv'
  <2> SUFFICES ASSUME ResponsesInv, [ResponsesNext]_servingVars PROVE ResponsesInv'
    OBVIOUS
  <2>1. CASE \E c \in Callers : ServesRequest(c) \/ Sends(c) \/ CancelledAgain(c)
    BY <2>1, RequestStep
  <2>2. CASE ManagerActs \/ UNCHANGED servingVars
    <3>1. /\ UNCHANGED responseVars /\ held' = held
          /\ phase' = phase \/ \E g \in Ids : TakeOver(g) \/ Retire(g) \/ Close(g)
      BY <2>2 DEF ManagerActs, servingVars, absVars, TakeOver, Retire, Close
    <3>2. LeasesCounted'
      BY <3>1, LeasesKept DEF ResponsesInv, responseVars
    <3>3. phase' \in [Ids -> Phases]
      BY <3>1 DEF ResponsesInv, ResponsesTypeOK, Phases, TakeOver, Retire, Close
    <3> QED
      BY <3>1, <3>2, <3>3 DEF ResponsesInv, ResponsesTypeOK, WhatStepsHold, responseVars
  <2> QED
    BY <2>1, <2>2 DEF ResponsesNext
<1> QED
  BY <1>1, <1>2, PTL DEF ResponsesSpec

\* A stream that is not closed belongs to a request that holds a lease on a generation
\* that is not closed, and a request that is over has given its lease back.
THEOREM LeasesOutlast == ResponsesSpec => []LeasesOutliveBodies
<1>1. ResponsesInv => LeasesOutliveBodies
  <2> SUFFICES ASSUME ResponsesInv, NEW c \in Callers
               PROVE  /\ body[c] \in {"open", "closing"} =>
                           leased[c] # NoLease /\ phase[leased[c]] # "closed"
                      /\ step[c] = "over" => leased[c] = NoLease /\ body[c] \in {"none", "closed"}
    BY DEF LeasesOutliveBodies
  <2>1. leased[c] # NoLease => phase[leased[c]] # "closed"
    <3> SUFFICES ASSUME leased[c] # NoLease, phase[leased[c]] = "closed" PROVE FALSE
      OBVIOUS
    <3>1. leased[c] \in Ids /\ c \in Lessees(leased[c])
      BY DEF ResponsesInv, ResponsesTypeOK, Lessees
    <3>2. IsFiniteSet(Lessees(leased[c])) /\ Cardinality(Lessees(leased[c])) = 0
      BY <3>1 DEF ResponsesInv, LeasesCounted
    <3> QED
      BY <3>1, <3>2, FS_EmptySet
  <2> QED
    BY <2>1 DEF ResponsesInv, WhatStepsHold, ResponsesTypeOK, Steps
<1> QED
  BY <1>1, ResponsesInvariance, PTL

-----------------------------------------------------------------------------
(* The server process and the runtime it runs *)

Boots == {"warming", "connecting", "repairing", "started", "undoing", "failing", "failed",
          "stopping", "stopped", "gone"}
Workers == {"dead", "entering", "testing", "noting", "building", "running", "serving",
            "leaving", "killing"}

\* The shape of the runtime's and the supervisor's state.
LifeTypeOK ==
  /\ boot \in Boots
  /\ gate \in {"none", "quiesce", "drain", "stop_cli", "delivery", "transcriber", "providers"}
  /\ owned \subseteq Owners
  /\ part \in [Parts -> {"none", "open", "closed"}]
  /\ turns \in Nat /\ mishaps \in Nat
  /\ isClosed \in BOOLEAN

ServerTypeOK ==
  /\ LifeTypeOK
  /\ scheduled \in BOOLEAN /\ running \in BOOLEAN /\ stopWanted \in BOOLEAN
  /\ wanted \in Nat /\ noted \in Nat
  /\ installed \in BOOLEAN /\ exit \in BOOLEAN
  /\ worker \in Workers /\ tray \in {"starting", "idle", "asking"}

\* The gates are passed in order: whoever waits at one has closed what is behind the
\* earlier ones, the ingress first.
GatesInOrder ==
  gate # "none" =>
    /\ boot \in {"undoing", "failing", "stopping"}
    /\ gate # "quiesce" => part["ingress"] # "open"
    /\ gate \notin {"quiesce", "drain"} => "workflow" \notin owned
    /\ gate \notin {"quiesce", "drain", "stop_cli"} => "cli" \notin owned
    /\ gate \in {"transcriber", "providers"} => "runtime" \notin owned
    /\ gate = "providers" => "transcriber" \notin owned

\* Messages come in only on a runtime that owns all that a turn needs, and so do those
\* that are still in flight.
IngressIsBacked ==
  turns > 0 \/ part["ingress"] = "open" =>
    /\ {"runtime", "cli", "workflow", "providers"} \subseteq owned
    /\ \A p \in Parts \ {"ingress"} : part[p] # "closed"

\* What start() has made by each of its steps.
StartOwns ==
  /\ boot \in {"warming", "connecting", "repairing"} =>
       /\ "providers" \in owned
       /\ \A p \in Parts : part[p] # "closed"
  /\ boot \in {"connecting", "repairing"} => {"runtime", "cli", "workflow"} \subseteq owned

\* What has no owner any more is closed, and a runtime that says it is closed is over
\* and owns nothing.
NothingDropped ==
  /\ \A o \in Owners \ owned : \A p \in PartsOf(o) : part[p] \in {"none", "closed"}
  /\ isClosed => owned = {} /\ boot \in {"failed", "stopped", "gone"}

LifeInv == LifeTypeOK /\ GatesInOrder /\ IngressIsBacked /\ StartOwns /\ NothingDropped

\* The supervisor: a run is reserved only between the start of its thread and its first
\* step, a server is installed only while the worker is in it, and outside of it the
\* runtime stands still.
WorkerInOrder ==
  /\ scheduled => worker = "entering"
  /\ installed <=> worker \in {"running", "serving"}
  /\ worker \in {"dead", "entering"} => boot \in {"warming", "gone"}
  /\ worker \notin {"running", "serving"} => gate = "none"

ServerInv == ServerTypeOK /\ LifeInv /\ WorkerInOrder /\ ServersFollowRequests

\* The first of the gates that are left.
LEMMA FirstIsLeast ==
  ASSUME NEW is \in SUBSET (1 .. 6), is # {}
  PROVE  First(is) \in is /\ \A j \in is : First(is) =< j
<1>1. \E i \in is : \A j \in is : i =< j
  <2>0. \A i \in is : i \in {1, 2, 3, 4, 5, 6}
    OBVIOUS
  <2>1. CASE 1 \in is
    BY <2>1
  <2>2. CASE 1 \notin is /\ 2 \in is
    BY <2>2
  <2>3. CASE is \cap {1, 2} = {} /\ 3 \in is
    BY <2>3
  <2>4. CASE is \cap {1, 2, 3} = {} /\ 4 \in is
    BY <2>4
  <2>5. CASE is \cap {1, 2, 3, 4} = {} /\ 5 \in is
    BY <2>5
  <2>6. CASE is \cap {1, 2, 3, 4, 5} = {} /\ 6 \in is
    BY <2>6
  <2> QED
    BY <2>0, <2>1, <2>2, <2>3, <2>4, <2>5, <2>6
<1> QED
  BY <1>1 DEF First

\* Each gate has its number.
LEMMA GateNumbers ==
  /\ NumberOf("quiesce") = 1 /\ NumberOf("drain") = 2 /\ NumberOf("stop_cli") = 3
  /\ NumberOf("delivery") = 4 /\ NumberOf("transcriber") = 5 /\ NumberOf("providers") = 6
<1>1. /\ Gates[1] = "quiesce" /\ Gates[2] = "drain" /\ Gates[3] = "stop_cli"
      /\ Gates[4] = "delivery" /\ Gates[5] = "transcriber" /\ Gates[6] = "providers"
  BY DEF Gates
<1>2. \A i \in 1 .. 6 : i \in {1, 2, 3, 4, 5, 6}
  OBVIOUS
<1>3. ASSUME NEW k \in 1 .. 6 PROVE NumberOf(Gates[k]) = k
  <2>1. \A i \in 1 .. 6 : Gates[i] = Gates[k] => i = k
    BY <1>1, <1>2
  <2>2. (CHOOSE i \in 1 .. 6 : Gates[i] = Gates[k]) = k
    BY <2>1
  <2> QED
    BY <2>2 DEF NumberOf
<1> QED
  BY <1>1, <1>3

\* A sweep goes on to the next gate that has something behind it, or has an answer.
LEMMA NextGate ==
  ASSUME boot \in {"undoing", "failing", "stopping"}, NEW i \in 0 .. 6, NEW refs \in SUBSET Owners,
         GoesOn(i, refs)
  PROVE  \/ /\ Answered(TRUE)
            /\ boot # "undoing" => \A j \in 1 .. 6 : j > i => ~Applies(Gates[j], refs)
         \/ \E k \in 1 .. 6 :
              /\ k > i /\ gate' = Gates[k] /\ UNCHANGED <<boot, isClosed>>
              /\ Applies(Gates[k], refs)
              /\ \A j \in 1 .. 6 : i < j /\ j < k => ~Applies(Gates[j], refs)
<1>1. GatesAfter(i, refs) \in SUBSET (1 .. 6)
  BY DEF GatesAfter, Swept
<1>2. CASE GatesAfter(i, refs) = {}
  <2>1. Answered(TRUE)
    BY <1>2 DEF GoesOn
  <2>2. boot # "undoing" => \A j \in 1 .. 6 : j > i => ~Applies(Gates[j], refs)
    BY <1>2 DEF GatesAfter, Swept
  <2> QED
    BY <2>1, <2>2
<1>3. CASE GatesAfter(i, refs) # {}
  <2> DEFINE k == First(GatesAfter(i, refs))
  <2>1. k \in GatesAfter(i, refs) /\ \A j \in GatesAfter(i, refs) : k =< j
    BY <1>1, <1>3, FirstIsLeast
  <2>2. gate' = Gates[k] /\ UNCHANGED <<boot, isClosed>>
    BY <1>3 DEF GoesOn
  <2> HIDE DEF k
  <2>3. k \in 1 .. 6 /\ k > i /\ Applies(Gates[k], refs)
    BY <1>1, <2>1 DEF GatesAfter
  <2>4. \A j \in 1 .. 6 : i < j /\ j < k => ~Applies(Gates[j], refs)
    BY <2>1, <2>3 DEF GatesAfter, Swept
  <2> QED
    BY <2>2, <2>3, <2>4
<1> QED
  BY <1>2, <1>3

\* What is behind each gate.
LEMMA GateApplies ==
  ASSUME NEW refs
  PROVE  /\ Applies("quiesce", refs) <=> "runtime" \in refs
         /\ Applies("drain", refs) <=> "workflow" \in refs
         /\ Applies("stop_cli", refs) <=> "cli" \in refs /\ "workflow" \notin refs
         /\ Applies("delivery", refs) <=> "runtime" \in refs
         /\ Applies("transcriber", refs) <=> "transcriber" \in refs
         /\ Applies("providers", refs) <=> "providers" \in refs
BY DEF Applies

\* A sweep that has passed i gates comes to the next, or ends; it closes the runtime
\* only when nothing is left.
LEMMA SweepGoesOn ==
  ASSUME boot \in {"undoing", "failing", "stopping"}, isClosed \in BOOLEAN, ~isClosed,
         NEW i \in 0 .. 6,
         owned' \subseteq Owners, GoesOn(i, owned'),
         i >= 1 \/ "runtime" \notin owned' => part'["ingress"] # "open",
         i >= 2 => "workflow" \notin owned',
         i >= 3 => "cli" \notin owned',
         i >= 4 => "runtime" \notin owned',
         i >= 5 => "transcriber" \notin owned',
         i >= 6 => "providers" \notin owned'
  PROVE  /\ GatesInOrder'
         /\ gate' \in {"none", "quiesce", "drain", "stop_cli", "delivery", "transcriber",
                       "providers"}
         /\ boot' \in {"undoing", "failing", "stopping", "started", "failed", "stopped"}
         /\ isClosed' \in BOOLEAN
         /\ isClosed' => owned' = {} /\ boot' \in {"failed", "stopped"}
<1>1. /\ Gates[1] = "quiesce" /\ Gates[2] = "drain" /\ Gates[3] = "stop_cli"
      /\ Gates[4] = "delivery" /\ Gates[5] = "transcriber" /\ Gates[6] = "providers"
  BY DEF Gates
<1>2. CASE /\ Answered(TRUE)
           /\ boot # "undoing" => \A j \in 1 .. 6 : j > i => ~Applies(Gates[j], owned')
  <2>1. /\ gate' = "none" /\ isClosed' = (boot # "undoing")
        /\ boot' = CASE boot = "undoing" -> "started"
                     [] boot = "failing" -> "failed"
                     [] boot = "stopping" -> "stopped"
    BY <1>2 DEF Answered
  <2>2. boot # "undoing" => owned' = {}
    <3> SUFFICES ASSUME boot # "undoing" PROVE owned' = {}
      OBVIOUS
    <3>1. \A j \in {1, 2, 3, 4, 5, 6} : j > i => ~Applies(Gates[j], owned')
      BY <1>2
    <3>2. "runtime" \notin owned' /\ "workflow" \notin owned'
      BY <1>1, <3>1, GateApplies
    <3>3. "cli" \notin owned' /\ "transcriber" \notin owned' /\ "providers" \notin owned'
      BY <1>1, <3>1, <3>2, GateApplies
    <3> QED
      BY <3>2, <3>3 DEF Owners
  <2> QED
    BY <2>1, <2>2 DEF GatesInOrder
<1>3. ASSUME NEW k \in 1 .. 6, k > i, gate' = Gates[k], UNCHANGED <<boot, isClosed>>,
             \A j \in 1 .. 6 : i < j /\ j < k => ~Applies(Gates[j], owned')
      PROVE  /\ GatesInOrder'
             /\ gate' \in {"quiesce", "drain", "stop_cli", "delivery", "transcriber",
                           "providers"}
  <2>0. \A j \in {1, 2, 3, 4, 5, 6} : i < j /\ j < k => ~Applies(Gates[j], owned')
    BY <1>3
  <2>1. /\ k > 1 => part'["ingress"] # "open"
        /\ k > 2 => "workflow" \notin owned'
    BY <1>1, <2>0, GateApplies
  <2>2. /\ k > 3 => "cli" \notin owned'
        /\ k > 4 => "runtime" \notin owned'
        /\ k > 5 => "transcriber" \notin owned'
    BY <1>1, <2>0, <2>1, GateApplies
  <2>3. k \in {1, 2, 3, 4, 5, 6}
    OBVIOUS
  <2> QED
    BY <1>1, <1>3, <2>1, <2>2, <2>3 DEF GatesInOrder
<1>4. CASE \E k \in 1 .. 6 :
             /\ k > i /\ gate' = Gates[k] /\ UNCHANGED <<boot, isClosed>>
             /\ Applies(Gates[k], owned')
             /\ \A j \in 1 .. 6 : i < j /\ j < k => ~Applies(Gates[j], owned')
  <2>1. PICK k \in 1 .. 6 :
             /\ k > i /\ gate' = Gates[k] /\ UNCHANGED <<boot, isClosed>>
             /\ \A j \in 1 .. 6 : i < j /\ j < k => ~Applies(Gates[j], owned')
    BY <1>4
  <2>2. /\ GatesInOrder'
        /\ gate' \in {"quiesce", "drain", "stop_cli", "delivery", "transcriber",
                      "providers"}
    BY <1>3, <2>1
  <2> QED
    BY <2>1, <2>2
<1>5. owned' \in SUBSET Owners
  OBVIOUS
<1> QED
  BY <1>2, <1>4, <1>5, NextGate

\* The sweep of the gates keeps the life cycle's invariant, whichever gate opens or fails.
LEMMA SweepKeeps ==
  ASSUME LifeInv, SweepBegins \/ GateOpens \/ GateFails
  PROVE  LifeInv'
<1>0. LifeTypeOK /\ GatesInOrder /\ IngressIsBacked /\ StartOwns /\ NothingDropped
  BY DEF LifeInv
<1>1. CASE SweepBegins
  <2>1. /\ boot \in {"undoing", "failing", "stopping"} /\ isClosed \in BOOLEAN /\ ~isClosed
        /\ GoesOn(0, owned') /\ owned' = owned /\ part' = part /\ turns' = turns
        /\ mishaps' = mishaps
    BY <1>0, <1>1 DEF SweepBegins, NothingDropped, LifeTypeOK
  <2>2. "runtime" \notin owned => part["ingress"] # "open"
    BY <1>0 DEF NothingDropped, Owners, PartsOf
  <2>3. /\ GatesInOrder' /\ boot' \in Boots \ {"warming", "connecting", "repairing"}
        /\ LifeTypeOK'
        /\ isClosed' => owned' = {} /\ boot' \in {"failed", "stopped"}
    BY <1>0, <2>1, <2>2, SweepGoesOn DEF LifeTypeOK, Boots
  <2> QED
    BY <1>0, <2>1, <2>3 DEF LifeInv, IngressIsBacked, StartOwns, NothingDropped
<1>2. CASE GateOpens
  <2>1. /\ boot \in {"undoing", "failing", "stopping"} /\ isClosed \in BOOLEAN /\ ~isClosed /\ gate # "none"
        /\ part' = Becomes(Behind(gate).parts, "closed") /\ owned' = owned \ Behind(gate).refs
        /\ GoesOn(NumberOf(gate), owned') /\ turns' = turns /\ mishaps' = mishaps
        /\ gate = "drain" => turns = 0
    BY <1>0, <1>2 DEF GateOpens, GatesInOrder, NothingDropped, LifeTypeOK
  <2>2. /\ GatesInOrder' /\ LifeTypeOK'
        /\ boot' \in Boots \ {"warming", "connecting", "repairing"}
        /\ isClosed' => owned' = {} /\ boot' \in {"failed", "stopped"}
        /\ IngressIsBacked'
        /\ \A o \in Owners \ owned' : \A p \in PartsOf(o) : part'[p] \in {"none", "closed"}
    <3>1. CASE gate = "quiesce"
      <4>1. /\ part' = Becomes({"ingress"}, "closed") /\ owned' = owned \ {}
            /\ GoesOn(1, owned')
        BY <2>1, <3>1, GateNumbers DEF Behind
      <4>2. /\ part' \in [Parts -> {"none", "open", "closed"}]
            /\ \A q \in Parts : part'[q] = IF q \in {"ingress"} THEN "closed" ELSE part[q]
        BY <1>0, <4>1 DEF Becomes, LifeTypeOK
      <4>3. part'["ingress"] # "open"
        BY <1>0, <3>1, <4>2 DEF GatesInOrder, Parts
      <4>4. /\ GatesInOrder' /\ LifeTypeOK'
            /\ boot' \in Boots \ {"warming", "connecting", "repairing"}
            /\ isClosed' => owned' = {} /\ boot' \in {"failed", "stopped"}
        BY <1>0, <2>1, <3>1, <4>1, <4>2, <4>3, SweepGoesOn DEF GatesInOrder, LifeTypeOK, Boots
      <4>5. IngressIsBacked'
        BY <1>0, <2>1, <4>1, <4>2, <4>3 DEF IngressIsBacked
      <4>6. \A o \in Owners \ owned' : \A q \in PartsOf(o) : part'[q] \in {"none", "closed"}
        BY <1>0, <4>1, <4>2, <4>3 DEF NothingDropped, PartsOf, Owners, Parts, LifeTypeOK
      <4> QED
        BY <4>3, <4>4, <4>5, <4>6 DEF IngressIsBacked
    <3>2. CASE gate = "drain"
      <4>1. /\ part' = Becomes({"workflow", "cli"}, "closed") /\ owned' = owned \ {"workflow", "cli"}
            /\ GoesOn(2, owned')
        BY <2>1, <3>2, GateNumbers DEF Behind
      <4>2. /\ part' \in [Parts -> {"none", "open", "closed"}]
            /\ \A q \in Parts : part'[q] = IF q \in {"workflow", "cli"} THEN "closed" ELSE part[q]
        BY <1>0, <4>1 DEF Becomes, LifeTypeOK
      <4>3. part'["ingress"] # "open"
        BY <1>0, <3>2, <4>2 DEF GatesInOrder, Parts
      <4>4. /\ GatesInOrder' /\ LifeTypeOK'
            /\ boot' \in Boots \ {"warming", "connecting", "repairing"}
            /\ isClosed' => owned' = {} /\ boot' \in {"failed", "stopped"}
        BY <1>0, <2>1, <3>2, <4>1, <4>2, <4>3, SweepGoesOn DEF GatesInOrder, LifeTypeOK, Boots
      <4>5. turns' = 0
        BY <1>0, <2>1, <3>2 DEF GatesInOrder, IngressIsBacked, LifeTypeOK
      <4>6. \A o \in Owners \ owned' : \A q \in PartsOf(o) : part'[q] \in {"none", "closed"}
        BY <1>0, <4>1, <4>2, <4>3 DEF NothingDropped, PartsOf, Owners, Parts, LifeTypeOK
      <4> QED
        BY <4>3, <4>4, <4>5, <4>6 DEF IngressIsBacked
    <3>3. CASE gate = "stop_cli"
      <4>1. /\ part' = Becomes({"cli"}, "closed") /\ owned' = owned \ {"cli"}
            /\ GoesOn(3, owned')
        BY <2>1, <3>3, GateNumbers DEF Behind
      <4>2. /\ part' \in [Parts -> {"none", "open", "closed"}]
            /\ \A q \in Parts : part'[q] = IF q \in {"cli"} THEN "closed" ELSE part[q]
        BY <1>0, <4>1 DEF Becomes, LifeTypeOK
      <4>3. part'["ingress"] # "open"
        BY <1>0, <3>3, <4>2 DEF GatesInOrder, Parts
      <4>4. /\ GatesInOrder' /\ LifeTypeOK'
            /\ boot' \in Boots \ {"warming", "connecting", "repairing"}
            /\ isClosed' => owned' = {} /\ boot' \in {"failed", "stopped"}
        BY <1>0, <2>1, <3>3, <4>1, <4>2, <4>3, SweepGoesOn DEF GatesInOrder, LifeTypeOK, Boots
      <4>5. turns' = 0
        BY <1>0, <2>1, <3>3 DEF GatesInOrder, IngressIsBacked, LifeTypeOK
      <4>6. \A o \in Owners \ owned' : \A q \in PartsOf(o) : part'[q] \in {"none", "closed"}
        BY <1>0, <4>1, <4>2, <4>3 DEF NothingDropped, PartsOf, Owners, Parts, LifeTypeOK
      <4> QED
        BY <4>3, <4>4, <4>5, <4>6 DEF IngressIsBacked
    <3>4. CASE gate = "delivery"
      <4>1. /\ part' = Becomes({"delivery"}, "closed") /\ owned' = owned \ {"runtime"}
            /\ GoesOn(4, owned')
        BY <2>1, <3>4, GateNumbers DEF Behind
      <4>2. /\ part' \in [Parts -> {"none", "open", "closed"}]
            /\ \A q \in Parts : part'[q] = IF q \in {"delivery"} THEN "closed" ELSE part[q]
        BY <1>0, <4>1 DEF Becomes, LifeTypeOK
      <4>3. part'["ingress"] # "open"
        BY <1>0, <3>4, <4>2 DEF GatesInOrder, Parts
      <4>4. /\ GatesInOrder' /\ LifeTypeOK'
            /\ boot' \in Boots \ {"warming", "connecting", "repairing"}
            /\ isClosed' => owned' = {} /\ boot' \in {"failed", "stopped"}
        BY <1>0, <2>1, <3>4, <4>1, <4>2, <4>3, SweepGoesOn DEF GatesInOrder, LifeTypeOK, Boots
      <4>5. turns' = 0
        BY <1>0, <2>1, <3>4 DEF GatesInOrder, IngressIsBacked, LifeTypeOK
      <4>6. \A o \in Owners \ owned' : \A q \in PartsOf(o) : part'[q] \in {"none", "closed"}
        BY <1>0, <4>1, <4>2, <4>3 DEF NothingDropped, PartsOf, Owners, Parts, LifeTypeOK
      <4> QED
        BY <4>3, <4>4, <4>5, <4>6 DEF IngressIsBacked
    <3>5. CASE gate = "transcriber"
      <4>1. /\ part' = Becomes({"transcriber"}, "closed") /\ owned' = owned \ {"transcriber"}
            /\ GoesOn(5, owned')
        BY <2>1, <3>5, GateNumbers DEF Behind
      <4>2. /\ part' \in [Parts -> {"none", "open", "closed"}]
            /\ \A q \in Parts : part'[q] = IF q \in {"transcriber"} THEN "closed" ELSE part[q]
        BY <1>0, <4>1 DEF Becomes, LifeTypeOK
      <4>3. part'["ingress"] # "open"
        BY <1>0, <3>5, <4>2 DEF GatesInOrder, Parts
      <4>4. /\ GatesInOrder' /\ LifeTypeOK'
            /\ boot' \in Boots \ {"warming", "connecting", "repairing"}
            /\ isClosed' => owned' = {} /\ boot' \in {"failed", "stopped"}
        BY <1>0, <2>1, <3>5, <4>1, <4>2, <4>3, SweepGoesOn DEF GatesInOrder, LifeTypeOK, Boots
      <4>5. turns' = 0
        BY <1>0, <2>1, <3>5 DEF GatesInOrder, IngressIsBacked, LifeTypeOK
      <4>6. \A o \in Owners \ owned' : \A q \in PartsOf(o) : part'[q] \in {"none", "closed"}
        BY <1>0, <4>1, <4>2, <4>3 DEF NothingDropped, PartsOf, Owners, Parts, LifeTypeOK
      <4> QED
        BY <4>3, <4>4, <4>5, <4>6 DEF IngressIsBacked
    <3>6. CASE gate = "providers"
      <4>1. /\ part' = Becomes({"providers"}, "closed") /\ owned' = owned \ {"providers"}
            /\ GoesOn(6, owned')
        BY <2>1, <3>6, GateNumbers DEF Behind
      <4>2. /\ part' \in [Parts -> {"none", "open", "closed"}]
            /\ \A q \in Parts : part'[q] = IF q \in {"providers"} THEN "closed" ELSE part[q]
        BY <1>0, <4>1 DEF Becomes, LifeTypeOK
      <4>3. part'["ingress"] # "open"
        BY <1>0, <3>6, <4>2 DEF GatesInOrder, Parts
      <4>4. /\ GatesInOrder' /\ LifeTypeOK'
            /\ boot' \in Boots \ {"warming", "connecting", "repairing"}
            /\ isClosed' => owned' = {} /\ boot' \in {"failed", "stopped"}
        BY <1>0, <2>1, <3>6, <4>1, <4>2, <4>3, SweepGoesOn DEF GatesInOrder, LifeTypeOK, Boots
      <4>5. turns' = 0
        BY <1>0, <2>1, <3>6 DEF GatesInOrder, IngressIsBacked, LifeTypeOK
      <4>6. \A o \in Owners \ owned' : \A q \in PartsOf(o) : part'[q] \in {"none", "closed"}
        BY <1>0, <4>1, <4>2, <4>3 DEF NothingDropped, PartsOf, Owners, Parts, LifeTypeOK
      <4> QED
        BY <4>3, <4>4, <4>5, <4>6 DEF IngressIsBacked
    <3> QED
      BY <1>0, <2>1, <3>1, <3>2, <3>3, <3>4, <3>5, <3>6 DEF LifeTypeOK
  <2> QED
    BY <2>1, <2>2 DEF LifeInv, StartOwns, NothingDropped
<1>3. CASE GateFails
  <2>1. /\ boot \in {"undoing", "failing", "stopping"} /\ isClosed \in BOOLEAN /\ ~isClosed /\ gate # "none"
        /\ part' \in {part, Becomes(Behind(gate).parts \ {"workflow", "cli"}, "closed")}
        /\ owned' = owned /\ turns' = turns /\ mishaps' = mishaps + 1
        /\ gate' = "none" /\ boot' \in {"failing", "failed", "stopped"} /\ isClosed' = FALSE
    BY <1>0, <1>3 DEF GateFails, Fault, Answered, GatesInOrder, NothingDropped, LifeTypeOK
  <2>2. /\ part' \in [Parts -> {"none", "open", "closed"}]
        /\ \A q \in Parts : part'[q] \in {part[q], "closed"}
        /\ gate \in {"quiesce", "drain", "stop_cli"} =>
              \A q \in Parts \ {"ingress"} : part'[q] = part[q]
    BY <1>0, <2>1 DEF Becomes, Behind, LifeTypeOK
  <2>3. IngressIsBacked'
    <3>1. CASE gate \in {"quiesce", "drain", "stop_cli"}
      BY <1>0, <2>1, <2>2, <3>1 DEF IngressIsBacked, Parts
    <3>2. CASE gate \notin {"quiesce", "drain", "stop_cli"}
      BY <1>0, <2>1, <2>2, <3>2 DEF IngressIsBacked, GatesInOrder, LifeTypeOK, Parts
    <3> QED
      BY <3>1, <3>2
  <2>4. GatesInOrder' /\ StartOwns'
    BY <2>1 DEF GatesInOrder, StartOwns
  <2>6. LifeTypeOK'
    <3>1. boot' \in Boots /\ turns' \in Nat /\ mishaps' \in Nat
      BY <1>0, <2>1 DEF LifeTypeOK, Boots
    <3>2. isClosed' \in BOOLEAN
      BY <2>1
    <3> QED
      BY <1>0, <2>1, <2>2, <3>1, <3>2 DEF LifeTypeOK
  <2>5. NothingDropped'
    BY <1>0, <2>1, <2>2 DEF NothingDropped, PartsOf, Owners, Parts
  <2> QED
    BY <2>3, <2>4, <2>5, <2>6 DEF LifeInv
<1> QED
  BY <1>1, <1>2, <1>3

\* Starting, the failures of starting, and the turns keep it too.
LEMMA LifeKeeps ==
  ASSUME LifeInv, Starts \/ StartFails \/ MessagingFails \/ ShutdownBegins \/ TurnBegins \/ TurnEnds
  PROVE  LifeInv'
<1>0. LifeTypeOK /\ GatesInOrder /\ IngressIsBacked /\ StartOwns /\ NothingDropped
  BY DEF LifeInv
<1>1. CASE ComposesMessaging
  <2>1. CASE boot' = "started" /\ UNCHANGED <<owned, part>>
    BY <1>0, <1>1, <2>1 DEF ComposesMessaging, LifeInv, LifeTypeOK, GatesInOrder,
       IngressIsBacked, StartOwns, NothingDropped, Boots
  <2>2. CASE ~(boot' = "started" /\ UNCHANGED <<owned, part>>)
    <3>1. PICK n \in 0 .. 3 :
            /\ owned' = owned \cup {Built[i] : i \in 1 .. n}
            /\ part' = Becomes((UNION {PartsOf(o) : o \in {Built[i] : i \in 1 .. n}}) \ {"ingress"}, "open")
            /\ boot' \in {"undoing"} \cup (IF n = 3 THEN {"connecting"} ELSE {})
      BY <1>1, <2>2 DEF ComposesMessaging
    <3> DEFINE made == {Built[i] : i \in 1 .. n}
    <3>2. made \subseteq Owners /\ (n = 3 => made = {"runtime", "cli", "workflow"})
      <4>1. Built[1] = "runtime" /\ Built[2] = "cli" /\ Built[3] = "workflow"
        BY DEF Built
      <4>2. \A i \in 1 .. n : i \in {1, 2, 3}
        OBVIOUS
      <4>3. n = 3 => 1 \in 1 .. n /\ 2 \in 1 .. n /\ 3 \in 1 .. n
        OBVIOUS
      <4> QED
        BY <4>1, <4>2, <4>3 DEF Owners
    <3> HIDE DEF made
    <3>3. /\ owned' = owned \cup made
          /\ boot' \in {"undoing", "connecting"} /\ (boot' = "connecting" => n = 3)
      BY <3>1 DEF made
    <3>4. /\ part' \in [Parts -> {"none", "open", "closed"}]
          /\ \A q \in Parts : part'[q] \in {part[q], "open"}
          /\ part'["ingress"] = part["ingress"]
          /\ \A q \in Parts : (\A o \in made : q \notin PartsOf(o)) => part'[q] = part[q]
      <4>1. \A q \in Parts : part'[q] = IF q \in (UNION {PartsOf(o) : o \in made}) \ {"ingress"}
                                         THEN "open" ELSE part[q]
        BY <3>1 DEF Becomes, made
      <4>2. part' = [q \in Parts |-> part'[q]]
        BY <3>1, <4>1 DEF Becomes
      <4>5. \A q \in Parts : q \in UNION {PartsOf(o) : o \in made} => \E o \in made : q \in PartsOf(o)
        OBVIOUS
      <4>3. "ingress" \in Parts
        BY DEF Parts
      <4>4. \A q \in Parts : part[q] \in {"none", "open", "closed"}
        BY <1>0 DEF LifeTypeOK
      <4> QED
        <5>1. \A q \in Parts : part'[q] \in {part[q], "open"}
          BY <4>1
        <5>2. part' \in [Parts -> {"none", "open", "closed"}]
          BY <4>2, <4>4, <5>1
        <5>3. part'["ingress"] = part["ingress"]
          <6>1. "ingress" \notin (UNION {PartsOf(o) : o \in made}) \ {"ingress"}
            OBVIOUS
          <6> DEFINE fresh == (UNION {PartsOf(o) : o \in made}) \ {"ingress"}
          <6>2. "ingress" \notin fresh /\ \A q \in Parts : part'[q] = IF q \in fresh THEN "open" ELSE part[q]
            BY <4>1, <6>1
          <6> HIDE DEF fresh
          <6> QED
            BY <4>3, <6>2
        <5>4. \A q \in Parts : (\A o \in made : q \notin PartsOf(o)) => part'[q] = part[q]
          BY <4>1, <4>5
        <5> QED
          BY <5>1, <5>2, <5>3, <5>4
    <3>5. /\ boot = "warming" /\ gate' = gate /\ turns' = turns /\ isClosed' = isClosed
          /\ mishaps' = mishaps
      BY <1>1 DEF ComposesMessaging
    <3>6. LifeTypeOK' /\ GatesInOrder' /\ IngressIsBacked' /\ StartOwns'
      BY <1>0, <3>2, <3>3, <3>4, <3>5 DEF LifeTypeOK, GatesInOrder, IngressIsBacked, StartOwns, Boots, Parts
    <3>7. NothingDropped'
      <4>1. \A o \in Owners \ owned' : \A q \in PartsOf(o) :
               /\ q \in Parts /\ part[q] \in {"none", "closed"}
               /\ \A m \in made : q \notin PartsOf(m)
        BY <1>0, <3>2, <3>3 DEF NothingDropped, PartsOf, Owners, Parts
      <4>2. \A o \in Owners \ owned' : \A q \in PartsOf(o) : part'[q] \in {"none", "closed"}
        BY <3>4, <4>1
      <4> QED
        BY <1>0, <3>5, <4>2 DEF NothingDropped
    <3> QED
      BY <3>6, <3>7 DEF LifeInv
  <2> QED
    BY <2>1, <2>2
<1>2. CASE IngressOpens
  <2>1. /\ part' \in [Parts -> {"none", "open", "closed"}]
        /\ \A q \in Parts : part'[q] = IF q = "ingress" THEN "open" ELSE part[q]
    BY <1>0, <1>2 DEF IngressOpens, Becomes, LifeTypeOK
  <2> QED
    BY <1>0, <1>2, <2>1 DEF IngressOpens, LifeInv, LifeTypeOK, GatesInOrder, IngressIsBacked,
       StartOwns, NothingDropped, PartsOf, Owners, Parts
<1>3. CASE Connected \/ Repaired
  BY <1>0, <1>3 DEF Connected, Repaired, LifeInv, LifeTypeOK, GatesInOrder, IngressIsBacked,
     StartOwns, NothingDropped, Boots
<1>4. CASE StartFails \/ MessagingFails \/ ShutdownBegins
  BY <1>0, <1>4 DEF StartFails, MessagingFails, ShutdownBegins, LifeInv, LifeTypeOK,
     GatesInOrder, IngressIsBacked, StartOwns, NothingDropped, Boots
<1>5. CASE TurnBegins \/ TurnEnds
  BY <1>0, <1>5 DEF TurnBegins, TurnEnds, LifeInv, LifeTypeOK, GatesInOrder,
     IngressIsBacked, StartOwns, NothingDropped
<1> QED
  BY <1>1, <1>2, <1>3, <1>4, <1>5 DEF Starts

\* What the worker does inside of a server.
LEMMA LifecycleKeeps ==
  ASSUME ServerInv, Lifecycle \/ ShutsDown \/ TurnsMove \/ Lives(TurnBegins)
  PROVE  ServerInv'
<1>1. LifeInv'
  BY SweepKeeps, LifeKeeps DEF ServerInv, Lifecycle, ShutsDown, TurnsMove, Lives, Sweeps
<1>2. worker \in {"running", "serving"} /\ UNCHANGED supervisorVars
  BY DEF Lifecycle, ShutsDown, TurnsMove, Lives
<1> QED
  BY <1>1, <1>2 DEF ServerInv, ServerTypeOK, WorkerInOrder, ServersFollowRequests,
     supervisorVars, LifeInv

\* Requests and the worker's own steps between servers leave the life cycle alone.
LEMMA LifeUnchanged == LifeInv /\ UNCHANGED lifeVars => LifeInv'
BY DEF LifeInv, lifeVars, LifeTypeOK, GatesInOrder, IngressIsBacked, StartOwns, NothingDropped

\* What is asked of the supervisor, and by the tray.
LEMMA RequestsKeep ==
  ASSUME ServerInv, StartServer \/ ClickRestart \/ AskRestart \/ Quit \/ AdminRestarts \/ Interrupted
  PROVE  ServerInv'
<1>0. ServerTypeOK /\ WorkerInOrder /\ ServersFollowRequests
  BY DEF ServerInv
<1>1. UNCHANGED lifeVars
  BY DEF StartServer, ClickRestart, AskRestart, Quit, AdminRestarts, Interrupted,
     RequestRestart, RequestStop, lifeVars
<1>2. LifeInv' /\ LifeTypeOK'
  BY <1>1, LifeUnchanged DEF ServerInv, LifeInv
<1> USE DEF lifeVars, Workers
<1>3. SUFFICES ServerTypeOK' /\ WorkerInOrder' /\ ServersFollowRequests'
  BY <1>2 DEF ServerInv
<1>4. CASE StartServer
  <2>1. ServerTypeOK'
    BY <1>0, <1>2, <1>4 DEF StartServer, ServerTypeOK
  <2>2. WorkerInOrder'
    BY <1>0, <1>1, <1>4 DEF StartServer, WorkerInOrder
  <2>3. ServersFollowRequests'
    BY <1>0, <1>1, <1>4 DEF StartServer, WorkerInOrder, ServersFollowRequests
  <2> QED
    BY <2>1, <2>2, <2>3
<1>5. CASE ClickRestart
  BY <1>0, <1>1, <1>2, <1>5 DEF ClickRestart, ServerTypeOK, WorkerInOrder, ServersFollowRequests
<1>6. CASE AskRestart \/ AdminRestarts
  <2>1. RequestRestart /\ tray' \in {"starting", "idle", "asking"}
    BY <1>0, <1>6 DEF AskRestart, AdminRestarts, ServerTypeOK
  <2> QED
    BY <1>0, <1>1, <1>2, <2>1
       DEF RequestRestart, AsksToExit, ServerTypeOK, WorkerInOrder, ServersFollowRequests
<1>7. CASE Quit
  <2>1. ServerTypeOK'
    BY <1>0, <1>2, <1>7 DEF Quit, RequestStop, AsksToExit, ServerTypeOK
  <2>2. WorkerInOrder'
    BY <1>0, <1>1, <1>7 DEF Quit, RequestStop, AsksToExit, WorkerInOrder
  <2>3. ServersFollowRequests'
    <3>1. installed' = installed /\ (installed => exit') /\ ~scheduled'
      BY <1>7 DEF Quit, RequestStop, AsksToExit
    <3>2. worker' = worker /\ boot' = boot /\ isClosed' = isClosed
      BY <1>1, <1>7 DEF Quit, RequestStop
    <3> QED
      BY <1>0, <3>1, <3>2 DEF ServersFollowRequests
  <2> QED
    BY <2>1, <2>2, <2>3
<1>8. CASE Interrupted
  BY <1>0, <1>1, <1>2, <1>8 DEF Interrupted, ServerTypeOK, WorkerInOrder, ServersFollowRequests
<1> QED
  BY <1>4, <1>5, <1>6, <1>7, <1>8

\* What the worker does around its servers.
LEMMA WorkerKeeps ==
  ASSUME ServerInv, \/ RunEnters \/ LoopTests \/ NotesRestarts \/ InstallsServer \/ Serves
                    \/ ServerReturns \/ RunLeaves \/ ThreadEnds
  PROVE  ServerInv'
<1>0. ServerTypeOK /\ LifeInv /\ WorkerInOrder /\ ServersFollowRequests
  BY DEF ServerInv
<1> USE DEF Works, Workers
<1>1. CASE RunEnters \/ LoopTests \/ NotesRestarts \/ Serves \/ RunLeaves \/ ServerReturns
  <2>1. UNCHANGED lifeVars
    BY <1>1 DEF RunEnters, LoopTests, NotesRestarts, Serves, RunLeaves, ServerReturns
  <2>2. LifeInv' /\ LifeTypeOK'
    BY <1>0, <2>1, LifeUnchanged DEF LifeInv
  <2> USE DEF lifeVars
  <2>3. CASE RunEnters
    BY <1>0, <2>1, <2>2, <2>3 DEF RunEnters, ServerInv, ServerTypeOK, WorkerInOrder, ServersFollowRequests
  <2>4. CASE LoopTests
    BY <1>0, <2>1, <2>2, <2>4 DEF LoopTests, ServerInv, ServerTypeOK, WorkerInOrder, ServersFollowRequests
  <2>5. CASE NotesRestarts
    BY <1>0, <2>1, <2>2, <2>5 DEF NotesRestarts, ServerInv, ServerTypeOK, WorkerInOrder, ServersFollowRequests
  <2>6. CASE Serves
    BY <1>0, <2>1, <2>2, <2>6 DEF Serves, ServerInv, ServerTypeOK, WorkerInOrder, ServersFollowRequests
  <2>7. CASE RunLeaves
    BY <1>0, <2>1, <2>2, <2>7 DEF RunLeaves, ServerInv, ServerTypeOK, WorkerInOrder, ServersFollowRequests
  <2>8. CASE ServerReturns
    <3>1. gate = "none"
      BY <1>0, <2>8 DEF ServerReturns, LifeInv, LifeTypeOK, GatesInOrder
    <3> QED
      <4>1. ServerTypeOK'
        BY <1>0, <2>2, <2>8 DEF ServerReturns, ServerTypeOK
      <4>2. WorkerInOrder'
        BY <1>0, <2>1, <2>8, <3>1 DEF ServerReturns, WorkerInOrder
      <4>3. ServersFollowRequests'
        BY <1>0, <2>1, <2>8 DEF ServerReturns, ServersFollowRequests
      <4> QED
        BY <2>2, <4>1, <4>2, <4>3 DEF ServerInv
  <2> QED
    BY <1>1, <2>3, <2>4, <2>5, <2>6, <2>7, <2>8
<1>2. CASE InstallsServer
  <2>1. /\ boot' = "warming" /\ gate' = "none" /\ turns' = 0 /\ isClosed' = FALSE
        /\ owned' \subseteq Owners /\ "providers" \in owned' /\ "runtime" \notin owned'
        /\ part' = [p \in Parts |-> IF p \in owned' THEN "open" ELSE "none"]
        /\ mishaps' = mishaps
    BY <1>2 DEF InstallsServer, Owners
  <2>2. /\ part' \in [Parts -> {"none", "open", "closed"}]
        /\ \A p \in Parts : part'[p] # "closed" /\ (p \notin owned' => part'[p] = "none")
        /\ "ingress" \in Parts /\ "delivery" \in Parts
    BY <2>1 DEF Parts
  <2>3. LifeTypeOK'
    BY <1>0, <2>1, <2>2 DEF ServerTypeOK, LifeTypeOK, Boots
  <2>4. GatesInOrder' /\ StartOwns'
    BY <2>1, <2>2 DEF GatesInOrder, StartOwns
  <2>5. IngressIsBacked' /\ NothingDropped'
    <3>1. "ingress" \notin owned' /\ "delivery" \notin owned'
      BY <2>1 DEF Owners
    <3>2. part'["ingress"] = "none" /\ part'["delivery"] = "none"
      BY <2>2, <3>1
    <3> QED
      BY <2>1, <2>2, <3>2 DEF IngressIsBacked, NothingDropped, PartsOf, Owners, Parts
  <2>6. LifeInv'
    BY <2>3, <2>4, <2>5 DEF LifeInv
  <2> QED
    BY <1>0, <1>2, <2>1, <2>3, <2>6 DEF InstallsServer, LateRequest, ServerInv, ServerTypeOK,
       WorkerInOrder, ServersFollowRequests
<1>3. CASE ThreadEnds
  <2>1. LifeTypeOK' /\ GatesInOrder' /\ StartOwns'
    BY <1>0, <1>3 DEF ThreadEnds, ServerTypeOK, LifeTypeOK, WorkerInOrder, GatesInOrder,
       StartOwns, Boots
  <2>2. IngressIsBacked' /\ NothingDropped'
    BY <1>0, <1>3 DEF ThreadEnds, LifeInv, IngressIsBacked, NothingDropped
  <2>3. LifeInv'
    BY <2>1, <2>2 DEF LifeInv
  <2> QED
    BY <1>0, <1>3, <2>1, <2>3 DEF ThreadEnds, ServerInv, ServerTypeOK, WorkerInOrder,
       ServersFollowRequests
<1> QED
  BY <1>1, <1>2, <1>3

\* The invariant of the server process.
LEMMA ServerInvariance == ServerSpec => []ServerInv
<1>1. ServerInit => ServerInv
  <2> SUFFICES ASSUME ServerInit PROVE ServerInv
    OBVIOUS
  <2>1. PICK voice \in SUBSET {"transcriber"} : Composed(voice)
    BY DEF ServerInit, LifeInit
  <2>2. /\ boot = "warming" /\ gate = "none" /\ turns = 0 /\ isClosed = FALSE
        /\ owned \subseteq Owners /\ "providers" \in owned /\ "runtime" \notin owned
        /\ part \in [Parts -> {"none", "open", "closed"}]
        /\ \A p \in Parts : part[p] = IF p \in owned THEN "open" ELSE "none"
    BY <2>1 DEF Composed, Owners
  <2>3. part["ingress"] = "none" /\ part["delivery"] = "none"
    BY <2>2 DEF Parts, Owners
  <2>4. LifeTypeOK /\ GatesInOrder /\ StartOwns
    BY <2>2 DEF ServerInit, LifeInit, LifeTypeOK, GatesInOrder, StartOwns, Boots
  <2>5. IngressIsBacked /\ NothingDropped
    BY <2>2, <2>3 DEF IngressIsBacked, NothingDropped, PartsOf, Owners, Parts
  <2> QED
    BY <2>2, <2>4, <2>5 DEF ServerInit, SupervisorInit, ServerInv, ServerTypeOK,
       WorkerInOrder, ServersFollowRequests, LifeInv, Workers
<1>2. ServerInv /\ [ServerNext]_serverVars => ServerInv'
  <2> SUFFICES ASSUME ServerInv, [ServerNext]_serverVars PROVE ServerInv'
    OBVIOUS
  <2>1. CASE UNCHANGED serverVars
    <3>1. LifeInv' /\ LifeTypeOK'
      BY <2>1, LifeUnchanged DEF serverVars, ServerInv, LifeInv
    <3> QED
      BY <2>1, <3>1 DEF serverVars, supervisorVars, lifeVars, ServerInv, ServerTypeOK,
         WorkerInOrder, ServersFollowRequests
  <2> QED
    BY <2>1, LifecycleKeeps, RequestsKeep, WorkerKeeps DEF ServerNext, WorkerSteps
<1> QED
  BY <1>1, <1>2, PTL DEF ServerSpec


\* The server that serves is the one last asked for, a runtime is closed before the
\* next is built, no owner is closed under the work that needs it, and a runtime that
\* says it is closed owns nothing.
THEOREM ServersInOrder == ServerSpec => []ServerInOrder
<1>1. ServerInv => ServerInOrder
  BY DEF ServerInv, LifeInv, IngressIsBacked, NothingDropped, ServerInOrder,
     WorkKeepsItsOwners
<1> QED
  BY <1>1, ServerInvariance, PTL

-----------------------------------------------------------------------------------
(* What an assembler that is at work has told *)

ItemKinds == TextKinds \cup ToolKinds

Fragments == {"text", "part", "rest", "object"}

Fragmented == Seq(Fragments)

ActiveBlocks == [index : Int, at : Nat, kind : ItemKinds, content : Fragmented]

Slots == [kind : ItemKinds \cup {"none"}, content : Fragmented]

Items == [kind : ItemKinds, content : Fragmented, done : BOOLEAN]

Assemblies ==
  [active : SUBSET ActiveBlocks, slots : Seq(Slots), fallback : Int, doubtful : BOOLEAN,
   truncated : BOOLEAN, started : BOOLEAN, terminal : BOOLEAN]

Endings == {"none", "completed", "incomplete", "failed"}

Readers ==
  [begun : BOOLEAN, items : Seq(Items), texts : Nat, end : Endings, sound : BOOLEAN]

Emissions == [assembly : Assemblies, reader : Readers]

\* The slot has what the client was told, once the item is done.
Agrees(item, slot) ==
  /\ item.done => slot = [kind |-> item.kind, content |-> item.content]
  /\ ~item.done => slot = NoItem

\* What a block will say at its end goes with what the client was told of its item.
Fits(b, item) ==
  /\ ~item.done /\ item.kind = b.kind
  /\ b.kind \in {"message", "reasoning"} => item.content = b.content
  /\ b.kind \in ToolKinds => item.content = <<>>

\* The blocks are those whose items are still to be completed, and so is the item at
\* which a completion is under way, if it is at one.
Telling(e, blocks, at) ==
  /\ e \in Emissions /\ blocks \subseteq ActiveBlocks
  /\ e.assembly.started /\ ~e.assembly.terminal
  /\ e.reader.sound /\ e.reader.begun /\ e.reader.end = "none"
  /\ Len(e.assembly.slots) = Len(e.reader.items)
  /\ \A n \in DOMAIN e.reader.items : Agrees(e.reader.items[n], e.assembly.slots[n])
  /\ \A b \in blocks : /\ b.at \in DOMAIN e.reader.items /\ b.at # at
                       /\ Fits(b, e.reader.items[b.at])
  /\ \A b, c \in blocks : b.at = c.at \/ b.index = c.index => b = c
  /\ \A n \in DOMAIN e.reader.items :
       \/ e.reader.items[n].done
       \/ n = at
       \/ \E b \in blocks : b.at = n
       \/ e.reader.items[n].kind = "function" /\ e.assembly.doubtful
  /\ e.assembly.doubtful =>
       \E n \in DOMAIN e.reader.items :
         ~e.reader.items[n].done /\ n # at /\ \A b \in blocks : b.at # n

\* No item is being completed.
Settled(e, blocks) == Telling(e, blocks, 0)

\* An event that the client takes.
LEMMA Told ==
  ASSUME NEW e \in Emissions, NEW event, e.reader.sound, MayTell(e.reader, event)
  PROVE  /\ Say(e, event) = [assembly |-> e.assembly, reader |-> Heard(e.reader, event)]
         /\ Say(e, event).assembly = e.assembly
         /\ Say(e, event).reader = Heard(e.reader, event)
BY DEF Say, Emissions

\* The types of what an emission consists of.
LEMMA ItemTypes ==
  ASSUME NEW e \in Emissions
  PROVE  /\ e.assembly \in Assemblies /\ e.reader \in Readers
         /\ e.reader.items \in Seq(Items) /\ Len(e.reader.items) \in Nat
         /\ DOMAIN e.reader.items = 1 .. Len(e.reader.items)
         /\ \A n \in DOMAIN e.reader.items : e.reader.items[n] \in Items
         /\ e.assembly.slots \in Seq(Slots) /\ Len(e.assembly.slots) \in Nat
         /\ DOMAIN e.assembly.slots = 1 .. Len(e.assembly.slots)
         /\ \A n \in DOMAIN e.assembly.slots : e.assembly.slots[n] \in Slots
         /\ e.assembly.active \subseteq ActiveBlocks
<1>1. e.assembly \in Assemblies /\ e.reader \in Readers
  BY DEF Emissions
<1>2. e.reader.items \in Seq(Items) /\ e.assembly.slots \in Seq(Slots)
      /\ e.assembly.active \subseteq ActiveBlocks
  BY <1>1 DEF Assemblies, Readers
<1> HIDE DEF Items, Slots
<1> QED
  BY <1>1, <1>2

-----------------------------------------------------------------------------------
(* Completion *)

\* A block leaves the active ones; its item is being completed.
LEMMA ReleaseTells ==
  ASSUME NEW e, NEW blocks, Settled(e, blocks), NEW b \in blocks
  PROVE  /\ Telling(e, blocks \ {b}, b.at)
         /\ b.at \in DOMAIN e.reader.items /\ Fits(b, e.reader.items[b.at]) /\ b \in ActiveBlocks
<1>1. b.at \in DOMAIN e.reader.items /\ Fits(b, e.reader.items[b.at]) /\ b \in ActiveBlocks
  BY DEF Settled, Telling
<1>2. \A n \in DOMAIN e.reader.items :
        e.reader.items[n].done \/ n = b.at \/ (\E c \in blocks \ {b} : c.at = n)
        \/ (e.reader.items[n].kind = "function" /\ e.assembly.doubtful)
  BY DEF Settled, Telling
<1>3. e.assembly.doubtful =>
        \E n \in DOMAIN e.reader.items :
          ~e.reader.items[n].done /\ n # b.at /\ \A c \in blocks \ {b} : c.at # n
  BY DEF Settled, Telling
<1>4. \A c \in blocks \ {b} : c.at # b.at
  BY DEF Settled, Telling
<1> QED
  BY <1>1, <1>2, <1>3, <1>4 DEF Settled, Telling

\* What the client has read of an item, and of all texts, with the next fragments.
Longer(content, next) == content \o next

Counted(texts, next) == texts + Len(next)

\* More of the content of an item that is neither done nor taken care of by a block.
LEMMA DeltaTells ==
  ASSUME NEW e, NEW blocks, NEW at, Telling(e, blocks, at), at \in DOMAIN e.reader.items,
         NEW content \in Fragmented, ~e.reader.items[at].done,
         NEW f, f = Say(e, [type |-> "delta", at |-> at, content |-> content])
  PROVE  /\ Telling(f, blocks, at) /\ f.assembly = e.assembly
         /\ e.reader.items[at].kind \in TextKinds => f.reader.texts = Counted(e.reader.texts, content)
         /\ e.reader.items[at].kind \notin TextKinds => f.reader.texts = e.reader.texts
         /\ DOMAIN f.reader.items = DOMAIN e.reader.items
         /\ f.reader.items[at].content = Longer(e.reader.items[at].content, content)
         /\ ~f.reader.items[at].done
         /\ f.reader.items[at].kind = e.reader.items[at].kind
<1> DEFINE event == [type |-> "delta", at |-> at, content |-> content]
           items == e.reader.items
           more == items[at].content \o content
           new == [items EXCEPT ![at].content = more]
           texts == e.reader.texts + (IF items[at].kind \in TextKinds THEN Len(content) ELSE 0)
<1>1. e \in Emissions /\ items \in Seq(Items) /\ e.reader \in Readers /\ items[at] \in Items
  BY ItemTypes DEF Telling
<1>2. MayTell(e.reader, event)
  BY DEF MayTell, IsOpen, Telling
<1>3. more \in Fragmented /\ texts \in Nat /\ Len(content) \in Nat
  BY <1>1 DEF Fragmented, Items, Readers
<1>4. Heard(e.reader, event) = [e.reader EXCEPT !.items = new, !.texts = texts]
  <2>1. [e.reader EXCEPT !.items[at].content = @ \o content,
                         !.texts = IF items[at].kind \in TextKinds THEN @ + Len(content) ELSE @]
          = [e.reader EXCEPT !.items = new, !.texts = texts]
    <3>1. \A m, t : [e.reader EXCEPT !.items[at].content = m, !.texts = t]
                     = [e.reader EXCEPT !.items = [items EXCEPT ![at].content = m], !.texts = t]
      BY <1>1 DEF Readers
    <3>2. e.reader.texts \in Nat
      BY <1>1 DEF Readers
    <3>3. texts = IF items[at].kind \in TextKinds THEN e.reader.texts + Len(content) ELSE e.reader.texts
      BY <1>3, <3>2
    <3> HIDE DEF texts
    <3> QED
      BY <3>1, <3>3
  <2> QED
    BY <2>1 DEF Heard
<1>5. f = [assembly |-> e.assembly, reader |-> [e.reader EXCEPT !.items = new, !.texts = texts]]
  <2> HIDE DEF event, new, texts
  <2>1. f = [assembly |-> e.assembly, reader |-> Heard(e.reader, event)]
    <3>1. f = Say(e, event)
      BY DEF event
    <3> QED
      BY <1>1, <1>2, <3>1, Told DEF Telling
  <2> QED
    BY <1>4, <2>1
<1>6. /\ new[at] = [items[at] EXCEPT !.content = more]
      /\ \A n \in DOMAIN items \ {at} : new[n] = items[n]
      /\ DOMAIN new = DOMAIN items /\ Len(new) = Len(items)
  BY <1>1
<1>7. new[at].content = more /\ new[at].kind = items[at].kind /\ new[at].done = items[at].done
      /\ new[at] \in Items
  BY <1>1, <1>3, <1>6 DEF Items
<1>8. new \in Seq(Items)
  <2>1. \A n \in DOMAIN new : new[n] \in Items
    <3> HIDE DEF new, more
    <3> QED BY <1>1, <1>6, <1>7
  <2>2. DOMAIN new = 1 .. Len(items) /\ Len(items) \in Nat
    BY <1>1, <1>6
  <2>3. new = [n \in 1 .. Len(items) |-> new[n]]
    BY <2>2
  <2> HIDE DEF new, items
  <2> QED
    BY <2>1, <2>2, <2>3
<1> HIDE DEF new, more, texts
<1>9. /\ f \in Emissions /\ f.assembly = e.assembly /\ f.reader.items = new
      /\ f.reader.texts = texts /\ f.reader.sound = e.reader.sound
      /\ f.reader.begun = e.reader.begun /\ f.reader.end = e.reader.end
  BY ONLY <1>1, <1>3, <1>5, <1>8 DEF Emissions, Readers
<1>10. ASSUME NEW n \in DOMAIN new PROVE Agrees(new[n], e.assembly.slots[n])
  <2>1. Agrees(items[n], e.assembly.slots[n])
    BY <1>6 DEF Telling
  <2>2. CASE n = at
    BY <1>7, <2>1, <2>2 DEF Agrees
  <2>3. CASE n # at
    <3>1. new[n] = items[n]
      BY <1>6, <2>3
    <3> QED BY <2>1, <3>1
  <2> QED
    BY <2>2, <2>3
<1>11. \A b \in blocks : b.at \in DOMAIN new /\ b.at # at /\ Fits(b, new[b.at])
  BY <1>6 DEF Telling
<1>12. ASSUME NEW n \in DOMAIN new
       PROVE  new[n].done = items[n].done /\ new[n].kind = items[n].kind
  <2>1. n # at => new[n] = items[n]
    BY <1>6
  <2> QED
    BY <1>7, <2>1
<1>13. Telling(f, blocks, at)
  <2>1. /\ \A n \in DOMAIN new : new[n].done \/ n = at \/ (\E b \in blocks : b.at = n)
                                 \/ (new[n].kind = "function" /\ e.assembly.doubtful)
        /\ e.assembly.doubtful => \E n \in DOMAIN new : ~new[n].done /\ n # at /\ \A b \in blocks : b.at # n
    BY <1>6, <1>12 DEF Telling
  <2>2. e.assembly.slots = f.assembly.slots /\ Len(f.assembly.slots) = Len(new)
    BY <1>6, <1>9 DEF Telling
  <2> QED
    BY <1>6, <1>9, <1>10, <1>11, <2>1, <2>2 DEF Telling
<1>14. /\ f.reader.items[at].content = more /\ ~f.reader.items[at].done
       /\ f.reader.items[at].kind = items[at].kind /\ DOMAIN f.reader.items = DOMAIN items
  <2>1. f.reader.items[at] = new[at] /\ DOMAIN f.reader.items = DOMAIN items
    BY <1>6, <1>9
  <2> QED
    BY <1>7, <2>1
<1> QED
  <2>1. e.reader.texts \in Nat
    BY <1>1 DEF Readers
  <2>2. /\ items[at].kind \in TextKinds => texts = e.reader.texts + Len(content)
        /\ items[at].kind \notin TextKinds => texts = e.reader.texts
    BY <2>1 DEF texts
  <2> QED
    BY <1>9, <1>13, <1>14, <2>2 DEF more, Longer, Counted

\* The item is done, with what was told of it.
LEMMA DoneTells ==
  ASSUME NEW e, NEW blocks, NEW b \in ActiveBlocks, Telling(e, blocks, b.at),
         b.at \in DOMAIN e.reader.items, ~e.reader.items[b.at].done,
         e.reader.items[b.at].kind = b.kind, NEW content \in Fragmented,
         b.kind = "sealed" \/ content = e.reader.items[b.at].content
  PROVE  LET f == Done(e, b, content)
         IN  /\ Settled(f, blocks)
             /\ f.reader.texts = e.reader.texts /\ f.assembly.active = e.assembly.active
             /\ Len(f.assembly.slots) = Len(e.assembly.slots)
             /\ f.assembly.fallback = e.assembly.fallback
<1> DEFINE at == b.at
           item == [kind |-> b.kind, content |-> content]
           event == [type |-> "done", at |-> at, content |-> content]
           slots == [e.assembly.slots EXCEPT ![at] = item]
           g == [e EXCEPT !.assembly.slots[at] = item]
           f == Done(e, b, content)
           items == e.reader.items
           new == [items EXCEPT ![at] = [items[at] EXCEPT !.done = TRUE, !.content = content]]
<1>1. /\ e \in Emissions /\ items \in Seq(Items) /\ e.reader \in Readers /\ e.assembly \in Assemblies
      /\ items[at] \in Items /\ e.assembly.slots \in Seq(Slots) /\ at \in DOMAIN e.assembly.slots
  BY ItemTypes DEF Telling
<1>2. item \in Slots /\ item # NoItem
  BY DEF Slots, ActiveBlocks, NoItem, ItemKinds, TextKinds, ToolKinds
<1>3. slots \in Seq(Slots) /\ Len(slots) = Len(e.assembly.slots) /\ slots[at] = item
      /\ \A n \in DOMAIN items \ {at} : slots[n] = e.assembly.slots[n]
  BY <1>1, <1>2, ItemTypes DEF Telling
<1>4. g = [assembly |-> [e.assembly EXCEPT !.slots = slots], reader |-> e.reader]
  BY <1>1 DEF Emissions, Assemblies
<1>5. [e.assembly EXCEPT !.slots = slots] \in Assemblies
  <2> HIDE DEF slots
  <2> QED BY <1>1, <1>3 DEF Assemblies
<1>6. g \in Emissions /\ g.reader = e.reader /\ g.assembly = [e.assembly EXCEPT !.slots = slots]
  <2> HIDE DEF slots
  <2> QED BY <1>1, <1>4, <1>5 DEF Emissions
<1>7. MayTell(g.reader, event)
  BY <1>6 DEF MayTell, IsOpen, Telling
<1>8. f = [assembly |-> g.assembly, reader |-> Heard(e.reader, event)]
  <2>1. f = Say(g, event)
    BY DEF Done
  <2> HIDE DEF g, f, event
  <2> QED
    BY <1>6, <1>7, <2>1, Told DEF Telling
<1>9. Heard(e.reader, event) = [e.reader EXCEPT !.items = new]
  BY DEF Heard
<1>10. /\ new[at] = [items[at] EXCEPT !.done = TRUE, !.content = content]
       /\ \A n \in DOMAIN items \ {at} : new[n] = items[n]
       /\ DOMAIN new = DOMAIN items /\ Len(new) = Len(items)
  BY <1>1
<1>11. new[at].content = content /\ new[at].kind = b.kind /\ new[at].done /\ new[at] \in Items
  BY <1>1, <1>10 DEF Items
<1>12. new \in Seq(Items)
  BY <1>1, <1>10, <1>11
<1> HIDE DEF new, slots, g, f, item
<1>13. /\ f \in Emissions /\ f.reader.items = new /\ f.assembly.slots = slots
       /\ f.reader.texts = e.reader.texts /\ f.reader.sound = e.reader.sound
       /\ f.reader.begun = e.reader.begun /\ f.reader.end = e.reader.end
  BY <1>1, <1>6, <1>8, <1>9, <1>12, <1>5 DEF Emissions, Readers, Assemblies
<1>14. /\ f.assembly.active = e.assembly.active /\ f.assembly.fallback = e.assembly.fallback
       /\ f.assembly.started = e.assembly.started /\ f.assembly.terminal = e.assembly.terminal
       /\ f.assembly.doubtful = e.assembly.doubtful
  BY <1>1, <1>6, <1>8 DEF Assemblies
<1>15. ASSUME NEW n \in DOMAIN new PROVE Agrees(new[n], slots[n])
  <2>1. CASE n = at
    BY <1>3, <1>11, <2>1 DEF Agrees, item
  <2>2. CASE n # at
    <3>1. new[n] = items[n] /\ slots[n] = e.assembly.slots[n] /\ n \in DOMAIN items
      BY <1>3, <1>10, <2>2
    <3>2. Agrees(items[n], e.assembly.slots[n])
      BY <3>1 DEF Telling
    <3> QED BY <3>1, <3>2
  <2> QED
    BY <2>1, <2>2
<1>16. \A c \in blocks : c.at \in DOMAIN new /\ c.at # 0 /\ Fits(c, new[c.at])
  BY <1>1, <1>10 DEF Telling
<1>17. \A n \in DOMAIN new \ {at} : (new[n].done <=> items[n].done) /\ new[n].kind = items[n].kind
  BY <1>10
<1>18. /\ \A n \in DOMAIN new : new[n].done \/ n = 0 \/ (\E c \in blocks : c.at = n)
                                \/ (new[n].kind = "function" /\ e.assembly.doubtful)
       /\ e.assembly.doubtful => \E n \in DOMAIN new : ~new[n].done /\ n # 0 /\ \A c \in blocks : c.at # n
  <2>1. \A n \in DOMAIN new : n # 0
    BY <1>1, <1>10
  <2> QED
    BY <1>10, <1>11, <1>17, <2>1 DEF Telling
<1>19. Settled(f, blocks)
  BY <1>3, <1>10, <1>13, <1>14, <1>15, <1>16, <1>18 DEF Settled, Telling
<1> QED
  BY <1>3, <1>13, <1>14, <1>19 DEF f

\* A call that is refused keeps its item open, and the response in doubt.
LEMMA RefusalTells ==
  ASSUME NEW e, NEW blocks, NEW at, Telling(e, blocks, at), at \in DOMAIN e.reader.items,
         ~e.reader.items[at].done, e.reader.items[at].kind = "function"
  PROVE  LET f == [e EXCEPT !.assembly.doubtful = TRUE]
         IN  /\ Settled(f, blocks) /\ f.reader = e.reader
             /\ f.assembly.active = e.assembly.active /\ f.assembly.slots = e.assembly.slots
             /\ f.assembly.fallback = e.assembly.fallback
<1> DEFINE a == [e.assembly EXCEPT !.doubtful = TRUE]
           f == [e EXCEPT !.assembly.doubtful = TRUE]
<1>1. e \in Emissions /\ e.assembly \in Assemblies
  BY ItemTypes DEF Telling
<1>2. /\ a \in Assemblies /\ a.active = e.assembly.active /\ a.slots = e.assembly.slots
      /\ a.fallback = e.assembly.fallback /\ a.started = e.assembly.started
      /\ a.terminal = e.assembly.terminal /\ a.doubtful
  BY <1>1 DEF Assemblies
<1>3. f \in Emissions /\ f.reader = e.reader /\ f.assembly = a
  <2>1. \A d : [e EXCEPT !.assembly.doubtful = d]
               = [assembly |-> [e.assembly EXCEPT !.doubtful = d], reader |-> e.reader]
    BY <1>1 DEF Emissions
  <2>2. f = [assembly |-> a, reader |-> e.reader]
    BY ONLY <2>1, Zenon
  <2> HIDE DEF a, f
  <2> QED
    BY <1>1, <1>2, <2>2 DEF Emissions
<1> HIDE DEF a, f
<1>4. \A n \in DOMAIN e.reader.items : n # 0
  BY <1>1, ItemTypes
<1>5. \A b \in blocks : b.at \in DOMAIN e.reader.items /\ b.at # 0 /\ b.at # at
                        /\ Fits(b, e.reader.items[b.at])
  BY <1>4 DEF Telling
<1>6. \A n \in DOMAIN e.reader.items :
        e.reader.items[n].done \/ n = 0 \/ (\E b \in blocks : b.at = n)
        \/ (e.reader.items[n].kind = "function" /\ f.assembly.doubtful)
  BY <1>2, <1>3 DEF Telling
<1>7. \E n \in DOMAIN e.reader.items :
        ~e.reader.items[n].done /\ n # 0 /\ \A b \in blocks : b.at # n
  BY <1>4, <1>5
<1> QED
  BY <1>2, <1>3, <1>5, <1>6, <1>7 DEF Settled, Telling, f

\* The item of a tool call is told all of its arguments and done.
LEMMA DoneToolTells ==
  ASSUME NEW e, NEW blocks, NEW b \in ActiveBlocks, Telling(e, blocks, b.at),
         b.at \in DOMAIN e.reader.items, Fits(b, e.reader.items[b.at]), b.kind \in ToolKinds,
         NEW arguments \in Fragmented
  PROVE  LET f == DoneTool(e, b, arguments)
         IN  /\ Settled(f, blocks)
             /\ f.reader.texts = e.reader.texts /\ f.assembly.active = e.assembly.active
             /\ Len(f.assembly.slots) = Len(e.assembly.slots)
             /\ f.assembly.fallback = e.assembly.fallback
<1>1. /\ ~e.reader.items[b.at].done /\ e.reader.items[b.at].kind = b.kind
      /\ e.reader.items[b.at].content = <<>>
  BY DEF Fits
<1>2. CASE arguments = <<>>
  <2>1. DoneTool(e, b, arguments) = Done(e, b, arguments)
    BY <1>2 DEF DoneTool
  <2> QED
    BY <1>1, <1>2, <2>1, DoneTells
<1>3. CASE arguments # <<>>
  <2> DEFINE g == Say(e, [type |-> "delta", at |-> b.at, content |-> arguments])
  <2>1. /\ Telling(g, blocks, b.at) /\ g.assembly = e.assembly
        /\ g.reader.texts = e.reader.texts /\ b.at \in DOMAIN g.reader.items
        /\ g.reader.items[b.at].content = arguments /\ ~g.reader.items[b.at].done
        /\ g.reader.items[b.at].kind = b.kind
    <3>1. arguments = Longer(<<>>, arguments) /\ b.kind \notin TextKinds
      BY DEF TextKinds, ToolKinds, Fragmented, Longer
    <3>2. /\ Telling(g, blocks, b.at) /\ g.assembly = e.assembly
          /\ b.kind \notin TextKinds => g.reader.texts = e.reader.texts
          /\ DOMAIN g.reader.items = DOMAIN e.reader.items
          /\ g.reader.items[b.at].content = Longer(e.reader.items[b.at].content, arguments)
          /\ ~g.reader.items[b.at].done
          /\ g.reader.items[b.at].kind = e.reader.items[b.at].kind
      <4>1. ~e.reader.items[b.at].done /\ e.reader.items[b.at].kind = b.kind
        BY <1>1
      <4>2. g = Say(e, [type |-> "delta", at |-> b.at, content |-> arguments])
        OBVIOUS
      <4> HIDE DEF g
      <4> QED
        BY <4>1, <4>2, DeltaTells
    <3> HIDE DEF g
    <3> QED
      BY <1>1, <3>1, <3>2
  <2>2. DoneTool(e, b, arguments) = Done(g, b, arguments)
    BY <1>3 DEF DoneTool
  <2> HIDE DEF g
  <2>3. LET f == Done(g, b, arguments)
        IN  /\ Settled(f, blocks)
            /\ f.reader.texts = g.reader.texts /\ f.assembly.active = g.assembly.active
            /\ Len(f.assembly.slots) = Len(g.assembly.slots)
            /\ f.assembly.fallback = g.assembly.fallback
    BY <2>1, DoneTells
  <2> QED
    BY <2>1, <2>2, <2>3
<1> QED
  BY <1>2, <1>3

\* However a block ends, what the client was told stays in order, and nothing is text.
LEMMA CompletionTells ==
  ASSUME NEW e, NEW blocks, Settled(e, blocks), NEW b \in blocks
  PROVE  LET f == CompleteBlock(e, b)
         IN  /\ Settled(f, blocks \ {b})
             /\ f.reader.texts = e.reader.texts /\ f.assembly.active = e.assembly.active
             /\ Len(f.assembly.slots) = Len(e.assembly.slots)
             /\ f.assembly.fallback = e.assembly.fallback
<1> DEFINE others == blocks \ {b}
<1>1. /\ Telling(e, others, b.at) /\ b.at \in DOMAIN e.reader.items
      /\ Fits(b, e.reader.items[b.at]) /\ b \in ActiveBlocks
  BY ReleaseTells DEF others
<1> HIDE DEF others
<1>2. b.kind \in ItemKinds /\ b.content \in Fragmented
  BY <1>1 DEF ActiveBlocks
<1>3. CASE b.kind = "function" /\ IsObject(b.content)
  <2>1. CompleteBlock(e, b) = DoneTool(e, b, <<"object">>)
    BY <1>3 DEF CompleteBlock
  <2>2. <<"object">> \in Fragmented /\ b.kind \in ToolKinds
    BY <1>3 DEF Fragmented, Fragments, ToolKinds
  <2>3. LET f == DoneTool(e, b, <<"object">>)
        IN  /\ Settled(f, others)
            /\ f.reader.texts = e.reader.texts /\ f.assembly.active = e.assembly.active
            /\ Len(f.assembly.slots) = Len(e.assembly.slots)
            /\ f.assembly.fallback = e.assembly.fallback
    BY <1>1, <2>2, DoneToolTells
  <2> QED
    BY <2>1, <2>3, Zenon DEF others
<1>4. CASE b.kind = "function" /\ ~IsObject(b.content)
  <2>1. CompleteBlock(e, b) = [e EXCEPT !.assembly.doubtful = TRUE]
    BY <1>4 DEF CompleteBlock
  <2>2. ~e.reader.items[b.at].done /\ e.reader.items[b.at].kind = "function"
    BY <1>1, <1>4 DEF Fits
  <2>3. LET f == [e EXCEPT !.assembly.doubtful = TRUE]
        IN  /\ Settled(f, others)
            /\ f.reader.texts = e.reader.texts /\ f.assembly.active = e.assembly.active
            /\ Len(f.assembly.slots) = Len(e.assembly.slots)
            /\ f.assembly.fallback = e.assembly.fallback
    BY <1>1, <2>2, RefusalTells
  <2> QED
    BY <2>1, <2>3, Zenon DEF others
<1>5. CASE b.kind = "custom"
  <2>1. CompleteBlock(e, b) = DoneTool(e, b, b.content)
    BY <1>5 DEF CompleteBlock
  <2>2. b.kind \in ToolKinds
    BY <1>5 DEF ToolKinds
  <2>3. LET f == DoneTool(e, b, b.content)
        IN  /\ Settled(f, others)
            /\ f.reader.texts = e.reader.texts /\ f.assembly.active = e.assembly.active
            /\ Len(f.assembly.slots) = Len(e.assembly.slots)
            /\ f.assembly.fallback = e.assembly.fallback
    BY <1>1, <1>2, <2>2, DoneToolTells
  <2> QED
    BY <2>1, <2>3, Zenon DEF others
<1>6. CASE b.kind \in TextKinds
  <2> DEFINE content == IF b.kind = "sealed" THEN <<>> ELSE b.content
  <2>1. CompleteBlock(e, b) = Done(e, b, content)
    BY <1>6 DEF CompleteBlock, TextKinds
  <2>2. content \in Fragmented /\ (b.kind = "sealed" \/ content = e.reader.items[b.at].content)
    BY <1>1, <1>2, <1>6 DEF TextKinds, Fits, Fragmented
  <2>3. ~e.reader.items[b.at].done /\ e.reader.items[b.at].kind = b.kind
    BY <1>1 DEF Fits
  <2> HIDE DEF content
  <2> QED
    BY <1>1, <2>1, <2>2, <2>3, DoneTells DEF others
<1> QED
  BY <1>2, <1>3, <1>4, <1>5, <1>6 DEF ItemKinds, ToolKinds

-----------------------------------------------------------------------------------
(* All blocks, one block, a block more *)

\* The active blocks are not looked at by what an emission has told.
LEMMA OtherActive ==
  ASSUME NEW e, NEW blocks, NEW at, Telling(e, blocks, at), NEW active \in SUBSET ActiveBlocks
  PROVE  LET f == [e EXCEPT !.assembly.active = active]
         IN  /\ Telling(f, blocks, at) /\ f.reader = e.reader
             /\ f.assembly.active = active /\ f.assembly.slots = e.assembly.slots
             /\ f.assembly.fallback = e.assembly.fallback
<1> DEFINE a == [e.assembly EXCEPT !.active = active]
           f == [e EXCEPT !.assembly.active = active]
<1>1. e \in Emissions /\ e.assembly \in Assemblies
  BY ItemTypes DEF Telling
<1>2. /\ a \in Assemblies /\ a.active = active /\ a.slots = e.assembly.slots
      /\ a.fallback = e.assembly.fallback /\ a.started = e.assembly.started
      /\ a.terminal = e.assembly.terminal /\ a.doubtful = e.assembly.doubtful
  BY <1>1 DEF Assemblies
<1>3. f \in Emissions /\ f.reader = e.reader /\ f.assembly = a
  <2>1. f = [assembly |-> a, reader |-> e.reader]
    BY <1>1 DEF Emissions
  <2> HIDE DEF a, f
  <2> QED
    BY <1>1, <1>2, <2>1 DEF Emissions
<1> HIDE DEF a, f
<1>4. Telling(f, blocks, at)
  BY <1>2, <1>3 DEF Telling
<1> QED
  BY <1>2, <1>3, <1>4 DEF f

\* Settled as the emission itself has it.
Steady(e) == Settled(e, e.assembly.active)

\* The block that has an index ends before another one takes it.
LEMMA CompleteExistingTells ==
  ASSUME NEW e, Steady(e), NEW index
  PROVE  LET f == CompleteExisting(e, index)
         IN  /\ Steady(f) /\ f.reader.texts = e.reader.texts
             /\ f.assembly.active = e.assembly.active \ ActiveAt(e, index)
             /\ f.assembly.fallback = e.assembly.fallback
             /\ Len(f.assembly.slots) = Len(e.assembly.slots)
<1>1. CASE ActiveAt(e, index) = {}
  BY <1>1 DEF CompleteExisting
<1>2. CASE ActiveAt(e, index) # {}
  <2> DEFINE b == CHOOSE c \in ActiveAt(e, index) : TRUE
             active == e.assembly.active \ {b}
             g == [e EXCEPT !.assembly.active = active]
  <2>1. b \in ActiveAt(e, index)
    BY <1>2
  <2>2. CompleteExisting(e, index) = CompleteBlock(g, b)
    BY <1>2 DEF CompleteExisting
  <2> HIDE DEF b
  <2>3. b \in e.assembly.active /\ b.index = index
    BY <2>1 DEF ActiveAt
  <2>4. active \in SUBSET ActiveBlocks
    BY ItemTypes DEF Steady, Settled, Telling
  <2>5. /\ Settled(g, e.assembly.active) /\ g.reader = e.reader
        /\ g.assembly.active = active /\ g.assembly.slots = e.assembly.slots
        /\ g.assembly.fallback = e.assembly.fallback
    BY <2>4, OtherActive DEF Steady, Settled
  <2>6. ActiveAt(e, index) = {b}
    BY <2>3 DEF ActiveAt, Steady, Settled, Telling
  <2> HIDE DEF g
  <2>7. LET f == CompleteBlock(g, b)
        IN  /\ Settled(f, active)
            /\ f.reader.texts = g.reader.texts /\ f.assembly.active = g.assembly.active
            /\ Len(f.assembly.slots) = Len(g.assembly.slots)
            /\ f.assembly.fallback = g.assembly.fallback
    BY <2>3, <2>5, CompletionTells
  <2> QED
    BY <2>2, <2>5, <2>6, <2>7 DEF Steady
<1> QED
  BY <1>1, <1>2

\* A block takes care of the item that nobody took care of.
LEMMA BlockTaken ==
  ASSUME NEW e, NEW blocks, NEW b \in ActiveBlocks, Telling(e, blocks, b.at),
         b.at \in DOMAIN e.reader.items, Fits(b, e.reader.items[b.at]),
         \A c \in blocks : c.index # b.index
  PROVE  Settled(e, blocks \cup {b})
<1>1. e \in Emissions /\ \A n \in DOMAIN e.reader.items : n # 0
  BY ItemTypes DEF Telling
<1>2. \A c \in blocks \cup {b} : /\ c.at \in DOMAIN e.reader.items /\ c.at # 0
                                 /\ Fits(c, e.reader.items[c.at])
  BY <1>1 DEF Telling
<1>3. \A c, d \in blocks \cup {b} : c.at = d.at \/ c.index = d.index => c = d
  BY DEF Telling
<1>4. \A n \in DOMAIN e.reader.items :
        e.reader.items[n].done \/ n = 0 \/ (\E c \in blocks \cup {b} : c.at = n)
        \/ (e.reader.items[n].kind = "function" /\ e.assembly.doubtful)
  BY DEF Telling
<1>5. e.assembly.doubtful =>
        \E n \in DOMAIN e.reader.items :
          ~e.reader.items[n].done /\ n # 0 /\ \A c \in blocks \cup {b} : c.at # n
  BY <1>1 DEF Telling
<1> QED
  BY <1>2, <1>3, <1>4, <1>5 DEF Settled, Telling

\* An item is added, that no block takes care of yet.
IsAdded(e, blocks, kind, at, f) ==
  /\ Telling(f, blocks, at) /\ at \in DOMAIN f.reader.items /\ at \in Nat
  /\ f.reader.items[at] = [kind |-> kind, content |-> <<>>, done |-> FALSE]
  /\ f.assembly.active = e.assembly.active /\ f.reader.texts = e.reader.texts
  /\ f.assembly.fallback = e.assembly.fallback

\* A sequence with one more member.
LEMMA Added ==
  ASSUME NEW S, NEW s \in Seq(S), NEW x \in S
  PROVE  /\ Append(s, x) \in Seq(S) /\ Len(Append(s, x)) = Len(s) + 1
         /\ Append(s, x)[Len(s) + 1] = x
         /\ \A n \in DOMAIN s : Append(s, x)[n] = s[n]
OBVIOUS

\* What is added is told, and no block takes care of it.
LEMMA AdditionTells ==
  ASSUME NEW e, NEW blocks, Settled(e, blocks), NEW kind \in ItemKinds
  PROVE  LET at == Len(e.assembly.slots) + 1
         IN  IsAdded(e, blocks, kind, at,
                     Say([e EXCEPT !.assembly.slots = Append(@, NoItem)],
                         [type |-> "added", at |-> at, kind |-> kind]))
<1> DEFINE at == Len(e.assembly.slots) + 1
           event == [type |-> "added", at |-> at, kind |-> kind]
           slots == Append(e.assembly.slots, NoItem)
           a == [e.assembly EXCEPT !.slots = slots]
           g == [e EXCEPT !.assembly.slots = Append(@, NoItem)]
           f == Say(g, event)
           items == e.reader.items
           item == [kind |-> kind, content |-> <<>>, done |-> FALSE]
           new == Append(items, item)
<1>1. /\ e \in Emissions /\ items \in Seq(Items) /\ e.reader \in Readers /\ e.assembly \in Assemblies
      /\ e.assembly.slots \in Seq(Slots) /\ Len(items) = Len(e.assembly.slots)
      /\ Len(items) \in Nat /\ DOMAIN items = 1 .. Len(items)
      /\ DOMAIN e.assembly.slots = 1 .. Len(items)
  BY ItemTypes DEF Settled, Telling
<1>2. item \in Items /\ NoItem \in Slots
  BY DEF Items, Slots, NoItem, Fragmented
<1>3. /\ slots \in Seq(Slots) /\ Len(slots) = Len(items) + 1
      /\ slots[at] = NoItem /\ \A n \in DOMAIN items : slots[n] = e.assembly.slots[n]
  BY <1>1, <1>2
<1>4. /\ new \in Seq(Items) /\ Len(new) = Len(items) + 1 /\ DOMAIN new = DOMAIN items \cup {at}
      /\ new[at] = item /\ \A n \in DOMAIN items : new[n] = items[n]
      /\ at \notin DOMAIN items /\ at \in Nat /\ at # 0
  <2>1. at = Len(items) + 1
    BY <1>1
  <2> HIDE DEF at, item
  <2>2. new \in Seq(Items) /\ Len(new) = Len(items) + 1 /\ new[at] = item
        /\ \A n \in DOMAIN items : new[n] = items[n]
    <3> HIDE DEF items
    <3> QED BY <1>1, <1>2, <2>1, Added
  <2>3. DOMAIN new = 1 .. Len(new)
    BY <2>2
  <2> HIDE DEF new, items
  <2> QED
    BY <1>1, <2>1, <2>2, <2>3
<1> HIDE DEF slots, new, item, at
<1>5. /\ a \in Assemblies /\ a.active = e.assembly.active /\ a.slots = slots
      /\ a.fallback = e.assembly.fallback /\ a.started = e.assembly.started
      /\ a.terminal = e.assembly.terminal /\ a.doubtful = e.assembly.doubtful
  BY <1>1, <1>3 DEF Assemblies
<1>6. g \in Emissions /\ g.reader = e.reader /\ g.assembly = a
  <2>1. g = [assembly |-> a, reader |-> e.reader]
    <3>1. \A d : [e EXCEPT !.assembly.slots = d]
                   = [assembly |-> [e.assembly EXCEPT !.slots = d], reader |-> e.reader]
      BY <1>1 DEF Emissions, Assemblies
    <3> QED
      BY ONLY <3>1, Zenon DEF g, a, slots
  <2> HIDE DEF a, g
  <2> QED
    BY <1>1, <1>5, <2>1 DEF Emissions
<1>7. MayTell(g.reader, event)
  BY <1>1, <1>6 DEF MayTell, Settled, Telling, at
<1>8. Heard(e.reader, event) = [e.reader EXCEPT !.items = new]
  BY DEF Heard, new, item
<1>9. f = [assembly |-> a, reader |-> [e.reader EXCEPT !.items = new]]
  <2> HIDE DEF g, event, a
  <2>1. f = [assembly |-> g.assembly, reader |-> Heard(g.reader, event)]
    BY <1>6, <1>7, Told DEF Settled, Telling
  <2> QED
    BY <1>6, <1>8, <2>1
<1> HIDE DEF a, g, f
<1>10. /\ f \in Emissions /\ f.assembly = a /\ f.reader.items = new
       /\ f.reader.texts = e.reader.texts /\ f.reader.sound = e.reader.sound
       /\ f.reader.begun = e.reader.begun /\ f.reader.end = e.reader.end
  BY <1>1, <1>4, <1>5, <1>9 DEF Emissions, Readers
<1>11. \A n \in DOMAIN new : Agrees(new[n], slots[n])
  <2>1. Agrees(new[at], slots[at])
    BY <1>3, <1>4 DEF Agrees, item
  <2>2. ASSUME NEW n \in DOMAIN items PROVE Agrees(new[n], slots[n])
    <3>1. Agrees(items[n], e.assembly.slots[n])
      BY DEF Settled, Telling
    <3> QED BY <1>3, <1>4, <3>1
  <2> QED
    BY <1>4, <2>1, <2>2
<1>12. \A b \in blocks : b.at \in DOMAIN new /\ b.at # at /\ Fits(b, new[b.at])
  BY <1>4 DEF Settled, Telling
<1>13. /\ \A n \in DOMAIN new : new[n].done \/ n = at \/ (\E c \in blocks : c.at = n)
                                \/ (new[n].kind = "function" /\ e.assembly.doubtful)
       /\ e.assembly.doubtful => \E n \in DOMAIN new : ~new[n].done /\ n # at /\ \A c \in blocks : c.at # n
  <2>1. \A n \in DOMAIN items : n # 0 /\ n # at
    BY <1>1, <1>4
  <2> QED
    BY <1>4, <2>1 DEF Settled, Telling
<1>14. Telling(f, blocks, at)
  BY <1>3, <1>4, <1>5, <1>10, <1>11, <1>12, <1>13 DEF Settled, Telling
<1> QED
  BY <1>4, <1>5, <1>10, <1>14 DEF f, g, at, item, IsAdded

Grown(b, content) == [b EXCEPT !.content = Longer(@, content)]

\* A block with more of its content stands for the same item.
LEMMA LongerBlock ==
  ASSUME NEW b \in ActiveBlocks, NEW content \in Fragmented, NEW c, c = Grown(b, content)
  PROVE  /\ c \in ActiveBlocks /\ c.at = b.at /\ c.index = b.index /\ c.kind = b.kind
         /\ c.content = Longer(b.content, content)
<1>1. b.content \in Fragmented /\ Longer(b.content, content) \in Fragmented
  BY DEF ActiveBlocks, Fragmented, Longer
<1> QED
  BY <1>1 DEF ActiveBlocks, Grown

\* One block for another of the same item, that nobody takes care of then.
IsGrown(e, b, content, f, c) ==
  /\ Telling(f, e.assembly.active \ {b}, b.at)
  /\ f.reader = e.reader /\ f.assembly.fallback = e.assembly.fallback
  /\ f.assembly.active = (e.assembly.active \ {b}) \cup {c}
  /\ b \in ActiveBlocks /\ c \in ActiveBlocks /\ c.at = b.at /\ c.kind = b.kind
  /\ c.content = Longer(b.content, content)
  /\ b.at \in DOMAIN e.reader.items /\ Fits(b, e.reader.items[b.at])
  /\ \A d \in e.assembly.active \ {b} : d.index # c.index

\* More of a block is more of its item.
LEMMA GrowTells ==
  ASSUME NEW e, Steady(e), NEW b \in e.assembly.active, NEW content \in Fragmented
  PROVE  IsGrown(e, b, content, Grow(e, b, content), Grown(b, content))
<1> DEFINE others == e.assembly.active \ {b}
           c == Grown(b, content)
           f == Grow(e, b, content)
           active == others \cup {c}
<1>1. /\ Telling(e, others, b.at) /\ b.at \in DOMAIN e.reader.items
      /\ Fits(b, e.reader.items[b.at]) /\ b \in ActiveBlocks
  BY ReleaseTells DEF Steady
<1>2. /\ c \in ActiveBlocks /\ c.at = b.at /\ c.index = b.index /\ c.kind = b.kind
      /\ c.content = Longer(b.content, content)
  <2>1. c = Grown(b, content)
    OBVIOUS
  <2> HIDE DEF c
  <2> QED
    BY <1>1, <2>1, LongerBlock
<1>3. active \in SUBSET ActiveBlocks
  BY <1>1, <1>2, ItemTypes DEF Telling
<1>4. f = [e EXCEPT !.assembly.active = active]
  BY DEF Grow, Grown, Longer
<1>5. \A d \in others : d.index # c.index
  BY <1>2 DEF Steady, Settled, Telling
<1> HIDE DEF others, active, IsGrown
<1>6. /\ Telling(f, others, b.at) /\ f.reader = e.reader
      /\ f.assembly.active = active /\ f.assembly.slots = e.assembly.slots
      /\ f.assembly.fallback = e.assembly.fallback
  BY <1>1, <1>3, <1>4, OtherActive
<1> QED
  BY <1>1, <1>2, <1>5, <1>6 DEF others, active, c, f, IsGrown

\* The client reads the text of a block.
LEMMA TextTells ==
  ASSUME NEW e, Steady(e), NEW b \in e.assembly.active, b.kind \in TextKinds,
         NEW text \in Fragmented, NEW g, g = Grow(e, b, text),
         NEW f, f = Say(g, [type |-> "delta", at |-> b.at, content |-> text])
  PROVE  /\ Steady(f) /\ f.reader.texts = e.reader.texts + Len(text)
         /\ f.assembly.fallback = e.assembly.fallback
<1> DEFINE others == e.assembly.active \ {b}
           c == Grown(b, text)
           item == e.reader.items[b.at]
<1>1. /\ Telling(g, others, b.at) /\ g.reader = e.reader
      /\ g.assembly.fallback = e.assembly.fallback
      /\ g.assembly.active = others \cup {c}
      /\ b \in ActiveBlocks /\ c \in ActiveBlocks /\ c.at = b.at /\ c.kind = b.kind
      /\ c.content = Longer(b.content, text)
      /\ b.at \in DOMAIN e.reader.items /\ Fits(b, item)
      /\ \A d \in others : d.index # c.index
  <2>1. IsGrown(e, b, text, g, c)
    BY GrowTells
  <2> HIDE DEF c
  <2> QED
    BY <2>1 DEF IsGrown
<1>2. ~item.done /\ item.kind = b.kind
      /\ (b.kind \in {"message", "reasoning"} => item.content = b.content)
  BY <1>1 DEF Fits
<1> HIDE DEF others, c
<1>3. /\ Telling(f, others, b.at) /\ f.assembly = g.assembly
      /\ f.reader.texts = Counted(e.reader.texts, text)
      /\ DOMAIN f.reader.items = DOMAIN e.reader.items
      /\ f.reader.items[b.at].content = Longer(item.content, text)
      /\ ~f.reader.items[b.at].done
      /\ f.reader.items[b.at].kind = item.kind
  BY <1>1, <1>2, DeltaTells
<1>4. b.kind \notin ToolKinds
  BY DEF TextKinds, ToolKinds
<1>5. Fits(c, f.reader.items[c.at])
  BY <1>1, <1>2, <1>3, <1>4 DEF Fits
<1>6. Settled(f, others \cup {c})
  BY <1>1, <1>3, <1>5, BlockTaken
<1> QED
  BY <1>1, <1>3, <1>6 DEF Steady, Counted, others

\* Arguments are kept until the call is complete.
LEMMA ArgumentsTell ==
  ASSUME NEW e, Steady(e), NEW b \in e.assembly.active, b.kind \in ToolKinds,
         NEW content \in Fragmented, NEW f, f = Grow(e, b, content)
  PROVE  /\ Steady(f) /\ f.reader = e.reader
         /\ f.assembly.fallback = e.assembly.fallback
<1> DEFINE others == e.assembly.active \ {b}
           c == Grown(b, content)
<1>1. /\ Telling(f, others, b.at) /\ f.reader = e.reader
      /\ f.assembly.fallback = e.assembly.fallback
      /\ f.assembly.active = others \cup {c}
      /\ c \in ActiveBlocks /\ c.at = b.at /\ c.kind = b.kind
      /\ b.at \in DOMAIN e.reader.items /\ Fits(b, e.reader.items[b.at])
      /\ \A d \in others : d.index # c.index
  <2>1. IsGrown(e, b, content, f, c)
    BY GrowTells
  <2> HIDE DEF c
  <2> QED
    BY <2>1 DEF IsGrown
<1> HIDE DEF others, c
<1>2. Fits(c, f.reader.items[c.at])
  BY <1>1 DEF Fits, ToolKinds
<1>3. Settled(f, others \cup {c})
  BY <1>1, <1>2, BlockTaken
<1> QED
  BY <1>1, <1>3 DEF Steady, others

\* A block that is opened is the only one at its index; nothing is text yet.
LEMMA OpenTells ==
  ASSUME NEW e, Steady(e), NEW index \in Int, NEW kind \in ItemKinds, NEW content \in Fragmented,
         kind \in {"message", "reasoning"} => content = <<>>
  PROVE  LET f == OpenBlock(e, index, kind, content)
         IN  /\ Steady(f) /\ f.reader.texts = e.reader.texts
             /\ f.assembly.fallback = e.assembly.fallback
             /\ \E b : ActiveAt(f, index) = {b} /\ b.kind = kind
<1> DEFINE free == CompleteExisting(e, index)
           at == Len(free.assembly.slots) + 1
           block == [index |-> index, at |-> at, kind |-> kind, content |-> content]
           active == free.assembly.active \cup {block}
           h == [free EXCEPT !.assembly.active = active]
           event == [type |-> "added", at |-> at, kind |-> kind]
           f == OpenBlock(e, index, kind, content)
<1>1. /\ Steady(free) /\ free.reader.texts = e.reader.texts
      /\ free.assembly.active = e.assembly.active \ ActiveAt(e, index)
      /\ free.assembly.fallback = e.assembly.fallback
  BY CompleteExistingTells
<1>2. f = Say([free EXCEPT !.assembly.slots = Append(@, NoItem), !.assembly.active = active], event)
  BY DEF OpenBlock
<1>3. [free EXCEPT !.assembly.slots = Append(@, NoItem), !.assembly.active = active]
        = [h EXCEPT !.assembly.slots = Append(@, NoItem)]
  <2>1. free \in Emissions
    BY <1>1 DEF Steady, Settled, Telling
  <2> HIDE DEF free, active
  <2>2. \A slots : [free EXCEPT !.assembly.slots = slots, !.assembly.active = active]
                     = [h EXCEPT !.assembly.slots = slots]
    BY <2>1 DEF Emissions, Assemblies
  <2>3. h.assembly.slots = free.assembly.slots
    BY <2>1 DEF Emissions, Assemblies
  <2> HIDE DEF h
  <2> QED
    BY <2>2, <2>3
<1> HIDE DEF f, free, h, active, event
<1>4. /\ at \in Nat /\ block \in ActiveBlocks /\ active \in SUBSET ActiveBlocks
  <2>1. at \in Nat /\ free.assembly.active \subseteq ActiveBlocks
    BY <1>1, ItemTypes DEF Steady, Settled, Telling
  <2> HIDE DEF at
  <2> QED
    BY <2>1 DEF ActiveBlocks, active
<1>5. /\ Settled(h, free.assembly.active) /\ h.reader = free.reader /\ h.assembly.active = active
      /\ h.assembly.slots = free.assembly.slots /\ h.assembly.fallback = free.assembly.fallback
  BY <1>1, <1>4, OtherActive DEF h, Steady, Settled
<1>6. f = Say([h EXCEPT !.assembly.slots = Append(@, NoItem)], event)
  BY <1>2, <1>3
<1>7. /\ Telling(f, free.assembly.active, at) /\ at \in DOMAIN f.reader.items
      /\ f.reader.items[at] = [kind |-> kind, content |-> <<>>, done |-> FALSE]
      /\ f.assembly.active = active /\ f.reader.texts = e.reader.texts
      /\ f.assembly.fallback = e.assembly.fallback
  <2>1. at = Len(h.assembly.slots) + 1
    BY <1>5
  <2>2. f = Say([h EXCEPT !.assembly.slots = Append(@, NoItem)],
                [type |-> "added", at |-> Len(h.assembly.slots) + 1, kind |-> kind])
    BY <1>6, <2>1 DEF event
  <2>3. IsAdded(h, free.assembly.active, kind, Len(h.assembly.slots) + 1, f)
    BY <1>5, <2>2, AdditionTells
  <2> HIDE DEF at
  <2> QED
    BY <1>1, <1>5, <2>1, <2>3 DEF IsAdded
<1> DEFINE opened == block
<1>8. opened.at = at /\ opened.index = index /\ opened.kind = kind /\ opened.content = content
      /\ opened \in ActiveBlocks /\ active = free.assembly.active \cup {opened}
  BY <1>4 DEF active
<1> HIDE DEF opened
<1>9. Fits(opened, f.reader.items[opened.at])
  <2>1. /\ ~f.reader.items[at].done /\ f.reader.items[at].kind = kind
        /\ f.reader.items[at].content = <<>>
    BY <1>7
  <2> QED
    BY <1>8, <2>1 DEF Fits
<1>10. \A c \in free.assembly.active : c.index # opened.index
  BY <1>1, <1>8 DEF ActiveAt
<1>11. Steady(f)
  <2>1. Settled(f, free.assembly.active \cup {opened})
    BY <1>7, <1>8, <1>9, <1>10, BlockTaken
  <2> QED
    BY <1>7, <1>8, <2>1 DEF Steady
<1>12. ActiveAt(f, index) = {opened}
  BY <1>7, <1>8, <1>10 DEF ActiveAt
<1> QED
  BY <1>7, <1>8, <1>11, <1>12 DEF f

\* Text at an index that has a block for it.
LEMMA EmitTells ==
  ASSUME NEW e, Steady(e), NEW index, NEW b, ActiveAt(e, index) = {b}, b.kind \in TextKinds,
         NEW text \in Texts
  PROVE  LET f == EmitText(e, index, text)
         IN  /\ Steady(f) /\ f.reader.texts = e.reader.texts + Len(text)
             /\ f.assembly.fallback = e.assembly.fallback
<1>1. b \in e.assembly.active /\ text \in Fragmented
  <2>1. b \in ActiveAt(e, index)
    OBVIOUS
  <2>2. text = <<>> \/ text = <<"text">>
    BY DEF Texts
  <2>3. <<>> \in Fragmented /\ <<"text">> \in Fragmented
    BY DEF Fragmented, Fragments
  <2> QED
    BY <2>1, <2>2, <2>3 DEF ActiveAt
<1>2. CASE text = <<>>
  <2>1. e.reader.texts \in Nat /\ Len(text) = 0
    BY <1>2, ItemTypes DEF Steady, Settled, Telling, Readers
  <2> QED
    BY <1>2, <2>1 DEF EmitText
<1>3. CASE text # <<>>
  <2> DEFINE g == Grow(e, b, text)
             f == EmitText(e, index, text)
  <2>1. b = CHOOSE c \in ActiveAt(e, index) : TRUE
    OBVIOUS
  <2>2. f = Say(g, [type |-> "delta", at |-> b.at, content |-> text])
    BY <1>3, <2>1 DEF EmitText
  <2>3. g = Grow(e, b, text)
    OBVIOUS
  <2> HIDE DEF f, g
  <2>4. /\ Steady(f) /\ f.reader.texts = e.reader.texts + Len(text)
        /\ f.assembly.fallback = e.assembly.fallback
    BY <1>1, <2>2, <2>3, TextTells
  <2> QED
    BY <2>4 DEF f
<1> QED
  BY <1>2, <1>3

\* Text at an index that may have no block for it yet.
LEMMA WriteTells ==
  ASSUME NEW e, Steady(e), NEW index \in Int, NEW kinds \in {{"message"}, {"reasoning", "sealed"}},
         NEW text \in Texts
  PROVE  LET f == WriteAt(e, index, kinds, text)
         IN  /\ Steady(f) /\ f.reader.texts = e.reader.texts + Len(text)
             /\ f.assembly.fallback = e.assembly.fallback
<1> DEFINE kind == IF "message" \in kinds THEN "message" ELSE "reasoning"
<1>1. CASE \E b \in ActiveAt(e, index) : b.kind \in kinds
  <2>1. PICK b \in ActiveAt(e, index) : b.kind \in kinds
    BY <1>1
  <2>2. ActiveAt(e, index) = {b} /\ b.kind \in TextKinds
    BY <2>1 DEF ActiveAt, Steady, Settled, Telling, TextKinds
  <2>3. WriteAt(e, index, kinds, text) = EmitText(e, index, text)
    BY <1>1 DEF WriteAt
  <2> QED
    BY <2>2, <2>3, EmitTells
<1>2. CASE ~\E b \in ActiveAt(e, index) : b.kind \in kinds
  <2> DEFINE g == OpenBlock(e, index, kind, <<>>)
  <2>1. WriteAt(e, index, kinds, text) = EmitText(g, index, text)
    BY <1>2 DEF WriteAt
  <2>2. kind \in ItemKinds /\ kind \in TextKinds /\ <<>> \in Fragmented
    BY DEF ItemKinds, TextKinds, Fragmented
  <2> HIDE DEF kind
  <2>3. /\ Steady(g) /\ g.reader.texts = e.reader.texts
        /\ g.assembly.fallback = e.assembly.fallback
        /\ \E b : ActiveAt(g, index) = {b} /\ b.kind = kind
    BY <2>2, OpenTells
  <2> HIDE DEF g
  <2> QED
    BY <2>1, <2>2, <2>3, EmitTells
<1> QED
  BY <1>1, <1>2

-----------------------------------------------------------------------------------
(* The end *)

\* The blocks of the slots from one on.
Since(active, n) == {b \in active : b.at >= n}

\* The block of a slot is completed, if the slot has one.
LEMMA SlotTells ==
  ASSUME NEW e, NEW active, NEW n \in Nat, Settled(e, Since(active, n)),
         \A b \in active : b.at \in Nat
  PROVE  LET f == CompleteSlot(e, active, n)
         IN  /\ Settled(f, Since(active, n + 1))
             /\ f.reader.texts = e.reader.texts
             /\ Len(f.assembly.slots) = Len(e.assembly.slots)
<1> DEFINE there == {b \in active : b.at = n}
<1>1. CASE there = {}
  <2>1. CompleteSlot(e, active, n) = e
    BY <1>1 DEF CompleteSlot
  <2>2. Since(active, n) = Since(active, n + 1)
    BY <1>1 DEF Since
  <2> QED
    BY <2>1, <2>2
<1>2. CASE there # {}
  <2> DEFINE b == CHOOSE c \in there : TRUE
  <2>1. b \in there
    BY <1>2
  <2>2. CompleteSlot(e, active, n) = CompleteBlock(e, b)
    BY <1>2 DEF CompleteSlot
  <2> HIDE DEF b
  <2>3. b \in Since(active, n) /\ b.at = n
    BY <2>1 DEF Since
  <2>4. Since(active, n) \ {b} = Since(active, n + 1)
    <3>1. \A c \in Since(active, n) : c.at = n => c = b
      BY <2>3 DEF Settled, Telling
    <3> QED
      BY <2>3, <3>1 DEF Since
  <2> QED
    BY <2>2, <2>3, <2>4, CompletionTells
<1> QED
  BY <1>1, <1>2

\* The recursion of FlushActive has a function on the first n slots.
LEMMA FlushExists ==
  ASSUME NEW start, NEW active, NEW n \in Nat
  PROVE  \E F : F = [i \in 0 .. n |-> IF i = 0 THEN start ELSE CompleteSlot(F[i - 1], active, i)]
<1> DEFINE Step(F, i) == IF i = 0 THEN start ELSE CompleteSlot(F[i - 1], active, i)
           S == {k \in Nat : \E F : F = [i \in 0 .. k |-> Step(F, i)]}
<1>1. 0 \in S
  <2> DEFINE F == [i \in 0 .. 0 |-> start]
  <2>1. F = [i \in 0 .. 0 |-> Step(F, i)]
    OBVIOUS
  <2> QED
    BY <2>1
<1>2. ASSUME NEW k \in S PROVE k + 1 \in S
  <2>1. PICK F : F = [i \in 0 .. k |-> Step(F, i)]
    OBVIOUS
  <2> DEFINE last == CompleteSlot(F[k], active, k + 1)
             G == [i \in 0 .. k + 1 |-> IF i = k + 1 THEN last ELSE F[i]]
  <2>2. \A i \in 0 .. k : F[i] = Step(F, i)
    <3> HIDE DEF Step
    <3> QED BY <2>1
  <2>3. ASSUME NEW i \in 0 .. k + 1 PROVE G[i] = Step(G, i)
    <3>1. CASE i = k + 1
      <4>1. G[i] = last /\ i # 0 /\ i - 1 = k /\ G[k] = F[k]
        BY <3>1
      <4> HIDE DEF G
      <4> QED
        BY <3>1, <4>1
    <3>2. CASE i \in 0 .. k
      <4>1. G[i] = F[i] /\ (i # 0 => G[i - 1] = F[i - 1])
        BY <3>2
      <4> HIDE DEF G
      <4> QED
        BY <3>2, <4>1, <2>2
    <3> QED
      BY <3>1, <3>2
  <2>4. G = [i \in 0 .. k + 1 |-> Step(G, i)]
    <3> HIDE DEF Step
    <3> QED BY <2>3
  <2> HIDE DEF G, Step
  <2> QED
    BY <2>4
<1> HIDE DEF S
<1>3. S = Nat
  BY <1>1, <1>2, NatIsInductive DEF S
<1> QED
  BY <1>3 DEF S

\* However many blocks are active, all are completed.
LEMMA FlushTells ==
  ASSUME NEW e, Steady(e)
  PROVE  Settled(FlushActive(e), {}) /\ FlushActive(e).reader.texts = e.reader.texts
<1> DEFINE active == e.assembly.active
           start == [e EXCEPT !.assembly.active = {}]
           last == Len(e.assembly.slots)
           F == CHOOSE F : F = [i \in 0 .. last |->
                                  IF i = 0 THEN start ELSE CompleteSlot(F[i - 1], active, i)]
<1>1. /\ e \in Emissions /\ last \in Nat /\ Len(e.reader.items) = last
      /\ DOMAIN e.reader.items = 1 .. last
      /\ \A b \in active : b.at \in DOMAIN e.reader.items
  BY ItemTypes DEF Steady, Settled, Telling
<1>2. Settled(start, active) /\ start.reader = e.reader /\ start.assembly.slots = e.assembly.slots
  BY OtherActive DEF Steady, Settled
<1> HIDE DEF start, active, last
<1>3. F = [i \in 0 .. last |-> IF i = 0 THEN start ELSE CompleteSlot(F[i - 1], active, i)]
  BY <1>1, FlushExists
<1>4. FlushActive(e) = F[last]
  BY DEF FlushActive, start, active, last
<1> HIDE DEF F
<1>5. \A i \in 0 .. last : F[i] = IF i = 0 THEN start ELSE CompleteSlot(F[i - 1], active, i)
  BY <1>3
<1> DEFINE Flushed(i) == /\ Settled(F[i], Since(active, i + 1))
                         /\ F[i].reader.texts = e.reader.texts
           S == {i \in Nat : i =< last => Flushed(i)}
<1>6. 0 \in S
  <2>1. F[0] = start
    BY <1>1, <1>5
  <2>2. Since(active, 0 + 1) = active
    BY <1>1 DEF Since
  <2> QED
    BY <1>2, <2>1, <2>2
<1>7. ASSUME NEW i \in S PROVE i + 1 \in S
  <2>1. SUFFICES ASSUME i + 1 =< last PROVE Flushed(i + 1)
    OBVIOUS
  <2>2. Flushed(i) /\ i + 1 \in Nat
    BY <1>1, <2>1
  <2>3. F[i + 1] = CompleteSlot(F[i], active, i + 1)
    BY <1>1, <1>5, <2>1
  <2>4. \A b \in active : b.at \in Nat
    BY <1>1
  <2> QED
    BY <2>2, <2>3, <2>4, SlotTells
<1>8. Flushed(last)
  <2>1. S = Nat
    <3> HIDE DEF S
    <3>1. S \in SUBSET Nat
      BY DEF S
    <3> QED
      BY <1>6, <1>7, <3>1, NatIsInductive
  <2> QED
    BY <1>1, <2>1
<1>9. Since(active, last + 1) = {}
  BY <1>1 DEF Since
<1> QED
  BY <1>4, <1>8, <1>9

\* The last event repeats the items that are done.
LEMMA OutputTells ==
  ASSUME NEW e, Settled(e, {})
  PROVE  Output(e) = DoneItems(e.reader.items)
<1> DEFINE items == e.reader.items
           slots == e.assembly.slots
           filled == {n \in DOMAIN slots : slots[n] # NoItem}
           done == {n \in DOMAIN items : items[n].done}
<1>1. /\ DOMAIN items = DOMAIN slots /\ \A n \in DOMAIN items : items[n] \in Items
      /\ \A n \in DOMAIN items : Agrees(items[n], slots[n])
  BY ItemTypes DEF Settled, Telling
<1>2. \A n \in DOMAIN items : items[n].kind # "none"
  BY <1>1 DEF Items, ItemKinds, TextKinds, ToolKinds
<1>3. filled = done
  <2>1. ASSUME NEW n \in DOMAIN items PROVE slots[n] # NoItem <=> items[n].done
    <3>1. Agrees(items[n], slots[n]) /\ items[n].kind # "none" /\ items[n] \in Items
      BY <1>1, <1>2
    <3>2. [kind |-> items[n].kind, content |-> items[n].content] # NoItem
      BY <3>1 DEF NoItem
    <3> QED
      BY <3>1, <3>2 DEF Agrees, Items
  <2> QED
    BY <1>1, <2>1
<1>4. \A n \in done : slots[n] = [kind |-> items[n].kind, content |-> items[n].content]
  BY <1>1 DEF Agrees
<1> QED
  BY <1>3, <1>4 DEF Output, DoneItems

\* A response that is over: an item that is open is a call that was refused.
HasEnded(f, status, texts) ==
  /\ f.assembly.terminal
  /\ f.reader.sound /\ f.reader.begun /\ f.reader.end = status /\ f.reader.texts = texts
  /\ \A n \in DOMAIN f.reader.items :
       \/ f.reader.items[n].done
       \/ f.reader.items[n].kind = "function" /\ f.assembly.doubtful
  /\ f.assembly.doubtful => ~AllDone(f.reader)

\* The last event repeats the items that are done.
LEMMA EndTells ==
  ASSUME NEW e, Settled(e, {}), NEW status \in {"completed", "incomplete", "failed"}
  PROVE  /\ HasEnded(EndWith(e, status), status, e.reader.texts)
         /\ EndWith(e, status).assembly.doubtful <=> e.assembly.doubtful
<1> DEFINE a == [e.assembly EXCEPT !.terminal = TRUE]
           g == [e EXCEPT !.assembly.terminal = TRUE]
           event == [type |-> status, output |-> Output(e)]
           f == EndWith(e, status)
<1>1. e \in Emissions /\ e.assembly \in Assemblies /\ e.reader \in Readers
  BY ItemTypes DEF Settled, Telling
<1>2. a.terminal /\ (a.doubtful <=> e.assembly.doubtful) /\ a \in Assemblies
  BY <1>1 DEF Assemblies
<1>3. g \in Emissions /\ g.reader = e.reader /\ g.assembly = a
  <2>1. \A d : [e EXCEPT !.assembly.terminal = d]
               = [assembly |-> [e.assembly EXCEPT !.terminal = d], reader |-> e.reader]
    BY <1>1 DEF Emissions
  <2>2. g = [assembly |-> a, reader |-> e.reader]
    BY ONLY <2>1, Zenon
  <2> HIDE DEF a, g
  <2> QED
    BY <1>1, <1>2, <2>2 DEF Emissions
<1>4. MayTell(g.reader, event)
  <2>1. event.output = DoneItems(e.reader.items)
    BY OutputTells
  <2> QED
    BY <1>3, <2>1 DEF MayTell, Settled, Telling
<1>5. Heard(g.reader, event) = [e.reader EXCEPT !.end = status]
  BY <1>3 DEF Heard
<1>6. f = Say(g, event)
  BY DEF EndWith
<1> HIDE DEF f, g, a, event
<1>7. f.assembly = a /\ f.reader = [e.reader EXCEPT !.end = status]
  BY <1>3, <1>4, <1>5, <1>6, Told DEF Settled, Telling
<1>8. /\ f.reader.sound = e.reader.sound /\ f.reader.begun = e.reader.begun
      /\ f.reader.items = e.reader.items /\ f.reader.texts = e.reader.texts
      /\ f.reader.end = status
  BY <1>1, <1>7 DEF Readers
<1>9. \A n \in DOMAIN e.reader.items :
        e.reader.items[n].done \/ (e.reader.items[n].kind = "function" /\ e.assembly.doubtful)
  BY ItemTypes DEF Settled, Telling
<1>10. e.assembly.doubtful => \E n \in DOMAIN e.reader.items : ~e.reader.items[n].done
  BY DEF Settled, Telling
<1>11. HasEnded(f, status, e.reader.texts)
  BY <1>2, <1>7, <1>8, <1>9, <1>10 DEF HasEnded, AllDone, Settled, Telling
<1>12. f.assembly.doubtful <=> e.assembly.doubtful
  BY <1>2, <1>7
<1> QED
  BY <1>11, <1>12 DEF f

\* A response fails, or else it ends with all of its items done.
Concluded(f, texts) ==
  \E status \in {"completed", "incomplete", "failed"} :
    HasEnded(f, status, texts) /\ (status = "failed" <=> ~AllDone(f.reader))

\* The end of an upstream ends the response,
LEMMA FinishTells ==
  ASSUME NEW e, Steady(e)
  PROVE  Concluded(FinishResponse(e), e.reader.texts)
<1> DEFINE g == FlushActive(e)
           status == IF g.assembly.doubtful THEN "failed"
                     ELSE IF g.assembly.truncated THEN "incomplete" ELSE "completed"
           f == EndWith(g, status)
<1>1. Settled(g, {}) /\ g.reader.texts = e.reader.texts
  BY FlushTells
<1>2. FinishResponse(e) = f
  BY DEF FinishResponse
<1> HIDE DEF g
<1>3. /\ g.assembly.doubtful => status = "failed"
      /\ ~g.assembly.doubtful => status \in {"completed", "incomplete"}
  OBVIOUS
<1>4. status \in {"completed", "incomplete", "failed"}
  BY <1>3
<1> HIDE DEF status
<1>5. HasEnded(f, status, g.reader.texts) /\ (f.assembly.doubtful <=> g.assembly.doubtful)
  BY <1>1, <1>4, EndTells
<1> HIDE DEF f
<1>6. f.assembly.doubtful <=> ~AllDone(f.reader)
  BY <1>5 DEF HasEnded, AllDone
<1>7. status = "failed" <=> ~AllDone(f.reader)
  BY <1>3, <1>5, <1>6
<1> QED
  BY <1>1, <1>2, <1>4, <1>5, <1>7 DEF Concluded

\* and so does its failure.
LEMMA FailTells ==
  ASSUME NEW e, Steady(e)
  PROVE  HasEnded(FailResponse(e), "failed", e.reader.texts)
BY FlushTells, EndTells DEF FailResponse

-----------------------------------------------------------------------------------
(* The stream *)

Wires == [text : Nat, arguments : Nat, failure : BOOLEAN]

\* Nothing was sent or told yet, or all that was told is taken care of.
AtWork ==
  /\ (assembly = NewAssembly /\ reader = NewReader) \/ Steady(Now)
  /\ reader.texts = wire.text

\* The invariant: a stream that is open is at work, and one that is not is whole.
AssemblyInv ==
  /\ wire \in Wires
  /\ outcome = "open" => AtWork
  /\ outcome # "open" => ResponseIsWhole

\* Flags that what was told does not depend on.
LEMMA FlagsTell ==
  ASSUME NEW e, Steady(e), NEW a \in Assemblies, a.active = e.assembly.active,
         a.slots = e.assembly.slots, a.started = e.assembly.started,
         a.terminal = e.assembly.terminal, a.doubtful = e.assembly.doubtful,
         NEW f, f = [assembly |-> a, reader |-> e.reader]
  PROVE  Steady(f) /\ f.reader = e.reader
<1>1. e \in Emissions
  BY DEF Steady, Settled, Telling
<1>2. f \in Emissions /\ f.assembly = a /\ f.reader = e.reader
  BY <1>1 DEF Emissions
<1>3. Telling(f, e.assembly.active, 0)
  BY <1>2 DEF Steady, Settled, Telling
<1> QED
  BY <1>2, <1>3 DEF Steady, Settled

\* The response starts with the first event, or has.
LEMMA StartTells ==
  ASSUME AtWork
  PROVE  LET e == EnsureStarted(Now)
         IN  /\ Steady(e) /\ e.reader.texts = wire.text
             /\ e.assembly.fallback = assembly.fallback /\ assembly.fallback \in Int
<1>1. CASE assembly = NewAssembly /\ reader = NewReader
  <2> DEFINE a == [NewAssembly EXCEPT !.started = TRUE]
             g == [Now EXCEPT !.assembly.started = TRUE]
             r == [NewReader EXCEPT !.begun = TRUE]
             e == EnsureStarted(Now)
  <2>1. e = Say(g, [type |-> "created"])
    BY <1>1 DEF EnsureStarted, Now, NewAssembly
  <2>2. g = [assembly |-> a, reader |-> NewReader]
    <3>1. \A d : [[assembly |-> NewAssembly, reader |-> NewReader] EXCEPT !.assembly.started = d]
                 = [assembly |-> [NewAssembly EXCEPT !.started = d], reader |-> NewReader]
      OBVIOUS
    <3>2. Now = [assembly |-> NewAssembly, reader |-> NewReader]
      BY <1>1 DEF Now
    <3> QED
      BY ONLY <3>1, <3>2, Zenon
  <2>3. /\ a \in Assemblies /\ a.active = {} /\ a.slots = <<>> /\ a.fallback = -1
        /\ a.started /\ ~a.terminal /\ ~a.doubtful
    <3>1. NewAssembly \in Assemblies
      BY DEF NewAssembly, Assemblies, Slots
    <3>2. /\ NewAssembly.active = {} /\ NewAssembly.slots = <<>> /\ NewAssembly.fallback = -1
          /\ ~NewAssembly.terminal /\ ~NewAssembly.doubtful
      BY DEF NewAssembly
    <3>3. /\ a \in Assemblies /\ a.active = NewAssembly.active /\ a.slots = NewAssembly.slots
          /\ a.fallback = NewAssembly.fallback /\ a.started
          /\ (a.terminal <=> NewAssembly.terminal) /\ (a.doubtful <=> NewAssembly.doubtful)
      BY <3>1 DEF Assemblies
    <3> HIDE DEF a
    <3> QED
      BY <3>2, <3>3
  <2>4. NewReader \in Readers
    BY DEF NewReader, Readers, Endings, Items
  <2>5. g \in Emissions /\ g.assembly = a /\ g.reader = NewReader
    <3> HIDE DEF a, g
    <3> QED BY <2>2, <2>3, <2>4 DEF Emissions
  <2>6. MayTell(NewReader, [type |-> "created"]) /\ NewReader.sound
    BY DEF MayTell, NewReader
  <2>7. Heard(NewReader, [type |-> "created"]) = r
    BY DEF Heard
  <2>8. /\ r \in Readers /\ r.sound /\ r.begun /\ r.items = <<>> /\ r.texts = 0 /\ r.end = "none"
    <3>1. /\ NewReader.items = <<>> /\ NewReader.texts = 0 /\ NewReader.end = "none"
          /\ NewReader.sound
      BY DEF NewReader
    <3>2. /\ r \in Readers /\ r.items = NewReader.items /\ r.texts = NewReader.texts
          /\ r.end = NewReader.end /\ r.begun /\ (r.sound <=> NewReader.sound)
      BY <2>4 DEF Readers
    <3> HIDE DEF r
    <3> QED
      BY <3>1, <3>2
  <2>9. Say(g, [type |-> "created"]) = [assembly |-> a, reader |-> r]
    <3> HIDE DEF a, g, r
    <3> QED BY <2>5, <2>6, <2>7, Told
  <2> HIDE DEF a, g, r, e
  <2>10. e \in Emissions /\ e.assembly = a /\ e.reader = r
    BY <2>1, <2>3, <2>8, <2>9 DEF Emissions
  <2>11. Steady(e)
    BY <2>3, <2>8, <2>10 DEF Steady, Settled, Telling
  <2>12. wire.text = 0 /\ assembly.fallback = -1
    BY <1>1 DEF AtWork, NewReader, NewAssembly
  <2> QED
    BY <2>3, <2>8, <2>10, <2>11, <2>12 DEF e
<1>2. CASE Steady(Now)
  <2>1. assembly.started /\ Now.reader = reader /\ Now.assembly = assembly
    BY <1>2 DEF Steady, Settled, Telling, Now
  <2>2. EnsureStarted(Now) = Now
    BY <2>1 DEF EnsureStarted
  <2>3. assembly.fallback \in Int
    BY <1>2, <2>1, ItemTypes DEF Steady, Settled, Telling, Assemblies
  <2> QED
    BY <1>2, <2>1, <2>2, <2>3 DEF AtWork
<1> QED
  BY <1>1, <1>2 DEF AtWork

\* With an index of its own for text that has none.
LEMMA IndexTells ==
  ASSUME AtWork, NEW index \in BlockIndexes \cup {NoIndex}
  PROVE  LET e == Indexed(index)
         IN  Steady(e) /\ e.reader.texts = wire.text /\ SafeIndex(index) \in Int
<1> DEFINE e == EnsureStarted(Now)
           a == [e.assembly EXCEPT !.fallback = @ - 1]
           f == [e EXCEPT !.assembly.fallback = @ - 1]
<1>1. Steady(e) /\ e.reader.texts = wire.text /\ assembly.fallback \in Int
  BY StartTells
<1>2. SafeIndex(index) \in Int
  <2>1. index = NoIndex \/ index \in Int
    BY AssemblyAssumption
  <2> QED
    BY <1>1, <2>1 DEF SafeIndex
<1>3. Indexed(index) = IF index = NoIndex THEN f ELSE e
  BY DEF Indexed
<1> HIDE DEF e
<1>4. e \in Emissions /\ e.assembly \in Assemblies
  BY <1>1, ItemTypes DEF Steady, Settled, Telling
<1>5. /\ a \in Assemblies /\ a.active = e.assembly.active /\ a.slots = e.assembly.slots
      /\ a.started = e.assembly.started /\ a.terminal = e.assembly.terminal
      /\ a.doubtful = e.assembly.doubtful
  BY <1>4 DEF Assemblies
<1>6. f = [assembly |-> a, reader |-> e.reader]
  BY <1>4 DEF Emissions, Assemblies
<1> HIDE DEF a, f
<1>7. Steady(f) /\ f.reader = e.reader
  BY <1>1, <1>5, <1>6, FlagsTell
<1> QED
  BY <1>1, <1>2, <1>3, <1>7

\* The events that only go on.
LEMMA DeliverGoesOn ==
  ASSUME NEW e, Steady(e), Deliver(e), wire' \in Wires, e.reader.texts = wire'.text
  PROVE  AssemblyInv'
<1>1. assembly' = e.assembly /\ reader' = e.reader
  BY DEF Deliver
<1>2. e \in Emissions /\ ~e.assembly.terminal
  BY DEF Steady, Settled, Telling
<1>3. Now' = e
  BY <1>1, <1>2 DEF Now, Emissions
<1>4. outcome' = "open"
  BY <1>2 DEF Deliver
<1>5. Steady(Now)'
  <2>1. Steady(Now')
    BY <1>3
  <2> QED
    BY <2>1 DEF Steady, Settled, Telling, Now
<1> QED
  BY <1>1, <1>4, <1>5 DEF AssemblyInv, AtWork

\* The events that end the response.
LEMMA DeliverEnds ==
  ASSUME NEW e, NEW status \in {"completed", "incomplete", "failed"},
         HasEnded(e, status, wire'.text), Deliver(e), wire' \in Wires,
         status = "failed" => wire'.failure \/ ~AllDone(e.reader),
         status # "failed" => AllDone(e.reader)
  PROVE  AssemblyInv'
<1>1. assembly' = e.assembly /\ reader' = e.reader
  BY DEF Deliver
<1>2. outcome' = "over"
  BY DEF Deliver, HasEnded
<1>3. AllDone(reader)' <=> AllDone(e.reader)
  BY <1>1 DEF AllDone
<1>4. NoItemIsForgotten'
  <2>1. \A n \in DOMAIN e.reader.items :
          e.reader.items[n].done \/ (e.reader.items[n].kind = "function" /\ e.assembly.doubtful)
    BY DEF HasEnded
  <2> QED
    BY <1>1, <2>1 DEF NoItemIsForgotten
<1>5. reader.sound' /\ reader.begun' /\ reader.end' = status /\ reader.texts' = wire.text'
  BY <1>1 DEF HasEnded
<1>6. ResponseIsWhole'
  BY <1>2, <1>3, <1>4, <1>5, <1>1 DEF ResponseIsWhole
<1> QED
  BY <1>2, <1>6 DEF AssemblyInv

\* What an upstream has sent.
LEMMA Sent ==
  ASSUME wire \in Wires, NEW fragments, Len(fragments) \in Nat
  PROVE  /\ SendText(fragments) => wire' \in Wires /\ wire'.text = wire.text + Len(fragments)
         /\ SendArguments(fragments) => wire' \in Wires /\ wire'.text = wire.text
         /\ Fails => wire' \in Wires /\ wire'.text = wire.text /\ wire'.failure
<1>1. wire.text \in Nat /\ wire.arguments \in Nat /\ wire.failure \in BOOLEAN
  BY DEF Wires
<1>2. ASSUME SendText(fragments)
      PROVE  wire' \in Wires /\ wire'.text = wire.text + Len(fragments)
  BY <1>1, <1>2 DEF SendText, Send, Wires
<1>3. ASSUME SendArguments(fragments)
      PROVE  wire' \in Wires /\ wire'.text = wire.text
  BY <1>1, <1>3 DEF SendArguments, Send, Wires
<1>4. ASSUME Fails
      PROVE  wire' \in Wires /\ wire'.text = wire.text /\ wire'.failure
  BY <1>1, <1>4 DEF Fails, Wires
<1> QED
  BY <1>2, <1>3, <1>4

LEMMA TextLength ==
  ASSUME NEW text \in Texts
  PROVE  Len(text) \in Nat
BY DEF Texts

\* Each event of the upstream keeps the invariant: the starts of blocks,
LEMMA TextStartInv ==
  ASSUME AtWork, wire \in Wires, NEW index \in BlockIndexes \cup {NoIndex}, NEW text \in Texts,
         TextStart(index, text)
  PROVE  AssemblyInv'
<1> DEFINE e == Indexed(index)
           i == SafeIndex(index)
           g == OpenBlock(e, i, "message", <<>>)
           f == EmitText(g, i, text)
<1>1. Deliver(f) /\ SendText(text)
  BY DEF TextStart
<1>2. Steady(e) /\ e.reader.texts = wire.text /\ i \in Int
  BY IndexTells
<1>3. "message" \in ItemKinds /\ "message" \in TextKinds /\ <<>> \in Fragmented
  BY DEF ItemKinds, TextKinds, Fragmented
<1> HIDE DEF e, i, f
<1>4. /\ Steady(g) /\ g.reader.texts = e.reader.texts
      /\ \E b : ActiveAt(g, i) = {b} /\ b.kind = "message"
  BY <1>2, <1>3, OpenTells
<1> HIDE DEF g
<1>5. Steady(f) /\ f.reader.texts = g.reader.texts + Len(text)
  BY <1>3, <1>4, EmitTells DEF f
<1>6. wire' \in Wires /\ wire'.text = wire.text + Len(text)
  BY <1>1, Sent, TextLength
<1> QED
  BY <1>1, <1>2, <1>4, <1>5, <1>6, DeliverGoesOn

LEMMA ThinkingStartInv ==
  ASSUME AtWork, wire \in Wires, NEW index \in BlockIndexes, NEW text \in Texts,
         ThinkingStart(index, text)
  PROVE  AssemblyInv'
<1> DEFINE e == EnsureStarted(Now)
           g == OpenBlock(e, index, "reasoning", <<>>)
           f == EmitText(g, index, text)
<1>1. Deliver(f) /\ SendText(text)
  BY DEF ThinkingStart
<1>2. Steady(e) /\ e.reader.texts = wire.text /\ index \in Int
  BY StartTells, AssemblyAssumption
<1>3. "reasoning" \in ItemKinds /\ "reasoning" \in TextKinds /\ <<>> \in Fragmented
  BY DEF ItemKinds, TextKinds, Fragmented
<1> HIDE DEF e, f
<1>4. /\ Steady(g) /\ g.reader.texts = e.reader.texts
      /\ \E b : ActiveAt(g, index) = {b} /\ b.kind = "reasoning"
  BY <1>2, <1>3, OpenTells
<1> HIDE DEF g
<1>5. Steady(f) /\ f.reader.texts = g.reader.texts + Len(text)
  BY <1>3, <1>4, EmitTells DEF f
<1>6. wire' \in Wires /\ wire'.text = wire.text + Len(text)
  BY <1>1, Sent, TextLength
<1> QED
  BY <1>1, <1>2, <1>4, <1>5, <1>6, DeliverGoesOn

LEMMA RedactedStartInv ==
  ASSUME AtWork, wire \in Wires, NEW index \in BlockIndexes, RedactedStart(index)
  PROVE  AssemblyInv'
<1> DEFINE e == EnsureStarted(Now)
           f == OpenBlock(e, index, "sealed", <<>>)
<1>1. Deliver(f) /\ wire' = wire
  BY DEF RedactedStart
<1>2. Steady(e) /\ e.reader.texts = wire.text /\ index \in Int
  BY StartTells, AssemblyAssumption
<1>3. "sealed" \in ItemKinds /\ <<>> \in Fragmented
  BY DEF ItemKinds, TextKinds, Fragmented
<1> HIDE DEF e
<1>4. Steady(f) /\ f.reader.texts = e.reader.texts
  BY <1>2, <1>3, OpenTells
<1> HIDE DEF f
<1> QED
  BY <1>1, <1>2, <1>4, DeliverGoesOn

LEMMA ToolStartInv ==
  ASSUME AtWork, wire \in Wires, NEW index \in BlockIndexes, NEW kind \in ToolKinds,
         NEW given \in {<<>>, <<"object">>}, ToolStart(index, kind, given)
  PROVE  AssemblyInv'
<1> DEFINE e == EnsureStarted(Now)
           f == OpenBlock(e, index, kind, given)
<1>1. Deliver(f) /\ SendArguments(given)
  BY DEF ToolStart
<1>2. Steady(e) /\ e.reader.texts = wire.text /\ index \in Int
  BY StartTells, AssemblyAssumption
<1>3. /\ kind \in ItemKinds /\ kind \notin {"message", "reasoning"}
      /\ given \in Fragmented /\ Len(given) \in Nat
  <2>1. given = <<>> \/ given = <<"object">>
    OBVIOUS
  <2>2. /\ <<>> \in Fragmented /\ <<"object">> \in Fragmented
        /\ Len(<<>>) \in Nat /\ Len(<<"object">>) \in Nat
    BY DEF Fragmented, Fragments
  <2>3. kind \in ItemKinds /\ kind \notin {"message", "reasoning"}
    BY DEF ItemKinds, ToolKinds
  <2> QED
    BY <2>1, <2>2, <2>3
<1> HIDE DEF e
<1>4. Steady(f) /\ f.reader.texts = e.reader.texts
  BY <1>2, <1>3, OpenTells
<1> HIDE DEF f
<1>5. wire' \in Wires /\ wire'.text = wire.text
  BY <1>1, <1>3, Sent
<1> QED
  BY <1>1, <1>2, <1>4, <1>5, DeliverGoesOn

\* their parts,
LEMMA TextDeltaInv ==
  ASSUME AtWork, wire \in Wires, NEW index \in BlockIndexes \cup {NoIndex}, NEW text \in Texts,
         TextDelta(index, text)
  PROVE  AssemblyInv'
<1> DEFINE e == Indexed(index)
           f == WriteAt(e, SafeIndex(index), {"message"}, text)
<1>1. Deliver(f) /\ SendText(text)
  BY DEF TextDelta
<1>2. Steady(e) /\ e.reader.texts = wire.text /\ SafeIndex(index) \in Int
  BY IndexTells
<1> HIDE DEF e
<1>3. Steady(f) /\ f.reader.texts = e.reader.texts + Len(text)
  BY <1>2, WriteTells
<1> HIDE DEF f
<1>4. wire' \in Wires /\ wire'.text = wire.text + Len(text)
  BY <1>1, Sent, TextLength
<1> QED
  BY <1>1, <1>2, <1>3, <1>4, DeliverGoesOn

LEMMA ThinkingDeltaInv ==
  ASSUME AtWork, wire \in Wires, NEW index \in BlockIndexes, NEW text \in Texts,
         ThinkingDelta(index, text)
  PROVE  AssemblyInv'
<1> DEFINE e == EnsureStarted(Now)
           f == WriteAt(e, index, {"reasoning", "sealed"}, text)
<1>1. Deliver(f) /\ SendText(text)
  BY DEF ThinkingDelta
<1>2. Steady(e) /\ e.reader.texts = wire.text /\ index \in Int
  BY StartTells, AssemblyAssumption
<1> HIDE DEF e
<1>3. Steady(f) /\ f.reader.texts = e.reader.texts + Len(text)
  BY <1>2, WriteTells
<1> HIDE DEF f
<1>4. wire' \in Wires /\ wire'.text = wire.text + Len(text)
  BY <1>1, Sent, TextLength
<1> QED
  BY <1>1, <1>2, <1>3, <1>4, DeliverGoesOn

LEMMA ArgumentsDeltaInv ==
  ASSUME AtWork, wire \in Wires, NEW index \in BlockIndexes, NEW fragment \in {"part", "rest", "object"},
         ArgumentsDelta(index, fragment)
  PROVE  AssemblyInv'
<1> DEFINE e == EnsureStarted(Now)
<1>1. Steady(e) /\ e.reader.texts = wire.text
  BY StartTells
<1>2. <<fragment>> \in Fragmented /\ Len(<<fragment>>) \in Nat
  BY DEF Fragmented, Fragments
<1>3. wire' \in Wires /\ wire'.text = wire.text
  BY <1>2, Sent DEF ArgumentsDelta
<1>4. CASE \E b \in ActiveAt(e, index) : b.kind \in ToolKinds /\ Deliver(Grow(e, b, <<fragment>>))
  <2>1. PICK b \in ActiveAt(e, index) : b.kind \in ToolKinds /\ Deliver(Grow(e, b, <<fragment>>))
    BY <1>4
  <2> DEFINE f == Grow(e, b, <<fragment>>)
  <2>2. b \in e.assembly.active
    BY DEF ActiveAt
  <2> HIDE DEF e
  <2>3. Steady(f) /\ f.reader = e.reader
    BY <1>1, <1>2, <2>1, <2>2, ArgumentsTell
  <2>4. Deliver(f)
    BY <2>1
  <2> HIDE DEF f
  <2> QED
    BY <1>1, <1>3, <2>3, <2>4, DeliverGoesOn
<1>5. CASE Deliver(e)
  <2> HIDE DEF e
  <2> QED
    BY <1>1, <1>3, <1>5, DeliverGoesOn
<1> QED
  BY <1>4, <1>5 DEF ArgumentsDelta

\* their ends,
LEMMA BlockStopInv ==
  ASSUME AtWork, wire \in Wires, NEW index \in BlockIndexes, BlockStop(index)
  PROVE  AssemblyInv'
<1> DEFINE e == EnsureStarted(Now)
           f == CompleteExisting(e, index)
<1>1. Deliver(f) /\ wire' = wire
  BY DEF BlockStop
<1>2. Steady(e) /\ e.reader.texts = wire.text
  BY StartTells
<1> HIDE DEF e
<1>3. Steady(f) /\ f.reader.texts = e.reader.texts
  BY <1>2, CompleteExistingTells
<1> HIDE DEF f
<1> QED
  BY <1>1, <1>2, <1>3, DeliverGoesOn

\* what concerns the whole message,
LEMMA MessageDeltaInv ==
  ASSUME AtWork, wire \in Wires, NEW truncated \in BOOLEAN, MessageDelta(truncated)
  PROVE  AssemblyInv'
<1> DEFINE e == EnsureStarted(Now)
           a == [e.assembly EXCEPT !.truncated = truncated]
           f == [e EXCEPT !.assembly.truncated = truncated]
<1>1. Deliver(f) /\ wire' = wire
  BY DEF MessageDelta
<1>2. Steady(e) /\ e.reader.texts = wire.text
  BY StartTells
<1> HIDE DEF e
<1>3. e \in Emissions /\ e.assembly \in Assemblies
  BY <1>2, ItemTypes DEF Steady, Settled, Telling
<1>4. /\ a \in Assemblies /\ a.active = e.assembly.active /\ a.slots = e.assembly.slots
      /\ a.started = e.assembly.started /\ a.terminal = e.assembly.terminal
      /\ a.doubtful = e.assembly.doubtful
  BY <1>3 DEF Assemblies
<1>5. f = [assembly |-> a, reader |-> e.reader]
  <2>1. \A d : [e EXCEPT !.assembly.truncated = d]
               = [assembly |-> [e.assembly EXCEPT !.truncated = d], reader |-> e.reader]
    BY <1>3 DEF Emissions
  <2> QED
    BY ONLY <2>1, Zenon
<1> HIDE DEF a, f
<1>6. Steady(f) /\ f.reader = e.reader
  BY <1>2, <1>4, <1>5, FlagsTell
<1> QED
  BY <1>1, <1>2, <1>6, DeliverGoesOn

LEMMA MessageStopInv ==
  ASSUME AtWork, wire \in Wires, MessageStop
  PROVE  AssemblyInv'
<1> DEFINE e == EnsureStarted(Now)
           f == FinishResponse(e)
<1>1. Deliver(f) /\ wire' = wire
  BY DEF MessageStop
<1>2. Steady(e) /\ e.reader.texts = wire.text
  BY StartTells
<1> HIDE DEF e
<1>3. Concluded(f, e.reader.texts)
  BY <1>2, FinishTells
<1> HIDE DEF f
<1>4. PICK status \in {"completed", "incomplete", "failed"} :
        HasEnded(f, status, wire'.text) /\ (status = "failed" <=> ~AllDone(f.reader))
  BY <1>1, <1>2, <1>3 DEF Concluded
<1> QED
  BY <1>1, <1>4, DeliverEnds

\* and what ends it.
LEMMA FailureInv ==
  ASSUME wire \in Wires, NEW e, Steady(e), e.reader.texts = wire.text,
         Deliver(FailResponse(e)), Fails
  PROVE  AssemblyInv'
<1>1. HasEnded(FailResponse(e), "failed", wire.text)
  BY FailTells
<1>2. wire' \in Wires /\ wire'.text = wire.text /\ wire'.failure
  BY Sent DEF Wires, Fails
<1> QED
  BY <1>1, <1>2, DeliverEnds

LEMMA ErrorEventInv ==
  ASSUME AtWork, wire \in Wires, ErrorEvent
  PROVE  AssemblyInv'
<1> DEFINE e == EnsureStarted(Now)
<1>1. Deliver(FailResponse(e)) /\ Fails
  BY DEF ErrorEvent
<1>2. Steady(e) /\ e.reader.texts = wire.text
  BY StartTells
<1> HIDE DEF e
<1> QED
  BY <1>1, <1>2, FailureInv

LEMMA OtherEventInv ==
  ASSUME AtWork, wire \in Wires, OtherEvent
  PROVE  AssemblyInv'
<1> DEFINE e == EnsureStarted(Now)
<1>1. Deliver(e) /\ wire' = wire
  BY DEF OtherEvent
<1>2. Steady(e) /\ e.reader.texts = wire.text
  BY StartTells
<1> HIDE DEF e
<1> QED
  BY <1>1, <1>2, DeliverGoesOn

\* A stream that is at work can be left as it is.
LEMMA WorkIsInOrder ==
  ASSUME AtWork
  PROVE  /\ reader.sound /\ reader.end = "none" /\ reader.texts = wire.text
         /\ reader.begun => assembly.started
         /\ NoItemIsForgotten
<1>1. CASE assembly = NewAssembly /\ reader = NewReader
  <2>1. reader.sound /\ ~reader.begun /\ reader.end = "none" /\ reader.items = <<>>
    BY <1>1 DEF NewReader
  <2> QED
    BY <2>1 DEF NoItemIsForgotten, AtWork
<1>2. CASE Steady(Now)
  <2>1. Now.reader = reader /\ Now.assembly = assembly
    BY DEF Now
  <2>2. assembly.started /\ reader.sound /\ reader.end = "none"
    BY <1>2, <2>1 DEF Steady, Settled, Telling
  <2>3. \A n \in DOMAIN reader.items :
          reader.items[n].done \/ (\E b \in assembly.active : b.at = n)
          \/ (reader.items[n].kind = "function" /\ assembly.doubtful)
    BY <1>2, <2>1, ItemTypes DEF Steady, Settled, Telling
  <2> QED
    BY <2>2, <2>3 DEF NoItemIsForgotten, AtWork
<1> QED
  BY <1>1, <1>2 DEF AtWork

\* A response that ends without an event was in order as far as it was read.
LEMMA LeavingIsWhole ==
  ASSUME AtWork, outcome' = "left" \/ (outcome' = "raised" /\ ~assembly.started),
         UNCHANGED <<assembly, reader>>, wire'.text = wire.text
  PROVE  ResponseIsWhole'
<1>1. NoItemIsForgotten'
  BY WorkIsInOrder DEF NoItemIsForgotten
<1> QED
  BY <1>1, WorkIsInOrder DEF ResponseIsWhole

\* The upstream may fail between two events, and the client leave.
LEMMA UpstreamRaisesInv ==
  ASSUME AtWork, wire \in Wires, UpstreamRaises
  PROVE  AssemblyInv'
<1>1. wire' \in Wires /\ wire'.text = wire.text /\ Fails
  BY DEF UpstreamRaises, Fails, Wires
<1>2. CASE assembly.started /\ Deliver(FailResponse(Now))
  <2>1. Steady(Now) /\ Now.reader.texts = wire.text
    BY <1>2 DEF AtWork, NewAssembly, Now
  <2> QED
    BY <1>1, <1>2, <2>1, FailureInv
<1>3. CASE ~assembly.started /\ outcome' = "raised" /\ UNCHANGED <<assembly, reader>>
  BY <1>1, <1>3, LeavingIsWhole DEF AssemblyInv
<1> QED
  BY <1>2, <1>3 DEF UpstreamRaises

LEMMA ClientLeavesInv ==
  ASSUME AtWork, wire \in Wires, ClientLeaves
  PROVE  AssemblyInv'
BY LeavingIsWhole DEF ClientLeaves, AssemblyInv

\* Nothing was said of a response that did not start.
LEMMA AssemblyInitInv == AssemblyInit => AssemblyInv
BY DEF AssemblyInit, AssemblyInv, AtWork, Wires, NewReader

\* Every step of the assembler keeps the invariant.
LEMMA AssemblyNextInv == AssemblyInv /\ [AssemblyNext]_assemblyVars => AssemblyInv'
<1> SUFFICES ASSUME AssemblyInv, [AssemblyNext]_assemblyVars PROVE AssemblyInv'
  OBVIOUS
<1>1. CASE AssemblyNext
  <2>1. AtWork /\ wire \in Wires
    BY <1>1 DEF AssemblyInv, AssemblyNext
  <2> QED
    BY <1>1, <2>1, TextStartInv, ThinkingStartInv, RedactedStartInv, ToolStartInv, TextDeltaInv,
       ThinkingDeltaInv, ArgumentsDeltaInv, BlockStopInv, MessageDeltaInv, MessageStopInv,
       ErrorEventInv, OtherEventInv, UpstreamRaisesInv, ClientLeavesInv DEF AssemblyNext
<1>2. CASE UNCHANGED assemblyVars
  BY <1>2 DEF assemblyVars, AssemblyInv, AtWork, Wires, ResponseIsWhole, NoItemIsForgotten,
              AllDone, Now, Steady, Settled, Telling
<1> QED
  BY <1>1, <1>2

\* However the blocks of an upstream come, are cut, repeated or left open, and wherever
\* it fails, a client reads one response that the protocol allows, with all of the text.
THEOREM ResponsesAreWhole == AssemblySpec => []ResponseIsWhole
<1>1. AssemblyInv => ResponseIsWhole
  <2> SUFFICES ASSUME AssemblyInv, outcome = "open" PROVE ResponseIsWhole
    BY DEF AssemblyInv
  <2>1. AtWork
    BY DEF AssemblyInv
  <2> QED
    BY <2>1, WorkIsInOrder DEF ResponseIsWhole
<1> QED
  BY <1>1, AssemblyInitInv, AssemblyNextInv, PTL DEF AssemblySpec

-----------------------------------------------------------------------------------
(* Tags in a text *)

Contents == Seq(Characters)

\* The tags, one character after the other.
OpensAt(s, n) == n + 2 =< Len(s) /\ s[n] = "<" /\ s[n + 1] = "think" /\ s[n + 2] = ">"

ClosesAt(s, n) ==
  n + 3 =< Len(s) /\ s[n] = "<" /\ s[n + 1] = "/" /\ s[n + 2] = "think" /\ s[n + 3] = ">"

\* The tags are texts of three and of four characters.
LEMMA TagLengths == Len(OpenTag) = 3 /\ Len(CloseTag) = 4 /\ OpenTag \in Contents /\ CloseTag \in Contents
BY DEF OpenTag, CloseTag, Contents, Characters

\* The piece of a text from m to n.
LEMMA Piece ==
  ASSUME NEW s \in Contents, NEW m \in 1 .. Len(s) + 1, NEW n \in m - 1 .. Len(s)
  PROVE  /\ SubSeq(s, m, n) \in Contents /\ Len(SubSeq(s, m, n)) = n - m + 1
         /\ \A i \in 1 .. n - m + 1 : SubSeq(s, m, n)[i] = s[m + i - 1]
BY DEF Contents

\* Contents are the same when their characters are.
LEMMA SameTexts ==
  ASSUME NEW s \in Contents, NEW t \in Contents, Len(s) = Len(t)
  PROVE  s = t <=> \A i \in 1 .. Len(s) : s[i] = t[i]
BY DEF Contents

\* A tag at a place, character by character: the opening one,
LEMMA OpenTagAt ==
  ASSUME NEW s \in Contents, NEW n \in Nat \ {0}
  PROVE  TagAt(OpenTag, s, n) <=> OpensAt(s, n)
<1>1. CASE n + 2 =< Len(s)
  <2> DEFINE piece == SubSeq(s, n, n + 2)
  <2>1. piece \in Contents /\ Len(piece) = 3 /\ \A i \in 1 .. 3 : piece[i] = s[n + i - 1]
    <3>1. Len(s) \in Nat
      BY DEF Contents
    <3>2. n \in 1 .. Len(s) + 1 /\ n + 2 \in n - 1 .. Len(s) /\ (n + 2) - n + 1 = 3
      BY <1>1, <3>1
    <3> HIDE DEF Contents
    <3> QED
      BY <3>2, Piece
  <2>2. TagAt(OpenTag, s, n) <=> piece = OpenTag
    BY <1>1, TagLengths DEF TagAt
  <2>3. OpenTag[1] = "<" /\ OpenTag[2] = "think" /\ OpenTag[3] = ">"
    BY DEF OpenTag
  <2> HIDE DEF piece
  <2>4. piece = OpenTag <=> \A i \in 1 .. 3 : piece[i] = OpenTag[i]
    BY <2>1, TagLengths, SameTexts
  <2>5. /\ piece[1] = s[n] /\ piece[2] = s[n + 1] /\ piece[3] = s[n + 2]
    BY <2>1
  <2> QED
    BY <1>1, <2>2, <2>3, <2>4, <2>5 DEF OpensAt
<1>2. CASE ~(n + 2 =< Len(s))
  BY <1>2, TagLengths DEF TagAt, OpensAt
<1> QED
  BY <1>1, <1>2

\* and the closing one.
LEMMA CloseTagAt ==
  ASSUME NEW s \in Contents, NEW n \in Nat \ {0}
  PROVE  TagAt(CloseTag, s, n) <=> ClosesAt(s, n)
<1>1. CASE n + 3 =< Len(s)
  <2> DEFINE piece == SubSeq(s, n, n + 3)
  <2>1. piece \in Contents /\ Len(piece) = 4 /\ \A i \in 1 .. 4 : piece[i] = s[n + i - 1]
    <3>1. Len(s) \in Nat
      BY DEF Contents
    <3>2. n \in 1 .. Len(s) + 1 /\ n + 3 \in n - 1 .. Len(s) /\ (n + 3) - n + 1 = 4
      BY <1>1, <3>1
    <3> HIDE DEF Contents
    <3> QED
      BY <3>2, Piece
  <2>2. TagAt(CloseTag, s, n) <=> piece = CloseTag
    BY <1>1, TagLengths DEF TagAt
  <2>3. CloseTag[1] = "<" /\ CloseTag[2] = "/" /\ CloseTag[3] = "think" /\ CloseTag[4] = ">"
    BY DEF CloseTag
  <2> HIDE DEF piece
  <2>4. piece = CloseTag <=> \A i \in 1 .. 4 : piece[i] = CloseTag[i]
    BY <2>1, TagLengths, SameTexts
  <2>5. /\ piece[1] = s[n] /\ piece[2] = s[n + 1] /\ piece[3] = s[n + 2] /\ piece[4] = s[n + 3]
    BY <2>1
  <2> QED
    BY <1>1, <2>2, <2>3, <2>4, <2>5 DEF ClosesAt
<1>2. CASE ~(n + 3 =< Len(s))
  BY <1>2, TagLengths DEF TagAt, ClosesAt
<1> QED
  BY <1>1, <1>2

-----------------------------------------------------------------------------------
(* The reading of a text *)

Outs == Seq([char : Characters, thinking : BOOLEAN])

\* The recursion of Reading has a function on the first n characters.
LEMMA ReadingExists ==
  ASSUME NEW content, NEW n \in Nat
  PROVE  \E F : F = [i \in 0 .. n |-> IF i = 0 THEN NewReading ELSE Read(F[i - 1], content, i)]
<1> DEFINE Step(F, i) == IF i = 0 THEN NewReading ELSE Read(F[i - 1], content, i)
           S == {k \in Nat : \E F : F = [i \in 0 .. k |-> Step(F, i)]}
<1>1. 0 \in S
  <2> DEFINE F == [i \in 0 .. 0 |-> NewReading]
  <2>1. F = [i \in 0 .. 0 |-> Step(F, i)]
    OBVIOUS
  <2> QED
    BY <2>1
<1>2. ASSUME NEW k \in S PROVE k + 1 \in S
  <2>1. PICK F : F = [i \in 0 .. k |-> Step(F, i)]
    OBVIOUS
  <2> DEFINE last == Read(F[k], content, k + 1)
             G == [i \in 0 .. k + 1 |-> IF i = k + 1 THEN last ELSE F[i]]
  <2>2. \A i \in 0 .. k : F[i] = Step(F, i)
    <3> HIDE DEF Step
    <3> QED BY <2>1
  <2>3. ASSUME NEW i \in 0 .. k + 1 PROVE G[i] = Step(G, i)
    <3>1. CASE i = k + 1
      <4>1. G[i] = last /\ i # 0 /\ i - 1 = k /\ G[k] = F[k]
        BY <3>1
      <4> HIDE DEF G
      <4> QED
        BY <3>1, <4>1
    <3>2. CASE i \in 0 .. k
      <4>1. G[i] = F[i] /\ (i # 0 => G[i - 1] = F[i - 1])
        BY <3>2
      <4> HIDE DEF G
      <4> QED
        BY <3>2, <4>1, <2>2
    <3> QED
      BY <3>1, <3>2
  <2>4. G = [i \in 0 .. k + 1 |-> Step(G, i)]
    <3> HIDE DEF Step
    <3> QED BY <2>3
  <2> HIDE DEF G, Step
  <2> QED
    BY <2>4
<1> HIDE DEF S
<1>3. S = Nat
  <2>1. S \in SUBSET Nat
    BY DEF S
  <2> QED
    BY <1>1, <1>2, <2>1, NatIsInductive
<1> QED
  BY <1>3 DEF S

\* A reading starts anew, and each character is read after the one before.
LEMMA ReadingSteps ==
  ASSUME NEW T \in Contents
  PROVE  /\ Reading(T)[0] = NewReading
         /\ \A n \in 1 .. Len(T) : Reading(T)[n] = Read(Reading(T)[n - 1], T, n)
<1> DEFINE F == CHOOSE F : F = [i \in 0 .. Len(T) |->
                                  IF i = 0 THEN NewReading ELSE Read(F[i - 1], T, i)]
<1>1. Len(T) \in Nat
  BY DEF Contents
<1>2. F = [i \in 0 .. Len(T) |-> IF i = 0 THEN NewReading ELSE Read(F[i - 1], T, i)]
  BY <1>1, ReadingExists
<1>3. Reading(T) = F
  BY DEF Reading
<1> HIDE DEF F
<1>4. \A i \in 0 .. Len(T) : F[i] = IF i = 0 THEN NewReading ELSE Read(F[i - 1], T, i)
  BY <1>2
<1> QED
  BY <1>1, <1>3, <1>4

\* How a reading skips, and what it recognizes.
LEMMA Skipping ==
  ASSUME NEW thinking, NEW out, NEW content, NEW n, NEW skip \in Nat \ {0}
  PROVE  Read(At(thinking, skip, out), content, n) = At(thinking, skip - 1, out)
<1>1. LET r == At(thinking, skip, out)
      IN  r.thinking = thinking /\ r.skip = skip /\ r.out = out /\ skip > 0
  BY DEF At
<1> QED
  BY <1>1 DEF Read

\* A closing tag ends a thought,
LEMMA ReadClose ==
  ASSUME NEW thinking, NEW out, NEW content, NEW n, TagAt(CloseTag, content, n)
  PROVE  Read(At(thinking, 0, out), content, n) = At(FALSE, 3, out)
<1> DEFINE r == At(thinking, 0, out)
<1>1. r.skip = 0 /\ r.out = out /\ ~(0 > 0)
  BY DEF At
<1>2. Len(CloseTag) - 1 = 3
  BY TagLengths
<1> HIDE DEF r
<1>3. Read(r, content, n) = At(FALSE, 3, out)
  BY <1>1, <1>2, Zenon DEF Read
<1> QED
  BY <1>3 DEF r

\* an opening tag begins one outside of a thought,
LEMMA ReadOpen ==
  ASSUME NEW out, NEW content, NEW n, ~TagAt(CloseTag, content, n), TagAt(OpenTag, content, n)
  PROVE  Read(At(FALSE, 0, out), content, n) = At(TRUE, 2, out)
<1> DEFINE r == At(FALSE, 0, out)
<1>1. r.skip = 0 /\ ~r.thinking /\ r.out = out /\ ~(0 > 0)
  BY DEF At
<1>2. Len(OpenTag) - 1 = 2
  BY TagLengths
<1> HIDE DEF r
<1>3. Read(r, content, n) = At(TRUE, 2, out)
  BY <1>1, <1>2, Zenon DEF Read
<1> QED
  BY <1>3 DEF r

\* and any other character is given.
LEMMA ReadPlain ==
  ASSUME NEW thinking, NEW out, NEW content, NEW n, ~TagAt(CloseTag, content, n),
         thinking \/ ~TagAt(OpenTag, content, n)
  PROVE  Read(At(thinking, 0, out), content, n)
           = At(thinking, 0, Append(out, [char |-> content[n], thinking |-> thinking]))
<1> DEFINE r == At(thinking, 0, out)
<1>1. r.skip = 0 /\ r.thinking = thinking /\ r.out = out /\ ~(0 > 0)
  BY DEF At
<1> HIDE DEF r
<1>3. Read(r, content, n)
           = At(thinking, 0, Append(out, [char |-> content[n], thinking |-> thinking]))
  BY <1>1, Zenon DEF Read
<1> QED
  BY <1>3 DEF r

\* Where a tag begins, its characters are skipped.
LEMMA ReadsClose ==
  ASSUME NEW T \in Contents, NEW n \in Nat, NEW thinking \in BOOLEAN, NEW out,
         Reading(T)[n] = At(thinking, 0, out),
         ClosesAt(T, n + 1)
  PROVE  Reading(T)[n + 4] = At(FALSE, 0, out)
<1>1. Len(T) \in Nat /\ n + 4 =< Len(T)
  BY DEF ClosesAt, Contents
<1>2. \A i \in 1 .. 4 : Reading(T)[n + i] = Read(Reading(T)[n + i - 1], T, n + i)
  BY <1>1, ReadingSteps
<1>3. TagAt(CloseTag, T, n + 1)
  BY CloseTagAt
<1> DEFINE no == FALSE
           R(i) == At(no, i, out)
<1> HIDE DEF no
<1>4. Reading(T)[n + 1] = At(FALSE, 3, out)
  <2>1. n + 1 - 1 = n /\ Reading(T)[n + 1] = Read(Reading(T)[n + 1 - 1], T, n + 1)
    BY <1>2
  <2>2. Read(At(thinking, 0, out), T, n + 1) = At(FALSE, 3, out)
    BY <1>3, ReadClose, Zenon
  <2> QED
    BY <2>1, <2>2
<1>5. \A i \in 1 .. 3 : Read(R(i), T, n + 5 - i) = R(i - 1)
  <2> SUFFICES ASSUME NEW i \in 1 .. 3 PROVE Read(R(i), T, n + 5 - i) = R(i - 1)
    OBVIOUS
  <2>1. i \in Nat \ {0}
    OBVIOUS
  <2> QED
    BY <2>1, Skipping
<1> HIDE DEF R
<1>6. Reading(T)[n + 2] = R(2)
  <2>1. Reading(T)[n + 1] = R(3)
    BY <1>4 DEF R, no
  <2> QED
    BY <1>2, <1>5, <2>1
<1>7. Reading(T)[n + 3] = R(1)
  BY <1>2, <1>5, <1>6
<1>8. Reading(T)[n + 4] = R(0)
  BY <1>2, <1>5, <1>7
<1> QED
  BY <1>8 DEF R, no

\* And so are those of an opening tag, outside of a thought.
LEMMA ReadsOpen ==
  ASSUME NEW T \in Contents, NEW n \in Nat, NEW out,
         Reading(T)[n] = At(FALSE, 0, out),
         OpensAt(T, n + 1)
  PROVE  Reading(T)[n + 3] = At(TRUE, 0, out)
<1>1. Len(T) \in Nat /\ n + 3 =< Len(T)
  BY DEF OpensAt, Contents
<1>2. \A i \in 1 .. 3 : Reading(T)[n + i] = Read(Reading(T)[n + i - 1], T, n + i)
  BY <1>1, ReadingSteps
<1>3. TagAt(OpenTag, T, n + 1) /\ ~TagAt(CloseTag, T, n + 1)
  BY OpenTagAt, CloseTagAt DEF OpensAt, ClosesAt
<1> DEFINE yes == TRUE
           R(i) == At(yes, i, out)
<1> HIDE DEF yes
<1>4. Reading(T)[n + 1] = At(TRUE, 2, out)
  <2>1. n + 1 - 1 = n /\ Reading(T)[n + 1] = Read(Reading(T)[n + 1 - 1], T, n + 1)
    BY <1>2
  <2> QED
    BY <1>3, <2>1, ReadOpen
<1>5. \A i \in 1 .. 2 : Read(R(i), T, n + 4 - i) = R(i - 1)
  <2> SUFFICES ASSUME NEW i \in 1 .. 2 PROVE Read(R(i), T, n + 4 - i) = R(i - 1)
    OBVIOUS
  <2>1. i \in Nat \ {0}
    OBVIOUS
  <2> QED
    BY <2>1, Skipping
<1> HIDE DEF R
<1>6. Reading(T)[n + 2] = R(1)
  <2>1. Reading(T)[n + 1] = R(2)
    BY <1>4 DEF R, yes
  <2> QED
    BY <1>2, <1>5, <2>1
<1>7. Reading(T)[n + 3] = R(0)
  BY <1>2, <1>5, <1>6
<1> QED
  BY <1>7 DEF R, yes

\* Nothing at n begins a tag that is recognized there.
NoTagAt(T, n, thinking) == ~ClosesAt(T, n) /\ (thinking \/ ~OpensAt(T, n))

\* Any other character is given.
LEMMA ReadsPlain ==
  ASSUME NEW T \in Contents, NEW n \in Nat, n + 1 =< Len(T), NEW thinking \in BOOLEAN, NEW out,
         Reading(T)[n] = At(thinking, 0, out),
         NoTagAt(T, n + 1, thinking)
  PROVE  Reading(T)[n + 1] = At(thinking, 0, Append(out, [char |-> T[n + 1], thinking |-> thinking]))
<1>1. Len(T) \in Nat
  BY DEF Contents
<1>2. Reading(T)[n + 1] = Read(Reading(T)[n], T, n + 1)
  BY <1>1, ReadingSteps
<1>3. ~TagAt(CloseTag, T, n + 1) /\ (thinking \/ ~TagAt(OpenTag, T, n + 1))
  BY OpenTagAt, CloseTagAt DEF NoTagAt
<1> QED
  BY <1>2, <1>3, ReadPlain

-----------------------------------------------------------------------------------
(* The first tag and the last bracket of a buffer *)

\* FirstOf is a place of the tag with none before it, or there is none.
LEMMA FirstOfIs ==
  ASSUME NEW tag, NEW b \in Contents
  PROVE  \/ FirstOf(tag, b) = 0 /\ \A n \in DOMAIN b : ~TagAt(tag, b, n)
         \/ /\ FirstOf(tag, b) \in DOMAIN b /\ FirstOf(tag, b) # 0
            /\ TagAt(tag, b, FirstOf(tag, b))
            /\ \A n \in DOMAIN b : n < FirstOf(tag, b) => ~TagAt(tag, b, n)
<1> DEFINE places == {n \in DOMAIN b : TagAt(tag, b, n)}
<1>1. CASE places = {}
  BY <1>1 DEF FirstOf
<1>2. CASE places # {}
  <2>1. places \in SUBSET Nat /\ places \in SUBSET DOMAIN b /\ 0 \notin places
    BY DEF Contents
  <2>2. PICK least \in places : \A n \in places : least =< n
    BY <1>2, <2>1, LeastNumber
  <2>3. Min(places) \in places /\ \A n \in places : Min(places) =< n
    BY <2>2 DEF Min
  <2>4. FirstOf(tag, b) = Min(places)
    BY <1>2 DEF FirstOf
  <2>5. \A n \in DOMAIN b : n < Min(places) => n \notin places
    BY <2>1, <2>3
  <2> QED
    BY <2>1, <2>3, <2>4, <2>5
<1> QED
  BY <1>1, <1>2

\* LastBracket is a place of a bracket with none behind it, or there is none.
LEMMA LastBracketIs ==
  ASSUME NEW b \in Contents
  PROVE  /\ LastBracket(b) \in 0 .. Len(b)
         /\ LastBracket(b) # 0 => b[LastBracket(b)] = "<"
         /\ \A n \in 1 .. Len(b) : b[n] = "<" => n =< LastBracket(b)
<1> DEFINE places == {n \in DOMAIN b : b[n] = "<"} \cup {0}
           last == Max(places)
           S == {m \in Nat : \A n \in places : n =< m}
<1>1. Len(b) \in Nat /\ places \in SUBSET (0 .. Len(b)) /\ 0 \in places
  BY DEF Contents
<1>2. PICK least \in S : \A m \in S : least =< m
  <2>1. Len(b) \in S
    BY <1>1
  <2> QED
    BY <2>1, LeastNumber
<1>3. least \in places
  <2> SUFFICES ASSUME least \notin places PROVE FALSE
    OBVIOUS
  <2>1. least # 0 /\ least - 1 \in Nat
    BY <1>1, <1>2
  <2>2. \A n \in places : n =< least - 1
    BY <1>1, <1>2
  <2> QED
    BY <1>2, <2>1, <2>2
<1>4. last \in places /\ \A n \in places : last >= n
  BY <1>1, <1>2, <1>3 DEF Max
<1>5. LastBracket(b) = last
  BY DEF LastBracket
<1> QED
  BY <1>1, <1>4, <1>5 DEF Contents

-----------------------------------------------------------------------------------
(* What is given *)

\* A parser, as the code keeps it.
Parsers == [buffer : Contents, thinking : BOOLEAN, out : Outs]

\* What has been given when the first count characters of the buffer are.
Given(p, count) == p.out \o Typed(SubSeq(p.buffer, 1, count), p.thinking)

\* Each character with its type.
LEMMA TypedIs ==
  ASSUME NEW b \in Contents, NEW thinking \in BOOLEAN
  PROVE  /\ Typed(b, thinking) \in Outs /\ Len(Typed(b, thinking)) = Len(b)
         /\ \A n \in 1 .. Len(b) : Typed(b, thinking)[n] = [char |-> b[n], thinking |-> thinking]
<1>1. Len(b) \in Nat /\ \A n \in 1 .. Len(b) : b[n] \in Characters
  BY DEF Contents
<1>2. Typed(b, thinking) = [n \in 1 .. Len(b) |-> [char |-> b[n], thinking |-> thinking]]
  BY DEF Typed, Contents
<1> HIDE DEF Contents
<1>3. Typed(b, thinking) \in Outs
  BY <1>1, <1>2 DEF Outs
<1> QED
  BY <1>1, <1>2, <1>3 DEF Outs

\* What is appended to a part is appended to the whole.
LEMMA AppendLast ==
  ASSUME NEW S, NEW s \in Seq(S), NEW t \in Seq(S), NEW x \in S
  PROVE  s \o Append(t, x) = Append(s \o t, x)
<1> DEFINE a == s \o Append(t, x)
           b == Append(s \o t, x)
<1>1. a \in Seq(S) /\ b \in Seq(S)
  OBVIOUS
<1>2. Len(a) = Len(s) + Len(t) + 1 /\ Len(b) = Len(s) + Len(t) + 1
  OBVIOUS
<1>3. ASSUME NEW i \in 1 .. Len(s) + Len(t) + 1 PROVE a[i] = b[i]
  <2>1. CASE i =< Len(s)
    BY <2>1
  <2>2. CASE Len(s) < i /\ i =< Len(s) + Len(t)
    BY <2>2
  <2>3. CASE i = Len(s) + Len(t) + 1
    BY <2>3
  <2> QED
    BY <2>1, <2>2, <2>3
<1> HIDE DEF a, b
<1>4. a = b
  BY <1>1, <1>2, <1>3
<1> QED
  BY <1>4 DEF a, b

\* Nothing more is given,
LEMMA GivenNothing ==
  ASSUME NEW p \in Parsers
  PROVE  Given(p, 0) = p.out
<1>1. p.buffer \in Contents /\ p.thinking \in BOOLEAN /\ p.out \in Outs
  BY DEF Parsers
<1>2. SubSeq(p.buffer, 1, 0) \in Contents /\ Len(SubSeq(p.buffer, 1, 0)) = 0
  BY <1>1 DEF Contents
<1> DEFINE none == Typed(SubSeq(p.buffer, 1, 0), p.thinking)
<1>3. none \in Outs /\ Len(none) = 0
  BY <1>1, <1>2, TypedIs
<1> HIDE DEF none
<1>4. p.out \o none = p.out
  BY <1>1, <1>3 DEF Outs
<1> QED
  BY <1>4 DEF Given, none

\* or one character more.
LEMMA GivenOneMore ==
  ASSUME NEW p \in Parsers, NEW count \in Nat, count + 1 =< Len(p.buffer)
  PROVE  /\ Given(p, count) \in Outs /\ Given(p, count + 1) \in Outs
         /\ Given(p, count + 1)
              = Append(Given(p, count), [char |-> p.buffer[count + 1], thinking |-> p.thinking])
<1>1. p.buffer \in Contents /\ p.thinking \in BOOLEAN /\ p.out \in Outs
  BY DEF Parsers
<1> DEFINE S(n) == SubSeq(p.buffer, 1, n)
           Y(n) == Typed(S(n), p.thinking)
           next == [char |-> p.buffer[count + 1], thinking |-> p.thinking]
<1>2. \A n \in {count, count + 1} :
        S(n) \in Contents /\ Len(S(n)) = n /\ \A i \in 1 .. n : S(n)[i] = p.buffer[i]
  <2> SUFFICES ASSUME NEW n \in {count, count + 1}
               PROVE  S(n) \in Contents /\ Len(S(n)) = n /\ \A i \in 1 .. n : S(n)[i] = p.buffer[i]
    OBVIOUS
  <2>1. Len(p.buffer) \in Nat
    BY <1>1 DEF Contents
  <2>2. 1 \in 1 .. Len(p.buffer) + 1 /\ n \in 1 - 1 .. Len(p.buffer) /\ n - 1 + 1 = n
    BY <2>1
  <2>3. /\ SubSeq(p.buffer, 1, n) \in Contents /\ Len(SubSeq(p.buffer, 1, n)) = n - 1 + 1
        /\ \A i \in 1 .. n - 1 + 1 : SubSeq(p.buffer, 1, n)[i] = p.buffer[1 + i - 1]
    BY <1>1, <2>2, Piece
  <2> QED
    BY <2>2, <2>3
<1> HIDE DEF S
<1>3. \A n \in {count, count + 1} :
        Y(n) \in Outs /\ Len(Y(n)) = n
        /\ \A i \in 1 .. n : Y(n)[i] = [char |-> p.buffer[i], thinking |-> p.thinking]
  BY <1>1, <1>2, TypedIs
<1> HIDE DEF Y
<1>4. next \in [char : Characters, thinking : BOOLEAN]
  BY <1>1 DEF Contents
<1>5. Y(count + 1)[count + 1] = next
  BY <1>3
<1> HIDE DEF next
<1>6. Y(count + 1) = Append(Y(count), next)
  BY <1>3, <1>4, <1>5 DEF Outs
<1>7. Y(count) \in Outs /\ Y(count + 1) \in Outs
  BY <1>3
<1>8. p.out \o Append(Y(count), next) = Append(p.out \o Y(count), next)
  <2> DEFINE R == [char : Characters, thinking : BOOLEAN]
             y == Y(count)
             out == p.out
  <2>1. out \in Seq(R) /\ y \in Seq(R) /\ next \in R
    BY <1>1, <1>4, <1>7 DEF Outs
  <2> HIDE DEF R, y, out
  <2>2. out \o Append(y, next) = Append(out \o y, next)
    BY ONLY <2>1, AppendLast
  <2> QED
    BY <2>2 DEF y, out
<1>9. p.out \o Y(count) \in Outs /\ p.out \o Y(count + 1) \in Outs
  BY <1>1, <1>7 DEF Outs
<1> QED
  BY <1>6, <1>8, <1>9 DEF Given, Y, S, next

-----------------------------------------------------------------------------------
(* A parser in step with the reading *)

\* The parser has been fed the first m characters of a text: those it has not given
\* wait in its buffer, and it has given and is thinking what the reading of the text is.
Tracks(p, T, m) ==
  /\ p \in Parsers /\ m \in Nat /\ Len(p.buffer) =< m /\ m =< Len(T)
  /\ \A i \in 1 .. Len(p.buffer) : p.buffer[i] = T[m - Len(p.buffer) + i]
  /\ Reading(T)[m - Len(p.buffer)] = At(p.thinking, 0, p.out)

\* How many characters are behind the parser.
Passed(p, m) == m - Len(p.buffer)

\* What it means to be in step, for the provers.
LEMMA TracksTypes ==
  ASSUME NEW T \in Contents, NEW p, NEW m, Tracks(p, T, m)
  PROVE  /\ p \in Parsers /\ p.buffer \in Contents /\ p.thinking \in BOOLEAN /\ p.out \in Outs
         /\ m \in Nat /\ Len(T) \in Nat /\ Len(p.buffer) \in Nat /\ Passed(p, m) \in Nat
         /\ DOMAIN p.buffer = 1 .. Len(p.buffer)
         /\ Passed(p, m) + Len(p.buffer) = m /\ m =< Len(T)
         /\ \A i \in 1 .. Len(p.buffer) : p.buffer[i] = T[Passed(p, m) + i]
         /\ Reading(T)[Passed(p, m)] = At(p.thinking, 0, p.out)
BY DEF Tracks, Parsers, Contents, Passed

\* Characters without a tag are given as they are.
LEMMA ReadsUntagged ==
  ASSUME NEW T \in Contents, NEW p, NEW m, Tracks(p, T, m), NEW count \in 0 .. Len(p.buffer),
         \A n \in 1 .. count : NoTagAt(T, Passed(p, m) + n, p.thinking)
  PROVE  /\ Reading(T)[Passed(p, m) + count] = At(p.thinking, 0, Given(p, count))
         /\ Given(p, count) \in Outs
<1> DEFINE k == Passed(p, m)
           b == p.buffer
           Holds(c) == /\ Reading(T)[k + c] = At(p.thinking, 0, Given(p, c))
                       /\ Given(p, c) \in Outs
           S == {c \in Nat : c =< count => Holds(c)}
<1>1. /\ p \in Parsers /\ b \in Contents /\ p.thinking \in BOOLEAN /\ p.out \in Outs /\ k \in Nat
      /\ Len(b) \in Nat /\ Len(T) \in Nat /\ k + Len(b) =< Len(T)
      /\ \A i \in 1 .. Len(b) : b[i] = T[k + i]
      /\ Reading(T)[k] = At(p.thinking, 0, p.out)
  BY TracksTypes
<1> HIDE DEF k
<1>2. 0 \in S
  <2>1. Given(p, 0) = p.out /\ k + 0 = k
    BY <1>1, GivenNothing
  <2> QED
    BY <1>1, <2>1
<1>3. ASSUME NEW c \in S PROVE c + 1 \in S
  <2> SUFFICES ASSUME c + 1 =< count PROVE Holds(c + 1)
    OBVIOUS
  <2>1. Holds(c) /\ c \in Nat
    OBVIOUS
  <2>2. c + 1 =< Len(b) /\ k + c \in Nat /\ k + c + 1 =< Len(T) /\ k + (c + 1) = k + c + 1
    BY <1>1
  <2>3. NoTagAt(T, k + c + 1, p.thinking)
    <3>1. c + 1 \in 1 .. count
      BY <2>1
    <3>2. NoTagAt(T, k + (c + 1), p.thinking)
      BY <3>1 DEF k
    <3> QED
      BY <2>2, <3>2
  <2>4. Reading(T)[k + c + 1]
          = At(p.thinking, 0, Append(Given(p, c), [char |-> T[k + c + 1], thinking |-> p.thinking]))
    BY <1>1, <2>1, <2>2, <2>3, ReadsPlain
  <2>5. b[c + 1] = T[k + c + 1]
    BY <1>1, <2>2
  <2>6. /\ Given(p, c + 1) \in Outs
        /\ Given(p, c + 1) = Append(Given(p, c), [char |-> b[c + 1], thinking |-> p.thinking])
    BY <1>1, <2>1, <2>2, GivenOneMore
  <2> QED
    BY <2>2, <2>4, <2>5, <2>6
<1> HIDE DEF S
<1>4. S = Nat
  <2>1. S \in SUBSET Nat
    BY DEF S
  <2> QED
    BY <1>2, <1>3, <2>1, NatIsInductive
<1> QED
  BY <1>1, <1>4 DEF S, k

\* What is left after count characters were given and dropped ones were not.
LEMMA EmissionTracks ==
  ASSUME NEW T \in Contents, NEW p, NEW m, Tracks(p, T, m),
         NEW count \in Nat, NEW dropped \in Nat, count + dropped =< Len(p.buffer),
         NEW thinking \in BOOLEAN, Given(p, count) \in Outs,
         Reading(T)[Passed(p, m) + count + dropped] = At(thinking, 0, Given(p, count)),
         NEW q, q = Emit(p, count, dropped, thinking)
  PROVE  Tracks(q, T, m) /\ Len(q.buffer) =< Len(p.buffer) - dropped
<1> DEFINE k == Passed(p, m)
           b == p.buffer
           from == count + dropped
           rest == SubSeq(b, from + 1, Len(b))
<1>1. /\ p \in Parsers /\ b \in Contents /\ p.thinking \in BOOLEAN /\ p.out \in Outs /\ k \in Nat
      /\ Len(b) \in Nat /\ Len(T) \in Nat /\ k + Len(b) = m /\ m \in Nat /\ m =< Len(T)
      /\ \A i \in 1 .. Len(b) : b[i] = T[k + i]
  BY TracksTypes
<1>2. from \in Nat /\ from =< Len(b) /\ k + count + dropped = k + from
  BY <1>1
<1> HIDE DEF b, k, from
<1>3. /\ rest \in Contents /\ Len(rest) = Len(b) - from
      /\ \A i \in 1 .. Len(b) - from : rest[i] = b[from + i]
  <2>1. from + 1 \in 1 .. Len(b) + 1 /\ Len(b) \in from + 1 - 1 .. Len(b)
        /\ Len(b) - (from + 1) + 1 = Len(b) - from
    BY <1>1, <1>2
  <2>2. /\ rest \in Contents /\ Len(rest) = Len(b) - (from + 1) + 1
        /\ \A i \in 1 .. Len(b) - (from + 1) + 1 : rest[i] = b[from + 1 + i - 1]
    BY <1>1, <2>1, Piece
  <2> HIDE DEF rest
  <2>4. ASSUME NEW i \in 1 .. Len(b) - from PROVE rest[i] = b[from + i]
    <3>1. i \in 1 .. Len(b) - (from + 1) + 1 /\ from + 1 + i - 1 = from + i
      BY <1>2, <2>1
    <3> QED
      BY <2>2, <3>1
  <2> QED
    BY ONLY <2>1, <2>2, <2>4
<1> HIDE DEF rest
<1>4. q = [buffer |-> rest, thinking |-> thinking, out |-> Given(p, count)]
  BY Zenon DEF Emit, Given, rest, b, from
<1>5. q \in Parsers /\ q.buffer = rest /\ q.thinking = thinking /\ q.out = Given(p, count)
  <2> DEFINE given == Given(p, count)
  <2>1. given \in Outs
    OBVIOUS
  <2> HIDE DEF given
  <2>2. q = [buffer |-> rest, thinking |-> thinking, out |-> given]
    BY <1>4 DEF given
  <2>3. q \in Parsers /\ q.buffer = rest /\ q.thinking = thinking /\ q.out = given
    BY ONLY <1>3, <2>1, <2>2, thinking \in BOOLEAN DEF Parsers
  <2> QED
    BY <2>3 DEF given
<1>6. m - Len(rest) = k + from /\ Len(rest) =< m
  <2> DEFINE size == Len(b)
             left == Len(rest)
  <2>1. size \in Nat /\ k \in Nat /\ m \in Nat /\ k + size = m /\ from \in Nat /\ from =< size
        /\ left = size - from
    BY ONLY <1>1, <1>2, <1>3
  <2> HIDE DEF size, left
  <2>2. m - left = k + from /\ left =< m
    BY ONLY <2>1
  <2> QED
    BY ONLY <2>2 DEF left
<1>7. Reading(T)[k + from] = At(q.thinking, 0, q.out)
  <2>1. Reading(T)[k + count + dropped] = At(thinking, 0, Given(p, count))
    BY DEF k
  <2> QED
    BY ONLY <1>2, <1>5, <2>1
<1>8. ASSUME NEW i \in 1 .. Len(rest) PROVE rest[i] = T[k + from + i]
  <2>1. i \in 1 .. Len(b) - from /\ from + i \in 1 .. Len(b) /\ k + (from + i) = k + from + i
    BY ONLY <1>1, <1>2, <1>3, i \in 1 .. Len(rest)
  <2> QED
    BY ONLY <1>1, <1>3, <2>1
<1>9. Tracks(q, T, m)
  BY ONLY <1>1, <1>5, <1>6, <1>7, <1>8 DEF Tracks
<1> QED
  BY <1>1, <1>3, <1>5, <1>9 DEF from, b

-----------------------------------------------------------------------------------
(* One parse *)

\* A tag that ends in the buffer is in the buffer what it is in the text.
LEMMA TagsInTheBuffer ==
  ASSUME NEW T \in Contents, NEW p, NEW m, Tracks(p, T, m), NEW n \in 1 .. Len(p.buffer)
  PROVE  /\ ClosesAt(p.buffer, n) <=> n + 3 =< Len(p.buffer) /\ ClosesAt(T, Passed(p, m) + n)
         /\ OpensAt(p.buffer, n) <=> n + 2 =< Len(p.buffer) /\ OpensAt(T, Passed(p, m) + n)
<1> DEFINE k == Passed(p, m)
           b == p.buffer
           size == Len(b)
           length == Len(T)
<1>1. /\ k \in Nat /\ size \in Nat /\ length \in Nat /\ k + size =< length
      /\ \A i \in 1 .. size : b[i] = T[k + i]
  BY TracksTypes
<1> HIDE DEF k, b, size, length
<1>2. n \in 1 .. size
  BY DEF size, b
<1>3. \A i \in 0 .. 3 : n + i =< size => b[n + i] = T[(k + n) + i] /\ (k + n) + i =< length
  <2> SUFFICES ASSUME NEW i \in 0 .. 3, n + i =< size
               PROVE  b[n + i] = T[(k + n) + i] /\ (k + n) + i =< length
    OBVIOUS
  <2>1. n + i \in 1 .. size /\ k + (n + i) = (k + n) + i
    BY <1>1, <1>2
  <2> QED
    BY <1>1, <2>1
<1>4. b[n] = T[k + n]
  BY <1>1, <1>2
<1>5. n + 3 =< size => n + 1 =< size /\ n + 2 =< size
  BY <1>1, <1>2
<1>6. n + 2 =< size => n + 1 =< size
  BY <1>1, <1>2
<1>7. ClosesAt(b, n) <=> n + 3 =< size /\ ClosesAt(T, k + n)
  BY <1>3, <1>4, <1>5 DEF ClosesAt, size, length
<1>8. OpensAt(b, n) <=> n + 2 =< size /\ OpensAt(T, k + n)
  BY <1>3, <1>4, <1>6 DEF OpensAt, size, length
<1> QED
  BY <1>7, <1>8 DEF k, b, size

\* Whether the tags of a buffer are looked for where they are: FirstOf in words of tags.
LEMMA FirstClose ==
  ASSUME NEW b \in Contents
  PROVE  \/ FirstOf(CloseTag, b) = 0 /\ \A n \in 1 .. Len(b) : ~ClosesAt(b, n)
         \/ /\ FirstOf(CloseTag, b) \in 1 .. Len(b) /\ ClosesAt(b, FirstOf(CloseTag, b))
            /\ \A n \in 1 .. Len(b) : n < FirstOf(CloseTag, b) => ~ClosesAt(b, n)
<1>1. DOMAIN b = 1 .. Len(b) /\ \A n \in 1 .. Len(b) : n \in Nat \ {0}
  BY DEF Contents
<1>2. \A n \in 1 .. Len(b) : TagAt(CloseTag, b, n) <=> ClosesAt(b, n)
  BY <1>1, CloseTagAt
<1> QED
  BY <1>1, <1>2, FirstOfIs

\* The same of the opening tag.
LEMMA FirstOpen ==
  ASSUME NEW b \in Contents
  PROVE  \/ FirstOf(OpenTag, b) = 0 /\ \A n \in 1 .. Len(b) : ~OpensAt(b, n)
         \/ /\ FirstOf(OpenTag, b) \in 1 .. Len(b) /\ OpensAt(b, FirstOf(OpenTag, b))
            /\ \A n \in 1 .. Len(b) : n < FirstOf(OpenTag, b) => ~OpensAt(b, n)
<1>1. DOMAIN b = 1 .. Len(b) /\ \A n \in 1 .. Len(b) : n \in Nat \ {0}
  BY DEF Contents
<1>2. \A n \in 1 .. Len(b) : TagAt(OpenTag, b, n) <=> OpensAt(b, n)
  BY <1>1, OpenTagAt
<1> QED
  BY <1>1, <1>2, FirstOfIs

\* A closing tag before any opening one.
LEMMA CloseParses ==
  ASSUME NEW T \in Contents, NEW p, NEW m, Tracks(p, T, m),
         NEW close \in 1 .. Len(p.buffer), ClosesAt(p.buffer, close),
         \A n \in 1 .. Len(p.buffer) :
           n < close => ~ClosesAt(p.buffer, n) /\ (p.thinking \/ ~OpensAt(p.buffer, n)),
         NEW q, q = Emit(p, close - 1, Len(CloseTag), FALSE)
  PROVE  Tracks(q, T, m) /\ Len(q.buffer) < Len(p.buffer)
<1> DEFINE k == Passed(p, m)
           size == Len(p.buffer)
<1>1. /\ k \in Nat /\ size \in Nat /\ Len(CloseTag) = 4 /\ p.thinking \in BOOLEAN
      /\ close \in 1 .. size
  BY TracksTypes, TagLengths
<1>2. close + 3 =< size /\ ClosesAt(T, k + close)
  BY TagsInTheBuffer
<1>3. ASSUME NEW n \in 1 .. close - 1 PROVE NoTagAt(T, k + n, p.thinking)
  <2>1. n \in 1 .. size /\ n < close /\ n + 3 =< size /\ n + 2 =< size
    BY <1>1, <1>2
  <2>2. ~ClosesAt(p.buffer, n) /\ (p.thinking \/ ~OpensAt(p.buffer, n))
    BY <2>1
  <2> QED
    BY <2>1, <2>2, TagsInTheBuffer DEF NoTagAt
<1> HIDE DEF k, size
<1>4. close - 1 \in 0 .. size /\ close - 1 + 4 =< size /\ close - 1 \in Nat
  BY <1>1, <1>2
<1>5. Reading(T)[k + (close - 1)] = At(p.thinking, 0, Given(p, close - 1)) /\ Given(p, close - 1) \in Outs
  BY <1>3, <1>4, ReadsUntagged DEF k, size
<1>6. Reading(T)[k + (close - 1) + 4] = At(FALSE, 0, Given(p, close - 1))
  <2>1. k + (close - 1) \in Nat /\ k + (close - 1) + 1 = k + close
    BY <1>1
  <2> QED
    BY <1>1, <1>2, <1>5, <2>1, ReadsClose
<1>7. Tracks(q, T, m) /\ Len(q.buffer) =< Len(p.buffer) - 4
  <2> DEFINE no == FALSE
             count == close - 1
  <2>1. /\ no \in BOOLEAN /\ q = Emit(p, count, 4, no) /\ count \in Nat
        /\ count + 4 =< Len(p.buffer) /\ Given(p, count) \in Outs
    BY <1>1, <1>4, <1>5 DEF size
  <2>2. Reading(T)[Passed(p, m) + count + 4] = At(no, 0, Given(p, count))
    BY <1>6 DEF k
  <2> HIDE DEF no, count
  <2> QED
    BY <2>1, <2>2, EmissionTracks
<1>8. \A left \in Nat : left =< size - 4 => left < size
  BY <1>1
<1>9. Len(q.buffer) \in Nat
  BY <1>7, TracksTypes
<1> QED
  BY <1>7, <1>8, <1>9 DEF size

\* An opening tag before any closing one, outside of a thought.
LEMMA OpenParses ==
  ASSUME NEW T \in Contents, NEW p, NEW m, Tracks(p, T, m), ~p.thinking,
         NEW start \in 1 .. Len(p.buffer), OpensAt(p.buffer, start),
         \A n \in 1 .. Len(p.buffer) :
           n < start => ~ClosesAt(p.buffer, n) /\ ~OpensAt(p.buffer, n),
         NEW q, q = Emit(p, start - 1, Len(OpenTag), TRUE)
  PROVE  Tracks(q, T, m) /\ Len(q.buffer) < Len(p.buffer)
<1> DEFINE k == Passed(p, m)
           size == Len(p.buffer)
<1>1. /\ k \in Nat /\ size \in Nat /\ Len(OpenTag) = 3 /\ p.thinking = FALSE
      /\ start \in 1 .. size
  BY TracksTypes, TagLengths
<1>2. start + 2 =< size /\ OpensAt(T, k + start)
  BY TagsInTheBuffer
<1>3. ASSUME NEW n \in 1 .. start - 1 PROVE NoTagAt(T, k + n, p.thinking)
  <2>1. n \in 1 .. size /\ n < start /\ n + 3 =< size /\ n + 2 =< size
    BY <1>1, <1>2
  <2>2. ~ClosesAt(p.buffer, n) /\ ~OpensAt(p.buffer, n)
    BY <2>1
  <2> QED
    BY <2>1, <2>2, TagsInTheBuffer DEF NoTagAt
<1> HIDE DEF k, size
<1>4. start - 1 \in 0 .. size /\ start - 1 + 3 =< size /\ start - 1 \in Nat
  BY <1>1, <1>2
<1>5. Reading(T)[k + (start - 1)] = At(p.thinking, 0, Given(p, start - 1)) /\ Given(p, start - 1) \in Outs
  BY <1>3, <1>4, ReadsUntagged DEF k, size
<1>6. Reading(T)[k + (start - 1) + 3] = At(TRUE, 0, Given(p, start - 1))
  <2>1. k + (start - 1) \in Nat /\ k + (start - 1) + 1 = k + start
    BY <1>1
  <2>2. Reading(T)[k + (start - 1)] = At(FALSE, 0, Given(p, start - 1))
    BY <1>1, <1>5, Zenon
  <2> QED
    BY <1>2, <2>1, <2>2, ReadsOpen
<1>7. Tracks(q, T, m) /\ Len(q.buffer) =< Len(p.buffer) - 3
  <2> DEFINE yes == TRUE
             count == start - 1
  <2>1. /\ yes \in BOOLEAN /\ q = Emit(p, count, 3, yes) /\ count \in Nat
        /\ count + 3 =< Len(p.buffer) /\ Given(p, count) \in Outs
    BY <1>1, <1>4, <1>5 DEF size
  <2>2. Reading(T)[Passed(p, m) + count + 3] = At(yes, 0, Given(p, count))
    BY <1>6 DEF k
  <2> HIDE DEF yes, count
  <2> QED
    BY <2>1, <2>2, EmissionTracks
<1>8. \A left \in Nat : left =< size - 3 => left < size
  BY <1>1
<1>9. Len(q.buffer) \in Nat
  BY <1>7, TracksTypes
<1> QED
  BY <1>7, <1>8, <1>9 DEF size

-----------------------------------------------------------------------------------
(* What waits in the buffer *)

\* A text that could become a tag, character by character.
BeginsTag(tag, b) == Len(b) < Len(tag) /\ \A i \in 1 .. Len(b) : b[i] = tag[i]

\* A proper beginning of a tag, character by character.
LEMMA PrefixIs ==
  ASSUME NEW tag \in Contents, NEW b \in Contents
  PROVE  Len(b) < Len(tag) /\ IsPrefix(b, tag) <=> BeginsTag(tag, b)
<1> SUFFICES ASSUME Len(b) < Len(tag)
             PROVE  IsPrefix(b, tag) <=> \A i \in 1 .. Len(b) : b[i] = tag[i]
  BY DEF BeginsTag
<1> DEFINE size == Len(b)
           s == SubSeq(b, 1, size)
           t == SubSeq(tag, 1, size)
<1>1. size \in Nat /\ Len(tag) \in Nat /\ size =< Len(tag)
  BY DEF Contents
<1>2. 1 \in 1 .. Len(b) + 1 /\ 1 \in 1 .. Len(tag) + 1 /\ size \in 1 - 1 .. Len(b)
      /\ size \in 1 - 1 .. Len(tag) /\ size - 1 + 1 = size /\ \A i \in 1 .. size : 1 + i - 1 = i
  BY <1>1
<1>3. s \in Contents /\ Len(s) = size - 1 + 1 /\ \A i \in 1 .. size - 1 + 1 : s[i] = b[1 + i - 1]
  BY <1>2, Piece
<1>4. t \in Contents /\ Len(t) = size - 1 + 1 /\ \A i \in 1 .. size - 1 + 1 : t[i] = tag[1 + i - 1]
  BY <1>2, Piece
<1> HIDE DEF s, t
<1>5. s = t <=> \A i \in 1 .. size : s[i] = t[i]
  BY <1>2, <1>3, <1>4, SameTexts
<1>6. IsPrefix(b, tag) <=> s = t
  BY <1>1 DEF IsPrefix, s, t
<1> QED
  BY <1>2, <1>3, <1>4, <1>5, <1>6

\* What could become a tag that is recognized.
LEMMA BeginsIs ==
  ASSUME NEW b \in Contents, NEW thinking
  PROVE  Begins(b, thinking) <=> BeginsTag(CloseTag, b) \/ (~thinking /\ BeginsTag(OpenTag, b))
<1>1. /\ Len(b) < Len(CloseTag) /\ IsPrefix(b, CloseTag) <=> BeginsTag(CloseTag, b)
      /\ Len(b) < Len(OpenTag) /\ IsPrefix(b, OpenTag) <=> BeginsTag(OpenTag, b)
  BY PrefixIs, TagLengths
<1> QED
  BY <1>1 DEF Begins

\* What a parser that stops keeps back.
AtRest(p) == p.buffer = <<>> \/ Begins(p.buffer, p.thinking)

\* What could become a tag holds none.
LEMMA RestHasNoTag ==
  ASSUME NEW p \in Parsers, AtRest(p), NEW n \in 1 .. Len(p.buffer)
  PROVE  ~ClosesAt(p.buffer, n) /\ ~OpensAt(p.buffer, n)
<1> DEFINE b == p.buffer
<1>1. b \in Contents /\ Len(b) \in Nat /\ b # <<>>
  BY DEF Parsers, Contents
<1>2. BeginsTag(CloseTag, b) \/ BeginsTag(OpenTag, b)
  BY <1>1, BeginsIs DEF AtRest
<1>3. OpenTag[2] = "think" /\ CloseTag[2] = "/"
  BY DEF OpenTag, CloseTag
<1> HIDE DEF b
<1>4. Len(b) =< 3
  BY <1>1, <1>2, TagLengths DEF BeginsTag
<1>5. ~ClosesAt(b, n)
  BY <1>1, <1>4 DEF ClosesAt, b
<1>6. ~OpensAt(b, n)
  <2> SUFFICES ASSUME OpensAt(b, n) PROVE FALSE
    OBVIOUS
  <2>1. n = 1 /\ Len(b) = 3 /\ b[n + 1] = "think"
    <3>1. n + 2 =< Len(b) /\ b[n + 1] = "think"
      BY DEF OpensAt
    <3>2. n \in Nat /\ n # 0
      BY <1>1 DEF b
    <3>3. \A size \in Nat : size =< 3 /\ n + 2 =< size => n = 1 /\ size = 3
      BY ONLY <3>2
    <3> QED
      BY <1>1, <1>4, <3>1, <3>3
  <2>2. BeginsTag(CloseTag, b)
    BY <1>2, <2>1, TagLengths DEF BeginsTag
  <2>3. b[2] = CloseTag[2]
    BY <2>1, <2>2 DEF BeginsTag
  <2> QED
    BY <1>3, <2>1, <2>3
<1> QED
  BY <1>5, <1>6 DEF b

-----------------------------------------------------------------------------------
(* A buffer without a tag *)

\* Only the first character of a tag is a bracket.
LEMMA NoBracketInside ==
  ASSUME NEW T \in Contents, NEW n \in Nat, NEW i \in Nat, T[n + i] = "<", i # 0
  PROVE  /\ ClosesAt(T, n) => i > 3
         /\ OpensAt(T, n) => i > 2
<1>1. ASSUME ClosesAt(T, n) PROVE i # 1 /\ i # 2 /\ i # 3
  BY <1>1 DEF ClosesAt
<1>2. ASSUME OpensAt(T, n) PROVE i # 1 /\ i # 2
  BY <1>2 DEF OpensAt
<1> QED
  BY <1>1, <1>2

\* Before the last bracket no tag begins that does not end in the buffer.
LEMMA NoTagBeforeBracket ==
  ASSUME NEW T \in Contents, NEW p, NEW m, Tracks(p, T, m),
         NEW last \in 1 .. Len(p.buffer), p.buffer[last] = "<",
         NEW n \in 1 .. Len(p.buffer), n < last,
         ~ClosesAt(p.buffer, n) /\ (p.thinking \/ ~OpensAt(p.buffer, n))
  PROVE  NoTagAt(T, Passed(p, m) + n, p.thinking)
<1> DEFINE k == Passed(p, m)
           size == Len(p.buffer)
           at == k + n
           i == last - n
<1>1. k \in Nat /\ size \in Nat /\ T[k + last] = "<"
  BY TracksTypes
<1>2. /\ ClosesAt(p.buffer, n) <=> n + 3 =< size /\ ClosesAt(T, at)
      /\ OpensAt(p.buffer, n) <=> n + 2 =< size /\ OpensAt(T, at)
  BY TagsInTheBuffer
<1> HIDE DEF k, size
<1>3. last \in 1 .. size /\ n \in 1 .. size
  BY DEF size
<1>4. at \in Nat /\ i \in Nat /\ i # 0 /\ at + i = k + last
  BY <1>1, <1>3
<1>5. n + 3 =< size \/ i =< 3 
  BY <1>1, <1>3
<1>6. n + 2 =< size \/ i =< 2
  BY <1>1, <1>3
<1> HIDE DEF at, i
<1>7. /\ ClosesAt(T, at) => i > 3
      /\ OpensAt(T, at) => i > 2
  BY <1>1, <1>4, NoBracketInside
<1>8. ~ClosesAt(T, at)
  BY <1>2, <1>4, <1>5, <1>7
<1>9. p.thinking \/ ~OpensAt(T, at)
  BY <1>2, <1>4, <1>6, <1>7
<1> QED
  BY <1>8, <1>9 DEF NoTagAt, at, k

\* A tag that begins in the buffer and ends behind it makes what follows the beginning of one.
LEMMA OverhangBegins ==
  ASSUME NEW T \in Contents, NEW p, NEW m, Tracks(p, T, m), NEW n \in 1 .. Len(p.buffer),
         ~ClosesAt(p.buffer, n) /\ (p.thinking \/ ~OpensAt(p.buffer, n)),
         ~NoTagAt(T, Passed(p, m) + n, p.thinking)
  PROVE  /\ p.buffer[n] = "<"
         /\ Begins(SubSeq(p.buffer, n, Len(p.buffer)), p.thinking)
<1> DEFINE k == Passed(p, m)
           b == p.buffer
           size == Len(b)
           at == k + n
           rest == SubSeq(b, n, size)
<1>1. /\ k \in Nat /\ size \in Nat /\ b \in Contents /\ p.thinking \in BOOLEAN
      /\ \A i \in 1 .. size : b[i] = T[k + i]
  BY TracksTypes
<1>2. /\ ClosesAt(b, n) <=> n + 3 =< size /\ ClosesAt(T, at)
      /\ OpensAt(b, n) <=> n + 2 =< size /\ OpensAt(T, at)
  BY TagsInTheBuffer
<1>3. /\ rest \in Contents /\ Len(rest) = size - n + 1 /\ Len(rest) \in Nat
      /\ \A i \in 1 .. size - n + 1 : rest[i] = b[n + i - 1]
  <2>1. n \in 1 .. Len(b) + 1 /\ size \in n - 1 .. Len(b)
    BY <1>1
  <2>2. /\ rest \in Contents /\ Len(rest) = size - n + 1
        /\ \A i \in 1 .. size - n + 1 : rest[i] = b[n + i - 1]
    BY <1>1, <2>1, Piece
  <2> QED
    BY <2>2 DEF Contents
<1>4. ClosesAt(T, at) \/ (~p.thinking /\ OpensAt(T, at))
  BY DEF NoTagAt
<1>5. n \in 1 .. size /\ at \in Nat
  BY <1>1
<1> HIDE DEF k, b, size, rest
<1>6. \A i \in 1 .. size - n + 1 : rest[i] = T[at + (i - 1)]
  <2> SUFFICES ASSUME NEW i \in 1 .. size - n + 1 PROVE rest[i] = T[at + (i - 1)]
    OBVIOUS
  <2>1. n + i - 1 \in 1 .. size /\ k + (n + i - 1) = at + (i - 1)
    BY <1>1, <1>5
  <2> QED
    BY <1>1, <1>3, <2>1
<1>7. b[n] = T[at + 0] /\ at + 0 = at
  BY <1>1, <1>5
<1> HIDE DEF at
<1>8. /\ OpenTag[1] = "<" /\ OpenTag[2] = "think" /\ OpenTag[3] = ">"
      /\ CloseTag[1] = "<" /\ CloseTag[2] = "/" /\ CloseTag[3] = "think" /\ CloseTag[4] = ">"
  BY DEF OpenTag, CloseTag
<1>9. CASE ClosesAt(T, at)
  <2>1. size - n + 1 < 4
    <3>1. ~(n + 3 =< size)
      BY <1>2, <1>9 DEF b
    <3> QED
      BY <1>1, <1>5, <3>1
  <2>2. \A i \in 1 .. 3 : T[at + (i - 1)] = CloseTag[i]
    <3>1. T[at] = "<" /\ T[at + 1] = "/" /\ T[at + 2] = "think"
      BY <1>9 DEF ClosesAt
    <3> QED
      BY <1>5, <1>8, <3>1
  <2>3. BeginsTag(CloseTag, rest)
    <3>1. Len(rest) < Len(CloseTag)
      BY <1>3, <2>1, TagLengths
    <3>2. ASSUME NEW i \in 1 .. Len(rest) PROVE rest[i] = CloseTag[i]
      <4>1. i \in 1 .. 3 /\ i \in 1 .. size - n + 1
        BY <1>1, <1>3, <1>5, <2>1
      <4> QED
        BY <1>6, <2>2, <4>1
    <3> QED
      BY <3>1, <3>2 DEF BeginsTag
  <2>4. b[n] = "<"
    BY <1>7, <1>9 DEF ClosesAt
  <2> QED
    BY <1>3, <2>3, <2>4, BeginsIs DEF b, size, rest
<1>10. CASE ~p.thinking /\ OpensAt(T, at)
  <2>1. size - n + 1 < 3
    <3>1. ~(n + 2 =< size)
      BY <1>2, <1>10 DEF b
    <3> QED
      BY <1>1, <1>5, <3>1
  <2>2. \A i \in 1 .. 2 : T[at + (i - 1)] = OpenTag[i]
    <3>1. T[at] = "<" /\ T[at + 1] = "think"
      BY <1>10 DEF OpensAt
    <3> QED
      BY <1>5, <1>8, <3>1
  <2>3. BeginsTag(OpenTag, rest)
    <3>1. Len(rest) < Len(OpenTag)
      BY <1>3, <2>1, TagLengths
    <3>2. ASSUME NEW i \in 1 .. Len(rest) PROVE rest[i] = OpenTag[i]
      <4>1. i \in 1 .. 2 /\ i \in 1 .. size - n + 1
        BY <1>1, <1>3, <1>5, <2>1
      <4> QED
        BY <1>6, <2>2, <4>1
    <3> QED
      BY <3>1, <3>2 DEF BeginsTag
  <2>4. b[n] = "<"
    BY <1>7, <1>10 DEF OpensAt
  <2> QED
    BY <1>3, <1>10, <2>3, <2>4, BeginsIs DEF b, size, rest
<1> QED
  BY <1>4, <1>9, <1>10

\* No tag that ends in the buffer.
Untagged(p) ==
  \A n \in 1 .. Len(p.buffer) : ~ClosesAt(p.buffer, n) /\ (p.thinking \/ ~OpensAt(p.buffer, n))

\* Given count characters, none of which begins a tag, the rest stays.
LEMMA GivingTracks ==
  ASSUME NEW T \in Contents, NEW p, NEW m, Tracks(p, T, m), NEW count \in 0 .. Len(p.buffer),
         \A n \in 1 .. count : NoTagAt(T, Passed(p, m) + n, p.thinking),
         NEW q, q = Emit(p, count, 0, p.thinking)
  PROVE  Tracks(q, T, m)
<1>1. Passed(p, m) \in Nat /\ Len(p.buffer) \in Nat /\ p.thinking \in BOOLEAN
  BY TracksTypes
<1>2. Passed(p, m) + count + 0 = Passed(p, m) + count /\ count + 0 =< Len(p.buffer)
      /\ count \in Nat /\ 0 \in Nat
  BY <1>1
<1>3. /\ Reading(T)[Passed(p, m) + count] = At(p.thinking, 0, Given(p, count))
      /\ Given(p, count) \in Outs
  BY ReadsUntagged
<1>4. Reading(T)[Passed(p, m) + count + 0] = At(p.thinking, 0, Given(p, count))
  BY <1>2, <1>3
<1> QED
  BY <1>1, <1>2, <1>3, <1>4, EmissionTracks

\* Without a tag, what stays is the beginning of one, and all else is given.
LEMMA ReleaseParses ==
  ASSUME NEW T \in Contents, NEW p, NEW m, Tracks(p, T, m), Untagged(p),
         NEW q, q = ReleaseUntagged(p)
  PROVE  Tracks(q, T, m) /\ AtRest(q)
<1> DEFINE b == p.buffer
           size == Len(b)
           last == LastBracket(b)
           rest == SubSeq(b, last, size)
<1>1. size \in Nat /\ b \in Contents /\ p.thinking \in BOOLEAN
  BY TracksTypes
<1>2. /\ last \in 0 .. size /\ (last # 0 => b[last] = "<")
      /\ \A n \in 1 .. size : b[n] = "<" => n =< last
  BY <1>1, LastBracketIs
<1>3. ASSUME NEW n \in 1 .. size, n < last PROVE NoTagAt(T, Passed(p, m) + n, p.thinking)
  <2>1. last \in 1 .. size /\ b[last] = "<"
    BY <1>1, <1>2, <1>3
  <2>2. ~ClosesAt(p.buffer, n) /\ (p.thinking \/ ~OpensAt(p.buffer, n))
    BY DEF Untagged
  <2> QED
    BY <1>3, <2>1, <2>2, NoTagBeforeBracket
<1>4. CASE last # 0 /\ Begins(rest, p.thinking)
  <2>1. q = Emit(p, last - 1, 0, p.thinking)
    BY <1>4 DEF ReleaseUntagged
  <2>2. last - 1 \in 0 .. size /\ \A n \in 1 .. last - 1 : n \in 1 .. size /\ n < last
    BY <1>1, <1>2, <1>4
  <2>3. Tracks(q, T, m)
    BY <1>3, <2>1, <2>2, GivingTracks
  <2>4. q.buffer = SubSeq(b, last - 1 + 0 + 1, size) /\ q.thinking = p.thinking
    <3>1. \A buffer, thinking, out :
            LET r == [buffer |-> buffer, thinking |-> thinking, out |-> out]
            IN  r.buffer = buffer /\ r.thinking = thinking
      OBVIOUS
    <3> QED
      BY ONLY <2>1, <3>1, Zenon DEF Emit
  <2>5. last - 1 + 0 + 1 = last
    BY <1>1, <1>2
  <2> QED
    BY <1>4, <2>3, <2>4, <2>5 DEF AtRest
<1>5. CASE ~(last # 0 /\ Begins(rest, p.thinking))
  <2>1. q = Emit(p, size, 0, p.thinking)
    BY <1>5 DEF ReleaseUntagged
  <2>2. ASSUME NEW n \in 1 .. size PROVE NoTagAt(T, Passed(p, m) + n, p.thinking)
    <3> SUFFICES ASSUME ~NoTagAt(T, Passed(p, m) + n, p.thinking) PROVE FALSE
      OBVIOUS
    <3>1. b[n] = "<" /\ Begins(SubSeq(b, n, size), p.thinking)
      BY OverhangBegins DEF Untagged
    <3>2. n =< last /\ ~(n < last)
      BY <1>2, <1>3, <3>1
    <3>3. n = last /\ last # 0
      BY <1>1, <1>2, <3>2
    <3> QED
      BY <1>5, <3>1, <3>3
  <2>3. size \in 0 .. size
    BY <1>1
  <2>4. Tracks(q, T, m)
    BY <2>1, <2>2, <2>3, GivingTracks
  <2>5. q.buffer = SubSeq(b, size + 0 + 1, size)
    BY <2>1 DEF Emit
  <2>6. q.buffer = <<>>
    <3> HIDE DEF size
    <3>1. size + 0 + 1 \in 1 .. size + 1 /\ size \in size + 0 + 1 - 1 .. size
          /\ size - (size + 0 + 1) + 1 = 0
      BY <1>1
    <3>2. SubSeq(b, size + 0 + 1, size) \in Contents /\ Len(SubSeq(b, size + 0 + 1, size)) = 0
      BY <1>1, <3>1, Piece DEF size
    <3> DEFINE none == SubSeq(b, size + 0 + 1, size)
    <3> HIDE DEF none
    <3>3. none = <<>>
      <4>1. none \in Contents /\ Len(none) = 0
        BY <3>2 DEF none
      <4> QED
        BY <4>1 DEF Contents
    <3> QED
      BY <2>5, <3>3 DEF none
  <2> QED
    BY <2>4, <2>6 DEF AtRest
<1> QED
  BY <1>4, <1>5

\* A parse stays in step, and it shortens the buffer or leaves it at rest.
LEMMA ParseTracks ==
  ASSUME NEW T \in Contents, NEW p, NEW m, Tracks(p, T, m), NEW q, q = Parse(p)
  PROVE  /\ Tracks(q, T, m)
         /\ AtRest(q) \/ Len(q.buffer) < Len(p.buffer)
         /\ AtRest(p) => AtRest(q)
<1> DEFINE b == p.buffer
           start == IF p.thinking THEN 0 ELSE FirstOf(OpenTag, b)
           close == FirstOf(CloseTag, b)
<1>1. /\ p \in Parsers /\ b \in Contents /\ Len(b) \in Nat
  BY TracksTypes
<1>2. \/ close = 0 /\ \A n \in 1 .. Len(b) : ~ClosesAt(b, n)
      \/ /\ close \in 1 .. Len(b) /\ ClosesAt(b, close)
         /\ \A n \in 1 .. Len(b) : n < close => ~ClosesAt(b, n)
  BY <1>1, FirstClose
<1>3. \/ start = 0 /\ \A n \in 1 .. Len(b) : p.thinking \/ ~OpensAt(b, n)
      \/ /\ start \in 1 .. Len(b) /\ OpensAt(b, start) /\ ~p.thinking
         /\ \A n \in 1 .. Len(b) : n < start => ~OpensAt(b, n)
  <2>1. CASE p.thinking
    BY <2>1
  <2>2. CASE ~p.thinking
    <3>1. start = FirstOf(OpenTag, b)
      BY <2>2
    <3> HIDE DEF start
    <3> QED
      BY <1>1, <2>2, <3>1, FirstOpen
  <2> QED
    BY <2>1, <2>2
<1>4. q = IF close # 0 /\ (start = 0 \/ close < start)
            THEN Emit(p, close - 1, Len(CloseTag), FALSE)
          ELSE IF start # 0 THEN Emit(p, start - 1, Len(OpenTag), TRUE)
          ELSE ReleaseUntagged(p)
  BY DEF Parse
<1>5. AtRest(p) => \A n \in 1 .. Len(b) : ~ClosesAt(b, n) /\ ~OpensAt(b, n)
  BY <1>1, RestHasNoTag
<1> HIDE DEF start, close, b
<1>6. CASE close # 0 /\ (start = 0 \/ close < start)
  <2>1. close \in 1 .. Len(b) /\ ClosesAt(b, close)
        /\ \A n \in 1 .. Len(b) : n < close => ~ClosesAt(b, n) /\ (p.thinking \/ ~OpensAt(b, n))
    <3>1. \A n \in 1 .. Len(b) : n < close /\ start # 0 => n < start
      BY <1>1, <1>2, <1>3, <1>6
    <3> QED
      BY <1>2, <1>3, <1>6, <3>1
  <2>2. q = Emit(p, close - 1, Len(CloseTag), FALSE)
    BY <1>4, <1>6
  <2>3. Tracks(q, T, m) /\ Len(q.buffer) < Len(b)
    BY <2>1, <2>2, CloseParses DEF b
  <2>4. ~AtRest(p)
    BY <1>5, <2>1
  <2> QED
    BY <2>3, <2>4 DEF b
<1>7. CASE ~(close # 0 /\ (start = 0 \/ close < start)) /\ start # 0
  <2>1. start \in 1 .. Len(b) /\ OpensAt(b, start) /\ ~p.thinking
        /\ \A n \in 1 .. Len(b) : n < start => ~ClosesAt(b, n) /\ ~OpensAt(b, n)
    <3>1. \A n \in 1 .. Len(b) : n < start /\ close # 0 => n < close
      BY <1>1, <1>2, <1>3, <1>7
    <3> QED
      BY <1>2, <1>3, <1>7, <3>1
  <2>2. q = Emit(p, start - 1, Len(OpenTag), TRUE)
    BY <1>4, <1>7
  <2>3. Tracks(q, T, m) /\ Len(q.buffer) < Len(b)
    BY <2>1, <2>2, OpenParses DEF b
  <2>4. ~AtRest(p)
    BY <1>5, <2>1
  <2> QED
    BY <2>3, <2>4 DEF b
<1>8. CASE ~(close # 0 /\ (start = 0 \/ close < start)) /\ start = 0
  <2>1. Untagged(p)
    BY <1>2, <1>3, <1>8 DEF Untagged, b
  <2>2. q = ReleaseUntagged(p)
    BY <1>4, <1>8
  <2> QED
    BY <2>1, <2>2, ReleaseParses
<1> QED
  BY <1>6, <1>7, <1>8

-----------------------------------------------------------------------------------
(* Parsing until nothing changes *)

\* The recursion of Fed has a function on the first n parses.
LEMMA ParsedExists ==
  ASSUME NEW whole, NEW n \in Nat
  PROVE  \E F : F = [i \in 0 .. n |-> IF i = 0 THEN whole ELSE Parse(F[i - 1])]
<1> DEFINE Step(F, i) == IF i = 0 THEN whole ELSE Parse(F[i - 1])
           S == {k \in Nat : \E F : F = [i \in 0 .. k |-> Step(F, i)]}
<1>1. 0 \in S
  <2> DEFINE F == [i \in 0 .. 0 |-> whole]
  <2>1. F = [i \in 0 .. 0 |-> Step(F, i)]
    OBVIOUS
  <2> QED
    BY <2>1
<1>2. ASSUME NEW k \in S PROVE k + 1 \in S
  <2>1. PICK F : F = [i \in 0 .. k |-> Step(F, i)]
    OBVIOUS
  <2> DEFINE last == Parse(F[k])
             G == [i \in 0 .. k + 1 |-> IF i = k + 1 THEN last ELSE F[i]]
  <2>2. \A i \in 0 .. k : F[i] = Step(F, i)
    <3> HIDE DEF Step
    <3> QED BY <2>1
  <2>3. ASSUME NEW i \in 0 .. k + 1 PROVE G[i] = Step(G, i)
    <3>1. CASE i = k + 1
      <4>1. G[i] = last /\ i # 0 /\ i - 1 = k /\ G[k] = F[k]
        BY <3>1
      <4> HIDE DEF G
      <4> QED
        BY <3>1, <4>1
    <3>2. CASE i \in 0 .. k
      <4>1. G[i] = F[i] /\ (i # 0 => G[i - 1] = F[i - 1])
        BY <3>2
      <4> HIDE DEF G
      <4> QED
        BY <3>2, <4>1, <2>2
    <3> QED
      BY <3>1, <3>2
  <2>4. G = [i \in 0 .. k + 1 |-> Step(G, i)]
    <3> HIDE DEF Step
    <3> QED BY <2>3
  <2> HIDE DEF G, Step
  <2> QED
    BY <2>4
<1> HIDE DEF S
<1>3. S = Nat
  <2>1. S \in SUBSET Nat
    BY DEF S
  <2> QED
    BY <1>1, <1>2, <2>1, NatIsInductive
<1> QED
  BY <1>3 DEF S

\* What a parser that is fed starts from.
Whole(p, content) == [p EXCEPT !.buffer = @ \o content]

\* Fed, a parser stays in step and comes to rest: each parse before takes a character at least.
LEMMA FedTracks ==
  ASSUME NEW T \in Contents, NEW m, NEW p, NEW content, Tracks(Whole(p, content), T, m)
  PROVE  Tracks(Fed(p, content), T, m) /\ AtRest(Fed(p, content))
<1> DEFINE whole == Whole(p, content)
           size == Len(whole.buffer)
           F == CHOOSE F : F = [n \in 0 .. size + 1 |-> IF n = 0 THEN whole ELSE Parse(F[n - 1])]
           Holds(n) == /\ Tracks(F[n], T, m)
                       /\ AtRest(F[n]) \/ Len(F[n].buffer) + n =< size
           S == {n \in Nat : n =< size + 1 => Holds(n)}
<1>1. Fed(p, content) = F[size + 1]
  BY DEF Fed, Whole
<1>2. size \in Nat
  BY TracksTypes
<1> HIDE DEF whole, size
<1>3. F = [n \in 0 .. size + 1 |-> IF n = 0 THEN whole ELSE Parse(F[n - 1])]
  <2>1. size + 1 \in Nat
    BY <1>2
  <2> QED
    BY <2>1, ParsedExists
<1> HIDE DEF F
<1>4. F[0] = whole /\ \A n \in 1 .. size + 1 : F[n] = Parse(F[n - 1])
  <2>1. \A n \in 0 .. size + 1 : F[n] = IF n = 0 THEN whole ELSE Parse(F[n - 1])
    BY <1>3
  <2> QED
    BY <1>2, <2>1
<1>5. 0 \in S
  <2>1. Tracks(F[0], T, m) /\ Len(F[0].buffer) + 0 =< size
    BY <1>2, <1>4 DEF whole, size
  <2> QED
    BY <2>1
<1>6. ASSUME NEW n \in S PROVE n + 1 \in S
  <2> SUFFICES ASSUME n + 1 =< size + 1 PROVE Holds(n + 1)
    <3> HIDE DEF Holds
    <3> QED OBVIOUS
  <2>1. n \in Nat /\ Tracks(F[n], T, m) /\ (AtRest(F[n]) \/ Len(F[n].buffer) + n =< size)
    BY <1>2
  <2>2. F[n + 1] = Parse(F[n])
    <3>1. n + 1 \in 1 .. size + 1 /\ n + 1 - 1 = n
      BY <1>2, <2>1
    <3> QED
      BY <1>4, <3>1
  <2>3. /\ Tracks(F[n + 1], T, m)
        /\ AtRest(F[n + 1]) \/ Len(F[n + 1].buffer) < Len(F[n].buffer)
        /\ AtRest(F[n]) => AtRest(F[n + 1])
    BY <2>1, <2>2, ParseTracks
  <2>4. Len(F[n].buffer) \in Nat /\ Len(F[n + 1].buffer) \in Nat
    BY <2>1, <2>3, TracksTypes
  <2>5. \A x, y \in Nat : x < y /\ y + n =< size => x + (n + 1) =< size
    BY ONLY <1>2, n \in Nat
  <2> QED
    BY <2>1, <2>3, <2>4, <2>5
<1> HIDE DEF S
<1>7. S = Nat
  <2>1. S \in SUBSET Nat
    BY DEF S
  <2> QED
    BY <1>5, <1>6, <2>1, NatIsInductive
<1>8. Tracks(F[size + 1], T, m) /\ (AtRest(F[size + 1]) \/ Len(F[size + 1].buffer) + (size + 1) =< size)
  <2>1. size + 1 \in S /\ size + 1 =< size + 1
    BY <1>2, <1>7
  <2> QED
    BY <2>1 DEF S
<1>9. Len(F[size + 1].buffer) \in Nat
  BY <1>8, TracksTypes
<1>10. \A x \in Nat : ~(x + (size + 1) =< size)
  BY <1>2
<1> QED
  BY <1>1, <1>8, <1>9, <1>10

-----------------------------------------------------------------------------------
(* The invariant *)

\* T begins with text.
Extends(T, text) == Len(text) =< Len(T) /\ \A i \in 1 .. Len(text) : T[i] = text[i]

\* Whatever comes after the text, the parser is where its reading is.
InStep(p, text) == \A T \in Contents : Extends(T, text) => Tracks(p, T, Len(text))

TagsInv ==
  /\ input \in Contents
  /\ ~ended => InStep(tags, input) /\ AtRest(tags)
  /\ ended => ChunksDoNotMatter

\* In step with all continuations, a parser is in step with the text alone.
LEMMA InStepTypes ==
  ASSUME NEW text \in Contents, NEW p, InStep(p, text)
  PROVE  Tracks(p, text, Len(text)) /\ p \in Parsers
<1>1. Extends(text, text)
  BY DEF Extends, Contents
<1> QED
  BY <1>1 DEF InStep, Tracks

\* Fed with more, a parser has more in its buffer.
LEMMA WholeTracks ==
  ASSUME NEW text \in Contents, NEW content \in Contents, NEW p, InStep(p, text),
         NEW T \in Contents, Extends(T, text \o content)
  PROVE  Tracks(Whole(p, content), T, Len(text \o content))
<1> DEFINE more == text \o content
           b == p.buffer
           new == b \o content
           whole == Whole(p, content)
           m == Len(text)
           size == Len(b)
           added == Len(content)
<1>1. /\ more \in Contents /\ Len(more) = m + added /\ m \in Nat /\ added \in Nat /\ Len(T) \in Nat
      /\ \A i \in 1 .. m : more[i] = text[i]
      /\ \A i \in 1 .. added : more[m + i] = content[i]
  BY DEF Contents
<1> HIDE DEF more
<1>2. Len(more) =< Len(T) /\ \A i \in 1 .. m + added : T[i] = more[i]
  BY <1>1 DEF Extends, more
<1>3. Extends(T, text)
  <2>1. m =< Len(T) /\ \A i \in 1 .. m : i \in 1 .. m + added
    BY <1>1, <1>2
  <2> QED
    BY <1>1, <1>2, <2>1 DEF Extends
<1>4. Tracks(p, T, m)
  BY <1>3 DEF InStep
<1>5. /\ p \in Parsers /\ b \in Contents /\ p.thinking \in BOOLEAN /\ p.out \in Outs
      /\ size \in Nat /\ Passed(p, m) \in Nat /\ Passed(p, m) + size = m
      /\ \A i \in 1 .. size : b[i] = T[Passed(p, m) + i]
      /\ Reading(T)[Passed(p, m)] = At(p.thinking, 0, p.out)
  BY <1>4, TracksTypes
<1>6. /\ new \in Contents /\ Len(new) = size + added
      /\ \A i \in 1 .. size : new[i] = b[i]
      /\ \A i \in 1 .. added : new[size + i] = content[i]
  <2> HIDE DEF b
  <2> QED
    BY <1>5 DEF Contents
<1>7. whole = [buffer |-> new, thinking |-> p.thinking, out |-> p.out]
  <2>1. \A d : [p EXCEPT !.buffer = d] = [buffer |-> d, thinking |-> p.thinking, out |-> p.out]
    <3> DEFINE was == p.buffer
               now == p.thinking
               given == p.out
    <3>1. p = [buffer |-> was, thinking |-> now, out |-> given]
      BY <1>5 DEF Parsers
    <3>2. \A old, thinking, out, d :
            [[buffer |-> old, thinking |-> thinking, out |-> out] EXCEPT !.buffer = d]
              = [buffer |-> d, thinking |-> thinking, out |-> out]
      OBVIOUS
    <3> HIDE DEF was, now, given
    <3>3. \A d : [p EXCEPT !.buffer = d] = [buffer |-> d, thinking |-> now, out |-> given]
      <4> SUFFICES ASSUME NEW d
                   PROVE  [p EXCEPT !.buffer = d] = [buffer |-> d, thinking |-> now, out |-> given]
        OBVIOUS
      <4>1. [[buffer |-> was, thinking |-> now, out |-> given] EXCEPT !.buffer = d]
              = [buffer |-> d, thinking |-> now, out |-> given]
        BY ONLY <3>2
      <4> QED
        BY ONLY <3>1, <4>1
    <3> QED
      BY <3>3 DEF now, given
  <2> QED
    BY ONLY <2>1, Zenon DEF Whole, whole, new, b
<1> DEFINE k == Passed(p, m)
<1> HIDE DEF new, whole, b, m, size, added, k
<1>8. whole \in Parsers /\ whole.buffer = new /\ whole.thinking = p.thinking /\ whole.out = p.out
  BY <1>5, <1>6, <1>7 DEF Parsers
<1>9. /\ k \in Nat /\ m \in Nat /\ size \in Nat /\ added \in Nat /\ k + size = m
      /\ Len(more) = m + added /\ Len(new) = size + added /\ Len(more) =< Len(T)
  BY <1>1, <1>2, <1>5, <1>6 DEF k
<1>10. ASSUME NEW i \in 1 .. size + added PROVE new[i] = T[k + i]
  <2>1. CASE i \in 1 .. size
    BY <1>5, <1>6, <2>1 DEF k
  <2>2. CASE i \notin 1 .. size
    <3>1. i - size \in 1 .. added /\ size + (i - size) = i /\ m + (i - size) = k + i
          /\ k + i \in 1 .. m + added
      BY ONLY <1>9, <2>2, i \in 1 .. size + added
    <3>2. new[i] = content[i - size] /\ more[k + i] = content[i - size]
      BY <1>1, <1>6, <3>1
    <3> QED
      BY <1>2, <3>1, <3>2
  <2> QED
    BY <2>1, <2>2
<1>11. Len(more) - Len(new) = k /\ Len(new) =< Len(more) /\ Len(more) \in Nat
  <2> DEFINE x == Len(more)
             y == Len(new)
  <2>1. x = m + added /\ y = size + added
    BY <1>9
  <2> HIDE DEF x, y
  <2>2. x - y = k /\ y =< x /\ x \in Nat
    BY ONLY <1>9, <2>1
  <2> QED
    BY <2>2 DEF x, y
<1>12. Tracks(whole, T, Len(more))
  BY <1>5, <1>8, <1>9, <1>10, <1>11 DEF Tracks, k
<1> QED
  BY <1>12 DEF whole, more

\* A parser at rest that has been fed a whole text keeps back what was no tag.
LEMMA RestIsWhole ==
  ASSUME NEW text \in Contents, NEW p, InStep(p, text), AtRest(p)
  PROVE  /\ Given(p, Len(p.buffer)) = Meaning(text) /\ Given(p, Len(p.buffer)) \in Outs
         /\ Given(p, Len(p.buffer)) = p.out \o Typed(p.buffer, p.thinking)
         /\ Len(p.buffer) < Len(CloseTag)
<1> DEFINE m == Len(text)
           k == Passed(p, m)
           size == Len(p.buffer)
<1>1. Tracks(p, text, m)
  BY InStepTypes
<1>2. /\ p \in Parsers /\ p.buffer \in Contents /\ size \in Nat /\ k \in Nat /\ k + size = m
  BY <1>1, TracksTypes
<1>3. ASSUME NEW n \in 1 .. size PROVE NoTagAt(text, k + n, p.thinking)
  <2>1. ~ClosesAt(p.buffer, n) /\ ~OpensAt(p.buffer, n)
    BY <1>2, RestHasNoTag
  <2>2. /\ ClosesAt(p.buffer, n) <=> n + 3 =< size /\ ClosesAt(text, k + n)
        /\ OpensAt(p.buffer, n) <=> n + 2 =< size /\ OpensAt(text, k + n)
    BY <1>1, TagsInTheBuffer
  <2> HIDE DEF k, size
  <2>3. n \in Nat /\ (k + n + 3 =< m => n + 3 =< size) /\ (k + n + 2 =< m => n + 2 =< size)
    BY <1>2
  <2>4. /\ ClosesAt(text, k + n) => k + n + 3 =< m
        /\ OpensAt(text, k + n) => k + n + 2 =< m
    BY DEF ClosesAt, OpensAt
  <2> QED
    BY <2>1, <2>2, <2>3, <2>4 DEF NoTagAt
<1>4. /\ Reading(text)[k + size] = At(p.thinking, 0, Given(p, size))
      /\ Given(p, size) \in Outs
  <2>1. size \in 0 .. size
    BY <1>2
  <2> QED
    BY <1>1, <1>3, <2>1, ReadsUntagged
<1>5. Meaning(text) = Given(p, size)
  <2>1. \A thinking, out : At(thinking, 0, out).out = out
    BY DEF At
  <2> HIDE DEF m, k, size
  <2>2. Reading(text)[m] = At(p.thinking, 0, Given(p, size))
    BY <1>2, <1>4
  <2> QED
    BY <2>1, <2>2, Zenon DEF Meaning, m
<1>6. Given(p, size) = p.out \o Typed(p.buffer, p.thinking)
  <2>1. SubSeq(p.buffer, 1, size) = p.buffer
    <3> DEFINE b == p.buffer
               all == SubSeq(b, 1, size)
    <3>1. 1 \in 1 .. Len(b) + 1 /\ size \in 1 - 1 .. Len(b) /\ size - 1 + 1 = size
          /\ \A i \in 1 .. size : 1 + i - 1 = i
      BY <1>2
    <3>2. all \in Contents /\ Len(all) = size - 1 + 1 /\ \A i \in 1 .. size - 1 + 1 : all[i] = b[1 + i - 1]
      BY <1>2, <3>1, Piece
    <3> HIDE DEF all
    <3>3. all = b
      BY <1>2, <3>1, <3>2 DEF Contents
    <3> QED
      BY <3>3 DEF all
  <2> QED
    BY <2>1 DEF Given
<1>7. size < Len(CloseTag)
  <2>1. CASE p.buffer = <<>>
    BY <2>1, TagLengths
  <2>2. CASE p.buffer # <<>>
    <3>1. BeginsTag(CloseTag, p.buffer) \/ BeginsTag(OpenTag, p.buffer)
      BY <1>2, <2>2, BeginsIs DEF AtRest
    <3> QED
      BY <1>2, <3>1, TagLengths DEF BeginsTag
  <2> QED
    BY <2>1, <2>2
<1> QED
  BY <1>4, <1>5, <1>6, <1>7

\* The parser starts in step with any text.
LEMMA TagsInitInv == TagsInit => TagsInv
<1> SUFFICES ASSUME TagsInit PROVE TagsInv
  OBVIOUS
<1>1. tags = [buffer |-> <<>>, thinking |-> FALSE, out |-> <<>>] /\ input = <<>> /\ ~ended
  BY DEF TagsInit
<1>2. <<>> \in Contents /\ <<>> \in Outs /\ Len(<<>>) = 0
  BY DEF Contents, Outs
<1>3. tags \in Parsers /\ tags.buffer = <<>> /\ tags.thinking = FALSE /\ tags.out = <<>>
  BY <1>1, <1>2 DEF Parsers
<1>4. ASSUME NEW T \in Contents PROVE Tracks(tags, T, 0)
  <2>1. Reading(T)[0] = At(FALSE, 0, <<>>)
    BY ReadingSteps DEF NewReading
  <2>2. At(FALSE, 0, <<>>) = At(tags.thinking, 0, tags.out)
    BY <1>3, Zenon
  <2>3. 0 - Len(tags.buffer) = 0 /\ Len(tags.buffer) = 0 /\ Len(T) \in Nat
    <3>1. Len(tags.buffer) = 0
      BY <1>2, <1>3, Zenon
    <3>2. Len(T) \in Nat
      BY DEF Contents
    <3> QED
      BY ONLY <3>1, <3>2
  <2> QED
    BY <1>3, <2>1, <2>2, <2>3 DEF Tracks
<1>5. InStep(tags, input)
  BY <1>1, <1>2, <1>4 DEF InStep
<1> QED
  BY <1>1, <1>2, <1>3, <1>5 DEF TagsInv, AtRest

\* A chunk leaves it in step,
LEMMA FeedInv ==
  ASSUME TagsInv, ~ended, NEW n \in 1 .. MaxInput - Len(input),
         NEW content \in [1 .. n -> Characters], Feed(content)
  PROVE  TagsInv'
<1>1. content \in Contents /\ input \in Contents
  <2>1. n \in Nat
    BY TagsAssumption DEF TagsInv, Contents
  <2> QED
    BY <2>1 DEF Contents, TagsInv
<1>2. InStep(tags, input)
  BY DEF TagsInv
<1>3. tags' = Fed(tags, content) /\ input' = input \o content /\ ended' = ended
  BY DEF Feed
<1>4. input' \in Contents
  BY <1>1, <1>3 DEF Contents
<1>5. ASSUME NEW T \in Contents, Extends(T, input')
      PROVE  Tracks(tags', T, Len(input')) /\ AtRest(tags')
  <2>1. Tracks(Whole(tags, content), T, Len(input \o content))
    BY <1>1, <1>2, <1>3, <1>5, WholeTracks
  <2> QED
    BY <1>3, <2>1, FedTracks
<1>6. Extends(input', input')
  BY <1>4 DEF Extends, Contents
<1>7. InStep(tags', input') /\ AtRest(tags')
  BY <1>4, <1>5, <1>6 DEF InStep
<1> QED
  BY <1>3, <1>4, <1>7 DEF TagsInv, InStep, AtRest, Extends, Tracks

\* and the end gives what was no tag.
LEMMA FlushInv ==
  ASSUME TagsInv, ~ended, FlushTags
  PROVE  TagsInv'
<1> DEFINE size == Len(tags.buffer)
<1>1. /\ input \in Contents /\ InStep(tags, input) /\ AtRest(tags)
      /\ tags' = Emit(tags, size, 0, tags.thinking) /\ input' = input /\ ended'
  BY DEF TagsInv, FlushTags
<1>2. Given(tags, size) = Meaning(input) /\ Given(tags, size) \in Outs
  BY <1>1, RestIsWhole
<1>3. tags \in Parsers /\ tags.buffer \in Contents /\ size \in Nat /\ tags.thinking \in BOOLEAN
  BY <1>1, InStepTypes, TracksTypes
<1>4. tags'.buffer = SubSeq(tags.buffer, size + 0 + 1, size) /\ tags'.thinking = tags.thinking
      /\ tags'.out = Given(tags, size)
  <2>1. \A buffer, thinking, out :
          LET r == [buffer |-> buffer, thinking |-> thinking, out |-> out]
          IN  r.buffer = buffer /\ r.thinking = thinking /\ r.out = out
    OBVIOUS
  <2> QED
    BY ONLY <1>1, <2>1, Zenon DEF Emit, Given
<1>5. tags'.buffer = <<>>
  <2> DEFINE b == tags.buffer
             none == SubSeq(b, size + 0 + 1, size)
  <2>1. size + 0 + 1 \in 1 .. Len(b) + 1 /\ size \in size + 0 + 1 - 1 .. Len(b)
        /\ size - (size + 0 + 1) + 1 = 0
    BY <1>3
  <2>2. none \in Contents /\ Len(none) = 0
    BY <1>3, <2>1, Piece
  <2> HIDE DEF none
  <2>3. none = <<>>
    BY <2>2 DEF Contents
  <2> QED
    BY <1>4, <2>3 DEF none
<1>6. tags'.out \o Typed(tags'.buffer, tags'.thinking) = tags'.out
  <2> DEFINE out == tags'.out
             none == Typed(tags'.buffer, tags'.thinking)
  <2>1. <<>> \in Contents /\ Len(<<>>) = 0
    BY DEF Contents
  <2>2. none \in Outs /\ Len(none) = 0 /\ out \in Outs
    BY <1>2, <1>3, <1>4, <1>5, <2>1, TypedIs
  <2> HIDE DEF none, out
  <2>3. out \o none = out
    BY <2>2 DEF Outs
  <2> QED
    BY <2>3 DEF out, none
<1>7. Len(tags'.buffer) < Len(CloseTag)
  BY <1>5, TagLengths
<1>8. ChunksDoNotMatter'
  BY <1>1, <1>2, <1>4, <1>5, <1>6, <1>7 DEF ChunksDoNotMatter
<1> QED
  BY <1>1, <1>8 DEF TagsInv

\* Every step keeps the invariant,
LEMMA TagsNextInv == TagsInv /\ [TagsNext]_tagVars => TagsInv'
<1> SUFFICES ASSUME TagsInv, [TagsNext]_tagVars PROVE TagsInv'
  OBVIOUS
<1>1. CASE UNCHANGED tagVars
  BY <1>1 DEF tagVars, TagsInv, InStep, AtRest, Tracks, Extends, ChunksDoNotMatter
<1>2. CASE TagsNext
  <2>1. ~ended
    BY <1>2 DEF TagsNext
  <2>2. CASE \E n \in 1 .. MaxInput - Len(input) : \E content \in [1 .. n -> Characters] : Feed(content)
    BY <2>1, <2>2, FeedInv
  <2>3. CASE FlushTags
    BY <2>1, <2>3, FlushInv
  <2> QED
    BY <1>2, <2>2, <2>3 DEF TagsNext
<1> QED
  BY <1>1, <1>2

\* which says what has been given, whenever the stream should end.
LEMMA TagsInvIsWhole == TagsInv => ChunksDoNotMatter
BY RestIsWhole DEF TagsInv, ChunksDoNotMatter

\* However the content of a provider is cut into chunks, the parser gives the text and the
\* thinking that the whole content has, for content of any length.
THEOREM ChunksNeverMatter == TagsSpec => []ChunksDoNotMatter
<1>1. TagsInit => TagsInv
  BY TagsInitInv
<1>2. TagsInv /\ [TagsNext]_tagVars => TagsInv'
  BY TagsNextInv
<1>3. TagsInv => ChunksDoNotMatter
  BY TagsInvIsWhole
<1> QED
  BY <1>1, <1>2, <1>3, PTL DEF TagsSpec

=============================================================================
