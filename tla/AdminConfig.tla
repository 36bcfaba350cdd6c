------------------------------- MODULE AdminConfig -------------------------------
(* The administration of a running proxy: updates of the managed settings file that *)
(* are applied by publishing a generation of providers or by a restart, the catalog *)
(* of models that outlives generations, and who writes it: the discovery of a       *)
(* generation, and the tests of a provider.                                         *)
(*                                                                                  *)
(* Settings are the providers that are configured and a port, which stands for all  *)
(* that needs a restart. Of the catalog only the providers it has are kept; cleanup, *)
(* leases and shutdown of generations are those of ProviderGenerations.             *)
EXTENDS Naturals, Sequences

CONSTANTS
  Providers,
  Unlisted,                 \* local providers no model refers to, which discovery leaves out
  Testers,                  \* the requests that test a provider
  LastPublished             \* bound: the generations of one process

ASSUME AdminAssumption == Unlisted \subseteq Providers

VARIABLES
  file,                     \* the settings in the managed file
  published,                \* the settings of each generation: the first has those the process
                            \* has started with, the last serves
  supervised,               \* whether the process can be told to restart
  restarting,               \* a restart is on its way
  reported,                 \* _pending_fields is not empty
  applying,                 \* the update that holds the config lock, and where it is
  discovery,                \* the discovery in flight
  catalog,                  \* ProviderModelCache: the providers it has models of
  testing,                  \* testing[t]: where a test is
  halfDone,                 \* history: an update failed after the file was replaced
  forgotten                 \* history: the report of a change that needs a restart was
                            \* cleared by the answer to an update that needs none

adminVars ==
  <<file, published, supervised, restarting, reported, applying, discovery, catalog,
    testing, halfDone, forgotten>>

Settings == [providers : SUBSET Providers, port : {1, 2}]

Serving == Len(published)

\* model_cache_provider_ids_for_settings
Available == published[Serving].providers

\* What needs a restart is run as the process has read it at its start, whatever
\* generations were published since.
IsRun(port) == port = published[1].port

NotApplying == [step |-> "idle"]

NoDiscovery == [kind |-> "none"]

NoTest == [step |-> "idle"]

-----------------------------------------------------------------------------------
(* The catalog *)

\* Mutant of Cached: what is not available is not refused.
CachedAnyway(ps) == catalog \cup ps

Cached(ps) == catalog \cup (ps \cap Available)

Pruned(settings) == catalog \cap settings.providers

\* A discovery asks every provider it lists at once ...
Listed(g) == published'[g].providers \ Unlisted

Begin(kind, g) == discovery' = [kind |-> kind, gen |-> g, asked |-> Listed(g)]

\* ... but the first of a process, when it gets its turn, those that are not cached yet.
DiscoveryBegins ==
  /\ discovery.kind = "new"
  /\ discovery' = [discovery EXCEPT !.kind = "missing", !.asked = @ \ catalog]
  /\ UNCHANGED <<file, published, supervised, restarting, reported, applying, catalog,
                 testing, halfDone, forgotten>>

\* Those that answered are cached when all have answered or failed.
DiscoveryEnds ==
  /\ discovery.kind \notin {"none", "new"}
  /\ \E ps \in SUBSET discovery.asked : catalog' = Cached(ps)
  /\ discovery' = NoDiscovery
  /\ UNCHANGED <<file, published, supervised, restarting, reported, applying, testing,
                 halfDone, forgotten>>

\* An explicit refresh holds the replace lock, and takes the place of the one in the
\* background; its caller may go away.
RefreshModels ==
  /\ discovery.kind # "explicit"
  /\ applying.step \in {"idle", "waiting"}
  /\ UNCHANGED <<file, published, supervised, restarting, reported, applying, catalog,
                 testing, halfDone, forgotten>>
  /\ Begin("explicit", Serving)

RefreshLeaves ==
  /\ discovery.kind = "explicit"
  /\ discovery' = NoDiscovery
  /\ UNCHANGED <<file, published, supervised, restarting, reported, applying, catalog,
                 testing, halfDone, forgotten>>

-----------------------------------------------------------------------------------
(* Tests of a provider *)

TestBegins(t, p) ==
  /\ testing[t] = NoTest
  /\ p \in Available
  /\ testing' = [testing EXCEPT ![t] = [step |-> "asking", provider |-> p]]
  /\ UNCHANGED <<file, published, supervised, restarting, reported, applying, discovery,
                 catalog, halfDone, forgotten>>

\* The answer is kept while the lease is returned, which may close the generation.
TestCaches(t) ==
  /\ testing[t].step = "asking"
  /\ catalog' = Cached({testing[t].provider})
  /\ testing' = [testing EXCEPT ![t] = NoTest]
  /\ UNCHANGED <<file, published, supervised, restarting, reported, applying, discovery,
                 halfDone, forgotten>>

\* The provider fails, or the caller goes away.
TestFails(t) ==
  /\ testing[t] # NoTest
  /\ testing' = [testing EXCEPT ![t] = NoTest]
  /\ UNCHANGED <<file, published, supervised, restarting, reported, applying, discovery,
                 catalog, halfDone, forgotten>>

-----------------------------------------------------------------------------------
(* Updates *)

\* Mutant of NeedsRestart: an update that changes providers too is published.
NeedsOnlyRestart(target) == target.port # file.port /\ target.providers = file.providers

\* The change is to something the file had otherwise: what the process runs with is
\* not asked.
NeedsRestart(target) == target.port # file.port

\* The file is replaced and then protected: an error is of before or of after.
UpdateFails(target) ==
  /\ \/ UNCHANGED <<file, halfDone>>
     \/ file' = target /\ halfDone' = TRUE
  /\ applying' = NotApplying

\* A change that needs a restart is only written.
ApplyByRestart(target) ==
  /\ applying = NotApplying /\ NeedsRestart(target)
  /\ \/ /\ file' = target
        /\ restarting' = supervised
        /\ reported' = ~supervised
        /\ forgotten' = FALSE
        /\ UNCHANGED <<applying, halfDone>>
     \/ UpdateFails(target) /\ UNCHANGED <<restarting, reported, forgotten>>
  /\ UNCHANGED <<published, supervised, discovery, catalog, testing>>

\* Any other is for a new generation, which waits for the replace lock ...
ApplyByReplacing(target) ==
  /\ applying = NotApplying /\ ~NeedsRestart(target)
  /\ Serving < LastPublished
  /\ applying' = [step |-> "waiting", target |-> target]
  /\ UNCHANGED <<file, published, supervised, restarting, reported, discovery, catalog,
                 testing, halfDone, forgotten>>

\* ... has the discovery of the old one cancelled, and what is left of failed ones closed ...
UpdateBegins ==
  /\ applying.step = "waiting"
  /\ discovery.kind # "explicit"
  /\ applying' = [applying EXCEPT !.step = "preparing"]
  /\ discovery' = NoDiscovery
  /\ UNCHANGED <<file, published, supervised, restarting, reported, catalog, testing,
                 halfDone, forgotten>>

\* ... and is published with its file written, or not at all.
PublishUpdate ==
  /\ applying.step = "preparing"
  /\ file' = applying.target
  /\ published' = Append(published, applying.target)
  /\ catalog' = Pruned(applying.target)
  /\ Begin("full", Serving + 1)
  /\ applying' = [step |-> "closing"]
  /\ halfDone' = (halfDone /\ ~IsRun(applying.target.port))
  /\ UNCHANGED <<supervised, restarting, reported, testing, forgotten>>

UpdateUnpublished ==
  /\ applying.step = "preparing"
  /\ UpdateFails(applying.target)
  /\ UNCHANGED <<published, supervised, restarting, reported, discovery, catalog, testing,
                 forgotten>>

\* The old generation is closed, if nobody uses it, before the update is answered. The
\* report is cleared even when what it is about still waits for a restart.
ApplyEnds ==
  /\ applying.step = "closing"
  /\ applying' = NotApplying
  /\ reported' = FALSE
  /\ forgotten' = (forgotten \/ (reported /\ ~IsRun(file.port)))
  /\ UNCHANGED <<file, published, supervised, restarting, discovery, catalog, testing, halfDone>>

\* The request goes away while it waits.
ApplyLeaves ==
  /\ applying # NotApplying
  /\ applying' = NotApplying
  /\ UNCHANGED <<file, published, supervised, restarting, reported, discovery, catalog,
                 testing, halfDone, forgotten>>

-----------------------------------------------------------------------------------
(* The process *)

StartedWith(settings) ==
  /\ published' = <<settings>>
  /\ restarting' = FALSE
  /\ reported' = FALSE
  /\ applying' = NotApplying
  /\ Begin("new", 1)
  /\ testing' = [t \in Testers |-> NoTest]
  /\ halfDone' = FALSE /\ forgotten' = FALSE

\* The models that are referred to are asked for before the server serves.
Warmed(settings) == SUBSET (settings.providers \ Unlisted)

AdminInit ==
  /\ file \in {s \in Settings : s.port = 1}
  /\ published = <<file>>
  /\ supervised \in BOOLEAN
  /\ restarting = FALSE /\ reported = FALSE
  /\ applying = NotApplying
  /\ discovery = [kind |-> "new", gen |-> 1, asked |-> file.providers \ Unlisted]
  /\ catalog \in Warmed(file)
  /\ testing = [t \in Testers |-> NoTest]
  /\ halfDone = FALSE /\ forgotten = FALSE

\* By its supervisor, or by hand.
Restart ==
  /\ StartedWith(file)
  /\ catalog' \in Warmed(file)
  /\ UNCHANGED <<file, supervised>>

AdminNext ==
  \/ DiscoveryBegins \/ DiscoveryEnds \/ RefreshModels \/ RefreshLeaves
  \/ \E t \in Testers : TestCaches(t) \/ TestFails(t)
  \/ \E t \in Testers, p \in Providers : TestBegins(t, p)
  \/ \E target \in Settings : ApplyByRestart(target) \/ ApplyByReplacing(target)
  \/ UpdateBegins \/ PublishUpdate \/ UpdateUnpublished \/ ApplyEnds \/ ApplyLeaves
  \/ Restart

AdminSpec == AdminInit /\ [][AdminNext]_adminVars

-----------------------------------------------------------------------------------
(* Properties *)

\* What the file has is in use, the providers by the generation that serves and the port
\* by the process, or it is on its way, reported to the administrator, or the rest of an
\* update that was answered with an error. Only of the port may it also be that its
\* report was forgotten.
FileIsInUse ==
  \/ restarting \/ reported \/ halfDone
  \/ file.providers = Available /\ (IsRun(file.port) \/ forgotten)

\* Whoever writes the catalog, and however late, it holds no provider the serving
\* settings do not have; and no discovery is in flight for another generation.
CatalogInScope ==
  /\ catalog \subseteq Available
  /\ discovery.kind # "none" => discovery.gen = Serving

\* What the administrator sees is so: the file is in use, or is known not to be, and
\* the catalog is of the providers that serve.
AdminSeesTruth == FileIsInUse /\ CatalogInScope

\* ARCHITECTURE.md: changes that need a restart do not publish a generation first.
RestartPrecedesPublication == published[Serving].port = published[1].port
=============================================================================
