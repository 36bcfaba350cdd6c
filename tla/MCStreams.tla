-------------------------------- MODULE MCStreams --------------------------------
(* One request to a provider: the admission of its attempts, the rotation of the    *)
(* keys they use, the tags in the content it sends, the stream one attempt gives,   *)
(* and the Responses stream made of it. Five independent models in one run, of      *)
(* which the initial state chooses the one that moves; only safety is checked.      *)
EXTENDS StreamAdmission, StreamRecovery, KeyPool, ThinkTags, ResponsesAssembly

CONSTANTS TaskTool, PlainTool

VARIABLE focus

upstreamVars == <<allVars, recoveryVars, poolVars, tagVars, assemblyVars, focus>>

Symmetry == Permutations(Sessions) \cup Permutations(Laps)

MCKindOf == [t \in Tools |-> CASE t = TaskTool -> "task"
                               [] t = PlainTool -> "plain"
                               [] OTHER -> "aliased"]

MCInit ==
  /\ focus \in {"admission", "stream", "keys", "tags", "responses"}
  /\ StreamInit /\ RecoveryInit /\ PoolInit /\ TagsInit /\ AssemblyInit

MCNext ==
  /\ UNCHANGED focus
  /\ \/ focus = "admission" /\ StreamNext /\ UNCHANGED <<recoveryVars, poolVars, tagVars, assemblyVars>>
     \/ focus = "stream" /\ RecoveryNext /\ UNCHANGED <<allVars, poolVars, tagVars, assemblyVars>>
     \/ focus = "keys" /\ PoolNext /\ UNCHANGED <<allVars, recoveryVars, tagVars, assemblyVars>>
     \/ focus = "tags" /\ TagsNext /\ UNCHANGED <<allVars, recoveryVars, poolVars, assemblyVars>>
     \/ focus = "responses" /\ AssemblyNext /\ UNCHANGED <<allVars, recoveryVars, poolVars, tagVars>>

MCSpec == MCInit /\ [][MCNext]_upstreamVars
=============================================================================
