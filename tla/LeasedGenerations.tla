---------------------------- MODULE LeasedGenerations ----------------------------
(* What the provider manager promises about its generations, without saying      *)
(* how: one generation serves at a time, leases are granted on the serving       *)
(* generation only, and a generation is closed once, after it was retired and     *)
(* its last lease came back.                                                      *)
EXTENDS Naturals

CONSTANT LastGeneration     \* how many generations are ever published

VARIABLES
  phase,                    \* phase[g]: where generation g is in its life
  held                      \* held[g]: how many leases on g are out

absVars == <<phase, held>>

Ids == 1 .. LastGeneration
Phases == {"absent", "serving", "retired", "closed"}

AbsInit ==
  /\ phase = [g \in Ids |-> IF g = 1 THEN "serving" ELSE "absent"]
  /\ held = [g \in Ids |-> 0]

\* A lease is granted on the serving generation.
Grant(g) ==
  /\ phase[g] = "serving"
  /\ held' = [held EXCEPT ![g] = @ + 1]
  /\ UNCHANGED phase

\* A lease comes back; the generation may be serving or retired by then.
Return(g) ==
  /\ held[g] > 0
  /\ held' = [held EXCEPT ![g] = @ - 1]
  /\ UNCHANGED phase

\* The next generation takes over from the serving one in a single step.
TakeOver(g) ==
  /\ phase[g] = "serving"
  /\ g + 1 \in Ids
  /\ phase' = [phase EXCEPT ![g] = "retired", ![g + 1] = "serving"]
  /\ UNCHANGED held

\* Shutdown retires the serving generation without a successor.
Retire(g) ==
  /\ phase[g] = "serving"
  /\ phase' = [phase EXCEPT ![g] = "retired"]
  /\ UNCHANGED held

\* A generation nobody holds is closed, for ever.
Close(g) ==
  /\ phase[g] = "retired"
  /\ held[g] = 0
  /\ phase' = [phase EXCEPT ![g] = "closed"]
  /\ UNCHANGED held

AbsNext == \E g \in Ids : Grant(g) \/ Return(g) \/ TakeOver(g) \/ Retire(g) \/ Close(g)

AbsSpec == AbsInit /\ [][AbsNext]_absVars

=============================================================================
