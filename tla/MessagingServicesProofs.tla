--------------------------- MODULE MessagingServicesProofs ---------------------------
(***************************************************************************)
(* Proofs about the three services that messaging calls, each a            *)
(* specification of its own: VoiceNotes for every set of notes and typed   *)
(* commands, SessionPersistence for every number of changes and faults,    *)
(* and ManagedSessions for every set of runners, of sessions and of ids    *)
(* the CLI may report, and any number of kills that fail.                  *)
(***************************************************************************)
EXTENDS VoiceNotes, SessionPersistence, ManagedSessions, FiniteSetTheorems, TLAPS

--------------------------------------------------------------------------------
(***************************************************************************)
(* Voice notes.                                                            *)
(*                                                                         *)
(* VoiceInv ties the flow of a note to its child and to the registry       *)
(* (Stages), says who may have taken a claim and when (Ownership), and     *)
(* what becomes of a status message that was never bound (Unbound).        *)
(* NoCircle and StatusSettled are inductive relative to these.             *)
(***************************************************************************)

FlowPlaces ==
  {"none", "sending", "binding", "transcribing", "ready", "waiting", "failing", "done"}
ChildPlaces == {"none", "created", "running", "returned", "raised"}
Early == {"none", "sending", "binding", "transcribing", "ready"}

Places ==
  /\ flow \in [Notes -> FlowPlaces] /\ child \in [Notes -> ChildPlaces]
  /\ cancelling \in [Cancellers -> {"idle", "begun", "joining", "ended"}]

Typed ==
  /\ voicePending \subseteq Notes /\ bound \subseteq Notes /\ doomed \subseteq Notes
  /\ quit \subseteq Notes /\ handed \subseteq Notes
  /\ status \in [Notes -> {"none", "shown", "strayed", "deleted", "answered"}]
  /\ joins \in [Cancellers -> SUBSET Notes] /\ owners \in [Notes -> SUBSET Cancellers]
  /\ Places

\* Where the flow is tells whether the child exists and whether the claim is bound.
Stages ==
  \A n \in Notes :
    /\ flow[n] \in Early => child[n] = "none"
    /\ flow[n] \in {"none", "sending", "binding"} => n \notin bound
    /\ flow[n] \in {"failing", "done"} => child[n] \in {"none", "returned", "raised"}
    /\ flow[n] \in {"transcribing", "ready", "waiting"} => n \in bound
    /\ flow[n] = "waiting" => child[n] # "none"
    /\ child[n] # "none" => n \in bound
    /\ child[n] \in {"running", "returned"} => n \in handed
    /\ n \in handed => child[n] # "none"

\* Only the caller of the flow, or another that has taken the claim, cancels a child.
Dooms ==
  \A n \in Notes :
    /\ child[n] = "raised" => n \in handed \/ n \in doomed
    /\ n \in doomed => n \in quit \/ \E k \in Cancellers : k # n /\ owners[n] = {k}

\* A claim on the registry has no owner, and one that has left it has exactly one.
Ownership ==
  \A n \in Notes :
    /\ n \in voicePending => owners[n] = {} /\ flow[n] \notin {"none", "done"}
    /\ flow[n] = "none" => owners[n] = {}
    /\ n \notin voicePending /\ flow[n] # "none" => \E k \in Cancellers : owners[n] = {k}
    /\ owners[n] = {n} => flow[n] \in {"failing", "done"}
    /\ flow[n] = "failing" /\ owners[n] = {n} =>
         n \in handed \/ (n \in quit /\ child[n] = "raised")

\* A command waits for exactly the children of the claims it owns, and has settled
\* their status messages when it ends.
Joined ==
  \A k \in Cancellers, n \in Notes :
    /\ n \in joins[k] => owners[n] = {k} /\ k # n /\ cancelling[k] \in {"joining", "ended"}
    /\ owners[n] = {k} /\ k # n => n \in joins[k]
    /\ cancelling[k] = "ended" /\ n \in joins[k] /\ n \in bound => status[n] # "shown"

\* A status message that was never bound is deleted by the flow that has failed.
Unbound ==
  \A n \in Notes : flow[n] = "done" /\ n \notin bound => status[n] # "shown"

VoiceInv ==
  Typed /\ Stages /\ Dooms /\ Ownership /\ Joined /\ Unbound /\ NoCircle /\ StatusSettled

USE DEF Flows, Keeps, Ended, Early, noteVars, cancelVars

--------------------------------------------------------------------------------
(* A claim that is taken gets its one owner, and the others keep theirs *)

LEMMA TakesGivesOwner ==
  ASSUME VoiceInv, NEW S \in SUBSET voicePending, NEW who \in Cancellers, Takes(S, who)
  PROVE  /\ voicePending' = voicePending \ S
         /\ owners' \in [Notes -> SUBSET Cancellers]
         /\ \A n \in Notes : owners'[n] = IF n \in S THEN {who} ELSE owners[n]
  BY DEF VoiceInv, Typed, Ownership, Takes

LEMMA FlowTakesOwn ==
  ASSUME VoiceInv, NEW c \in Notes, Takes({c} \cap voicePending, c)
  PROVE  /\ voicePending' = voicePending \ {c} /\ owners' \in [Notes -> SUBSET Cancellers]
         /\ \A n \in Notes :
              owners'[n] = IF n \in {c} \cap voicePending THEN {c} ELSE owners[n]
<1> DEFINE S == {c} \cap voicePending
<1>1. S \in SUBSET voicePending /\ c \in Cancellers
  BY DEF Cancellers
<1>2. Takes(S, c)
  OBVIOUS
<1> HIDE DEF S
<1>3. /\ voicePending' = voicePending \ S /\ owners' \in [Notes -> SUBSET Cancellers]
      /\ \A n \in Notes : owners'[n] = IF n \in S THEN {c} ELSE owners[n]
  BY <1>1, <1>2, TakesGivesOwner
<1> QED
  BY <1>3 DEF S

LEMMA OneOwnerEach ==
  ASSUME VoiceInv, NEW n \in Notes
  PROVE  /\ n \in voicePending => \A k \in Cancellers : owners[n] # {k} /\ n \notin joins[k]
         /\ \A j, k \in Cancellers : n \in joins[j] /\ n \in joins[k] => j = k
  BY DEF VoiceInv, Ownership, Joined

--------------------------------------------------------------------------------
(* A circle cannot close when no canceller begins to wait *)

LEMMA NoNewWait ==
  ASSUME VoiceInv, joins' = joins,
         \A n \in Notes : Ended(n) => Ended(n)',
         \A k \in Cancellers : cancelling'[k] = "joining" => cancelling[k] = "joining"
  PROVE  NoCircle'
<1> SUFFICES ASSUME NEW S \in (SUBSET Notes) \ {{}}
             PROVE  \E k \in S : \/ cancelling'[k] # "joining"
                                 \/ \A n \in S : n \notin joins'[k] \/ Ended(n)'
  BY DEF NoCircle
<1>1. PICK k \in S : cancelling[k] # "joining" \/ \A n \in S : n \notin joins[k] \/ Ended(n)
  BY DEF VoiceInv, NoCircle
<1> QED
  BY <1>1 DEF Cancellers

--------------------------------------------------------------------------------
(* The flow of a note *)

LEMMA ReserveStep ==
  ASSUME VoiceInv, NEW c \in Notes, Reserve(c)
  PROVE  VoiceInv'
<1> USE DEF Reserve
<1>0. /\ Typed /\ Stages /\ Dooms /\ Ownership /\ Joined /\ Unbound
      /\ NoCircle /\ StatusSettled
  BY DEF VoiceInv
<1>c. c \in Cancellers
  BY DEF Cancellers
<1>1. Typed'
  BY <1>0, <1>c DEF Typed, Places, FlowPlaces, ChildPlaces
<1>2. Stages'
  BY <1>0, <1>c DEF Typed, Places, Stages, Ownership
<1>3. Dooms'
  BY <1>0, <1>c DEF Typed, Places, Stages, Dooms, Ownership
<1>4. Ownership'
  BY <1>0, <1>c DEF Typed, Places, Stages, Dooms, Ownership, Joined
<1>5. Joined'
  BY <1>0, <1>c DEF Typed, Places, Stages, Ownership, Joined
<1>6. Unbound'
  BY <1>0, <1>c DEF Typed, Places, Stages, Unbound
<1>7. NoCircle'
  BY NoNewWait, <1>0 DEF Typed, Places, Stages
<1>8. StatusSettled'
  BY <1>0, <1>c
     DEF Typed, Places, Stages, Dooms, Ownership, Joined, Unbound, StatusSettled
<1> QED
  BY <1>1, <1>2, <1>3, <1>4, <1>5, <1>6, <1>7, <1>8 DEF VoiceInv

LEMMA StatusSentStep ==
  ASSUME VoiceInv, NEW c \in Notes, StatusSent(c)
  PROVE  VoiceInv'
<1> USE DEF StatusSent
<1>0. /\ Typed /\ Stages /\ Dooms /\ Ownership /\ Joined /\ Unbound
      /\ NoCircle /\ StatusSettled
  BY DEF VoiceInv
<1>c. c \in Cancellers
  BY DEF Cancellers
<1>1. Typed'
  BY <1>0, <1>c DEF Typed, Places, FlowPlaces, ChildPlaces
<1>2. Stages'
  BY <1>0, <1>c DEF Typed, Places, Stages, Ownership
<1>3. Dooms'
  BY <1>0, <1>c DEF Typed, Places, Stages, Dooms, Ownership
<1>4. Ownership'
  BY <1>0, <1>c DEF Typed, Places, Stages, Dooms, Ownership, Joined
<1>5. Joined'
  BY <1>0, <1>c DEF Typed, Places, Stages, Ownership, Joined
<1>6. Unbound'
  BY <1>0, <1>c DEF Typed, Places, Stages, Unbound
<1>7. NoCircle'
  BY NoNewWait, <1>0 DEF Typed, Places, Stages
<1>8. StatusSettled'
  BY <1>0, <1>c
     DEF Typed, Places, Stages, Dooms, Ownership, Joined, Unbound, StatusSettled
<1> QED
  BY <1>1, <1>2, <1>3, <1>4, <1>5, <1>6, <1>7, <1>8 DEF VoiceInv

LEMMA BindStatusStep ==
  ASSUME VoiceInv, NEW c \in Notes, BindStatus(c)
  PROVE  VoiceInv'
<1> USE DEF BindStatus
<1>0. /\ Typed /\ Stages /\ Dooms /\ Ownership /\ Joined /\ Unbound
      /\ NoCircle /\ StatusSettled
  BY DEF VoiceInv
<1>c. c \in Cancellers
  BY DEF Cancellers
<1>1. Typed'
  BY <1>0, <1>c, OneOwnerEach DEF Typed, Places, FlowPlaces, ChildPlaces
<1>2. Stages'
  BY <1>0, <1>c, OneOwnerEach DEF Typed, Places, Stages, Ownership
<1>3. Dooms'
  BY <1>0, <1>c, OneOwnerEach DEF Typed, Places, Stages, Dooms, Ownership
<1>4. Ownership'
  BY <1>0, <1>c, OneOwnerEach DEF Typed, Places, Stages, Dooms, Ownership, Joined
<1>5. Joined'
  BY <1>0, <1>c, OneOwnerEach DEF Typed, Places, Stages, Ownership, Joined
<1>6. Unbound'
  BY <1>0, <1>c, OneOwnerEach DEF Typed, Places, Stages, Unbound
<1>7. NoCircle'
  BY NoNewWait, <1>0, OneOwnerEach DEF Typed, Places, Stages
<1>8. StatusSettled'
  BY <1>0, <1>c, OneOwnerEach
     DEF Typed, Places, Stages, Dooms, Ownership, Joined, Unbound, StatusSettled
<1> QED
  BY <1>1, <1>2, <1>3, <1>4, <1>5, <1>6, <1>7, <1>8 DEF VoiceInv

LEMMA TranscribedStep ==
  ASSUME VoiceInv, NEW c \in Notes, Transcribed(c)
  PROVE  VoiceInv'
<1> USE DEF Transcribed
<1>0. /\ Typed /\ Stages /\ Dooms /\ Ownership /\ Joined /\ Unbound
      /\ NoCircle /\ StatusSettled
  BY DEF VoiceInv
<1>c. c \in Cancellers
  BY DEF Cancellers
<1>1. Typed'
  BY <1>0, <1>c DEF Typed, Places, FlowPlaces, ChildPlaces
<1>2. Stages'
  BY <1>0, <1>c DEF Typed, Places, Stages, Ownership
<1>3. Dooms'
  BY <1>0, <1>c DEF Typed, Places, Stages, Dooms, Ownership
<1>4. Ownership'
  BY <1>0, <1>c DEF Typed, Places, Stages, Dooms, Ownership, Joined
<1>5. Joined'
  BY <1>0, <1>c DEF Typed, Places, Stages, Ownership, Joined
<1>6. Unbound'
  BY <1>0, <1>c DEF Typed, Places, Stages, Unbound
<1>7. NoCircle'
  BY NoNewWait, <1>0 DEF Typed, Places, Stages
<1>8. StatusSettled'
  BY <1>0, <1>c
     DEF Typed, Places, Stages, Dooms, Ownership, Joined, Unbound, StatusSettled
<1> QED
  BY <1>1, <1>2, <1>3, <1>4, <1>5, <1>6, <1>7, <1>8 DEF VoiceInv

LEMMA HandOffStep ==
  ASSUME VoiceInv, NEW c \in Notes, HandOff(c)
  PROVE  VoiceInv'
<1> USE DEF HandOff
<1>0. /\ Typed /\ Stages /\ Dooms /\ Ownership /\ Joined /\ Unbound
      /\ NoCircle /\ StatusSettled
  BY DEF VoiceInv
<1>c. c \in Cancellers
  BY DEF Cancellers
<1>1. Typed'
  BY <1>0, <1>c DEF Typed, Places, FlowPlaces, ChildPlaces
<1>2. Stages'
  BY <1>0, <1>c DEF Typed, Places, Stages, Ownership
<1>3. Dooms'
  BY <1>0, <1>c DEF Typed, Places, Stages, Dooms, Ownership
<1>4. Ownership'
  BY <1>0, <1>c DEF Typed, Places, Stages, Dooms, Ownership, Joined
<1>5. Joined'
  BY <1>0, <1>c DEF Typed, Places, Stages, Ownership, Joined
<1>6. Unbound'
  BY <1>0, <1>c DEF Typed, Places, Stages, Unbound
<1>7. NoCircle'
  BY NoNewWait, <1>0 DEF Typed, Places, Stages
<1>8. StatusSettled'
  BY <1>0, <1>c
     DEF Typed, Places, Stages, Dooms, Ownership, Joined, Unbound, StatusSettled
<1> QED
  BY <1>1, <1>2, <1>3, <1>4, <1>5, <1>6, <1>7, <1>8 DEF VoiceInv

LEMMA HandOffEndsStep ==
  ASSUME VoiceInv, NEW c \in Notes, HandOffEnds(c)
  PROVE  VoiceInv'
<1>0. /\ Typed /\ Stages /\ Dooms /\ Ownership /\ Joined /\ Unbound
      /\ NoCircle /\ StatusSettled
  BY DEF VoiceInv
<1>c. c \in Cancellers
  BY DEF Cancellers
<1>s. Takes({c} \cap voicePending, c)
  BY DEF HandOffEnds
<1>t. /\ voicePending' = voicePending \ {c} /\ owners' \in [Notes -> SUBSET Cancellers]
      /\ \A n \in Notes :
           owners'[n] = IF n \in {c} \cap voicePending THEN {c} ELSE owners[n]
  BY FlowTakesOwn, <1>s
<1> USE DEF HandOffEnds
<1>1. Typed'
  BY <1>0, <1>c, <1>t, OneOwnerEach DEF Typed, Places, FlowPlaces, ChildPlaces
<1>2. Stages'
  BY <1>0, <1>c, <1>t, OneOwnerEach DEF Typed, Places, Stages, Ownership
<1>3. Dooms'
  BY <1>0, <1>c, <1>t, OneOwnerEach DEF Typed, Places, Stages, Dooms, Ownership
<1>4. Ownership'
  BY <1>0, <1>c, <1>t, OneOwnerEach DEF Typed, Places, Stages, Dooms, Ownership, Joined
<1>5. Joined'
  <2> SUFFICES ASSUME NEW k \in Cancellers, NEW n \in Notes
               PROVE  /\ n \in joins[k] => /\ owners'[n] = {k} /\ k # n
                                           /\ cancelling[k] \in {"joining", "ended"}
                      /\ owners'[n] = {k} /\ k # n => n \in joins[k]
                      /\ cancelling[k] = "ended" /\ n \in joins[k] /\ n \in bound =>
                           status'[n] # "shown"
    BY DEF Joined
  <2>1. CASE n \in {c} \cap voicePending
    BY <2>1, <1>t, OneOwnerEach
  <2>2. CASE n \notin {c} \cap voicePending
    <3>1. owners'[n] = owners[n] /\ (status'[n] = "shown" => status[n] = "shown")
      BY <2>2, <1>t, <1>0 DEF Typed
    <3> QED
      BY <3>1, <1>0 DEF Joined
  <2> QED
    BY <2>1, <2>2
<1>6. Unbound'
  BY <1>0, <1>c, <1>t, OneOwnerEach DEF Typed, Places, Stages, Unbound
<1>7. NoCircle'
  BY NoNewWait, <1>0, <1>t, OneOwnerEach DEF Typed, Places, Stages
<1>8. StatusSettled'
  BY <1>0, <1>c, <1>t, OneOwnerEach
     DEF Typed, Places, Stages, Dooms, Ownership, Joined, Unbound, StatusSettled
<1> QED
  BY <1>1, <1>2, <1>3, <1>4, <1>5, <1>6, <1>7, <1>8 DEF VoiceInv

LEMMA CleanUpStep ==
  ASSUME VoiceInv, NEW c \in Notes, CleanUp(c)
  PROVE  VoiceInv'
<1>0. /\ Typed /\ Stages /\ Dooms /\ Ownership /\ Joined /\ Unbound
      /\ NoCircle /\ StatusSettled
  BY DEF VoiceInv
<1>c. c \in Cancellers
  BY DEF Cancellers
<1>s. Takes({c} \cap voicePending, c)
  BY DEF CleanUp
<1>t. /\ voicePending' = voicePending \ {c} /\ owners' \in [Notes -> SUBSET Cancellers]
      /\ \A n \in Notes :
           owners'[n] = IF n \in {c} \cap voicePending THEN {c} ELSE owners[n]
  BY FlowTakesOwn, <1>s
<1> USE DEF CleanUp
<1>1. Typed'
  BY <1>0, <1>c, <1>t, OneOwnerEach DEF Typed, Places, FlowPlaces, ChildPlaces
<1>2. Stages'
  BY <1>0, <1>c, <1>t, OneOwnerEach DEF Typed, Places, Stages, Ownership
<1>3. Dooms'
  BY <1>0, <1>c, <1>t, OneOwnerEach DEF Typed, Places, Stages, Dooms, Ownership
<1>4. Ownership'
  BY <1>0, <1>c, <1>t, OneOwnerEach DEF Typed, Places, Stages, Dooms, Ownership, Joined
<1>5. Joined'
  <2> SUFFICES ASSUME NEW k \in Cancellers, NEW n \in Notes
               PROVE  /\ n \in joins[k] => /\ owners'[n] = {k} /\ k # n
                                           /\ cancelling[k] \in {"joining", "ended"}
                      /\ owners'[n] = {k} /\ k # n => n \in joins[k]
                      /\ cancelling[k] = "ended" /\ n \in joins[k] /\ n \in bound =>
                           status'[n] # "shown"
    BY DEF Joined
  <2>1. CASE n \in {c} \cap voicePending
    BY <2>1, <1>t, OneOwnerEach
  <2>2. CASE n \notin {c} \cap voicePending
    <3>1. owners'[n] = owners[n] /\ (status'[n] = "shown" => status[n] = "shown")
      BY <2>2, <1>t, <1>0 DEF Typed
    <3> QED
      BY <3>1, <1>0 DEF Joined
  <2> QED
    BY <2>1, <2>2
<1>6. Unbound'
  BY <1>0, <1>c, <1>t, OneOwnerEach DEF Typed, Places, Stages, Unbound
<1>7. NoCircle'
  BY NoNewWait, <1>0, <1>t, OneOwnerEach DEF Typed, Places, Stages
<1>8. StatusSettled'
  BY <1>0, <1>c, <1>t, OneOwnerEach
     DEF Typed, Places, Stages, Dooms, Ownership, Joined, Unbound, StatusSettled
<1> QED
  BY <1>1, <1>2, <1>3, <1>4, <1>5, <1>6, <1>7, <1>8 DEF VoiceInv

LEMMA FlowCancelledStep ==
  ASSUME VoiceInv, NEW c \in Notes, FlowCancelled(c)
  PROVE  VoiceInv'
<1> USE DEF FlowCancelled
<1>0. /\ Typed /\ Stages /\ Dooms /\ Ownership /\ Joined /\ Unbound
      /\ NoCircle /\ StatusSettled
  BY DEF VoiceInv
<1>c. c \in Cancellers
  BY DEF Cancellers
<1>1. Typed'
  BY <1>0, <1>c DEF Typed, Places, FlowPlaces, ChildPlaces
<1>2. Stages'
  BY <1>0, <1>c DEF Typed, Places, Stages, Ownership
<1>3. Dooms'
  BY <1>0, <1>c DEF Typed, Places, Stages, Dooms, Ownership
<1>4. Ownership'
  BY <1>0, <1>c DEF Typed, Places, Stages, Dooms, Ownership, Joined
<1>5. Joined'
  BY <1>0, <1>c DEF Typed, Places, Stages, Ownership, Joined
<1>6. Unbound'
  BY <1>0, <1>c DEF Typed, Places, Stages, Unbound
<1>7. NoCircle'
  BY NoNewWait, <1>0 DEF Typed, Places, Stages
<1>8. StatusSettled'
  BY <1>0, <1>c
     DEF Typed, Places, Stages, Dooms, Ownership, Joined, Unbound, StatusSettled
<1> QED
  BY <1>1, <1>2, <1>3, <1>4, <1>5, <1>6, <1>7, <1>8 DEF VoiceInv

--------------------------------------------------------------------------------
(* The child and the cancellers *)

LEMMA ChildStartsStep ==
  ASSUME VoiceInv, NEW c \in Notes, ChildStarts(c)
  PROVE  VoiceInv'
<1> USE DEF ChildStarts
<1>0. /\ Typed /\ Stages /\ Dooms /\ Ownership /\ Joined /\ Unbound
      /\ NoCircle /\ StatusSettled
  BY DEF VoiceInv
<1>c. c \in Cancellers
  BY DEF Cancellers
<1>1. Typed'
  BY <1>0, <1>c DEF Typed, Places, FlowPlaces, ChildPlaces
<1>2. Stages'
  BY <1>0, <1>c DEF Typed, Places, Stages, Ownership
<1>3. Dooms'
  BY <1>0, <1>c DEF Typed, Places, Stages, Dooms, Ownership
<1>4. Ownership'
  BY <1>0, <1>c DEF Typed, Places, Stages, Dooms, Ownership, Joined
<1>5. Joined'
  BY <1>0, <1>c DEF Typed, Places, Stages, Ownership, Joined
<1>6. Unbound'
  BY <1>0, <1>c DEF Typed, Places, Stages, Unbound
<1>7. NoCircle'
  BY NoNewWait, <1>0 DEF Typed, Places, Stages
<1>8. StatusSettled'
  BY <1>0, <1>c
     DEF Typed, Places, Stages, Dooms, Ownership, Joined, Unbound, StatusSettled
<1> QED
  BY <1>1, <1>2, <1>3, <1>4, <1>5, <1>6, <1>7, <1>8 DEF VoiceInv

LEMMA ChildEndsStep ==
  ASSUME VoiceInv, NEW c \in Notes, ChildEnds(c)
  PROVE  VoiceInv'
<1> USE DEF ChildEnds
<1>0. /\ Typed /\ Stages /\ Dooms /\ Ownership /\ Joined /\ Unbound
      /\ NoCircle /\ StatusSettled
  BY DEF VoiceInv
<1>c. c \in Cancellers
  BY DEF Cancellers
<1>1. Typed'
  BY <1>0, <1>c DEF Typed, Places, FlowPlaces, ChildPlaces
<1>2. Stages'
  BY <1>0, <1>c DEF Typed, Places, Stages, Ownership
<1>3. Dooms'
  BY <1>0, <1>c DEF Typed, Places, Stages, Dooms, Ownership
<1>4. Ownership'
  BY <1>0, <1>c DEF Typed, Places, Stages, Dooms, Ownership, Joined
<1>5. Joined'
  BY <1>0, <1>c DEF Typed, Places, Stages, Ownership, Joined
<1>6. Unbound'
  BY <1>0, <1>c DEF Typed, Places, Stages, Unbound
<1>7. NoCircle'
  BY NoNewWait, <1>0 DEF Typed, Places, Stages
<1>8. StatusSettled'
  BY <1>0, <1>c
     DEF Typed, Places, Stages, Dooms, Ownership, Joined, Unbound, StatusSettled
<1> QED
  BY <1>1, <1>2, <1>3, <1>4, <1>5, <1>6, <1>7, <1>8 DEF VoiceInv

LEMMA CancelBeginsStep ==
  ASSUME VoiceInv, NEW c \in Cancellers, CancelBegins(c)
  PROVE  VoiceInv'
<1> USE DEF CancelBegins
<1>0. /\ Typed /\ Stages /\ Dooms /\ Ownership /\ Joined /\ Unbound
      /\ NoCircle /\ StatusSettled
  BY DEF VoiceInv
<1>c. c \in Cancellers
  BY DEF Cancellers
<1>1. Typed'
  BY <1>0, <1>c DEF Typed, Places, FlowPlaces, ChildPlaces
<1>2. Stages'
  BY <1>0, <1>c DEF Typed, Places, Stages, Ownership
<1>3. Dooms'
  BY <1>0, <1>c DEF Typed, Places, Stages, Dooms, Ownership
<1>4. Ownership'
  BY <1>0, <1>c DEF Typed, Places, Stages, Dooms, Ownership, Joined
<1>5. Joined'
  BY <1>0, <1>c DEF Typed, Places, Stages, Ownership, Joined
<1>6. Unbound'
  BY <1>0, <1>c DEF Typed, Places, Stages, Unbound
<1>7. NoCircle'
  BY NoNewWait, <1>0 DEF Typed, Places, Stages
<1>8. StatusSettled'
  BY <1>0, <1>c
     DEF Typed, Places, Stages, Dooms, Ownership, Joined, Unbound, StatusSettled
<1> QED
  BY <1>1, <1>2, <1>3, <1>4, <1>5, <1>6, <1>7, <1>8 DEF VoiceInv

LEMMA CancelTakesStep ==
  ASSUME VoiceInv, NEW c \in Cancellers, CancelTakes(c)
  PROVE  VoiceInv'
<1>0. /\ Typed /\ Stages /\ Dooms /\ Ownership /\ Joined /\ Unbound
      /\ NoCircle /\ StatusSettled
  BY DEF VoiceInv
<1> PICK S \in SUBSET (voicePending \ Excluded(c)) :
           /\ Takes(S, c) /\ joins' = [joins EXCEPT ![c] = S]
           /\ doomed' = doomed \cup {n \in S : child[n] # "none"}
  BY DEF CancelTakes
<1>1. /\ voicePending' = voicePending \ S /\ owners' \in [Notes -> SUBSET Cancellers]
      /\ \A n \in Notes : owners'[n] = IF n \in S THEN {c} ELSE owners[n]
  BY TakesGivesOwner
<1>2. /\ cancelling[c] = "begun" /\ cancelling' = [cancelling EXCEPT ![c] = "joining"]
      /\ UNCHANGED <<bound, flow, child, quit, handed, status>>
  BY DEF CancelTakes
<1>3. /\ c \notin S /\ S \subseteq voicePending /\ S \subseteq Notes
      /\ \A n \in S : cancelling[n] \notin {"begun", "joining"}
  BY <1>0 DEF Excluded, Protected, Typed
<1>4. Places' /\ Typed'
  BY <1>0, <1>1, <1>2, <1>3 DEF Typed, Places
<1>5. Stages' /\ Unbound'
  BY <1>0, <1>2 DEF Stages, Unbound
<1>6. Dooms'
  <2> SUFFICES ASSUME NEW n \in Notes
               PROVE  /\ child[n] = "raised" => n \in handed \/ n \in doomed'
                      /\ n \in doomed' =>
                           n \in quit \/ \E k \in Cancellers : k # n /\ owners'[n] = {k}
    BY <1>2 DEF Dooms
  <2>1. CASE n \in S
    BY <2>1, <1>0, <1>1, <1>3 DEF Dooms
  <2>2. CASE n \notin S
    BY <2>2, <1>0, <1>1 DEF Dooms
  <2> QED
    BY <2>1, <2>2
<1>7. Ownership'
  <2> SUFFICES ASSUME NEW n \in Notes
               PROVE  /\ n \in voicePending' =>
                           owners'[n] = {} /\ flow[n] \notin {"none", "done"}
                      /\ flow[n] = "none" => owners'[n] = {}
                      /\ n \notin voicePending' /\ flow[n] # "none" =>
                           \E k \in Cancellers : owners'[n] = {k}
                      /\ owners'[n] = {n} => flow[n] \in {"failing", "done"}
                      /\ flow[n] = "failing" /\ owners'[n] = {n} =>
                           n \in handed \/ (n \in quit /\ child[n] = "raised")
    BY <1>2 DEF Ownership
  <2>1. CASE n \in S
    <3>1. owners'[n] = {c} /\ c # n /\ n \notin voicePending' /\ flow[n] # "none"
      BY <2>1, <1>0, <1>1, <1>3 DEF Ownership
    <3> QED
      BY <3>1
  <2>2. CASE n \notin S
    BY <2>2, <1>0, <1>1 DEF Ownership
  <2> QED
    BY <2>1, <2>2
<1>8. Joined'
  <2> SUFFICES ASSUME NEW k \in Cancellers, NEW n \in Notes
               PROVE  /\ n \in joins'[k] => /\ owners'[n] = {k} /\ k # n
                                            /\ cancelling'[k] \in {"joining", "ended"}
                      /\ owners'[n] = {k} /\ k # n => n \in joins'[k]
                      /\ cancelling'[k] = "ended" /\ n \in joins'[k] /\ n \in bound =>
                           status[n] # "shown"
    BY <1>2 DEF Joined
  <2>1. joins[c] \cap Notes = {}
    BY <1>0, <1>2 DEF Joined
  <2>2. CASE k = c
    <3>1. joins'[k] = S /\ cancelling'[k] = "joining"
      BY <2>2, <1>0, <1>2 DEF Typed, Places
    <3>2. owners[n] = {c} /\ c # n => FALSE
      BY <2>1, <1>0 DEF Joined
    <3> QED
      BY <2>2, <3>1, <3>2, <1>1, <1>3
  <2>3. CASE k # c
    <3>1. joins'[k] = joins[k] /\ cancelling'[k] = cancelling[k]
      BY <2>3, <1>0, <1>2 DEF Typed, Places
    <3>2. CASE n \in S
      BY <2>3, <3>1, <3>2, <1>1, <1>3, OneOwnerEach
    <3>3. CASE n \notin S
      BY <3>1, <3>3, <1>0, <1>1 DEF Joined
    <3> QED
      BY <3>2, <3>3
  <2> QED
    BY <2>2, <2>3
<1>9. NoCircle'
  <2> SUFFICES ASSUME NEW T \in (SUBSET Notes) \ {{}}
               PROVE  \E k \in T : \/ cancelling'[k] # "joining"
                                   \/ \A n \in T : n \notin joins'[k] \/ Ended(n)'
    BY DEF NoCircle
  <2>1. \A k \in T : k # c => cancelling'[k] = cancelling[k] /\ joins'[k] = joins[k]
    BY <1>0, <1>2 DEF Typed, Places, Cancellers
  <2>2. PICK k \in T : cancelling[k] # "joining" \/ \A n \in T : n \notin joins[k] \/ Ended(n)
    BY <1>0 DEF NoCircle
  <2>3. CASE c \notin T
    BY <2>1, <2>2, <2>3, <1>2
  <2>4. CASE c \in T /\ T \cap S = {}
    <3>1. joins'[c] = S
      BY <1>0 DEF Typed
    <3> QED
      BY <2>4, <3>1
  <2>5. CASE \E n \in T : n \in S
    BY <2>1, <2>5, <1>3
  <2> QED
    BY <2>3, <2>4, <2>5
<1>10. StatusSettled'
  <2> SUFFICES ASSUME NEW n \in Notes, flow[n] = "done", status[n] = "shown"
               PROVE  \/ n \in handed \/ (n \in quit /\ child[n] = "raised")
                      \/ \E k \in Cancellers : n \in joins'[k] /\ cancelling'[k] = "joining"
    BY <1>2 DEF StatusSettled
  <2>1. ASSUME NEW k \in Cancellers, n \in joins[k], cancelling[k] = "joining"
        PROVE  n \in joins'[k] /\ cancelling'[k] = "joining"
    BY <2>1, <1>0, <1>2 DEF Typed, Places
  <2> QED
    BY <2>1, <1>0 DEF StatusSettled
<1> QED
  BY <1>4, <1>5, <1>6, <1>7, <1>8, <1>9, <1>10 DEF VoiceInv

LEMMA CancelEndsStep ==
  ASSUME VoiceInv, NEW c \in Cancellers, CancelEnds(c)
  PROVE  VoiceInv'
<1> USE DEF CancelEnds
<1>0. /\ Typed /\ Stages /\ Dooms /\ Ownership /\ Joined /\ Unbound
      /\ NoCircle /\ StatusSettled
  BY DEF VoiceInv
<1>c. c \in Cancellers
  BY DEF Cancellers
<1>1. Typed'
  BY <1>0, <1>c DEF Typed, Places, FlowPlaces, ChildPlaces
<1>2. Stages'
  BY <1>0, <1>c DEF Typed, Places, Stages, Ownership
<1>3. Dooms'
  BY <1>0, <1>c DEF Typed, Places, Stages, Dooms, Ownership
<1>4. Ownership'
  BY <1>0, <1>c DEF Typed, Places, Stages, Dooms, Ownership, Joined
<1>5. Joined'
  BY <1>0, <1>c DEF Typed, Places, Stages, Ownership, Joined
<1>6. Unbound'
  BY <1>0, <1>c DEF Typed, Places, Stages, Unbound
<1>7. NoCircle'
  BY NoNewWait, <1>0 DEF Typed, Places, Stages
<1>8. StatusSettled'
  BY <1>0, <1>c
     DEF Typed, Places, Stages, Dooms, Ownership, Joined, Unbound, StatusSettled
<1> QED
  BY <1>1, <1>2, <1>3, <1>4, <1>5, <1>6, <1>7, <1>8 DEF VoiceInv

--------------------------------------------------------------------------------
(* The theorems *)

\* The invariant that the theorems about voice notes rest on.
THEOREM VoiceInductive == VoiceSpec => []VoiceInv
<1>1. VoiceInit => VoiceInv
  BY DEF VoiceInit, VoiceInv, Typed, Places, FlowPlaces, ChildPlaces, Stages, Dooms, Ownership,
         Joined, Unbound, NoCircle, StatusSettled, Cancellers
<1>2. VoiceInv /\ [VoiceNext]_voiceVars => VoiceInv'
  <2> SUFFICES ASSUME VoiceInv, [VoiceNext]_voiceVars
               PROVE  VoiceInv'
    OBVIOUS
  <2>1. CASE VoiceNext
    BY <2>1, ReserveStep, StatusSentStep, BindStatusStep, TranscribedStep, HandOffStep,
       HandOffEndsStep, CleanUpStep, FlowCancelledStep, ChildStartsStep, ChildEndsStep,
       CancelBeginsStep, CancelTakesStep, CancelEndsStep
       DEF VoiceNext, FlowSteps
  <2>2. CASE UNCHANGED voiceVars
    BY <2>2 DEF voiceVars, VoiceInv, Typed, Places, Stages, Dooms, Ownership, Joined, Unbound,
                NoCircle, StatusSettled
  <2> QED
    BY <2>1, <2>2
<1> QED
  BY <1>1, <1>2, PTL DEF VoiceSpec

\* The sets and functions of the registry, the flows and the cancellers keep their types.
THEOREM VoiceTypeCorrect == VoiceSpec => []VoiceTypeOK
<1>1. VoiceInv => VoiceTypeOK
  BY DEF VoiceInv, Typed, VoiceTypeOK
<1> QED
  BY VoiceInductive, <1>1, PTL

\* However stops, clears, failures, cancellations and notes that are commands meet: each
\* claim has one owner in the end, no children wait for each other, and no status message
\* is forgotten.
THEOREM NotesAreOwned == VoiceSpec => []NotesOwned
<1>1. VoiceInv => OneOwner
  <2> SUFFICES ASSUME VoiceInv, NEW n \in Notes
               PROVE  /\ Cardinality(owners[n]) <= 1
                      /\ flow[n] = "done" => owners[n] # {}
    BY DEF OneOwner
  <2>1. owners[n] = {} \/ \E k \in Cancellers : owners[n] = {k}
    BY DEF VoiceInv, Ownership
  <2>2. Cardinality(owners[n]) <= 1
    <3>1. CASE owners[n] = {}
      BY <3>1, FS_EmptySet
    <3>2. ASSUME NEW k \in Cancellers, owners[n] = {k}
          PROVE  Cardinality(owners[n]) = 1
      BY <3>2, FS_Singleton, Zenon
    <3> QED
      BY <2>1, <3>1, <3>2
  <2>3. flow[n] = "done" => owners[n] # {}
    BY DEF VoiceInv, Ownership
  <2> QED
    BY <2>2, <2>3
<1>2. VoiceInv => NotesOwned
  BY <1>1 DEF VoiceInv, NotesOwned
<1> QED
  BY VoiceInductive, <1>2, PTL

HIDE DEF Flows, Keeps, Ended, Early, noteVars, cancelVars

--------------------------------------------------------------------------------
(***************************************************************************)
(* The session store.                                                      *)
(*                                                                         *)
(* The argument of the code is the generation check.  StoreInv states what *)
(* it rests on: memory changes only together with the generation, so that  *)
(* a snapshot whose generation is the present one holds the present state  *)
(* (Snapshots), and a thread that has passed the check keeps the writer's  *)
(* lock, so that nobody can put a newer state into the file before it      *)
(* (Writers), even when the generation has moved on meanwhile.             *)
(***************************************************************************)

Snapshotted == {"waiting", "writing", "cleaning"}

\* The file is behind memory and memory behind nothing.
Order ==
  /\ promised <= disk /\ disk <= memory /\ memory <= newest /\ saveGen <= newest

Snapshots ==
  \A t \in Threads :
    /\ pendGen[t] <= saveGen /\ pendVersion[t] <= memory
    /\ saver[t] \in Snapshotted /\ pendGen[t] = saveGen => pendVersion[t] = memory

Writers ==
  \A t \in Threads :
    /\ saver[t] = "writing" => writerLock = t /\ disk <= pendVersion[t]
    /\ saver[t] = "cleaning" => pendVersion[t] <= disk

Types ==
  /\ newest \in 0 .. MaxVersion /\ memory \in 0 .. MaxVersion /\ disk \in 0 .. MaxVersion
  /\ saveGen \in 0 .. MaxVersion /\ armed \in BOOLEAN /\ dirty \in BOOLEAN
  /\ storeLock \in {Loop, Unheld} /\ writerLock \in Threads \cup {Unheld}
  /\ saver \in [Threads -> {"none", "free", "armed", "claimed", "waiting", "writing",
                            "cleaning", "failing", "gone"}]
  /\ pendGen \in [Threads -> 0 .. MaxVersion]
  /\ pendVersion \in [Threads -> 0 .. MaxVersion]
  /\ promised \in 0 .. MaxVersion /\ mishaps \in 0 .. MaxFaults

StoreInv == Types /\ Order /\ Snapshots /\ Writers

\* What a step does to the file and to what has been promised of it.
KeptFile == disk' >= disk /\ disk' >= promised' /\ memory' >= promised'

USE PersistenceAssumption DEF Loop, Timers, Threads, Unheld, Saves, Rest, Snapshotted

--------------------------------------------------------------------------------
(* The steps *)

LEMMA ChangeStep ==
  ASSUME StoreInv, Change
  PROVE  StoreInv' /\ KeptFile
<1> USE DEF Change
<1>1. Types'
  BY DEF StoreInv, Types, Order
<1>2. Order' /\ KeptFile
  BY DEF StoreInv, Types, Order, Snapshots, Writers, KeptFile
<1>3. Snapshots'
  BY DEF StoreInv, Types, Order, Snapshots
<1>4. Writers'
  BY DEF StoreInv, Types, Order, Snapshots, Writers
<1> QED
  BY <1>1, <1>2, <1>3, <1>4 DEF StoreInv

LEMMA ClearStep ==
  ASSUME StoreInv, Clear
  PROVE  StoreInv' /\ KeptFile
<1> USE DEF Clear
<1>1. Types'
  <2>1. newest' \in 0 .. MaxVersion /\ memory' \in 0 .. MaxVersion /\ saveGen' \in 0 .. MaxVersion
    BY DEF StoreInv, Types, Order
  <2>2. pendGen' \in [Threads -> 0 .. MaxVersion] /\ pendVersion' \in [Threads -> 0 .. MaxVersion]
    BY <2>1 DEF StoreInv, Types
  <2> QED
    BY <2>1, <2>2 DEF StoreInv, Types
<1>2. Order' /\ KeptFile
  BY DEF StoreInv, Types, Order, Snapshots, Writers, KeptFile
<1>3. Snapshots'
  BY DEF StoreInv, Types, Order, Snapshots
<1>4. Writers'
  BY DEF StoreInv, Types, Order, Snapshots, Writers
<1> QED
  BY <1>1, <1>2, <1>3, <1>4 DEF StoreInv

LEMMA FlushStep ==
  ASSUME StoreInv, Flush
  PROVE  StoreInv' /\ KeptFile
<1> USE DEF Flush
<1>1. Types'
  BY DEF StoreInv, Types, Order
<1>2. Order' /\ KeptFile
  BY DEF StoreInv, Types, Order, Snapshots, Writers, KeptFile
<1>3. Snapshots'
  BY DEF StoreInv, Types, Order, Snapshots
<1>4. Writers'
  BY DEF StoreInv, Types, Order, Snapshots, Writers
<1> QED
  BY <1>1, <1>2, <1>3, <1>4 DEF StoreInv

LEMMA CrashStep ==
  ASSUME StoreInv, Crash
  PROVE  StoreInv' /\ KeptFile
<1> USE DEF Crash, Fresh
<1>1. Types'
  <2>1. /\ pendGen' \in [Threads -> 0 .. MaxVersion] /\ pendVersion' \in [Threads -> 0 .. MaxVersion]
        /\ mishaps' \in 0 .. MaxFaults
    BY DEF StoreInv, Types
  <2>2. saver' \in [Threads -> {"none", "free"}]
    OBVIOUS
  <2>3. saver' \in [Threads -> {"none", "free", "armed", "claimed", "waiting", "writing",
                              "cleaning", "failing", "gone"}]
    BY <2>2
  <2> QED
    BY <2>1, <2>3 DEF StoreInv, Types
<1>2. Order' /\ KeptFile
  BY DEF StoreInv, Types, Order, Snapshots, Writers, KeptFile
<1>3. Snapshots'
  BY DEF StoreInv, Types, Order, Snapshots
<1>4. Writers'
  BY DEF StoreInv, Types, Order, Snapshots, Writers
<1> QED
  BY <1>1, <1>2, <1>3, <1>4 DEF StoreInv

LEMMA TimerClaimsStep ==
  ASSUME StoreInv, NEW g \in Timers, TimerClaims(g)
  PROVE  StoreInv' /\ KeptFile
<1> USE DEF TimerClaims
<1>1. Types'
  BY DEF StoreInv, Types, Order
<1>2. Order' /\ KeptFile
  BY DEF StoreInv, Types, Order, Snapshots, Writers, KeptFile
<1>3. Snapshots'
  BY DEF StoreInv, Types, Order, Snapshots
<1>4. Writers'
  BY DEF StoreInv, Types, Order, Snapshots, Writers
<1> QED
  BY <1>1, <1>2, <1>3, <1>4 DEF StoreInv

LEMMA TimerObsoleteStep ==
  ASSUME StoreInv, NEW g \in Timers, TimerObsolete(g)
  PROVE  StoreInv' /\ KeptFile
<1> USE DEF TimerObsolete
<1>1. Types'
  BY DEF StoreInv, Types, Order
<1>2. Order' /\ KeptFile
  BY DEF StoreInv, Types, Order, Snapshots, Writers, KeptFile
<1>3. Snapshots'
  BY DEF StoreInv, Types, Order, Snapshots
<1>4. Writers'
  BY DEF StoreInv, Types, Order, Snapshots, Writers
<1> QED
  BY <1>1, <1>2, <1>3, <1>4 DEF StoreInv

LEMMA SnapshotStep ==
  ASSUME StoreInv, NEW t \in Threads, Snapshot(t)
  PROVE  StoreInv' /\ KeptFile
<1> USE DEF Snapshot
<1>1. Types'
  BY DEF StoreInv, Types, Order
<1>2. Order' /\ KeptFile
  BY DEF StoreInv, Types, Order, Snapshots, Writers, KeptFile
<1>3. Snapshots'
  BY DEF StoreInv, Types, Order, Snapshots
<1>4. Writers'
  BY DEF StoreInv, Types, Order, Snapshots, Writers
<1> QED
  BY <1>1, <1>2, <1>3, <1>4 DEF StoreInv

LEMMA WriteBeginsStep ==
  ASSUME StoreInv, NEW t \in Threads, WriteBegins(t)
  PROVE  StoreInv' /\ KeptFile
<1> USE DEF WriteBegins, Superseded
<1>1. Types'
  BY DEF StoreInv, Types, Order
<1>2. Order' /\ KeptFile
  BY DEF StoreInv, Types, Order, Snapshots, Writers, KeptFile
<1>3. Snapshots'
  BY DEF StoreInv, Types, Order, Snapshots
<1>4. Writers'
  BY DEF StoreInv, Types, Order, Snapshots, Writers
<1> QED
  BY <1>1, <1>2, <1>3, <1>4 DEF StoreInv

LEMMA WriteSupersededStep ==
  ASSUME StoreInv, NEW t \in Threads, WriteSuperseded(t)
  PROVE  StoreInv' /\ KeptFile
<1> USE DEF WriteSuperseded, Superseded, Released
<1>1. Types'
  BY DEF StoreInv, Types, Order
<1>2. Order' /\ KeptFile
  BY DEF StoreInv, Types, Order, Snapshots, Writers, KeptFile
<1>3. Snapshots'
  BY DEF StoreInv, Types, Order, Snapshots
<1>4. Writers'
  BY DEF StoreInv, Types, Order, Snapshots, Writers
<1> QED
  BY <1>1, <1>2, <1>3, <1>4 DEF StoreInv

LEMMA ReplaceStep ==
  ASSUME StoreInv, NEW t \in Threads, Replace(t)
  PROVE  StoreInv' /\ KeptFile
<1> USE DEF Replace, Released
<1>1. Types'
  BY DEF StoreInv, Types, Order
<1>2. Order' /\ KeptFile
  BY DEF StoreInv, Types, Order, Snapshots, Writers, KeptFile
<1>3. Snapshots'
  BY DEF StoreInv, Types, Order, Snapshots
<1>4. Writers'
  BY DEF StoreInv, Types, Order, Snapshots, Writers
<1> QED
  BY <1>1, <1>2, <1>3, <1>4 DEF StoreInv

LEMMA WriteFailsStep ==
  ASSUME StoreInv, NEW t \in Threads, WriteFails(t)
  PROVE  StoreInv' /\ KeptFile
<1> USE DEF WriteFails
<1>1. Types'
  BY DEF StoreInv, Types, Order
<1>2. Order' /\ KeptFile
  BY DEF StoreInv, Types, Order, Snapshots, Writers, KeptFile
<1>3. Snapshots'
  BY DEF StoreInv, Types, Order, Snapshots
<1>4. Writers'
  BY DEF StoreInv, Types, Order, Snapshots, Writers
<1> QED
  BY <1>1, <1>2, <1>3, <1>4 DEF StoreInv

LEMMA MarksCleanStep ==
  ASSUME StoreInv, NEW t \in Threads, MarksClean(t)
  PROVE  StoreInv' /\ KeptFile
<1> USE DEF MarksClean, Released, MayLock
<1>1. Types'
  BY DEF StoreInv, Types, Order
<1>2. Order' /\ KeptFile
  BY DEF StoreInv, Types, Order, Snapshots, Writers, KeptFile
<1>3. Snapshots'
  BY DEF StoreInv, Types, Order, Snapshots
<1>4. Writers'
  BY DEF StoreInv, Types, Order, Snapshots, Writers
<1> QED
  BY <1>1, <1>2, <1>3, <1>4 DEF StoreInv

LEMMA MarksDirtyStep ==
  ASSUME StoreInv, NEW t \in Threads, MarksDirty(t)
  PROVE  StoreInv' /\ KeptFile
<1> USE DEF MarksDirty, Released, MayLock
<1>1. Types'
  BY DEF StoreInv, Types, Order
<1>2. Order' /\ KeptFile
  BY DEF StoreInv, Types, Order, Snapshots, Writers, KeptFile
<1>3. Snapshots'
  BY DEF StoreInv, Types, Order, Snapshots
<1>4. Writers'
  BY DEF StoreInv, Types, Order, Snapshots, Writers
<1> QED
  BY <1>1, <1>2, <1>3, <1>4 DEF StoreInv

LEMMA NextStep ==
  ASSUME StoreInv, StoreNext
  PROVE  StoreInv' /\ KeptFile
  BY ChangeStep, ClearStep, FlushStep, CrashStep, TimerClaimsStep, TimerObsoleteStep,
     SnapshotStep, WriteBeginsStep, WriteSupersededStep, ReplaceStep, WriteFailsStep,
     MarksCleanStep, MarksDirtyStep
     DEF StoreNext, TimerSteps, SaveSteps

--------------------------------------------------------------------------------
(* The theorems *)

\* The invariant that the theorems about the session store rest on.
THEOREM StoreInductive == StoreSpec => []StoreInv
<1>1. StoreInit => StoreInv
  <2> SUFFICES ASSUME StoreInit PROVE StoreInv
    OBVIOUS
  <2> USE DEF StoreInit, Fresh
  <2>1. saver \in [Threads -> {"none", "free", "armed", "claimed", "waiting", "writing",
                              "cleaning", "failing", "gone"}]
    OBVIOUS
  <2>2. /\ pendGen \in [Threads -> 0 .. MaxVersion] /\ pendVersion \in [Threads -> 0 .. MaxVersion]
    OBVIOUS
  <2>3. /\ newest = 0 /\ memory = 0 /\ disk = 0 /\ saveGen = 0 /\ armed = FALSE
        /\ storeLock = Unheld /\ writerLock = Unheld /\ dirty = FALSE /\ promised = 0
        /\ mishaps = 0
        /\ \A t \in Threads : pendGen[t] = 0 /\ pendVersion[t] = 0
        /\ \A t \in Threads : saver[t] \notin Snapshotted
    OBVIOUS
  <2> HIDE DEF StoreInit, Fresh
  <2>4. Types
    <3>1. armed \in BOOLEAN /\ dirty \in BOOLEAN
      BY <2>3, Zenon
    <3>2. /\ newest \in 0 .. MaxVersion /\ memory \in 0 .. MaxVersion /\ disk \in 0 .. MaxVersion
          /\ saveGen \in 0 .. MaxVersion /\ promised \in 0 .. MaxVersion
          /\ mishaps \in 0 .. MaxFaults
      BY <2>3
    <3> QED
      BY <2>1, <2>2, <2>3, <3>1, <3>2 DEF Types
  <2>5. Order /\ Snapshots /\ Writers
    BY <2>3 DEF Order, Snapshots, Writers
  <2> QED
    BY <2>4, <2>5 DEF StoreInv
<1>2. StoreInv /\ UNCHANGED storeVars => StoreInv'
  BY DEF storeVars, StoreInv, Types, Order, Snapshots, Writers
<1>3. StoreInv /\ [StoreNext]_storeVars => StoreInv'
  BY <1>2, NextStep
<1> QED
  BY <1>1, <1>3, PTL DEF StoreSpec

\* The versions, the generations, the locks and the threads keep their types.
THEOREM StoreTypeCorrect == StoreSpec => []StoreTypeOK
<1>1. StoreInv => StoreTypeOK
  BY DEF StoreInv, Types, Order, Snapshots, StoreTypeOK
<1> QED
  BY StoreInductive, <1>1, PTL

\* However timer threads, flushes, clears, failed writes and crashes overlap: the file
\* never goes back, and holds what a clear or a flush has reported as written.
THEOREM DiskIsKept == StoreSpec => DiskKeepsPromises
<1>1. StoreInv /\ [StoreNext]_storeVars => [KeptFile]_storeVars
  BY NextStep
<1> QED
  BY StoreInductive, <1>1, PTL DEF StoreSpec, DiskKeepsPromises, KeptFile

HIDE PersistenceAssumption DEF Loop, Timers, Threads, Unheld, Saves, Rest, Snapshotted

--------------------------------------------------------------------------------
(***************************************************************************)
(* The managed CLI sessions.                                               *)
(*                                                                         *)
(* ProcessesOwned says where a live process is kept.  Its induction needs  *)
(* to know that a session that is not made yet is nowhere (MadeFirst),     *)
(* that a session is under one key in both maps together (OneKey), that a  *)
(* temporary id in use has no alias yet (Aliases), and what the holder of  *)
(* a lifecycle lock is doing: launching, or killing a session that is      *)
(* closed by then (Lifecycles).                                            *)
(***************************************************************************)

Made == {s \in Sessions : proc[s] # "unmade"}

\* Whatever refers to a session refers to one that has been made.
MadeFirst ==
  /\ \A i \in RealIds : registered[i] # None => registered[i] \in Made
  /\ \A t \in TempIds : pending[t] # None => pending[t] \in Made
  /\ closing \cup closed \cup todo \subseteq Made
  /\ \A s \in Sessions : rescue[s] = "waiting" => s \in Made
  /\ \A s \in Sessions \ Made : pending[s] = None /\ tempToReal[s] = None
  /\ \A r \in Runners : runner[r] # "idle" =>
       got[r] \in Made /\ (captured[r] # None \/ temp[r] # None)

\* A session has one key at most, in the two maps together.
OneKey ==
  /\ \A i, j \in RealIds : registered[i] # None /\ registered[i] = registered[j] => i = j
  /\ \A t, u \in TempIds : pending[t] # None /\ pending[t] = pending[u] => t = u
  /\ \A i \in RealIds, t \in TempIds : registered[i] # None => registered[i] # pending[t]

Aliases ==
  /\ \A t \in TempIds, i \in RealIds : tempToReal[t] = i <=> realToTemp[i] = t
  /\ \A i \in RealIds : realToTemp[i] # None <=> registered[i] # None
  /\ \A t \in TempIds : pending[t] # None => tempToReal[t] = None

\* The holder of a lifecycle lock launches, or it kills what is closed.
Lifecycles ==
  /\ \A s \in Sessions : lifecycle[s] \in {Everything, Rescuer} => s \in closed
  /\ \A s \in Sessions, r \in Runners : lifecycle[s] = r =>
       /\ got[r] = s
       /\ runner[r] = "launching" \/ (runner[r] = "removing" /\ s \in closed)
  /\ \A s \in Sessions : proc[s] = "launching" =>
       \E r \in Runners : lifecycle[s] = r /\ runner[r] = "launching"
  /\ \A r \in Runners : runner[r] = "launching" =>
       lifecycle[got[r]] = r /\ proc[got[r]] = "launching"

StillOwned ==
  /\ \A s \in Sessions : proc[s] \in Live => s \in Owned
  /\ \A s \in Made : s \in Owned \cup closed

SessionsInv == SessionsTypeOK /\ MadeFirst /\ OneKey /\ Aliases /\ Lifecycles /\ StillOwned

USE SessionsAssumption
USE DEF Runs, Live, Everything, Rescuer, Generator, TempIds, maps, processes, runners, stopping

--------------------------------------------------------------------------------
(* What a session is known by *)

LEMMA OwnedBy ==
  ASSUME NEW s \in Sessions
  PROVE  s \in Owned <=> \/ \E i \in RealIds : registered[i] = s
                         \/ \E t \in TempIds : pending[t] = s
                         \/ s \in closing
  BY DEF Owned

LEMMA MapsKept ==
  ASSUME OneKey, Aliases, UNCHANGED <<registered, pending, tempToReal, realToTemp>>
  PROVE  OneKey' /\ Aliases'
  BY DEF OneKey, Aliases

\* Sessions are kept when nothing leaves the maps and no process appears.
LEMMA OwnersKept ==
  ASSUME SessionsInv, UNCHANGED <<registered, pending>>, closing \subseteq closing',
         closed \subseteq closed', Made' = Made,
         \A s \in Sessions : proc'[s] \in Live => proc[s] \in Live
  PROVE  StillOwned'
<1>1. Owned \subseteq Owned'
  BY DEF Owned
<1> QED
  BY <1>1 DEF SessionsInv, StillOwned

\* An id the manager knows leads to a session that has been made.
LEMMA SessionForMade ==
  ASSUME SessionsInv, NEW id \in TempIds
  PROVE  /\ Alias(id) \in TempIds
         /\ SessionFor(id) \in Made \cup {None}
         /\ SessionFor(id) # None => SessionFor(id) \in Owned
         /\ SessionFor(id) = None => /\ Alias(id) = id /\ pending[id] = None
                                     /\ tempToReal[id] = None
                                     /\ id \in RealIds => registered[id] = None
<1>1. Alias(id) \in TempIds
  BY DEF SessionsInv, SessionsTypeOK, Alias
<1>2. SessionFor(id) \in Made \cup {None}
  BY <1>1 DEF SessionsInv, SessionsTypeOK, MadeFirst, SessionFor
<1>3. SessionFor(id) # None => SessionFor(id) \in Owned
  BY <1>1 DEF SessionFor, Owned
<1>4. tempToReal[id] # None => SessionFor(id) # None
  BY DEF SessionsInv, SessionsTypeOK, Aliases, SessionFor, Alias
<1>5. SessionFor(id) = None => /\ Alias(id) = id /\ pending[id] = None
                               /\ id \in RealIds => registered[id] = None
  BY <1>4 DEF Alias, SessionFor
<1> QED
  BY <1>1, <1>2, <1>3, <1>4, <1>5

\* The manager owns nothing but what has been made.
LEMMA OwnedAreMade ==
  ASSUME SessionsInv
  PROVE  Owned \subseteq Made
  BY DEF SessionsInv, MadeFirst, Owned

\* A session that is forgotten is out of every map, and the others keep their keys.
LEMMA ForgetsOne ==
  ASSUME SessionsInv, NEW s \in Sessions, Forget(s)
  PROVE  /\ registered' \in [RealIds -> Sessions \cup {None}]
         /\ pending' \in [TempIds -> Sessions \cup {None}]
         /\ tempToReal' \in [TempIds -> RealIds \cup {None}]
         /\ realToTemp' \in [RealIds -> TempIds \cup {None}]
         /\ OneKey' /\ Aliases'
         /\ \A i \in RealIds : registered'[i] = IF registered[i] = s THEN None ELSE registered[i]
         /\ \A t \in TempIds : pending'[t] = IF pending[t] = s THEN None ELSE pending[t]
         /\ \A t \in TempIds : tempToReal'[t] \in {None, tempToReal[t]}
         /\ Owned' = Owned \ {s} /\ closing' = closing \ {s}
<1> DEFINE gone == {i \in RealIds : registered[i] = s}
<1>1. /\ pending' = [t \in TempIds |-> IF pending[t] = s THEN None ELSE pending[t]]
      /\ registered' = [i \in RealIds |-> IF i \in gone THEN None ELSE registered[i]]
      /\ realToTemp' = [i \in RealIds |-> IF i \in gone THEN None ELSE realToTemp[i]]
      /\ tempToReal' = [t \in TempIds |->
                          IF \E i \in gone : realToTemp[i] = t THEN None ELSE tempToReal[t]]
      /\ closing' = closing \ {s}
  BY DEF Forget
<1>2. /\ registered' \in [RealIds -> Sessions \cup {None}]
      /\ pending' \in [TempIds -> Sessions \cup {None}]
      /\ tempToReal' \in [TempIds -> RealIds \cup {None}]
      /\ realToTemp' \in [RealIds -> TempIds \cup {None}]
  BY <1>1 DEF SessionsInv, SessionsTypeOK
<1>3. /\ \A i \in RealIds : registered'[i] = IF registered[i] = s THEN None ELSE registered[i]
      /\ \A i \in RealIds : realToTemp'[i] = IF registered[i] = s THEN None ELSE realToTemp[i]
      /\ \A t \in TempIds : pending'[t] = IF pending[t] = s THEN None ELSE pending[t]
      /\ \A t \in TempIds : tempToReal'[t] = IF \E i \in gone : realToTemp[i] = t
                                             THEN None ELSE tempToReal[t]
  BY <1>1
<1>4. OneKey'
  BY <1>3 DEF SessionsInv, OneKey
<1>5. Aliases'
  BY <1>3 DEF SessionsInv, Aliases, SessionsTypeOK
<1>6. Owned' = Owned \ {s}
  <2>1. \A x \in Sessions : x \in Owned' <=> x \in Owned /\ x # s
    <3> SUFFICES ASSUME NEW x \in Sessions PROVE x \in Owned' <=> x \in Owned /\ x # s
      OBVIOUS
    <3>1. x \in Owned' <=> \/ \E i \in RealIds : registered'[i] = x
                           \/ \E t \in TempIds : pending'[t] = x
                           \/ x \in closing'
      BY DEF Owned
    <3>2. \A i \in RealIds : registered'[i] = x <=> registered[i] = x /\ x # s
      BY <1>3
    <3>3. \A t \in TempIds : pending'[t] = x <=> pending[t] = x /\ x # s
      BY <1>3
    <3>4. x \in closing' <=> x \in closing /\ x # s
      BY <1>1
    <3> QED
      BY <3>1, <3>2, <3>3, <3>4, OwnedBy
  <2>2. Owned \subseteq Sessions
    BY DEF Owned, SessionsInv, SessionsTypeOK
  <2>3. Owned' \subseteq Sessions
    <3>1. closing' \subseteq Sessions
      BY <1>1 DEF SessionsInv, SessionsTypeOK
    <3> QED
      BY <3>1, <1>2 DEF Owned
  <2> QED
    BY <2>1, <2>2, <2>3
<1> QED
  BY <1>1, <1>2, <1>3, <1>4, <1>5, <1>6

\* What a stop that succeeds leaves of a session: it is closed and has no process.
LEMMA StopsForGood ==
  ASSUME SessionsInv, NEW s \in Made, NEW a, a # None, StopSucceeds(a, s),
         \A r \in Runners : a = r => runner[r] = "removing"
  PROVE  /\ closed' = closed \cup {s} /\ proc'[s] \notin Live /\ Made' = Made
         /\ proc' \in [Sessions -> Live \cup {"unmade", "none", "exited"}]
         /\ \A x \in Sessions : x # s => proc'[x] = proc[x] /\ lifecycle'[x] = lifecycle[x]
         /\ lifecycle' = [lifecycle EXCEPT ![s] = None]
         /\ lifecycle[s] \in {None, a}
<1>0. s \in Sessions
  BY DEF Made
<1>1. CASE StopEnters(a, s) /\ proc[s] # "running" /\ UNCHANGED proc
  <2>1. lifecycle[s] = None /\ lifecycle' = [lifecycle EXCEPT ![s] = None]
        /\ closed' = closed \cup {s} /\ proc' = proc
    BY <1>1 DEF StopEnters
  <2>2. proc[s] # "launching"
    BY <1>0, <2>1 DEF SessionsInv, Lifecycles
  <2> QED
    BY <1>0, <1>1, <2>1, <2>2 DEF SessionsInv, SessionsTypeOK, Made
<1>2. CASE /\ lifecycle[s] = a /\ lifecycle' = [lifecycle EXCEPT ![s] = None]
           /\ proc' = [proc EXCEPT ![s] = "exited"] /\ UNCHANGED closed
  <2>1. s \in closed
    <3>1. a \in Runners \cup {Everything, Rescuer}
      BY <1>0, <1>2 DEF SessionsInv, SessionsTypeOK
    <3>2. CASE a \in Runners
      BY <3>2, <1>0, <1>2 DEF SessionsInv, Lifecycles
    <3> QED
      BY <3>1, <3>2, <1>0, <1>2 DEF SessionsInv, Lifecycles
  <2> QED
    BY <1>0, <1>2, <2>1 DEF SessionsInv, SessionsTypeOK, Made
<1> QED
  BY <1>1, <1>2 DEF StopSucceeds

--------------------------------------------------------------------------------
(* Getting a session, and the task in it *)

LEMMA ReuseStep ==
  ASSUME SessionsInv, NEW r \in Runners, NEW parent \in RealIds \cup {None}, Reuse(r, parent)
  PROVE  SessionsInv'
<1> USE DEF Reuse
<1>0. /\ SessionFor(parent) \in Made /\ Alias(parent) \in TempIds /\ Alias(parent) # None
  BY SessionForMade
<1>1. SessionsTypeOK'
  BY <1>0 DEF SessionsInv, SessionsTypeOK, Made
<1>2. MadeFirst'
  BY <1>0 DEF SessionsInv, SessionsTypeOK, MadeFirst, Made
<1>3. OneKey' /\ Aliases'
  BY MapsKept DEF SessionsInv
<1>4. Lifecycles'
  BY <1>0 DEF SessionsInv, SessionsTypeOK, MadeFirst, Made, Lifecycles
<1>5. StillOwned'
  BY <1>0, OwnersKept DEF SessionsInv, SessionsTypeOK, MadeFirst, Made
<1> QED
  BY <1>1, <1>2, <1>3, <1>4, <1>5 DEF SessionsInv

LEMMA CreateStep ==
  ASSUME SessionsInv, NEW r \in Runners, NEW parent \in RealIds \cup {None}, Create(r, parent)
  PROVE  SessionsInv'
<1> PICK s \in Sessions :
      LET key == IF parent = None THEN s ELSE parent IN
        /\ proc[s] = "unmade" /\ proc' = [proc EXCEPT ![s] = "none"]
        /\ pending' = [pending EXCEPT ![key] = s]
        /\ Runs(r, "idle", "have")
        /\ got' = [got EXCEPT ![r] = s]
        /\ temp' = [temp EXCEPT ![r] = key]
        /\ captured' = [captured EXCEPT ![r] = None]
  BY DEF Create
<1> DEFINE key == IF parent = None THEN s ELSE parent
<1>0. /\ UNCHANGED <<registered, tempToReal, realToTemp, closing, managerLock, closed,
                     lifecycle, cli, rescue, stopping>>
      /\ parent # None => SessionFor(parent) = None
  BY DEF Create
<1>1. /\ s \notin Made /\ Made' = Made \cup {s} /\ Made \subseteq Sessions
      /\ proc[s] = "unmade" /\ proc' = [proc EXCEPT ![s] = "none"]
  BY DEF Made, SessionsInv, SessionsTypeOK
<1>2. key \in TempIds /\ key # None /\ pending[key] = None /\ tempToReal[key] = None
      /\ (key \in Sessions => key = s)
  <2>1. CASE parent = None
    BY <2>1, <1>1 DEF SessionsInv, MadeFirst
  <2>2. CASE parent # None
    BY <2>2, <1>0, SessionForMade
  <2> QED
    BY <2>1, <2>2
<1>3. /\ pending' = [pending EXCEPT ![key] = s] /\ temp' = [temp EXCEPT ![r] = key]
      /\ got' = [got EXCEPT ![r] = s] /\ captured' = [captured EXCEPT ![r] = None]
      /\ runner[r] = "idle" /\ runner' = [runner EXCEPT ![r] = "have"]
  OBVIOUS
<1> HIDE DEF key
<1>4. SessionsTypeOK'
  BY <1>0, <1>1, <1>2, <1>3 DEF SessionsInv, SessionsTypeOK
<1>5. MadeFirst'
  BY <1>0, <1>1, <1>2, <1>3 DEF SessionsInv, SessionsTypeOK, MadeFirst
<1>6. OneKey'
  <2>1. /\ \A i \in RealIds : registered[i] # s
        /\ \A t \in TempIds : pending[t] # s
    BY <1>1 DEF SessionsInv, MadeFirst
  <2> QED
    BY <2>1, <1>0, <1>2, <1>3 DEF SessionsInv, SessionsTypeOK, OneKey
<1>7. Aliases'
  BY <1>0, <1>2, <1>3 DEF SessionsInv, SessionsTypeOK, Aliases
<1>8. Lifecycles'
  BY <1>0, <1>1, <1>3 DEF SessionsInv, SessionsTypeOK, MadeFirst, Lifecycles
<1>9. StillOwned'
  <2>1. Owned \cup {s} \subseteq Owned'
    <3>1. \A t \in TempIds : pending[t] # None => pending'[t] = pending[t]
      BY <1>2, <1>3 DEF SessionsInv, SessionsTypeOK
    <3>2. pending'[key] = s
      BY <1>2, <1>3 DEF SessionsInv, SessionsTypeOK
    <3> QED
      BY <3>1, <3>2, <1>0, <1>2 DEF Owned
  <2> QED
    BY <2>1, <1>0, <1>1 DEF SessionsInv, SessionsTypeOK, StillOwned
<1> QED
  BY <1>4, <1>5, <1>6, <1>7, <1>8, <1>9 DEF SessionsInv

LEMMA BeginStep ==
  ASSUME SessionsInv, NEW r \in Runners, Begin(r)
  PROVE  SessionsInv'
<1> USE DEF Begin
<1>1. SessionsTypeOK'
  BY DEF SessionsInv, SessionsTypeOK
<1>2. MadeFirst'
  BY DEF SessionsInv, SessionsTypeOK, MadeFirst, Made
<1>3. OneKey' /\ Aliases'
  BY MapsKept DEF SessionsInv
<1>4. Lifecycles'
  BY DEF SessionsInv, SessionsTypeOK, MadeFirst, Made, Lifecycles
<1>5. StillOwned'
  BY OwnersKept DEF SessionsInv, SessionsTypeOK, MadeFirst, Made
<1> QED
  BY <1>1, <1>2, <1>3, <1>4, <1>5 DEF SessionsInv

LEMMA LaunchStep ==
  ASSUME SessionsInv, NEW r \in Runners, Launch(r)
  PROVE  SessionsInv'
<1> USE DEF Launch
<1>1. SessionsTypeOK'
  BY DEF SessionsInv, SessionsTypeOK
<1>2. MadeFirst'
  BY DEF SessionsInv, SessionsTypeOK, MadeFirst, Made
<1>3. OneKey' /\ Aliases'
  BY MapsKept DEF SessionsInv
<1>4. Lifecycles'
  BY DEF SessionsInv, SessionsTypeOK, MadeFirst, Made, Lifecycles
<1>5. StillOwned'
  <2>1. Owned' = Owned /\ Made' = Made /\ got[r] \in Made
    BY DEF Owned, Made, SessionsInv, SessionsTypeOK, MadeFirst
  <2>2. got[r] \in Owned
    BY <2>1 DEF SessionsInv, StillOwned
  <2> QED
    BY <2>1, <2>2 DEF SessionsInv, SessionsTypeOK, StillOwned
<1> QED
  BY <1>1, <1>2, <1>3, <1>4, <1>5 DEF SessionsInv

LEMMA LaunchRefusedStep ==
  ASSUME SessionsInv, NEW r \in Runners, LaunchRefused(r)
  PROVE  SessionsInv'
<1> USE DEF LaunchRefused
<1>1. SessionsTypeOK'
  BY DEF SessionsInv, SessionsTypeOK
<1>2. MadeFirst'
  BY DEF SessionsInv, SessionsTypeOK, MadeFirst, Made
<1>3. OneKey' /\ Aliases'
  BY MapsKept DEF SessionsInv
<1>4. Lifecycles'
  BY DEF SessionsInv, SessionsTypeOK, MadeFirst, Made, Lifecycles
<1>5. StillOwned'
  BY OwnersKept DEF SessionsInv, SessionsTypeOK, MadeFirst, Made
<1> QED
  BY <1>1, <1>2, <1>3, <1>4, <1>5 DEF SessionsInv

LEMMA LaunchedStep ==
  ASSUME SessionsInv, NEW r \in Runners, Launched(r)
  PROVE  SessionsInv'
<1> USE DEF Launched
<1>1. SessionsTypeOK'
  BY DEF SessionsInv, SessionsTypeOK
<1>2. MadeFirst'
  BY DEF SessionsInv, SessionsTypeOK, MadeFirst, Made
<1>3. OneKey' /\ Aliases'
  BY MapsKept DEF SessionsInv
<1>4. Lifecycles'
  BY DEF SessionsInv, SessionsTypeOK, MadeFirst, Made, Lifecycles
<1>5. StillOwned'
  BY OwnersKept DEF SessionsInv, SessionsTypeOK, MadeFirst, Made, Lifecycles
<1> QED
  BY <1>1, <1>2, <1>3, <1>4, <1>5 DEF SessionsInv

LEMMA LaunchFailsStep ==
  ASSUME SessionsInv, NEW r \in Runners, LaunchFails(r)
  PROVE  SessionsInv'
<1> USE DEF LaunchFails
<1>1. SessionsTypeOK'
  BY DEF SessionsInv, SessionsTypeOK
<1>2. MadeFirst'
  BY DEF SessionsInv, SessionsTypeOK, MadeFirst, Made
<1>3. OneKey' /\ Aliases'
  BY MapsKept DEF SessionsInv
<1>4. Lifecycles'
  BY DEF SessionsInv, SessionsTypeOK, MadeFirst, Made, Lifecycles
<1>5. StillOwned'
  BY OwnersKept DEF SessionsInv, SessionsTypeOK, MadeFirst, Made
<1> QED
  BY <1>1, <1>2, <1>3, <1>4, <1>5 DEF SessionsInv

LEMMA RegisterStep ==
  ASSUME SessionsInv, NEW r \in Runners, NEW real \in RealIds, Register(r, real)
  PROVE  SessionsInv'
<1> DEFINE t == temp[r]
           s == pending[t]
<1>1. /\ runner[r] = "reading" /\ t # None /\ s # None /\ SessionFor(real) \in {None, s}
      /\ pending' = [pending EXCEPT ![t] = None]
      /\ registered' = [registered EXCEPT ![real] = s]
      /\ tempToReal' = [tempToReal EXCEPT ![t] = real]
      /\ realToTemp' = [realToTemp EXCEPT ![real] = t]
      /\ captured' = [captured EXCEPT ![r] = real] /\ temp' = [temp EXCEPT ![r] = None]
  BY DEF Register, MayRegister
<1>2. UNCHANGED <<closing, managerLock, processes, runner, got, stopping>>
  BY DEF Register
<1>3. t \in TempIds /\ s \in Made /\ s \in Sessions /\ tempToReal[t] = None
  BY <1>1 DEF SessionsInv, SessionsTypeOK, MadeFirst, Made, Aliases
<1> HIDE DEF t
<1>4. registered[real] = None /\ realToTemp[real] = None
  <2>1. CASE SessionFor(real) = None
    BY <2>1, SessionForMade DEF SessionsInv, Aliases
  <2>2. CASE SessionFor(real) = s
    <3>1. \A i \in RealIds : registered[i] # s
      BY <1>1, <1>3 DEF SessionsInv, OneKey
    <3>2. Alias(real) \in TempIds /\ pending[Alias(real)] = s
      BY <2>2, <3>1, SessionForMade DEF SessionFor
    <3>3. Alias(real) \in RealIds => registered[Alias(real)] = None
      BY <2>2, <3>1 DEF SessionFor
    <3>4. tempToReal[real] = None
      BY <3>3 DEF Alias, SessionsInv, SessionsTypeOK, Aliases
    <3> QED
      BY <3>3, <3>4 DEF Alias, SessionsInv, Aliases
  <2> QED
    BY <1>1, <2>1, <2>2
<1>5. /\ \A i \in RealIds : registered'[i] = IF i = real THEN s ELSE registered[i]
      /\ \A i \in RealIds : realToTemp'[i] = IF i = real THEN t ELSE realToTemp[i]
      /\ \A u \in TempIds : pending'[u] = IF u = t THEN None ELSE pending[u]
      /\ \A u \in TempIds : tempToReal'[u] = IF u = t THEN real ELSE tempToReal[u]
  BY <1>1 DEF SessionsInv, SessionsTypeOK
<1>6. SessionsTypeOK'
  BY <1>1, <1>2, <1>3 DEF SessionsInv, SessionsTypeOK
<1>7. MadeFirst'
  <2>1. Made' = Made /\ (t \in Sessions => t \in Made)
    BY <1>1, <1>2, <1>3 DEF Made, SessionsInv, MadeFirst
  <2>2. /\ \A i \in RealIds : registered'[i] # None => registered'[i] \in Made
        /\ \A u \in TempIds : pending'[u] # None => pending'[u] \in Made
        /\ \A x \in Sessions \ Made : pending'[x] = None /\ tempToReal'[x] = None
    BY <1>3, <1>5, <2>1 DEF SessionsInv, MadeFirst
  <2>3. \A q \in Runners : runner[q] # "idle" =>
           got[q] \in Made /\ (captured'[q] # None \/ temp'[q] # None)
    BY <1>1 DEF SessionsInv, SessionsTypeOK, MadeFirst
  <2> QED
    BY <2>1, <2>2, <2>3, <1>2 DEF SessionsInv, MadeFirst
<1>8. OneKey'
  BY <1>1, <1>3, <1>5 DEF SessionsInv, OneKey
<1>9. Aliases'
  BY <1>1, <1>3, <1>4, <1>5 DEF SessionsInv, Aliases
<1>10. Lifecycles'
  BY <1>2 DEF SessionsInv, Lifecycles
<1>11. StillOwned'
  <2>1. Owned \subseteq Owned'
    <3> SUFFICES ASSUME NEW x \in Owned PROVE x \in Owned'
      OBVIOUS
    <3>1. x # None
      BY DEF Owned
    <3>2. CASE x = s
      BY <3>1, <3>2, <1>5 DEF Owned
    <3>3. CASE x # s
      BY <3>1, <3>3, <1>2, <1>4, <1>5 DEF Owned
    <3> QED
      BY <3>2, <3>3
  <2> QED
    BY <2>1, <1>2 DEF SessionsInv, StillOwned, Made
<1> QED
  BY <1>6, <1>7, <1>8, <1>9, <1>10, <1>11 DEF SessionsInv

LEMMA RegisterRefusedStep ==
  ASSUME SessionsInv, NEW r \in Runners, NEW real \in RealIds, RegisterRefused(r, real)
  PROVE  SessionsInv'
<1> USE DEF RegisterRefused, Abandons
<1>1. SessionsTypeOK'
  BY DEF SessionsInv, SessionsTypeOK
<1>2. MadeFirst'
  BY DEF SessionsInv, SessionsTypeOK, MadeFirst, Made
<1>3. OneKey' /\ Aliases'
  BY MapsKept DEF SessionsInv
<1>4. Lifecycles'
  BY DEF SessionsInv, SessionsTypeOK, MadeFirst, Made, Lifecycles
<1>5. StillOwned'
  BY OwnersKept DEF SessionsInv, SessionsTypeOK, MadeFirst, Made
<1> QED
  BY <1>1, <1>2, <1>3, <1>4, <1>5 DEF SessionsInv

LEMMA ProcessExitsStep ==
  ASSUME SessionsInv, NEW s \in Sessions, ProcessExits(s)
  PROVE  SessionsInv'
<1> USE DEF ProcessExits
<1>1. SessionsTypeOK'
  BY DEF SessionsInv, SessionsTypeOK
<1>2. MadeFirst'
  BY DEF SessionsInv, SessionsTypeOK, MadeFirst, Made
<1>3. OneKey' /\ Aliases'
  BY MapsKept DEF SessionsInv
<1>4. Lifecycles'
  BY DEF SessionsInv, SessionsTypeOK, MadeFirst, Made, Lifecycles
<1>5. StillOwned'
  BY OwnersKept DEF SessionsInv, SessionsTypeOK, MadeFirst, Made
<1> QED
  BY <1>1, <1>2, <1>3, <1>4, <1>5 DEF SessionsInv

LEMMA FinalizedStep ==
  ASSUME SessionsInv, NEW s \in Sessions, Finalized(s)
  PROVE  SessionsInv'
<1> USE DEF Finalized
<1>1. SessionsTypeOK'
  BY DEF SessionsInv, SessionsTypeOK
<1>2. MadeFirst'
  BY DEF SessionsInv, SessionsTypeOK, MadeFirst, Made
<1>3. OneKey' /\ Aliases'
  BY MapsKept DEF SessionsInv
<1>4. Lifecycles'
  BY DEF SessionsInv, SessionsTypeOK, MadeFirst, Made, Lifecycles
<1>5. StillOwned'
  BY OwnersKept DEF SessionsInv, SessionsTypeOK, MadeFirst, Made
<1> QED
  BY <1>1, <1>2, <1>3, <1>4, <1>5 DEF SessionsInv

LEMMA FinishStep ==
  ASSUME SessionsInv, NEW r \in Runners, Finish(r)
  PROVE  SessionsInv'
<1> USE DEF Finish
<1>1. SessionsTypeOK'
  BY DEF SessionsInv, SessionsTypeOK
<1>2. MadeFirst'
  BY DEF SessionsInv, SessionsTypeOK, MadeFirst, Made
<1>3. OneKey' /\ Aliases'
  BY MapsKept DEF SessionsInv
<1>4. Lifecycles'
  BY DEF SessionsInv, SessionsTypeOK, MadeFirst, Made, Lifecycles
<1>5. StillOwned'
  BY OwnersKept DEF SessionsInv, SessionsTypeOK, MadeFirst, Made
<1> QED
  BY <1>1, <1>2, <1>3, <1>4, <1>5 DEF SessionsInv

--------------------------------------------------------------------------------
(* Stopping sessions *)

LEMMA RemoveBeginsStep ==
  ASSUME SessionsInv, NEW r \in Runners, RemoveBegins(r)
  PROVE  SessionsInv'
<1> USE DEF RemoveBegins, Over
<1>0. /\ LeavingId(r) \in TempIds /\ SessionFor(LeavingId(r)) \in Made \cup {None}
  BY SessionForMade DEF LeavingId, SessionsInv, SessionsTypeOK, MadeFirst
<1>1. SessionsTypeOK'
  BY <1>0 DEF SessionsInv, SessionsTypeOK, Made
<1>2. MadeFirst'
  BY <1>0 DEF SessionsInv, SessionsTypeOK, MadeFirst, Made
<1>3. OneKey' /\ Aliases'
  BY MapsKept DEF SessionsInv
<1>4. Lifecycles'
  BY <1>0 DEF SessionsInv, SessionsTypeOK, MadeFirst, Made, Lifecycles
<1>5. StillOwned'
  BY <1>0, OwnersKept DEF SessionsInv, SessionsTypeOK, MadeFirst, Made
<1> QED
  BY <1>1, <1>2, <1>3, <1>4, <1>5 DEF SessionsInv

LEMMA RemovedStep ==
  ASSUME SessionsInv, NEW r \in Runners, Removed(r)
  PROVE  SessionsInv'
<1>0. /\ runner[r] = "removing" /\ StopSucceeds(r, got[r]) /\ Forget(got[r]) /\ Over(r)
      /\ managerLock' = None /\ UNCHANGED <<cli, rescue, stopping>>
  BY DEF Removed
<1> DEFINE s == got[r]
<1>1. s \in Made /\ s \in Sessions
  BY <1>0 DEF SessionsInv, MadeFirst, Made
<1>2. /\ closed' = closed \cup {s} /\ proc'[s] \notin Live /\ Made' = Made
      /\ proc' \in [Sessions -> Live \cup {"unmade", "none", "exited"}]
      /\ \A x \in Sessions : x # s => proc'[x] = proc[x] /\ lifecycle'[x] = lifecycle[x]
      /\ lifecycle' = [lifecycle EXCEPT ![s] = None]
      /\ lifecycle[s] \in {None, r}
  BY <1>0, <1>1, StopsForGood
<1>3. /\ registered' \in [RealIds -> Sessions \cup {None}]
      /\ pending' \in [TempIds -> Sessions \cup {None}]
      /\ tempToReal' \in [TempIds -> RealIds \cup {None}]
      /\ realToTemp' \in [RealIds -> TempIds \cup {None}]
      /\ OneKey' /\ Aliases'
      /\ \A i \in RealIds : registered'[i] = IF registered[i] = s THEN None ELSE registered[i]
      /\ \A t \in TempIds : pending'[t] = IF pending[t] = s THEN None ELSE pending[t]
      /\ \A t \in TempIds : tempToReal'[t] \in {None, tempToReal[t]}
      /\ Owned' = Owned \ {s} /\ closing' = closing \ {s}
  BY <1>0, <1>1, ForgetsOne
<1> HIDE DEF s
<1>4. /\ runner' = [runner EXCEPT ![r] = "idle"] /\ got' = [got EXCEPT ![r] = None]
      /\ captured' = [captured EXCEPT ![r] = None] /\ temp' = [temp EXCEPT ![r] = None]
  BY <1>0 DEF Over
<1>5. SessionsTypeOK'
  BY <1>0, <1>1, <1>2, <1>3, <1>4 DEF SessionsInv, SessionsTypeOK
<1>6. MadeFirst'
  BY <1>0, <1>1, <1>2, <1>3, <1>4 DEF SessionsInv, SessionsTypeOK, MadeFirst, Made
<1>7. Lifecycles'
  <2>1. \A x \in Sessions : lifecycle[x] = r => x = s
    BY DEF SessionsInv, Lifecycles, s
  <2>2. \A q \in Runners : q # r => runner'[q] = runner[q] /\ got'[q] = got[q]
    BY <1>4 DEF SessionsInv, SessionsTypeOK
  <2>3. /\ runner'[r] = "idle" /\ lifecycle'[s] = None
        /\ \A x \in Sessions : lifecycle'[x] # r
    BY <2>1, <1>1, <1>2, <1>4 DEF SessionsInv, SessionsTypeOK
  <2>4. \A x \in Sessions : lifecycle'[x] \in {Everything, Rescuer} => x \in closed'
    BY <2>3, <1>2 DEF SessionsInv, Lifecycles
  <2>5. \A x \in Sessions, q \in Runners : lifecycle'[x] = q =>
          /\ got'[q] = x
          /\ runner'[q] = "launching" \/ (runner'[q] = "removing" /\ x \in closed')
    BY <2>2, <2>3, <1>2 DEF SessionsInv, Lifecycles
  <2>6. \A x \in Sessions : proc'[x] = "launching" =>
          \E q \in Runners : lifecycle'[x] = q /\ runner'[q] = "launching"
    BY <2>2, <1>0, <1>2 DEF SessionsInv, Lifecycles
  <2>7. \A q \in Runners : runner'[q] = "launching" =>
          lifecycle'[got'[q]] = q /\ proc'[got'[q]] = "launching"
    <3> SUFFICES ASSUME NEW q \in Runners, runner'[q] = "launching"
                 PROVE  lifecycle'[got'[q]] = q /\ proc'[got'[q]] = "launching"
      OBVIOUS
    <3>1. q # r /\ runner[q] = "launching" /\ got'[q] = got[q]
      BY <2>2, <2>3
    <3>2. got[q] \in Sessions /\ lifecycle[got[q]] = q /\ proc[got[q]] = "launching"
      BY <3>1 DEF SessionsInv, MadeFirst, Made, Lifecycles
    <3>3. got[q] # s
      BY <3>1, <3>2, <1>2
    <3> QED
      BY <3>1, <3>2, <3>3, <1>2
  <2> QED
    BY <2>4, <2>5, <2>6, <2>7 DEF Lifecycles
<1>8. StillOwned'
  BY <1>1, <1>2, <1>3 DEF SessionsInv, StillOwned
<1> QED
  BY <1>3, <1>5, <1>6, <1>7, <1>8 DEF SessionsInv

LEMMA RemoveFailsStep ==
  ASSUME SessionsInv, NEW r \in Runners, RemoveFails(r)
  PROVE  SessionsInv'
<1> USE DEF RemoveFails, Over, StopFails
<1>1. SessionsTypeOK'
  <2>1. failures' \in 0 .. MaxFailures
    BY DEF SessionsInv, SessionsTypeOK
  <2> QED
    BY <2>1 DEF SessionsInv, SessionsTypeOK
<1>2. MadeFirst'
  BY DEF SessionsInv, SessionsTypeOK, MadeFirst, Made
<1>3. OneKey' /\ Aliases'
  BY MapsKept DEF SessionsInv
<1>4. Lifecycles'
  BY DEF SessionsInv, SessionsTypeOK, MadeFirst, Made, Lifecycles
<1>5. StillOwned'
  BY OwnersKept DEF SessionsInv, SessionsTypeOK, MadeFirst, Made
<1> QED
  BY <1>1, <1>2, <1>3, <1>4, <1>5 DEF SessionsInv

LEMMA StopAllBeginsStep ==
  ASSUME SessionsInv, StopAllBegins
  PROVE  SessionsInv'
<1> USE DEF StopAllBegins
<1>0. Owned \subseteq Made
  BY OwnedAreMade
<1>1. SessionsTypeOK'
  BY <1>0 DEF SessionsInv, SessionsTypeOK, Made
<1>2. MadeFirst'
  BY <1>0 DEF SessionsInv, SessionsTypeOK, MadeFirst, Made
<1>3. OneKey' /\ Aliases'
  BY MapsKept DEF SessionsInv
<1>4. Lifecycles'
  BY <1>0 DEF SessionsInv, SessionsTypeOK, MadeFirst, Made, Lifecycles
<1>5. StillOwned'
  BY <1>0, OwnersKept DEF SessionsInv, SessionsTypeOK, MadeFirst, Made
<1> QED
  BY <1>1, <1>2, <1>3, <1>4, <1>5 DEF SessionsInv

LEMMA StopsOneStep ==
  ASSUME SessionsInv, NEW s \in Sessions, StopsOne(s)
  PROVE  SessionsInv'
<1>1. /\ stopAll = "stopping" /\ s \in todo /\ todo' = todo \ {s} /\ s \in Made
      /\ UNCHANGED <<managerLock, cli, rescue, runners, stopAll>>
  BY DEF StopsOne, SessionsInv, MadeFirst
<1>2. CASE StopSucceeds(Everything, s) /\ Forget(s) /\ UNCHANGED failures
  <2>1. /\ closed' = closed \cup {s} /\ proc'[s] \notin Live /\ Made' = Made
        /\ proc' \in [Sessions -> Live \cup {"unmade", "none", "exited"}]
        /\ \A x \in Sessions : x # s => proc'[x] = proc[x] /\ lifecycle'[x] = lifecycle[x]
        /\ lifecycle' = [lifecycle EXCEPT ![s] = None]
        /\ lifecycle[s] \in {None, Everything}
    BY <1>1, <1>2, StopsForGood
  <2>2. /\ registered' \in [RealIds -> Sessions \cup {None}]
        /\ pending' \in [TempIds -> Sessions \cup {None}]
        /\ tempToReal' \in [TempIds -> RealIds \cup {None}]
        /\ realToTemp' \in [RealIds -> TempIds \cup {None}]
        /\ OneKey' /\ Aliases'
        /\ \A i \in RealIds : registered'[i] = IF registered[i] = s THEN None ELSE registered[i]
        /\ \A t \in TempIds : pending'[t] = IF pending[t] = s THEN None ELSE pending[t]
        /\ \A t \in TempIds : tempToReal'[t] \in {None, tempToReal[t]}
        /\ Owned' = Owned \ {s} /\ closing' = closing \ {s}
    BY <1>2, ForgetsOne
  <2>3. SessionsTypeOK'
    BY <1>1, <1>2, <2>1, <2>2 DEF SessionsInv, SessionsTypeOK
  <2>4. MadeFirst'
    BY <1>1, <2>1, <2>2 DEF SessionsInv, SessionsTypeOK, MadeFirst, Made
  <2>5. Lifecycles'
    <3>1. /\ lifecycle'[s] = None /\ runner' = runner /\ got' = got
          /\ \A q \in Runners : lifecycle[s] # q
      BY <1>1, <2>1 DEF SessionsInv, SessionsTypeOK
    <3>2. \A q \in Runners : runner[q] = "launching" => got[q] \in Sessions /\ got[q] # s
      BY <3>1 DEF SessionsInv, MadeFirst, Made, Lifecycles
    <3> QED
      BY <3>1, <3>2, <2>1 DEF SessionsInv, Lifecycles
  <2>6. StillOwned'
    BY <2>1, <2>2 DEF SessionsInv, StillOwned
  <2> QED
    BY <2>2, <2>3, <2>4, <2>5, <2>6 DEF SessionsInv
<1>3. CASE StopFails(Everything, s) /\ UNCHANGED maps
  <2>1. SessionsTypeOK'
    <3>1. failures' \in 0 .. MaxFailures
      BY <1>3 DEF StopFails, SessionsInv, SessionsTypeOK
    <3> QED
      BY <1>1, <1>3, <3>1 DEF StopFails, SessionsInv, SessionsTypeOK
  <2>2. MadeFirst'
    BY <1>1, <1>3 DEF StopFails, SessionsInv, SessionsTypeOK, MadeFirst, Made
  <2>3. OneKey' /\ Aliases'
    BY <1>3, MapsKept DEF SessionsInv
  <2>4. Lifecycles'
    BY <1>1, <1>3 DEF StopFails, SessionsInv, SessionsTypeOK, Lifecycles
  <2>5. StillOwned'
    BY <1>3, OwnersKept DEF StopFails, Made
  <2> QED
    BY <2>1, <2>2, <2>3, <2>4, <2>5 DEF SessionsInv
<1> QED
  BY <1>2, <1>3 DEF StopsOne

LEMMA StopAllEndsStep ==
  ASSUME SessionsInv, StopAllEnds
  PROVE  SessionsInv'
<1> USE DEF StopAllEnds
<1>1. SessionsTypeOK'
  BY DEF SessionsInv, SessionsTypeOK
<1>2. MadeFirst'
  BY DEF SessionsInv, SessionsTypeOK, MadeFirst, Made
<1>3. OneKey' /\ Aliases'
  BY MapsKept DEF SessionsInv
<1>4. Lifecycles'
  BY DEF SessionsInv, SessionsTypeOK, MadeFirst, Made, Lifecycles
<1>5. StillOwned'
  BY OwnersKept DEF SessionsInv, SessionsTypeOK, MadeFirst, Made
<1> QED
  BY <1>1, <1>2, <1>3, <1>4, <1>5 DEF SessionsInv

LEMMA RescuedStep ==
  ASSUME SessionsInv, NEW s \in Sessions, Rescued(s)
  PROVE  SessionsInv'
<1> USE DEF Rescued, StopSucceeds, StopEnters, StopFails
<1>1. SessionsTypeOK'
  BY DEF SessionsInv, SessionsTypeOK
<1>2. MadeFirst'
  BY DEF SessionsInv, SessionsTypeOK, MadeFirst, Made
<1>3. OneKey' /\ Aliases'
  BY MapsKept DEF SessionsInv
<1>4. Lifecycles'
  BY DEF SessionsInv, SessionsTypeOK, MadeFirst, Made, Lifecycles
<1>5. StillOwned'
  BY OwnersKept DEF SessionsInv, SessionsTypeOK, MadeFirst, Made
<1> QED
  BY <1>1, <1>2, <1>3, <1>4, <1>5 DEF SessionsInv

LEMMA KillStep ==
  ASSUME SessionsInv, NEW s \in Made, NEW a \in Runners \cup {Everything, Rescuer},
         KillBegins(a, s), a \in Runners => runner[a] = "removing" /\ got[a] = s
  PROVE  SessionsInv'
<1> USE DEF KillBegins, StopEnters
<1>1. SessionsTypeOK'
  <2>1. s \in Sessions /\ closed' \subseteq Sessions
    BY DEF Made, SessionsInv, SessionsTypeOK
  <2>2. lifecycle' \in [Sessions -> Runners \cup {Everything, Rescuer, None}]
    BY <2>1 DEF SessionsInv, SessionsTypeOK
  <2> QED
    BY <2>1, <2>2 DEF SessionsInv, SessionsTypeOK
<1>2. MadeFirst'
  BY DEF SessionsInv, SessionsTypeOK, MadeFirst, Made
<1>3. OneKey' /\ Aliases'
  BY MapsKept DEF SessionsInv
<1>4. Lifecycles'
  BY DEF SessionsInv, SessionsTypeOK, MadeFirst, Made, Lifecycles
<1>5. StillOwned'
  BY OwnersKept DEF SessionsInv, SessionsTypeOK, MadeFirst, Made
<1> QED
  BY <1>1, <1>2, <1>3, <1>4, <1>5 DEF SessionsInv

LEMMA KillsStep ==
  ASSUME SessionsInv, Kills
  PROVE  SessionsInv'
<1>1. ASSUME NEW r \in Runners, runner[r] = "removing", KillBegins(r, got[r])
      PROVE  SessionsInv'
  BY <1>1, KillStep DEF SessionsInv, MadeFirst
<1>2. ASSUME NEW s \in Made, KillBegins(Everything, s) \/ KillBegins(Rescuer, s)
      PROVE  SessionsInv'
  BY <1>2, KillStep
<1> QED
  BY <1>1, <1>2 DEF Kills, SessionsInv, MadeFirst

--------------------------------------------------------------------------------
(* Cancelling runners *)

LEMMA CancelWaitingStep ==
  ASSUME SessionsInv, NEW r \in Runners, CancelWaiting(r)
  PROVE  SessionsInv'
<1> USE DEF CancelWaiting, Abandons
<1>1. SessionsTypeOK'
  BY DEF SessionsInv, SessionsTypeOK
<1>2. MadeFirst'
  BY DEF SessionsInv, SessionsTypeOK, MadeFirst, Made
<1>3. OneKey' /\ Aliases'
  BY MapsKept DEF SessionsInv
<1>4. Lifecycles'
  BY DEF SessionsInv, SessionsTypeOK, MadeFirst, Made, Lifecycles
<1>5. StillOwned'
  BY OwnersKept DEF SessionsInv, SessionsTypeOK, MadeFirst, Made
<1> QED
  BY <1>1, <1>2, <1>3, <1>4, <1>5 DEF SessionsInv

LEMMA CancelLeavingStep ==
  ASSUME SessionsInv, NEW r \in Runners, CancelLeaving(r)
  PROVE  SessionsInv'
<1> USE DEF CancelLeaving, Over
<1>1. SessionsTypeOK'
  BY DEF SessionsInv, SessionsTypeOK
<1>2. MadeFirst'
  BY DEF SessionsInv, SessionsTypeOK, MadeFirst, Made
<1>3. OneKey' /\ Aliases'
  BY MapsKept DEF SessionsInv
<1>4. Lifecycles'
  BY DEF SessionsInv, SessionsTypeOK, MadeFirst, Made, Lifecycles
<1>5. StillOwned'
  BY OwnersKept DEF SessionsInv, SessionsTypeOK, MadeFirst, Made
<1> QED
  BY <1>1, <1>2, <1>3, <1>4, <1>5 DEF SessionsInv

LEMMA CancelRemovingStep ==
  ASSUME SessionsInv, NEW r \in Runners, CancelRemoving(r)
  PROVE  SessionsInv'
<1> USE DEF CancelRemoving, Over
<1>1. SessionsTypeOK'
  BY DEF SessionsInv, SessionsTypeOK
<1>2. MadeFirst'
  BY DEF SessionsInv, SessionsTypeOK, MadeFirst, Made
<1>3. OneKey' /\ Aliases'
  BY MapsKept DEF SessionsInv
<1>4. Lifecycles'
  BY DEF SessionsInv, SessionsTypeOK, MadeFirst, Made, Lifecycles
<1>5. StillOwned'
  BY OwnersKept DEF SessionsInv, SessionsTypeOK, MadeFirst, Made
<1> QED
  BY <1>1, <1>2, <1>3, <1>4, <1>5 DEF SessionsInv

--------------------------------------------------------------------------------
(* The theorems *)

\* The invariant that the theorems about the CLI sessions rest on.
THEOREM SessionsInductive == SessionsSpec => []SessionsInv
<1>1. SessionsInit => SessionsInv
  BY DEF SessionsInit, ManagerInit, SessionsInv, SessionsTypeOK, MadeFirst, Made, OneKey, Aliases,
         Lifecycles, StillOwned, Owned
<1>2. SessionsInv /\ UNCHANGED sessionVars => SessionsInv'
  BY DEF sessionVars, SessionsInv, SessionsTypeOK, MadeFirst, Made, OneKey, Aliases,
         Lifecycles, StillOwned, Owned
<1>3. SessionsInv /\ SessionsNext => SessionsInv'
  <2> SUFFICES ASSUME SessionsInv, SessionsNext PROVE SessionsInv'
    OBVIOUS
  <2>1. ASSUME NEW r \in Runners, NEW parent \in RealIds \cup {None},
               Reuse(r, parent) \/ Create(r, parent)
        PROVE  SessionsInv'
    BY <2>1, ReuseStep, CreateStep
  <2>2. ASSUME NEW r \in Runners, NEW real \in RealIds,
               Register(r, real) \/ RegisterRefused(r, real)
        PROVE  SessionsInv'
    BY <2>2, RegisterStep, RegisterRefusedStep
  <2>3. ASSUME NEW r \in Runners,
               TaskSteps(r) \/ CancelWaiting(r) \/ CancelLeaving(r) \/ CancelRemoving(r)
        PROVE  SessionsInv'
    BY <2>3, BeginStep, LaunchStep, LaunchRefusedStep, LaunchedStep, LaunchFailsStep,
       FinishStep, RemoveBeginsStep, RemovedStep, RemoveFailsStep, CancelWaitingStep,
       CancelLeavingStep, CancelRemovingStep
       DEF TaskSteps
  <2>4. ASSUME NEW s \in Sessions,
               ProcessExits(s) \/ Finalized(s) \/ StopsOne(s) \/ Rescued(s)
        PROVE  SessionsInv'
    BY <2>4, ProcessExitsStep, FinalizedStep, StopsOneStep, RescuedStep
  <2>5. ASSUME Kills \/ StopAllBegins \/ StopAllEnds
        PROVE  SessionsInv'
    BY <2>5, KillsStep, StopAllBeginsStep, StopAllEndsStep
  <2>6. CASE AllMade
    BY <2>6, <1>2 DEF AllMade
  <2> QED
    BY <2>1, <2>2, <2>3, <2>4, <2>5, <2>6 DEF SessionsNext, StopSteps
<1> QED
  BY <1>1, <1>2, <1>3, PTL DEF SessionsSpec

\* The maps, the locks, the processes and the runners keep their types.
THEOREM SessionsTypeCorrect == SessionsSpec => []SessionsTypeOK
<1>1. SessionsInv => SessionsTypeOK
  BY DEF SessionsInv
<1> QED
  BY SessionsInductive, <1>1, PTL

\* Whatever runners, stops, kills that fail and cancellations do to each other: a live
\* process belongs to a session the manager owns, and the maps agree with each other.
THEOREM ProcessesAreOwned == SessionsSpec => []ProcessesOwned
<1>1. ASSUME SessionsInv, NEW s \in Sessions
      PROVE  Cardinality({i \in RealIds : registered[i] = s} \cup
                         {t \in Sessions : pending[t] = s}) <= 1
  <2> DEFINE K == {i \in RealIds : registered[i] = s} \cup {t \in Sessions : pending[t] = s}
  <2>1. s # None
    OBVIOUS
  <2>2. \A x, y \in K : x = y
    BY <1>1, <2>1 DEF SessionsInv, OneKey
  <2>3. CASE K = {}
    BY <2>3, FS_EmptySet
  <2>4. ASSUME NEW x \in K
        PROVE  Cardinality(K) = 1
    <3>1. K = {x}
      BY <2>2
    <3> QED
      BY <3>1, FS_Singleton, Zenon
  <2> QED
    BY <2>3, <2>4
<1>2. SessionsInv => ProcessesOwned
  BY <1>1 DEF SessionsInv, StillOwned, Made, Aliases, ProcessesOwned
<1> QED
  BY SessionsInductive, <1>2, PTL
================================================================================
