---------------------------- MODULE SessionPersistence ----------------------------
(* The session store and its debounced JSON writer. The event loop's thread changes *)
(* the state in memory, each change arming a timer in place of the last one; every  *)
(* timer is a thread of its own that may still be saving when the next is armed.    *)
(* Contents are versions: the greater is the newer. A section under the timer lock  *)
(* never waits for another lock, so it is one step; the store's lock and the        *)
(* writer's are held across steps. The process may crash and restart at any step.   *)
EXTENDS Naturals

CONSTANTS
  MaxVersion,               \* bound: how many changes are made
  MaxFaults                 \* bound: failed writes and crashes

ASSUME PersistenceAssumption == MaxVersion \in Nat \ {0} /\ MaxFaults \in Nat

VARIABLES
  newest,                   \* history: the last version ever made
  memory,                   \* the version in memory
  disk,                     \* the version in the file
  saveGen,                  \* _save_generation
  armed,                    \* _save_timer is set
  storeLock, writerLock,    \* who holds them, Unheld if nobody does
  saver,                    \* where each thread is
  pendGen, pendVersion,     \* _PendingWrite of each thread
  dirty,
  promised,                 \* history: the newest version a clear or a flush has reported
  mishaps                   \* history: failed writes and crashes

storeVars == <<newest, memory, disk, saveGen, armed, storeLock, writerLock, saver,
               pendGen, pendVersion, dirty, promised, mishaps>>

Loop == 0                              \* the event loop's thread
Timers == 1 .. MaxVersion              \* the timer armed with a generation
Threads == {Loop} \cup Timers
Unheld == MaxVersion + 1

Fresh == [t \in Threads |-> IF t = Loop THEN "free" ELSE "none"]

StoreInit ==
  /\ newest = 0 /\ memory = 0 /\ disk = 0 /\ saveGen = 0 /\ armed = FALSE
  /\ storeLock = Unheld /\ writerLock = Unheld
  /\ saver = Fresh
  /\ pendGen = [t \in Threads |-> 0] /\ pendVersion = [t \in Threads |-> 0]
  /\ dirty = FALSE /\ promised = 0 /\ mishaps = 0

Saves(t, from, to) == saver[t] = from /\ saver' = [saver EXCEPT ![t] = to]

\* After its last step a timer's thread is gone and the event loop is free again.
Rest(t) == IF t = Loop THEN "free" ELSE "gone"

-----------------------------------------------------------------------------
(* Changes of the event loop's thread *)

\* record, forget or save under the store's lock, with schedule_save: the timer is
\* replaced. Memory is only read under this lock, so the section is one step.
Change ==
  /\ saver[Loop] = "free" /\ storeLock = Unheld /\ newest < MaxVersion
  /\ newest' = newest + 1 /\ memory' = newest'
  /\ saveGen' = saveGen + 1 /\ armed' = TRUE /\ dirty' = TRUE
  /\ saver' = [saver EXCEPT ![saveGen'] = "armed"]
  /\ UNCHANGED <<disk, storeLock, writerLock, pendGen, pendVersion, promised, mishaps>>

\* Mutant of Clear: pending snapshots stay valid.
ClearQuietly ==
  /\ storeLock = Unheld /\ newest < MaxVersion
  /\ Saves(Loop, "free", "waiting")
  /\ newest' = newest + 1 /\ memory' = newest' /\ dirty' = TRUE
  /\ armed' = FALSE /\ storeLock' = Loop
  /\ pendGen' = [pendGen EXCEPT ![Loop] = saveGen]
  /\ pendVersion' = [pendVersion EXCEPT ![Loop] = memory']
  /\ UNCHANGED <<disk, saveGen, writerLock, promised, mishaps>>

\* clear_scope: the timer is cancelled, older snapshots are invalidated and the new
\* state is written while the store's lock is held.
Clear ==
  /\ storeLock = Unheld /\ newest < MaxVersion
  /\ Saves(Loop, "free", "waiting")
  /\ newest' = newest + 1 /\ memory' = newest' /\ dirty' = TRUE
  /\ saveGen' = saveGen + 1 /\ armed' = FALSE /\ storeLock' = Loop
  /\ pendGen' = [pendGen EXCEPT ![Loop] = saveGen']
  /\ pendVersion' = [pendVersion EXCEPT ![Loop] = memory']
  /\ UNCHANGED <<disk, writerLock, promised, mishaps>>

-----------------------------------------------------------------------------
(* Snapshots: of a timer that fires, and of flush() *)

\* The timer is still the one that counts, and it is taken.
TimerClaims(g) ==
  /\ saveGen = g /\ armed /\ Saves(g, "armed", "claimed")
  /\ armed' = FALSE
  /\ pendGen' = [pendGen EXCEPT ![g] = g]
  /\ UNCHANGED <<newest, memory, disk, saveGen, storeLock, writerLock, pendVersion, dirty,
                 promised, mishaps>>

TimerObsolete(g) ==
  /\ ~(saveGen = g /\ armed) /\ Saves(g, "armed", "gone")
  /\ UNCHANGED <<newest, memory, disk, saveGen, armed, storeLock, writerLock, pendGen,
                 pendVersion, dirty, promised, mishaps>>

\* flush() takes whatever generation there is.
Flush ==
  /\ storeLock = Unheld /\ Saves(Loop, "free", "claimed")
  /\ dirty' = TRUE /\ armed' = FALSE
  /\ pendGen' = [pendGen EXCEPT ![Loop] = saveGen]
  /\ UNCHANGED <<newest, memory, disk, saveGen, storeLock, writerLock, pendVersion,
                 promised, mishaps>>

Snapshot(t) ==
  /\ storeLock = Unheld /\ Saves(t, "claimed", "waiting")
  /\ pendVersion' = [pendVersion EXCEPT ![t] = memory]
  /\ UNCHANGED <<newest, memory, disk, saveGen, armed, storeLock, writerLock, pendGen,
                 dirty, promised, mishaps>>

-----------------------------------------------------------------------------
(* Writing *)

\* the event loop's thread lets go of the store's lock with its last step of a clear
Released(t) == IF t = Loop THEN Unheld ELSE storeLock

\* A newer save, or an authoritative write, has taken the generation.
Superseded(t) == pendGen[t] # saveGen

\* The writer's lock is had and the generation is compared under it.
WriteBegins(t) ==
  /\ writerLock = Unheld /\ ~Superseded(t) /\ Saves(t, "waiting", "writing")
  /\ writerLock' = t
  /\ UNCHANGED <<newest, memory, disk, saveGen, armed, storeLock, pendGen, pendVersion,
                 dirty, promised, mishaps>>

WriteSuperseded(t) ==
  /\ writerLock = Unheld /\ Superseded(t) /\ Saves(t, "waiting", Rest(t))
  /\ storeLock' = Released(t)
  /\ UNCHANGED <<newest, memory, disk, saveGen, armed, writerLock, pendGen, pendVersion,
                 dirty, promised, mishaps>>

\* The file is replaced; a save that is still the latest goes on to mark the store clean.
Replace(t) ==
  /\ disk' = pendVersion[t]
  /\ writerLock' = Unheld
  /\ \/ ~armed /\ pendGen[t] = saveGen /\ Saves(t, "writing", "cleaning")
        /\ UNCHANGED <<storeLock, promised>>
     \/ ~(~armed /\ pendGen[t] = saveGen) /\ Saves(t, "writing", Rest(t))
        /\ storeLock' = Released(t)
        /\ promised' = IF t = Loop THEN pendVersion[t] ELSE promised
  /\ UNCHANGED <<newest, memory, saveGen, armed, pendGen, pendVersion, dirty, mishaps>>

\* The write fails; the file is as it was.
WriteFails(t) ==
  /\ mishaps < MaxFaults /\ mishaps' = mishaps + 1
  /\ Saves(t, "writing", "failing")
  /\ writerLock' = Unheld
  /\ UNCHANGED <<newest, memory, disk, saveGen, armed, storeLock, pendGen, pendVersion,
                 dirty, promised>>

\* _set_dirty, under the store's lock, which the event loop's thread may hold already.
MayLock(t) == storeLock = Unheld \/ storeLock = t

MarksClean(t) ==
  /\ MayLock(t) /\ Saves(t, "cleaning", Rest(t))
  /\ dirty' = FALSE
  /\ storeLock' = Released(t)
  /\ promised' = IF t = Loop THEN pendVersion[t] ELSE promised
  /\ UNCHANGED <<newest, memory, disk, saveGen, armed, writerLock, pendGen, pendVersion,
                 mishaps>>

MarksDirty(t) ==
  /\ MayLock(t) /\ Saves(t, "failing", Rest(t))
  /\ dirty' = TRUE
  /\ storeLock' = Released(t)
  /\ UNCHANGED <<newest, memory, disk, saveGen, armed, writerLock, pendGen, pendVersion,
                 promised, mishaps>>

\* The process ends and starts again with what the file holds.
Crash ==
  /\ mishaps < MaxFaults /\ mishaps' = mishaps + 1
  /\ memory' = disk /\ saveGen' = 0 /\ armed' = FALSE
  /\ storeLock' = Unheld /\ writerLock' = Unheld
  /\ saver' = Fresh
  /\ pendGen' = [t \in Threads |-> 0] /\ pendVersion' = [t \in Threads |-> 0]
  /\ dirty' = FALSE
  /\ UNCHANGED <<newest, disk, promised>>

TimerSteps(g) == TimerClaims(g) \/ TimerObsolete(g)
SaveSteps(t) ==
  \/ Snapshot(t) \/ WriteBegins(t) \/ WriteSuperseded(t) \/ Replace(t) \/ WriteFails(t)
  \/ MarksClean(t) \/ MarksDirty(t)

StoreNext ==
  \/ Change \/ Clear \/ Flush \/ Crash
  \/ \E g \in Timers : TimerSteps(g)
  \/ \E t \in Threads : SaveSteps(t)

(* Timers fire and threads run; nobody has to change or flush anything.            *)
StoreSpec ==
  /\ StoreInit /\ [][StoreNext]_storeVars
  /\ \A g \in Timers : WF_storeVars(TimerSteps(g))
  /\ \A t \in Threads : WF_storeVars(SaveSteps(t))

-----------------------------------------------------------------------------
(* Properties *)

StoreTypeOK ==
  /\ newest \in 0 .. MaxVersion /\ memory \in 0 .. newest /\ disk \in 0 .. newest
  /\ saveGen \in 0 .. MaxVersion /\ armed \in BOOLEAN /\ dirty \in BOOLEAN
  /\ storeLock \in {Loop, Unheld} /\ writerLock \in Threads \cup {Unheld}
  /\ saver \in [Threads -> {"none", "free", "armed", "claimed", "waiting", "writing",
                            "cleaning", "failing", "gone"}]
  /\ pendGen \in [Threads -> 0 .. MaxVersion]
  /\ pendVersion \in [Threads -> 0 .. newest]
  /\ promised \in 0 .. newest /\ mishaps \in 0 .. MaxFaults

\* "A generation check ... prevents an older timer snapshot from landing after a newer
\* flush or clear": the file never goes back to an older version, so that what a clear
\* has removed stays removed, and what a clear or a flush has reported as written is
\* there, after a crash too.
DiskKeepsPromises ==
  [][disk' >= disk /\ disk' >= promised' /\ memory' >= promised']_storeVars

\* A change reaches the file, by its timer, a later one, a flush or a clear, unless a
\* write fails or the process crashes.
EventuallySaved ==
  \A v \in 1 .. MaxVersion : memory = v ~> disk >= v \/ mishaps > 0

=============================================================================
