------------------------------- MODULE MCMessaging -------------------------------
(* The rest of messaging: commands and prompts, voice notes, the session store and  *)
(* the CLI sessions. Four independent models in one run, of which the initial state *)
(* chooses the one that moves; for the CLI sessions also whether two runners meet   *)
(* at one session or one runner has several.                                        *)
EXTENDS MessagingWorkflow, VoiceNotes, SessionPersistence, ManagedSessions, TLC

CONSTANTS
  SecondRunner, SecondSession, SecondId,
  Followed,                 \* sets of which each has at most one member of each model
  Firsts,                   \* of each kind, whose members are interchangeable, the first
  Scenes                    \* larger crowds that come too

VARIABLE focus

allVars == <<workflowVars, voiceVars, storeVars, sessionVars, focus>>

MCChatOf == [a \in Actors |-> IF a \in Notices THEN "home" ELSE "chat"]

\* Three messages, of which any may never come, or a scene: a second prompt that is live
\* while the first is faceless, or a second clear of a reply that meets it.
Cast(comers) ==
  /\ comers \in Scenes \/ (Cardinality(comers) = 3 /\ \A s \in Scenes : ~(comers \subseteq s))
  /\ \A kind \in {Turns, Clears, ReplyClears} :
       comers \cap kind # {} => Firsts \cap kind \subseteq comers

MCInit ==
  /\ WorkflowInit /\ VoiceInit /\ StoreInit
  /\ focus \in {"workflow", "voice", "store", "sharing", "alone"}
  /\ IF focus = "workflow" THEN Cast({a \in Actors : at[a] = "unsent"})
     ELSE \A a \in Actors : at[a] = "absent"
  /\ ManagerInit /\ closed = (IF focus = "sharing" THEN {SecondSession} ELSE {})
  /\ proc = [s \in Sessions |-> IF s \in closed THEN "exited" ELSE "unmade"]

\* One runner and one id the CLI reports are enough when a runner is alone.
Alone ==
  /\ runner'[SecondRunner] = "idle"
  /\ registered'[SecondId] = None /\ pending'[SecondId] = None

SessionMoves(A) == focus \in {"sharing", "alone"} /\ A /\ (focus = "alone" => Alone)

MCNext ==
  /\ UNCHANGED focus
  /\ \/ focus = "workflow" /\ WorkflowNext /\ UNCHANGED <<voiceVars, storeVars, sessionVars>>
     \/ focus = "voice" /\ VoiceNext /\ UNCHANGED <<workflowVars, storeVars, sessionVars>>
     \/ focus = "store" /\ StoreNext /\ UNCHANGED <<workflowVars, voiceVars, sessionVars>>
     \/ /\ SessionMoves(SessionsNext) /\ UNCHANGED <<workflowVars, voiceVars, storeVars>>

WorkflowMoves(A) == focus = "workflow" /\ A
VoiceMoves(A) == focus = "voice" /\ A
StoreMoves(A) == focus = "store" /\ A

SharingMoves(A) == focus = "sharing" /\ A

\* The fairness of each specification, for the model that moves; of a runner that is
\* alone only safety is checked.
MCSpec ==
  /\ MCInit /\ [][MCNext]_allVars
  /\ WF_workflowVars(WorkflowMoves(HolderSteps))
  /\ \A n \in Notes : /\ WF_voiceVars(VoiceMoves(FlowSteps(n)))
                      /\ WF_voiceVars(VoiceMoves(ChildStarts(n) \/ ChildEnds(n)))
  /\ \A k \in Cancellers : WF_voiceVars(VoiceMoves(CancelTakes(k) \/ CancelEnds(k)))
  /\ \A g \in Timers : WF_storeVars(StoreMoves(TimerSteps(g)))
  /\ \A t \in Threads : WF_storeVars(StoreMoves(SaveSteps(t)))
  /\ \A r \in Runners : SF_sessionVars(SharingMoves(TaskSteps(r)))
  /\ \A s \in Sessions : /\ WF_sessionVars(SharingMoves(ProcessExits(s)))
                         /\ WF_sessionVars(SharingMoves(Finalized(s)))
  /\ SF_sessionVars(SharingMoves(StopSteps))

\* Something that has begun: a runner's turn, a note whose flow waits or that joins
\* others, a command that joins notes, versions that no fault keeps from the file, a
\* hold of the state lock.
Begun(w) ==
  \/ w \in Runners /\ focus = "sharing" /\ runner[w] # "idle"
  \/ w \in Notes /\ flow[w] = "waiting"
  \/ w \in Cancellers /\ cancelling[w] = "joining"
  \/ w = "unsaved" /\ memory > disk /\ mishaps = 0
  \/ w = Nobody /\ stateLock # Nobody

\* What has begun ends. Only one model moves, so that one formula can follow something
\* of each; notes are interchangeable and so are runners. This is RunnersLeave, VoicesEnd
\* and LockGivenBack, and more than EventuallySaved: the file catches up with the memory.
MessagingEnds ==
  \A W \in Followed : (\E w \in W : Begun(w)) ~> \A w \in W : ~Begun(w)
=============================================================================
