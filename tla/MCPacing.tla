-------------------------------- MODULE MCPacing --------------------------------
(* What a request to a provider and a message to a chat wait for: the admission and *)
(* recovery of a provider, the sliding window, and the messaging queue that is paced*)
(* by one. Three independent models in one run, of which the initial state chooses  *)
(* the one that moves.                                                              *)
EXTENDS Admission, SlidingWindow, MessagingDelivery, TLC

CONSTANT Followed           \* sets of which each has at most one member of each model

VARIABLE focus

MCInit ==
  /\ Init /\ WindowInit /\ DeliveryInit
  /\ focus \in {"admission", "window", "delivery"}

MCNext ==
  /\ UNCHANGED focus
  /\ \/ focus = "admission" /\ Next /\ UNCHANGED <<windowVars, deliveryVars>>
     \/ focus = "window" /\ PromptNext /\ UNCHANGED <<vars, deliveryVars>>
     \/ focus = "delivery" /\ DeliveryNext /\ UNCHANGED <<vars, windowVars>>

WindowMoves(A) == focus = "window" /\ A
DeliveryMoves(A) == focus = "delivery" /\ A

\* The fairness of FairWindowSpec and of DeliverySpec, each for the instance that moves.
MCSpec ==
  /\ MCInit /\ [][MCNext]_<<vars, windowVars, deliveryVars, focus>>
  /\ Fairness \* of the admission: it asks nothing while no execution has begun
  /\ WF_windowVars(WindowMoves(PromptTick))
  /\ \A t \in Tasks : WF_windowVars(WindowMoves(Turn(t))) /\ WF_windowVars(WindowMoves(Wakes(t)))
  /\ \A c \in Calls : WF_deliveryVars(DeliveryMoves(TaskSteps(c)))
  /\ WF_deliveryVars(DeliveryMoves(WorkerSteps))
  /\ WF_deliveryVars(DeliveryMoves(FloodOver))
  /\ WF_deliveryVars(DeliveryMoves(CloseProceeds))

\* The states of all three are well formed.
TypesOK == TypeOK /\ WindowTypeOK /\ DeliveryTypeOK

\* Something that was asked for and is not answered yet: an attempt, a place in the
\* window, a delivery.
Asked(w) ==
  \/ w \in Sessions /\ pc[w] \notin {"idle"} \cup Ended
  \/ w \in Tasks /\ place[w] \in {"asking", "sleeping"}
  \/ w \in Calls /\ call[w] \notin {"unmade"} \cup CallEnded

\* Whoever asks is answered. Only one model moves, so that one formula can follow one
\* of each; executions are interchangeable and so are the callers of the window, calls
\* are not. This is EveryExecutionEnds, EveryAskerAnswered and EveryCallEnds.
EveryoneAnswered ==
  \A W \in Followed : (\E w \in W : Asked(w)) ~> \A w \in W : ~Asked(w)
=============================================================================
