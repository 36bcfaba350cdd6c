------------------------------ MODULE SerialQueue ------------------------------
(* What conversation trees promise: a set of lines, each of which runs one job at *)
(* a time, in the order of submission. Waiting jobs can be withdrawn; the running *)
(* one may be asked to stop, but only its own end makes room for the next.        *)
EXTENDS OrderedLines

CONSTANTS Lines, Jobs, NoJob

VARIABLES
  waiting,                  \* waiting[l]: the jobs in line l, first come first
  running                   \* running[l]: the job that runs, or NoJob

vars == <<waiting, running>>

Init == waiting = [l \in Lines |-> <<>>] /\ running = [l \in Lines |-> NoJob]

Submit(l, j) ==
  IF running[l] = NoJob
    THEN running' = [running EXCEPT ![l] = j] /\ UNCHANGED waiting
    ELSE waiting' = [waiting EXCEPT ![l] = Append(@, j)] /\ UNCHANGED running

\* the running job has ended
Advance(l) ==
  /\ running[l] # NoJob
  /\ IF waiting[l] = <<>>
       THEN running' = [running EXCEPT ![l] = NoJob] /\ UNCHANGED waiting
       ELSE /\ running' = [running EXCEPT ![l] = Head(waiting[l])]
            /\ waiting' = [waiting EXCEPT ![l] = Tail(@)]

\* any of the waiting jobs leave, in any of the lines; the others keep their order
Withdraw ==
  /\ waiting' \in [Lines -> Seq(Jobs)] /\ \A l \in Lines : Thinned(waiting'[l], waiting[l])
  /\ UNCHANGED running

Restart == waiting' = [l \in Lines |-> <<>>] /\ running' = [l \in Lines |-> NoJob]

Next ==
  \/ \E l \in Lines, j \in Jobs : Submit(l, j)
  \/ \E l \in Lines : Advance(l)
  \/ Withdraw
  \/ Restart

Spec == Init /\ [][Next]_vars

=============================================================================
