------------------------------- MODULE OrderedLines -------------------------------
(* Lines that keep their order when some of those who wait leave.                  *)
EXTENDS Naturals, Sequences, FiniteSets

\* s without the elements of N, in their order. It is SelectSeq, as a function that
\* can be reasoned about.
Without(s, N) ==
  LET kept[i \in 0 .. Len(s)] ==
        IF i = 0 THEN <<>>
        ELSE IF s[i] \in N THEN kept[i - 1] ELSE Append(kept[i - 1], s[i])
  IN  kept[Len(s)]

\* t is s with some of its elements left out.
Thinned(t, s) ==
  \E f \in [DOMAIN t -> DOMAIN s] :
    /\ \A i, j \in DOMAIN t : i < j => f[i] < f[j]
    /\ \A i \in DOMAIN t : t[i] = s[f[i]]
================================================================================
