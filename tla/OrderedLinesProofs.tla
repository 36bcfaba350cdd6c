--------------------------- MODULE OrderedLinesProofs ---------------------------
(***************************************************************************)
(* What the operators of OrderedLines return, for every sequence. Without  *)
(* is a recursive function: that there is one, and what it is at each      *)
(* length, is proved by induction over the numbers, stated with a set.     *)
(***************************************************************************)
EXTENDS OrderedLines, SequencesExt, WellFoundedInduction, TLAPS

--------------------------------------------------------------------------------
(* Induction *)

\* Some number of a set of numbers is the least.
LEMMA LeastNumber ==
  ASSUME NEW T \in SUBSET Nat, T # {}
  PROVE  \E n \in T : \A m \in T : n =< m
<1> DEFINE R == OpToRel(<, Nat)
<1>1. IsWellFoundedOn(R, Nat)
  BY NatLessThanWellFounded
<1>2. \E n \in T : \A m \in T : ~ (<<m, n>> \in R)
  <2> HIDE DEF R
  <2> QED BY <1>1, WFMin
<1>3. ASSUME NEW m \in Nat, NEW n \in Nat, m < n PROVE <<m, n>> \in R
  BY <1>3 DEF OpToRel
<1>4. PICK n \in T : \A m \in T : ~ (<<m, n>> \in R)
  BY <1>2
<1>5. ASSUME NEW m \in T PROVE n =< m
  <2>1. m \in Nat /\ n \in Nat
    OBVIOUS
  <2>2. CASE m < n
    <3>1. <<m, n>> \in R
      BY <2>1, <2>2, <1>3
    <3> HIDE DEF R
    <3> QED BY <3>1, <1>4
  <2> HIDE DEF R
  <2> QED BY <2>1, <2>2
<1> HIDE DEF R
<1> QED BY <1>4, <1>5

\* Induction over the numbers, with a set in the place of a predicate.
LEMMA NatIsInductive ==
  ASSUME NEW S \in SUBSET Nat, 0 \in S, \A n \in S : n + 1 \in S
  PROVE  S = Nat
<1> SUFFICES ASSUME S # Nat PROVE FALSE
  OBVIOUS
<1> DEFINE T == Nat \ S
<1>1. PICK n \in T : \A m \in T : n =< m
  BY LeastNumber
<1>2. n # 0 /\ n-1 \in Nat
  BY <1>1
<1> QED BY <1>1, <1>2

--------------------------------------------------------------------------------
(* The recursion of Without *)

\* F is the function of Without on the first n elements.
KeptUpTo(s, N, n, F) ==
  F = [i \in 0 .. n |-> IF i = 0 THEN <<>>
                       ELSE IF s[i] \in N THEN F[i - 1] ELSE Append(F[i - 1], s[i])]

\* There is one, however many elements there are.
LEMMA KeptExists ==
  ASSUME NEW s, NEW N, NEW n \in Nat
  PROVE  \E F : KeptUpTo(s, N, n, F)
<1> DEFINE S == {k \in Nat : \E F : KeptUpTo(s, N, k, F)}
<1>1. 0 \in S
  <2>1. KeptUpTo(s, N, 0, [i \in 0 .. 0 |-> <<>>])
    BY DEF KeptUpTo
  <2> QED
    BY <2>1
<1>2. ASSUME NEW k \in S PROVE k + 1 \in S
  <2>1. PICK F : KeptUpTo(s, N, k, F)
    OBVIOUS
  <2> DEFINE next == IF s[k + 1] \in N THEN F[k] ELSE Append(F[k], s[k + 1])
             G == [i \in 0 .. k + 1 |-> IF i = k + 1 THEN next ELSE F[i]]
  <2>2. \A i \in 0 .. k : F[i] = IF i = 0 THEN <<>>
                     ELSE IF s[i] \in N THEN F[i - 1] ELSE Append(F[i - 1], s[i])
    BY <2>1 DEF KeptUpTo
  <2>3. \A i \in 0 .. k + 1 : G[i] = IF i = 0 THEN <<>>
                     ELSE IF s[i] \in N THEN G[i - 1] ELSE Append(G[i - 1], s[i])
    <3> SUFFICES ASSUME NEW i \in 0 .. k + 1
                 PROVE  G[i] = IF i = 0 THEN <<>>
                        ELSE IF s[i] \in N THEN G[i - 1] ELSE Append(G[i - 1], s[i])
      OBVIOUS
    <3>1. CASE i = k + 1
      <4>1. G[i] = next /\ i # 0 /\ i - 1 = k /\ G[i - 1] = F[k]
        BY <3>1
      <4> QED
        BY <3>1, <4>1
    <3>2. CASE i \in 0 .. k
      <4>1. G[i] = F[i] /\ (i # 0 => G[i - 1] = F[i - 1])
        BY <3>2
      <4> QED
        BY <2>2, <3>2, <4>1
    <3> QED
      BY <3>1, <3>2
  <2>4. KeptUpTo(s, N, k + 1, G)
    BY <2>3 DEF KeptUpTo
  <2> QED
    BY <2>4
<1>3. S = Nat
  <2> HIDE DEF S
  <2>1. S \in SUBSET Nat
    BY DEF S
  <2> QED
    BY <1>1, <1>2, <2>1, NatIsInductive
<1> QED
  BY <1>3

--------------------------------------------------------------------------------
(* What is left out, and what is kept in order *)

\* What a sequence t has kept of the first i elements of s.
Keeps(t, s, N, i) ==
  /\ \A x : (\E j \in DOMAIN t : t[j] = x) <=> x \notin N /\ \E j \in 1 .. i : s[j] = x
  /\ \E f \in [DOMAIN t -> 1 .. i] :
       /\ \A j, k \in DOMAIN t : j < k => f[j] < f[k]
       /\ \A j \in DOMAIN t : t[j] = s[f[j]]

\* Without leaves out the elements of N, all of them, and keeps the order.
LEMMA WithoutIsThinned ==
  ASSUME NEW X, NEW s \in Seq(X), NEW N
  PROVE  /\ Without(s, N) \in Seq(X)
         /\ ToSet(Without(s, N)) = ToSet(s) \ N
         /\ Thinned(Without(s, N), s)
<1>1. PICK F : KeptUpTo(s, N, Len(s), F) /\ Without(s, N) = F[Len(s)]
  <2>1. \E F : KeptUpTo(s, N, Len(s), F)
    <3>1. Len(s) \in Nat
      OBVIOUS
    <3> QED
      BY <3>1, KeptExists
  <2> QED
    BY <2>1 DEF Without, KeptUpTo
<1>2. /\ F[0] = <<>>
      /\ \A i \in 1 .. Len(s) : F[i] = IF s[i] \in N THEN F[i - 1] ELSE Append(F[i - 1], s[i])
  <2>1. Len(s) \in Nat /\ 0 \in 0 .. Len(s)
        /\ \A i \in 1 .. Len(s) : i \in 0 .. Len(s) /\ i # 0
    OBVIOUS
  <2>2. \A i \in 0 .. Len(s) : F[i] = IF i = 0 THEN <<>>
                        ELSE IF s[i] \in N THEN F[i - 1] ELSE Append(F[i - 1], s[i])
    BY <1>1 DEF KeptUpTo
  <2> QED
    BY <2>1, <2>2
<1> DEFINE S == {i \in Nat : i =< Len(s) => F[i] \in Seq(X) /\ Keeps(F[i], s, N, i)}
<1>3. 0 \in S
  <2>1. F[0] \in Seq(X) /\ DOMAIN F[0] = {}
    BY <1>2
  <2>2. [j \in {} |-> 0] \in [DOMAIN F[0] -> 1 .. 0]
    BY <2>1
  <2> QED
    BY <2>1, <2>2 DEF Keeps
<1>4. ASSUME NEW i \in S PROVE i + 1 \in S
  <2> SUFFICES ASSUME i + 1 =< Len(s) PROVE F[i + 1] \in Seq(X) /\ Keeps(F[i + 1], s, N, i + 1)
    OBVIOUS
  <2>1. i \in Nat /\ i =< Len(s) /\ i + 1 \in 1 .. Len(s)
    BY <1>4
  <2>2. F[i] \in Seq(X) /\ Keeps(F[i], s, N, i)
    BY <2>1
  <2>3. s[i + 1] \in X /\ F[i + 1] = IF s[i + 1] \in N THEN F[i] ELSE Append(F[i], s[i + 1])
    BY <1>2, <2>1
  <2>4. PICK f \in [DOMAIN F[i] -> 1 .. i] :
           /\ \A j, k \in DOMAIN F[i] : j < k => f[j] < f[k]
           /\ \A j \in DOMAIN F[i] : F[i][j] = s[f[j]]
    BY <2>2 DEF Keeps
  <2>5. CASE s[i + 1] \in N
    <3>1. F[i + 1] = F[i]
      BY <2>3, <2>5
    <3>2. f \in [DOMAIN F[i + 1] -> 1 .. i + 1]
      BY <2>1, <3>1
    <3>3. \A x : x \notin N /\ (\E j \in 1 .. i + 1 : s[j] = x)
                 <=> x \notin N /\ \E j \in 1 .. i : s[j] = x
      BY <2>1, <2>5
    <3>4. \E h \in [DOMAIN F[i + 1] -> 1 .. i + 1] :
            /\ \A j, k \in DOMAIN F[i + 1] : j < k => h[j] < h[k]
            /\ \A j \in DOMAIN F[i + 1] : F[i + 1][j] = s[h[j]]
      BY <2>4, <3>1, <3>2
    <3>5. \A x : (\E j \in DOMAIN F[i + 1] : F[i + 1][j] = x)
                 <=> x \notin N /\ \E j \in 1 .. i + 1 : s[j] = x
      BY <2>2, <3>1, <3>3 DEF Keeps
    <3>6. F[i + 1] \in Seq(X)
      BY <2>2, <3>1
    <3> QED
      BY <3>4, <3>5, <3>6 DEF Keeps
  <2>6. CASE s[i + 1] \notin N
    <3> DEFINE n == Len(F[i]) + 1
               g == [j \in 1 .. n |-> IF j = n THEN i + 1 ELSE f[j]]
    <3>1. F[i + 1] = Append(F[i], s[i + 1]) /\ F[i] \in Seq(X)
      BY <2>2, <2>3, <2>6
    <3>2. /\ F[i + 1] \in Seq(X) /\ DOMAIN F[i + 1] = 1 .. n /\ F[i + 1][n] = s[i + 1]
          /\ \A j \in DOMAIN F[i] : j \in 1 .. n /\ j # n /\ j < n /\ F[i + 1][j] = F[i][j]
          /\ \A j \in 1 .. n : j = n \/ j \in DOMAIN F[i]
      BY <2>3, <3>1
    <3>3. g \in [1 .. n -> 1 .. i + 1]
      BY <2>1, <2>4, <3>2
    <3>4. \A j, k \in 1 .. n : j < k => g[j] < g[k]
      BY <2>1, <2>4, <3>1, <3>2
    <3>5. \A j \in 1 .. n : F[i + 1][j] = s[g[j]]
      BY <2>4, <3>1, <3>2
    <3>6. \A x : (\E j \in DOMAIN F[i + 1] : F[i + 1][j] = x)
                 <=> x \notin N /\ \E j \in 1 .. i + 1 : s[j] = x
      <4>1. \A x : (\E j \in DOMAIN F[i + 1] : F[i + 1][j] = x)
                    <=> x = s[i + 1] \/ \E j \in DOMAIN F[i] : F[i][j] = x
        BY <3>1, <3>2
      <4>2. \A x : (\E j \in 1 .. i + 1 : s[j] = x) <=> x = s[i + 1] \/ \E j \in 1 .. i : s[j] = x
        BY <2>1
      <4> QED
        BY <2>2, <2>6, <4>1, <4>2 DEF Keeps
    <3> HIDE DEF g, n
    <3>7. \E h \in [DOMAIN F[i + 1] -> 1 .. i + 1] :
            /\ \A j, k \in DOMAIN F[i + 1] : j < k => h[j] < h[k]
            /\ \A j \in DOMAIN F[i + 1] : F[i + 1][j] = s[h[j]]
      <4>1. DOMAIN F[i + 1] = 1 .. n
        BY <3>2
      <4> QED
        BY <4>1, <3>3, <3>4, <3>5
    <3>8. F[i + 1] \in Seq(X)
      BY <3>2
    <3> QED
      BY <3>6, <3>7, <3>8 DEF Keeps
  <2> QED
    BY <2>5, <2>6
<1>5. S = Nat
  <2> HIDE DEF S
  <2>1. S \in SUBSET Nat
    BY DEF S
  <2> QED
    BY <1>3, <1>4, <2>1, NatIsInductive
<1>6. Without(s, N) \in Seq(X) /\ Keeps(Without(s, N), s, N, Len(s))
  <2>1. Len(s) \in S
    BY <1>5
  <2> QED
    BY <1>1, <2>1
<1>7. ToSet(Without(s, N)) = ToSet(s) \ N
  BY <1>6 DEF ToSet, Keeps
<1>8. 1 .. Len(s) = DOMAIN s
  OBVIOUS
<1> QED
  BY <1>6, <1>7, <1>8 DEF Thinned, Keeps

\* What was without repetition stays so.
LEMMA WithoutIsInjective ==
  ASSUME NEW X, NEW s \in Seq(X), NEW N, IsInjective(s)
  PROVE  IsInjective(Without(s, N))
<1>1. PICK f \in [DOMAIN Without(s, N) -> DOMAIN s] :
        /\ \A i, j \in DOMAIN Without(s, N) : i < j => f[i] < f[j]
        /\ \A i \in DOMAIN Without(s, N) : Without(s, N)[i] = s[f[i]]
  BY WithoutIsThinned DEF Thinned
<1>2. \A i \in DOMAIN Without(s, N) : i \in Nat /\ f[i] \in Nat
  BY WithoutIsThinned, <1>1
<1>3. ASSUME NEW i \in DOMAIN Without(s, N), NEW j \in DOMAIN Without(s, N),
             Without(s, N)[i] = Without(s, N)[j]
      PROVE  i = j
  <2>1. f[i] = f[j]
    BY <1>1, <1>3 DEF IsInjective
  <2> QED
    BY <1>1, <1>2, <2>1
<1> QED
  BY <1>3 DEF IsInjective

\* A line of which nobody leaves, and one of which everybody does.
LEMMA ThinnedTrivially ==
  ASSUME NEW X, NEW s \in Seq(X)
  PROVE  Thinned(s, s) /\ Thinned(<<>>, s)
<1>1. [i \in DOMAIN s |-> i] \in [DOMAIN s -> DOMAIN s]
  OBVIOUS
<1>2. [i \in {} |-> i] \in [DOMAIN <<>> -> DOMAIN s]
  OBVIOUS
<1> QED
  BY <1>1, <1>2 DEF Thinned

\* The empty line has nobody in it.
LEMMA NobodyWaits == ToSet(<<>>) = {} /\ IsInjective(<<>>)
BY DEF ToSet, IsInjective

\* A line without anybody is empty.
LEMMA EmptyLine ==
  ASSUME NEW X, NEW s \in Seq(X)
  PROVE  ToSet(s) = {} <=> s = <<>>
<1>1. DOMAIN s = 1 .. Len(s) /\ Len(s) \in Nat
  OBVIOUS
<1>2. ASSUME s # <<>> PROVE ToSet(s) # {}
  <2>1. 1 \in DOMAIN s
    BY <1>2
  <2> QED
    BY <2>1 DEF ToSet
<1> QED
  BY <1>2, NobodyWaits

\* Somebody joins at the end.
LEMMA AppendedLine ==
  ASSUME NEW X, NEW s \in Seq(X), NEW x \in X
  PROVE  /\ Append(s, x) \in Seq(X) /\ ToSet(Append(s, x)) = ToSet(s) \cup {x}
         /\ IsInjective(s) /\ x \notin ToSet(s) => IsInjective(Append(s, x))
<1>1. /\ Append(s, x) \in Seq(X) /\ DOMAIN Append(s, x) = 1 .. Len(s) + 1
      /\ DOMAIN s = 1 .. Len(s) /\ Len(s) \in Nat /\ Append(s, x)[Len(s) + 1] = x
      /\ \A i \in 1 .. Len(s) : Append(s, x)[i] = s[i]
  OBVIOUS
<1>2. ToSet(Append(s, x)) = ToSet(s) \cup {x}
  BY <1>1 DEF ToSet
<1>3. IsInjective(s) /\ x \notin ToSet(s) => IsInjective(Append(s, x))
  BY <1>1 DEF ToSet, IsInjective
<1> QED
  BY <1>1, <1>2, <1>3

\* The first one leaves.
LEMMA TailOfLine ==
  ASSUME NEW X, NEW s \in Seq(X), s # <<>>
  PROVE  /\ Tail(s) \in Seq(X) /\ Head(s) \in ToSet(s) /\ Head(s) \in X
         /\ SubSeq(s, 2, Len(s)) = Tail(s) /\ s[1] = Head(s)
         /\ IsInjective(s) => IsInjective(Tail(s)) /\ ToSet(Tail(s)) = ToSet(s) \ {Head(s)}
<1>1. /\ Tail(s) \in Seq(X) /\ DOMAIN s = 1 .. Len(s) /\ Len(s) \in Nat /\ Len(s) # 0
      /\ DOMAIN Tail(s) = 1 .. Len(s) - 1 /\ Head(s) = s[1]
      /\ \A i \in 1 .. Len(s) - 1 : Tail(s)[i] = s[i + 1]
  OBVIOUS
<1>2. Head(s) \in ToSet(s) /\ Head(s) \in X
  BY <1>1 DEF ToSet
<1>3. SubSeq(s, 2, Len(s)) = Tail(s)
  OBVIOUS
<1>4. ASSUME IsInjective(s)
      PROVE  IsInjective(Tail(s)) /\ ToSet(Tail(s)) = ToSet(s) \ {Head(s)}
  <2>1. \A i, j \in 1 .. Len(s) : s[i] = s[j] => i = j
    BY <1>1, <1>4 DEF IsInjective
  <2>2. IsInjective(Tail(s))
    BY <1>1, <2>1 DEF IsInjective
  <2>3. ASSUME NEW y \in ToSet(Tail(s)) PROVE y \in ToSet(s) \ {Head(s)}
    BY <1>1, <2>1, <2>3 DEF ToSet
  <2>4. ASSUME NEW y \in ToSet(s) \ {Head(s)} PROVE y \in ToSet(Tail(s))
    <3>1. PICK i \in 1 .. Len(s) : y = s[i] /\ i # 1
      BY <1>1, <2>4 DEF ToSet
    <3>2. i - 1 \in 1 .. Len(s) - 1 /\ Tail(s)[i - 1] = y
      BY <1>1, <3>1
    <3> QED
      BY <1>1, <3>2 DEF ToSet
  <2> QED
    BY <2>2, <2>3, <2>4
<1> QED
  BY <1>1, <1>2, <1>3, <1>4
================================================================================
