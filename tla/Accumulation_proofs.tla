--------------------------- MODULE Accumulation_proofs ---------------------------
(***************************************************************************)
(* Induction over the natural numbers and over sequences, for a set of     *)
(* those of which something holds, and what Accumulated computes.          *)
(***************************************************************************)
EXTENDS Accumulation, Integers, SequenceTheorems, WellFoundedInduction, TLAPS

Less == {p \in Nat \X Nat : p[1] < p[2]}

\* Every set of natural numbers that is not empty has a least element.
LEMMA LeastElement ==
  ASSUME NEW T, T \subseteq Nat, T # {}
  PROVE  \E n \in T : \A m \in T : n <= m
<1>1. OpToRel(<, Nat) = Less
  BY DEF OpToRel, Less
<1>2. IsWellFoundedOn(Less, Nat)
  BY <1>1, NatLessThanWellFounded
<1>3. PICK n \in T : \A m \in T : ~ (<<m, n>> \in Less)
  BY <1>2, WFMin
<1>4. ASSUME NEW m \in T PROVE n <= m
  <2>1. ~(m < n)
    BY <1>3 DEF Less
  <2> QED
    BY <2>1
<1> QED
  BY <1>4

\* What holds of 0, and of n + 1 if it holds of n, holds of every natural number.
LEMMA Induction ==
  ASSUME NEW P, 0 \in P, \A n \in Nat : n \in P => n + 1 \in P
  PROVE  Nat \subseteq P
<1> SUFFICES ASSUME Nat \ P # {} PROVE FALSE
  OBVIOUS
<1>1. PICK n \in Nat \ P : \A m \in Nat \ P : n <= m
  BY LeastElement
<1>2. n - 1 \in Nat /\ n - 1 \in P
  BY <1>1
<1> QED
  BY <1>2

\* What holds of the empty sequence, and of one with an element more, holds of every sequence.
LEMMA SequenceInduction ==
  ASSUME NEW S, NEW P, <<>> \in P,
         \A s \in Seq(S), c \in S : s \in P => Append(s, c) \in P
  PROVE  Seq(S) \subseteq P
<1> DEFINE Lengths == {n \in Nat : \A s \in Seq(S) : Len(s) = n => s \in P}
<1>1. 0 \in Lengths
  <2>1. \A s \in Seq(S) : Len(s) = 0 => s = <<>>
    BY EmptySeq
  <2> QED
    BY <2>1
<1>2. ASSUME NEW n \in Nat, n \in Lengths PROVE n + 1 \in Lengths
  <2> SUFFICES ASSUME NEW s \in Seq(S), Len(s) = n + 1 PROVE s \in P
    OBVIOUS
  <2>1. PICK t \in Seq(S), c \in S : s = Append(t, c)
    BY SequenceEmptyOrAppend
  <2>2. Len(t) = n
    BY <2>1
  <2> QED
    BY <1>2, <2>1, <2>2
<1>3. Nat \subseteq Lengths
  <2> HIDE DEF Lengths
  <2> QED
    BY <1>1, <1>2, Induction
<1> QED
  BY <1>3

\* That f computes, for every n up to N, what the loop has accumulated after n elements.
Computes(f, N, op, base, s) ==
  \A n \in 0 .. N : f[n] = IF n = 0 THEN base ELSE op[<<f[n - 1], s[n]>>]

\* That op takes what was accumulated, in A, and an element, in B.
Operation(op, A, B) == op \in [A \X B -> A]

Step(f, op, base, s) == [n \in 0 .. Len(s) |-> IF n = 0 THEN base ELSE op[<<f[n - 1], s[n]>>]]

\* Such a function goes on for an element more.
LEMMA ComputesOn ==
  ASSUME NEW A, NEW B, NEW op, Operation(op, A, B), NEW base \in A, NEW s \in Seq(B),
         NEW n \in Nat, n + 1 <= Len(s), NEW f \in [0 .. n -> A], Computes(f, n, op, base, s)
  PROVE  \E g \in [0 .. n + 1 -> A] : Computes(g, n + 1, op, base, s)
<1> DEFINE last == op[<<f[n], s[n + 1]>>]
           g == [m \in 0 .. n + 1 |-> IF m <= n THEN f[m] ELSE last]
<1>1. last \in A
  <2>1. s[n + 1] \in B /\ f[n] \in A
    OBVIOUS
  <2> QED
    BY <2>1 DEF Operation
<1>2. g \in [0 .. n + 1 -> A]
  <2> HIDE DEF last
  <2> QED
    BY <1>1
<1>3. (\A m \in 0 .. n : g[m] = f[m]) /\ g[n + 1] = last
  OBVIOUS
<1> HIDE DEF g
<1>4. ASSUME NEW m \in 0 .. n + 1
      PROVE  g[m] = IF m = 0 THEN base ELSE op[<<g[m - 1], s[m]>>]
  <2>1. CASE m = n + 1
    BY <1>3, <2>1
  <2>2. CASE m \in 0 .. n
    <3>1. g[m] = f[m] /\ (m # 0 => g[m - 1] = f[m - 1])
      BY <1>3, <2>2
    <3>2. f[m] = IF m = 0 THEN base ELSE op[<<f[m - 1], s[m]>>]
      BY <2>2 DEF Computes
    <3> QED
      BY <3>1, <3>2
  <2> QED
    BY <2>1, <2>2
<1> QED
  BY <1>2, <1>4 DEF Computes

\* The function of the definition exists.
LEMMA RecursionDefined ==
  ASSUME NEW A, NEW B, NEW op, Operation(op, A, B), NEW base \in A, NEW s \in Seq(B)
  PROVE  \E f \in [0 .. Len(s) -> A] : Computes(f, Len(s), op, base, s)
<1> DEFINE Solved == {n \in Nat : n <= Len(s) =>
                                    \E f \in [0 .. n -> A] : Computes(f, n, op, base, s)}
<1>1. 0 \in Solved
  <2> DEFINE f == [m \in 0 .. 0 |-> base]
  <2>1. f \in [0 .. 0 -> A] /\ Computes(f, 0, op, base, s)
    BY DEF Computes
  <2> QED
    BY <2>1
<1>2. ASSUME NEW n \in Nat, n \in Solved PROVE n + 1 \in Solved
  <2> SUFFICES ASSUME n + 1 <= Len(s)
               PROVE  \E f \in [0 .. n + 1 -> A] : Computes(f, n + 1, op, base, s)
    OBVIOUS
  <2>1. Len(s) \in Nat
    OBVIOUS
  <2>2. PICK f \in [0 .. n -> A] : Computes(f, n, op, base, s)
    BY <1>2, <2>1
  <2> QED
    BY <2>2, ComputesOn
<1>3. Nat \subseteq Solved
  <2> HIDE DEF Solved
  <2> QED
    BY <1>1, <1>2, Induction
<1>4. Len(s) \in Nat
  OBVIOUS
<1> QED
  BY <1>3, <1>4

\* There is only one such function for two sequences, as far as they agree.
LEMMA RecursionUnique ==
  ASSUME NEW op, NEW base, NEW s, NEW t, NEW f, NEW g, NEW N \in Nat,
         \A n \in 1 .. N : s[n] = t[n],
         Computes(f, N, op, base, s), Computes(g, N, op, base, t)
  PROVE  f[N] = g[N]
<1> DEFINE Equal == {n \in Nat : n <= N => f[n] = g[n]}
<1>1. 0 \in Equal
  <2> DEFINE zero == 0
  <2>0. zero \in 0 .. N /\ zero = 0
    OBVIOUS
  <2> HIDE DEF zero
  <2>1. f[zero] = base
    BY <2>0 DEF Computes
  <2>2. g[zero] = base
    BY <2>0 DEF Computes
  <2> QED
    BY <2>0, <2>1, <2>2
<1>2. ASSUME NEW n \in Nat, n \in Equal PROVE n + 1 \in Equal
  <2> SUFFICES ASSUME n + 1 <= N PROVE f[n + 1] = g[n + 1]
    OBVIOUS
  <2>1. f[n] = g[n] /\ s[n + 1] = t[n + 1]
    BY <1>2
  <2>2. n + 1 \in 0 .. N /\ n + 1 # 0 /\ (n + 1) - 1 = n
    OBVIOUS
  <2>3. f[n + 1] = op[<<f[(n + 1) - 1], s[n + 1]>>]
    BY <2>2 DEF Computes
  <2>4. g[n + 1] = op[<<g[(n + 1) - 1], t[n + 1]>>]
    BY <2>2 DEF Computes
  <2> QED
    BY <2>1, <2>2, <2>3, <2>4
<1>3. Nat \subseteq Equal
  <2> HIDE DEF Equal
  <2> QED
    BY <1>1, <1>2, Induction
<1> QED
  BY <1>3

\* What Accumulated is, without its recursion: the last value of such a function.
LEMMA AccumulatedIs ==
  ASSUME NEW A, NEW B, NEW op, Operation(op, A, B), NEW base \in A, NEW s \in Seq(B)
  PROVE  \E f \in [0 .. Len(s) -> A] : /\ Computes(f, Len(s), op, base, s)
                                       /\ Accumulated(op, base, s) = f[Len(s)]
<1> DEFINE upTo == CHOOSE f : f = Step(f, op, base, s)
<1>1. Len(s) \in Nat
  OBVIOUS
<1>2. PICK f \in [0 .. Len(s) -> A] : Computes(f, Len(s), op, base, s)
  BY RecursionDefined
<1>3. f = Step(f, op, base, s)
  BY <1>2 DEF Computes, Step
<1>4. upTo = Step(upTo, op, base, s)
  BY <1>3
<1>5. Accumulated(op, base, s) = upTo[Len(s)]
  BY DEF Accumulated, Step
<1> HIDE DEF upTo
<1>6. Computes(upTo, Len(s), op, base, s)
  BY <1>4 DEF Computes, Step
<1>7. upTo[Len(s)] = f[Len(s)]
  BY <1>1, <1>2, <1>6, RecursionUnique
<1> QED
  BY <1>2, <1>5, <1>7

\* The loop over no element leaves the base.
LEMMA AccumulatedEmpty ==
  ASSUME NEW A, NEW B, NEW op, Operation(op, A, B), NEW base \in A
  PROVE  Accumulated(op, base, <<>>) = base
<1> DEFINE s == <<>>
<1>1. s \in Seq(B)
  BY EmptySeq
<1>3. Len(s) = 0
  BY EmptySeq
<1> HIDE DEF s
<1>2. PICK f \in [0 .. Len(s) -> A] : /\ Computes(f, Len(s), op, base, s)
                                      /\ Accumulated(op, base, s) = f[Len(s)]
  BY <1>1, AccumulatedIs
<1> QED
  BY <1>2, <1>3 DEF Computes, s

\* What is accumulated has the type of the base.
LEMMA AccumulatedType ==
  ASSUME NEW A, NEW B, NEW op, Operation(op, A, B), NEW base \in A, NEW s \in Seq(B)
  PROVE  Accumulated(op, base, s) \in A
<1>1. PICK f \in [0 .. Len(s) -> A] : /\ Computes(f, Len(s), op, base, s)
                                      /\ Accumulated(op, base, s) = f[Len(s)]
  BY AccumulatedIs
<1>2. Len(s) \in Nat
  OBVIOUS
<1> QED
  BY <1>1, <1>2

\* What an operation makes of what was accumulated and an element.
Applied(op, x, c) == op[<<x, c>>]

\* One more element is one more operation.
LEMMA AccumulatedAppend ==
  ASSUME NEW A, NEW B, NEW op, Operation(op, A, B), NEW base \in A, NEW s \in Seq(B), NEW c \in B
  PROVE  Accumulated(op, base, Append(s, c)) = Applied(op, Accumulated(op, base, s), c)
<1> DEFINE t == Append(s, c)
<1>1. /\ Len(s) \in Nat /\ t \in Seq(B) /\ Len(t) = Len(s) + 1
      /\ \A n \in 1 .. Len(s) : s[n] = t[n]
      /\ t[Len(s) + 1] = c
  OBVIOUS
<1> HIDE DEF t
<1>2. PICK f \in [0 .. Len(s) -> A] : /\ Computes(f, Len(s), op, base, s)
                                      /\ Accumulated(op, base, s) = f[Len(s)]
  BY AccumulatedIs
<1>3. PICK g \in [0 .. Len(t) -> A] : /\ Computes(g, Len(t), op, base, t)
                                      /\ Accumulated(op, base, t) = g[Len(t)]
  BY <1>1, AccumulatedIs, SMTT(40)
<1>4. f[Len(s)] = g[Len(s)]
  <2>1. Computes(g, Len(s), op, base, t)
    BY <1>1, <1>3 DEF Computes
  <2> QED
    BY <1>1, <1>2, <2>1, RecursionUnique, SMTT(60)
<1>5. g[Len(t)] = op[<<g[Len(s)], c>>]
  BY <1>1, <1>3 DEF Computes
<1> QED
  BY <1>2, <1>3, <1>4, <1>5 DEF t, Applied
===============================================================================
