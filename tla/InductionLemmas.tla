--------------------------- MODULE InductionLemmas ---------------------------
(***************************************************************************)
(* What the proofs about sequences and sums rest on: induction over the    *)
(* naturals as the existence of a least counterexample, recursive          *)
(* functions over 0 .. n, and the start and the rest of a sequence.        *)
(***************************************************************************)
EXTENDS SequenceTheorems, WellFoundedInduction, TLAPS

(* Every non-empty set of naturals has a least element. *)
LEMMA LeastElement ==
  ASSUME NEW T \in SUBSET Nat, T # {}
  PROVE  \E m \in T : \A k \in T : m <= k
<1> DEFINE lt == OpToRel(<, Nat)
<1>1. IsWellFoundedOn(lt, Nat)
  BY NatLessThanWellFounded
<1>2. \A i, j \in Nat : i < j => <<i, j>> \in lt
  BY DEF OpToRel
<1> HIDE DEF lt
<1>3. PICK m \in T : \A k \in T : <<k, m>> \notin lt
  BY <1>1, WFMin
<1>4. \A k \in T : ~(k < m)
  BY <1>2, <1>3
<1> QED
  BY <1>4

(* Induction: a set of naturals that holds 0 and the successor of each of its
   members below n holds 0 .. n. *)
LEMMA InductionUpTo ==
  ASSUME NEW n \in Nat, NEW P, 0 \in P,
         \A k \in 0 .. n - 1 : k \in P => k + 1 \in P
  PROVE  \A k \in 0 .. n : k \in P
<1> SUFFICES ASSUME NEW k \in 0 .. n, k \notin P
             PROVE  FALSE
  OBVIOUS
<1> DEFINE T == {i \in 0 .. n : i \notin P}
<1>1. T \in SUBSET Nat /\ T # {}
  OBVIOUS
<1>2. PICK m \in T : \A i \in T : m <= i
  BY <1>1, LeastElement
<1>3. m - 1 \in 0 .. n - 1 /\ m - 1 \notin T
  BY <1>2
<1> QED
  BY <1>2, <1>3

(* g goes from a, in S, to its values over 1 .. n by the steps f[1], f[2], ... *)
Iterates(g, n, S, a, f) ==
  /\ g \in [0 .. n -> S]
  /\ g[0] = a
  /\ \A k \in 1 .. n : g[k] = f[k][g[k - 1]]

(* Such a function exists. *)
LEMMA RecursionExists ==
  ASSUME NEW n \in Nat, NEW S, NEW a \in S, NEW f, f \in [1 .. n -> [S -> S]]
  PROVE  \E g : Iterates(g, n, S, a, f)
<1> DEFINE Good(m) == \E g \in [0 .. n -> S] :
                        g[0] = a /\ \A k \in 1 .. m : g[k] = f[k][g[k - 1]]
           P == {m \in 0 .. n : Good(m)}
<1>1. Good(0)
  <2> DEFINE c == [k \in 0 .. n |-> a]
  <2>1. c \in [0 .. n -> S] /\ c[0] = a
    OBVIOUS
  <2>2. \A k \in 1 .. 0 : c[k] = f[k][c[k - 1]]
    OBVIOUS
  <2> HIDE DEF c
  <2> QED
    BY <2>1, <2>2
<1>2. ASSUME NEW m \in 0 .. n - 1, Good(m)
      PROVE  Good(m + 1)
  <2>1. PICK g \in [0 .. n -> S] :
               g[0] = a /\ \A k \in 1 .. m : g[k] = f[k][g[k - 1]]
    BY <1>2
  <2> DEFINE h == [g EXCEPT ![m + 1] = f[m + 1][g[m]]]
  <2>2. f[m + 1][g[m]] \in S
    OBVIOUS
  <2>3. h \in [0 .. n -> S] /\ h[0] = a /\ h[m + 1] = f[m + 1][g[m]]
    BY <2>1, <2>2
  <2>4. \A k \in 0 .. m : h[k] = g[k]
    OBVIOUS
  <2> HIDE DEF h
  <2>5. \A k \in 1 .. m + 1 : h[k] = f[k][h[k - 1]]
    <3> TAKE k \in 1 .. m + 1
    <3>1. CASE k = m + 1
      BY <2>3, <2>4, <3>1
    <3>2. CASE k # m + 1
      <4>1. k \in 1 .. m /\ k \in 0 .. m /\ k - 1 \in 0 .. m
        BY <3>2
      <4> QED
        BY <2>1, <2>4, <4>1
    <3> QED
      BY <3>1, <3>2
  <2> QED
    BY <2>3, <2>5
<1> HIDE DEF Good
<1>3. 0 \in P /\ \A m \in 0 .. n - 1 : m \in P => m + 1 \in P
  BY <1>1, <1>2
<1> HIDE DEF P
<1>4. \A m \in 0 .. n : m \in P
  BY <1>3, InductionUpTo, Zenon
<1>5. n \in P
  BY <1>4
<1> QED
  BY <1>5 DEF P, Good, Iterates

-----------------------------------------------------------------------------
(* What is left of s after its first k. *)
LEMMA Remainder ==
  ASSUME NEW S, NEW s \in Seq(S), NEW k \in 0 .. Len(s)
  PROVE  LET t == SubSeq(s, k + 1, Len(s))
         IN /\ t \in Seq(S)
            /\ Len(t) = Len(s) - k
            /\ \A i \in 1 .. Len(t) : k + i \in 1 .. Len(s) /\ t[i] = s[k + i]
<1>1. Len(s) \in Nat /\ \A i \in 1 .. Len(s) : s[i] \in S
  OBVIOUS
<1> DEFINE t == SubSeq(s, k + 1, Len(s))
<1>2. \A i \in k + 1 .. Len(s) : s[i] \in S
  BY <1>1
<1>3. /\ t \in Seq(S)
      /\ Len(t) = IF k + 1 <= Len(s) THEN Len(s) - (k + 1) + 1 ELSE 0
      /\ \A i \in 1 .. Len(s) - (k + 1) + 1 : t[i] = s[(k + 1) + i - 1]
  BY <1>1, <1>2, SubSeqProperties
<1>4. Len(t) = Len(s) - k
  BY <1>1, <1>3
<1> HIDE DEF t
<1>5. ASSUME NEW i \in 1 .. Len(t)
      PROVE  k + i \in 1 .. Len(s) /\ t[i] = s[k + i]
  <2>1. i \in 1 .. Len(s) - (k + 1) + 1 /\ (k + 1) + i - 1 = k + i
    BY <1>1, <1>4
  <2> QED
    BY <1>1, <1>3, <2>1
<1> QED
  BY <1>3, <1>4, <1>5 DEF t

(* The first m of s. *)
LEMMA Start ==
  ASSUME NEW S, NEW s \in Seq(S), NEW m \in 0 .. Len(s)
  PROVE  /\ SubSeq(s, 1, m) \in Seq(S)
         /\ Len(SubSeq(s, 1, m)) = m
         /\ \A i \in 1 .. m : SubSeq(s, 1, m)[i] = s[i]
<1>1. Len(s) \in Nat /\ \A i \in 1 .. m : s[i] \in S
  OBVIOUS
<1>2. /\ SubSeq(s, 1, m) \in Seq(S)
      /\ Len(SubSeq(s, 1, m)) = IF 1 <= m THEN m - 1 + 1 ELSE 0
      /\ \A i \in 1 .. m - 1 + 1 : SubSeq(s, 1, m)[i] = s[1 + i - 1]
  BY <1>1, SubSeqProperties
<1> QED
  BY <1>1, <1>2

(* A start that is one longer has one more element. *)
LEMMA StartGrows ==
  ASSUME NEW S, NEW s \in Seq(S), NEW k \in 0 .. Len(s) - 1
  PROVE  SubSeq(s, 1, k + 1) = Append(SubSeq(s, 1, k), s[k + 1])
<1> DEFINE b == SubSeq(s, 1, k)
           c == SubSeq(s, 1, k + 1)
<1>1. Len(s) \in Nat /\ k \in 0 .. Len(s) /\ k + 1 \in 0 .. Len(s) /\ s[k + 1] \in S
  OBVIOUS
<1>2. /\ b \in Seq(S) /\ Len(b) = k /\ \A i \in 1 .. k : b[i] = s[i]
      /\ c \in Seq(S) /\ Len(c) = k + 1 /\ \A i \in 1 .. k + 1 : c[i] = s[i]
  BY <1>1, Start
<1> HIDE DEF b, c
<1>3. /\ Append(b, s[k + 1]) \in Seq(S)
      /\ Len(Append(b, s[k + 1])) = k + 1
      /\ \A i \in 1 .. k + 1 : Append(b, s[k + 1])[i] = s[i]
  BY <1>1, <1>2
<1>4. c = Append(b, s[k + 1])
  BY <1>2, <1>3, SeqEqual
<1> QED
  BY <1>4 DEF b, c

=============================================================================
