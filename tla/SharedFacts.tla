---------------------------- MODULE SharedFacts -----------------------------
(***************************************************************************)
(* Facts about sequences, loops and the Merkle tree that the proofs share. *)
(***************************************************************************)
EXTENDS Merkle, SequencesExt, SequenceTheorems, FiniteSetTheorems, TLAPS

\* A sequence, of whatever elements.
IsSeq(s) == \E S : s \in Seq(S)

\* The elements of s, and that none occurs twice.
Elements(s) == { s[i] : i \in 1..Len(s) }
Distinct(s) == \A i, j \in 1..Len(s) : s[i] = s[j] => i = j

\* What appending does to a sequence of any elements.
LEMMA AppendAny ==
  ASSUME NEW s, IsSeq(s), NEW e
  PROVE  /\ IsSeq(Append(s, e))
         /\ Len(Append(s, e)) = Len(s) + 1 /\ Len(s) \in Nat
         /\ \A i \in 1..Len(s) : Append(s, e)[i] = s[i]
         /\ Append(s, e)[Len(s) + 1] = e
  <1>1. PICK S : s \in Seq(S)
    BY DEF IsSeq
  <1>2. s \in Seq(S \cup {e}) /\ e \in S \cup {e}
    BY <1>1, SeqMonotonic
  <1>3. Len(s) \in Nat
    BY <1>1, LenProperties
  <1> QED
    BY <1>2, <1>3, AppendProperties DEF IsSeq

\* A function on 1..n is a sequence of length n.
LEMMA FunctionIsSeq ==
  ASSUME NEW n \in Nat, NEW c, c = [i \in 1..n |-> c[i]]
  PROVE  IsSeq(c) /\ Len(c) = n
  <1> DEFINE S == { c[i] : i \in 1..n }
  <1>1. c \in [1..n -> S]
    OBVIOUS
  <1> HIDE DEF S
  <1>2. c \in Seq(S)
    BY <1>1, SeqDef
  <1>3. DOMAIN c = 1..n /\ DOMAIN c = 1..Len(c) /\ Len(c) \in Nat
    BY <1>1, <1>2, LenProperties
  <1> QED
    BY <1>2, <1>3 DEF IsSeq

\* The length of a sequence of any elements.
LEMMA LenNat ==
  ASSUME NEW s, IsSeq(s)
  PROVE  Len(s) \in Nat
  BY AppendAny

\* A loop that moves the head of b to the end of a keeps a \o b.
LEMMA MoveHead ==
  ASSUME NEW S, NEW a \in Seq(S), NEW b \in Seq(S), b # <<>>
  PROVE  /\ Head(b) \in S /\ Tail(b) \in Seq(S) /\ Append(a, Head(b)) \in Seq(S)
         /\ Append(a, Head(b)) \o Tail(b) = a \o b
         /\ a \o <<>> = a
  <1>1. /\ Head(b) \in S /\ Tail(b) \in Seq(S) /\ Len(Tail(b)) = Len(b) - 1
        /\ \A i \in 1..Len(Tail(b)) : Tail(b)[i] = b[i + 1]
    BY HeadTailProperties
  <1>2. Append(a, Head(b)) \in Seq(S) /\ Append(a, Head(b)) = a \o <<Head(b)>> /\ <<Head(b)>> \in Seq(S)
    BY <1>1, AppendProperties, AppendIsConcat
  <1>3. b = <<Head(b)>> \o Tail(b)
    BY ConcatSimplifications
  <1>4. (a \o <<Head(b)>>) \o Tail(b) = a \o (<<Head(b)>> \o Tail(b))
    BY <1>1, <1>2, ConcatAssociative
  <1>5. a \o <<>> = a
    BY ConcatEmptySeq
  <1> QED
    BY <1>1, <1>2, <1>3, <1>4, <1>5

\* Removing the i-th element removes it alone.
LEMMA RemoveFacts ==
  ASSUME NEW S, NEW s \in Seq(S), NEW i \in 1..Len(s), Distinct(s)
  PROVE  /\ RemoveAt(s, i) \in Seq(S)
         /\ Distinct(RemoveAt(s, i))
         /\ Elements(RemoveAt(s, i)) = Elements(s) \ {s[i]}
  <1> DEFINE a == SubSeq(s, 1, i - 1)
             b == SubSeq(s, i + 1, Len(s))
             t == RemoveAt(s, i)
  <1>0. Len(s) \in Nat /\ \A k \in 1..Len(s) : s[k] \in S
    BY LenProperties, ElementOfSeq
  <1>1. a \in Seq(S) /\ Len(a) = i - 1 /\ \A k \in 1..(i - 1) : a[k] = s[k]
    <2>1. \A k \in 1..(i - 1) : s[k] \in S
      BY <1>0
    <2>2. 1 \in Int /\ i - 1 \in Int
      BY <1>0
    <2>3. /\ SubSeq(s, 1, i - 1) \in Seq(S)
          /\ Len(SubSeq(s, 1, i - 1)) = IF 1 <= i - 1 THEN (i - 1) - 1 + 1 ELSE 0
          /\ \A k \in 1..((i - 1) - 1 + 1) : SubSeq(s, 1, i - 1)[k] = s[1 + k - 1]
      BY <2>1, <2>2, SubSeqProperties
    <2> QED
      BY <1>0, <2>3
  <1>2. b \in Seq(S) /\ Len(b) = Len(s) - i /\ \A k \in 1..(Len(s) - i) : b[k] = s[i + k]
    <2>1. \A k \in (i + 1)..Len(s) : s[k] \in S
      BY <1>0
    <2>2. i + 1 \in Int /\ Len(s) \in Int
      BY <1>0
    <2>3. /\ SubSeq(s, i + 1, Len(s)) \in Seq(S)
          /\ Len(SubSeq(s, i + 1, Len(s))) = IF i + 1 <= Len(s) THEN Len(s) - (i + 1) + 1 ELSE 0
          /\ \A k \in 1..(Len(s) - (i + 1) + 1) : SubSeq(s, i + 1, Len(s))[k] = s[(i + 1) + k - 1]
      BY <2>1, <2>2, SubSeqProperties
    <2> QED
      BY <1>0, <2>3
  <1> HIDE DEF a, b
  <1>3. t = a \o b
    BY DEF RemoveAt, a, b
  <1>4. /\ t \in Seq(S) /\ Len(t) = Len(s) - 1
        /\ \A k \in 1..Len(t) : t[k] = IF k < i THEN s[k] ELSE s[k + 1]
    <2>1. a \o b \in Seq(S) /\ Len(a \o b) = Len(a) + Len(b)
          /\ \A k \in 1..(Len(a) + Len(b)) : (a \o b)[k] = IF k <= Len(a) THEN a[k] ELSE b[k - Len(a)]
      BY <1>1, <1>2, ConcatProperties
    <2>2. t \in Seq(S) /\ Len(t) = Len(s) - 1
      BY <1>0, <1>1, <1>2, <1>3, <2>1
    <2>3. ASSUME NEW k \in 1..Len(t) PROVE t[k] = IF k < i THEN s[k] ELSE s[k + 1]
      <3>1. k \in 1..(Len(a) + Len(b)) /\ Len(t) \in Int
        BY <1>0, <1>1, <1>2, <2>2
      <3>2. t[k] = IF k <= Len(a) THEN a[k] ELSE b[k - Len(a)]
        BY <1>3, <2>1, <3>1
      <3>3. CASE k <= i - 1
        BY <1>0, <1>1, <3>2, <3>3
      <3>4. CASE ~(k <= i - 1)
        <4>1. k - Len(a) \in 1..(Len(s) - i) /\ i + (k - Len(a)) = k + 1
          BY <1>0, <1>1, <2>2, <3>4
        <4> QED
          BY <1>0, <1>1, <1>2, <3>2, <3>4, <4>1
      <3> QED
        BY <3>3, <3>4
    <2> QED
      BY <2>2, <2>3
  <1> HIDE DEF t
  <1>5. Distinct(t)
    BY <1>0, <1>4 DEF Distinct
  <1>6. Elements(t) \subseteq Elements(s) \ {s[i]}
    BY <1>0, <1>4 DEF Distinct, Elements
  <1>7. ASSUME NEW x \in Elements(s), x # s[i] PROVE x \in Elements(t)
    <2>1. PICK k \in 1..Len(s) : s[k] = x
      BY DEF Elements
    <2>2. CASE k < i
      BY <1>0, <1>4, <2>1, <2>2 DEF Elements
    <2>3. CASE k > i
      <3>1. k - 1 \in 1..Len(t) /\ t[k - 1] = x
        BY <1>0, <1>4, <2>1, <2>3
      <3> QED
        BY <3>1 DEF Elements
    <2> QED
      BY <1>0, <1>7, <2>1, <2>2, <2>3
  <1> QED
    BY <1>4, <1>5, <1>6, <1>7 DEF t

-----------------------------------------------------------------------------
(* Induction, over a set in place of a predicate.                          *)

\* A set of naturals that has 0 and the successor of each of its elements has
\* them all.
LEMMA Induction ==
  ASSUME NEW T, 0 \in T, \A n \in T \cap Nat : n + 1 \in T
  PROVE  \A n \in Nat : n \in T
  <1> SUFFICES ASSUME NEW m \in Nat \ T PROVE FALSE
    OBVIOUS
  <1> DEFINE U == Nat \ T
             R == OpToRel(<, Nat)
  <1>1. R = { x \in Nat \X Nat : x[1] < x[2] }
    BY DEF OpToRel
  <1>2. IsWellFoundedOn(R, Nat)
    BY NatLessThanWellFounded
  <1> HIDE DEF R
  <1>3. PICK x \in U : \A y \in U : ~(<<y, x>> \in R)
    BY <1>2, WFMin
  <1>4. x # 0 /\ x - 1 \in Nat /\ x - 1 < x
    OBVIOUS
  <1>5. x - 1 \notin U
    BY <1>1, <1>3, <1>4
  <1>6. x - 1 \in T \cap Nat
    BY <1>4, <1>5
  <1>7. (x - 1) + 1 \in T
    BY <1>6
  <1>8. x \in T
    BY <1>4, <1>7
  <1> QED
    BY <1>8

\* A set with a natural has a least one.
LEMMA Least ==
  ASSUME NEW T, NEW n \in Nat, n \in T
  PROVE  \E m \in Nat : m \in T /\ \A k \in 0..(m - 1) : k \notin T
  <1> DEFINE U == { k \in Nat : \A j \in 0..k : j \notin T }
  <1> SUFFICES ASSUME \A m \in Nat : m \in T => \E k \in 0..(m - 1) : k \in T
               PROVE  FALSE
    OBVIOUS
  <1>1. 0 \in U
    OBVIOUS
  <1>2. \A k \in U \cap Nat : k + 1 \in U
    <2> SUFFICES ASSUME NEW k \in U PROVE k + 1 \in U
      OBVIOUS
    <2>1. k \in Nat /\ k + 1 \in Nat /\ \A j \in 0..k : j \notin T
      OBVIOUS
    <2>2. k + 1 \notin T
      BY <2>1
    <2> QED
      BY <2>1, <2>2
  <1> HIDE DEF U
  <1>3. n \in U
    BY <1>1, <1>2, Induction
  <1> QED
    BY <1>3 DEF U

-----------------------------------------------------------------------------
(* The Merkle tree.                                                        *)

\* One turn of the loop in Reduce.
Turn(level) == IF Len(level) > 1 THEN Combine(level) ELSE level

\* f holds the levels of a tree over s, up to n.
Levels(f, s, n) == f = [k \in 0..n |-> IF k = 0 THEN s ELSE Turn(f[k - 1])]

LEMMA LevelsExist ==
  ASSUME NEW s, NEW n \in Nat
  PROVE  \E f : Levels(f, s, n)
  <1> DEFINE T == { m \in Nat : \E f : Levels(f, s, m) }
  <1>1. 0 \in T
    <2> DEFINE f == [k \in 0..0 |-> s]
    <2>1. Levels(f, s, 0)
      BY DEF Levels
    <2> QED
      BY <2>1
  <1>2. \A m \in T \cap Nat : m + 1 \in T
    <2> SUFFICES ASSUME NEW m \in Nat, NEW f, Levels(f, s, m) PROVE \E g : Levels(g, s, m + 1)
      OBVIOUS
    <2> DEFINE g == [k \in 0..(m + 1) |-> IF k = m + 1 THEN Turn(f[m]) ELSE f[k]]
    <2>1. \A k \in 0..m : f[k] = IF k = 0 THEN s ELSE Turn(f[k - 1])
      BY DEF Levels
    <2>2. \A k \in 0..(m + 1) : g[k] = IF k = 0 THEN s ELSE Turn(g[k - 1])
      BY <2>1
    <2>3. g = [k \in 0..(m + 1) |-> g[k]]
      OBVIOUS
    <2> HIDE DEF g
    <2>4. Levels(g, s, m + 1)
      BY <2>2, <2>3 DEF Levels
    <2> QED
      BY <2>4
  <1> HIDE DEF T
  <1>3. n \in T
    BY <1>1, <1>2, Induction
  <1> QED
    BY <1>3 DEF T

\* Reduce ends with the first node of the last level.
LEMMA ReduceLevels ==
  ASSUME NEW s, Len(s) \in Nat
  PROVE  \E f : Levels(f, s, Len(s)) /\ Reduce(s) = f[Len(s)][1]
  <1> DEFINE f == CHOOSE g : Levels(g, s, Len(s))
  <1>1. Levels(f, s, Len(s))
    BY LevelsExist
  <1>2. Reduce(s) = f[Len(s)][1]
    BY DEF Reduce, Levels, Turn
  <1> QED
    BY <1>1, <1>2

\* What pairing the nodes of a level yields.
LEMMA CombineFacts ==
  ASSUME NEW s, IsSeq(s), Len(s) > 1
  PROVE  /\ IsSeq(Combine(s))
         /\ Len(Combine(s)) \in Nat /\ 0 < Len(Combine(s)) /\ Len(Combine(s)) < Len(s)
         /\ Len(Combine(s)) = (Len(s) + 1) \div 2
         /\ \A i \in 1..Len(Combine(s)) :
              /\ Combine(s)[i] = <<s[2 * i - 1], IF 2 * i <= Len(s) THEN s[2 * i] ELSE s[2 * i - 1]>>
              /\ 2 * i - 1 \in 1..Len(s)
         /\ Distinct(s) => Distinct(Combine(s))
  <1> DEFINE n == (Len(s) + 1) \div 2
             At(i) == IF i <= Len(s) THEN s[i] ELSE s[Len(s)]
             c == [i \in 1..n |-> <<At(2 * i - 1), At(2 * i)>>]
  <1>1. Len(s) \in Nat
    BY LenNat
  <1>2. n \in Nat /\ 0 < n /\ n < Len(s) /\ 2 * n - 1 <= Len(s) /\ Len(s) <= 2 * n
    BY <1>1
  <1>3. Combine(s) = c
    BY DEF Combine, Node
  <1>4. IsSeq(c) /\ Len(c) = n
    <2>1. c = [i \in 1..n |-> c[i]]
      OBVIOUS
    <2> HIDE DEF n, c
    <2> QED
      BY <1>2, <2>1, FunctionIsSeq
  <1>5. ASSUME NEW i \in 1..n
        PROVE  /\ c[i] = <<s[2 * i - 1], IF 2 * i <= Len(s) THEN s[2 * i] ELSE s[2 * i - 1]>>
               /\ 2 * i - 1 \in 1..Len(s)
    <2>1. 2 * i - 1 \in 1..Len(s)
      BY <1>1, <1>2
    <2>2. At(2 * i - 1) = s[2 * i - 1]
      BY <1>1, <2>1
    <2>3. At(2 * i) = IF 2 * i <= Len(s) THEN s[2 * i] ELSE s[2 * i - 1]
      <3>1. CASE 2 * i <= Len(s)
        BY <3>1
      <3>2. CASE ~(2 * i <= Len(s))
        <4>1. Len(s) = 2 * i - 1
          BY <1>1, <2>1, <3>2
        <4> QED
          BY <3>2, <4>1
      <3> QED
        BY <3>1, <3>2
    <2>4. c[i] = <<At(2 * i - 1), At(2 * i)>>
      OBVIOUS
    <2> HIDE DEF At, c
    <2> QED
      BY <2>1, <2>2, <2>3, <2>4
  <1>6. Distinct(s) => Distinct(c)
    <2> SUFFICES ASSUME Distinct(s), NEW i \in 1..n, NEW j \in 1..n, c[i] = c[j] PROVE i = j
      BY <1>4 DEF Distinct
    <2> HIDE DEF c, n
    <2>1. s[2 * i - 1] = s[2 * j - 1] /\ 2 * i - 1 \in 1..Len(s) /\ 2 * j - 1 \in 1..Len(s)
      BY <1>5
    <2>2. 2 * i - 1 = 2 * j - 1
      BY <2>1 DEF Distinct
    <2> QED
      BY <1>2, <2>2
  <1> HIDE DEF c, n
  <1> QED
    BY <1>2, <1>3, <1>4, <1>5, <1>6 DEF n

\* Two levels of which the tree loses nothing: of one length, or without
\* repetitions (a lone last node and the same node twice make one pair).
Comparable(s, t) == /\ IsSeq(s) /\ IsSeq(t)
                    /\ Len(s) = Len(t) \/ (Distinct(s) /\ Distinct(t))

\* Sequences with the same elements in the same places are the same.
LEMMA SameSeq ==
  ASSUME NEW s, NEW t, IsSeq(s), IsSeq(t), Len(s) = Len(t),
         \A i \in 1..Len(s) : s[i] = t[i]
  PROVE  s = t
  <1>1. PICK S : s \in Seq(S)
    BY DEF IsSeq
  <1>2. PICK T : t \in Seq(T)
    BY DEF IsSeq
  <1>3. s \in Seq(S \cup T) /\ t \in Seq(S \cup T)
    BY <1>1, <1>2, SeqMonotonic
  <1> QED
    BY <1>3, SeqEqual

LEMMA CombineInjective ==
  ASSUME NEW s, NEW t, Comparable(s, t), Len(s) > 1, Len(t) > 1, Combine(s) = Combine(t)
  PROVE  s = t
  <1> DEFINE c == Combine(s)
  <1>1. IsSeq(s) /\ IsSeq(t) /\ Len(s) \in Nat /\ Len(t) \in Nat
    BY LenNat DEF Comparable
  <1>2. /\ Len(c) \in Nat /\ Len(c) = (Len(s) + 1) \div 2 /\ Len(c) = (Len(t) + 1) \div 2
        /\ \A i \in 1..Len(c) :
             /\ c[i] = <<s[2 * i - 1], IF 2 * i <= Len(s) THEN s[2 * i] ELSE s[2 * i - 1]>>
             /\ c[i] = <<t[2 * i - 1], IF 2 * i <= Len(t) THEN t[2 * i] ELSE t[2 * i - 1]>>
             /\ 2 * i - 1 \in 1..Len(s) /\ 2 * i - 1 \in 1..Len(t)
    BY <1>1, CombineFacts
  <1> HIDE DEF c
  <1>3. ASSUME NEW i \in 1..Len(c)
        PROVE  /\ s[2 * i - 1] = t[2 * i - 1]
               /\ 2 * i <= Len(s) /\ 2 * i <= Len(t) => s[2 * i] = t[2 * i]
               /\ 2 * i <= Len(s) /\ ~(2 * i <= Len(t)) => s[2 * i] = s[2 * i - 1]
               /\ 2 * i <= Len(t) /\ ~(2 * i <= Len(s)) => t[2 * i] = t[2 * i - 1]
    <2> DEFINE a == 2 * i - 1
               b == 2 * i
    <2>1. /\ c[i] = <<s[a], IF b <= Len(s) THEN s[b] ELSE s[a]>>
          /\ c[i] = <<t[a], IF b <= Len(t) THEN t[b] ELSE t[a]>>
      BY <1>2
    <2> HIDE DEF a, b
    <2>2. s[a] = t[a] /\ (IF b <= Len(s) THEN s[b] ELSE s[a]) = IF b <= Len(t) THEN t[b] ELSE t[a]
      BY <2>1
    <2>3. /\ b <= Len(s) /\ b <= Len(t) => s[b] = t[b]
          /\ b <= Len(s) /\ ~(b <= Len(t)) => s[b] = s[a]
          /\ b <= Len(t) /\ ~(b <= Len(s)) => t[b] = t[a]
      BY <2>2
    <2> QED
      BY <2>2, <2>3 DEF a, b
  <1>4. Len(s) = Len(t)
    <2>1. ASSUME Len(s) # Len(t) PROVE FALSE
      <3>1. Distinct(s) /\ Distinct(t)
        BY <2>1 DEF Comparable
      <3>2. Len(c) \in 1..Len(c)
        BY <1>1, <1>2
      <3>3. CASE Len(s) = 2 * Len(c)
        <4>1. ~(2 * Len(c) <= Len(t))
          BY <1>1, <1>2, <2>1, <3>3
        <4>2. s[2 * Len(c)] = s[2 * Len(c) - 1]
          BY <1>1, <1>3, <3>2, <3>3, <4>1
        <4>3. 2 * Len(c) \in 1..Len(s) /\ 2 * Len(c) - 1 \in 1..Len(s)
          BY <1>1, <3>2, <3>3
        <4> QED
          BY <3>1, <3>2, <4>2, <4>3 DEF Distinct
      <3>4. CASE Len(t) = 2 * Len(c)
        <4>1. ~(2 * Len(c) <= Len(s))
          BY <1>1, <1>2, <2>1, <3>4
        <4>2. t[2 * Len(c)] = t[2 * Len(c) - 1]
          BY <1>1, <1>3, <3>2, <3>4, <4>1
        <4>3. 2 * Len(c) \in 1..Len(t) /\ 2 * Len(c) - 1 \in 1..Len(t)
          BY <1>1, <3>2, <3>4
        <4> QED
          BY <3>1, <3>2, <4>2, <4>3 DEF Distinct
      <3>5. Len(s) = 2 * Len(c) \/ Len(t) = 2 * Len(c)
        BY <1>1, <1>2, <2>1
      <3> QED
        BY <3>3, <3>4, <3>5
    <2> QED
      BY <2>1
  <1>5. ASSUME NEW j \in 1..Len(s) PROVE s[j] = t[j]
    <2>1. (j + 1) \div 2 \in 1..Len(c)
      BY <1>1, <1>2
    <2>2. j = 2 * ((j + 1) \div 2) - 1 \/ j = 2 * ((j + 1) \div 2)
      OBVIOUS
    <2> DEFINE i == (j + 1) \div 2
    <2> HIDE DEF i
    <2>3. i \in 1..Len(c) /\ (j = 2 * i - 1 \/ j = 2 * i)
      BY <2>1, <2>2 DEF i
    <2> QED
      BY <1>1, <1>3, <1>4, <2>3
  <1> QED
    BY <1>1, <1>4, <1>5, SameSeq

\* The levels of the tree over s, from s in f[0] to the root, alone in f[d].
Tower(f, s, d) ==
  /\ d \in Nat /\ f[0] = s /\ Len(f[d]) = 1
  /\ \A k \in 0..d : IsSeq(f[k]) /\ (Distinct(s) => Distinct(f[k]))
  /\ \A k \in 0..(d - 1) : Len(f[k]) > 1 /\ f[k + 1] = Combine(f[k])

\* What the climb keeps of its k-th level l.
Fine(l, k, s) == /\ IsSeq(l) /\ Len(l) \in Nat /\ 0 < Len(l)
                 /\ (Len(l) = 1 \/ Len(l) + k <= Len(s))
                 /\ (Distinct(s) => Distinct(l))

LEMMA TurnFine ==
  ASSUME NEW s, Len(s) \in Nat, NEW l, NEW k \in Nat, Fine(l, k, s)
  PROVE  Fine(Turn(l), k + 1, s)
  <1>0. /\ IsSeq(l) /\ Len(l) \in Nat /\ 0 < Len(l)
        /\ (Len(l) = 1 \/ Len(l) + k <= Len(s))
        /\ (Distinct(s) => Distinct(l))
    BY Zenon DEF Fine
  <1> DEFINE m == Len(l)
  <1>a. m > 1 \/ m = 1
    <2>1. m \in Nat /\ 0 < m
      BY <1>0
    <2> HIDE DEF m
    <2> QED
      BY <2>1
  <1>1. CASE Len(l) > 1
    <2>1. Turn(l) = Combine(l)
      BY <1>1 DEF Turn
    <2>0. m # 1
      <3>1. m \in Nat /\ m > 1
        BY <1>0, <1>1
      <3> HIDE DEF m
      <3> QED
        BY <3>1
    <2>4. IsSeq(l) /\ Len(l) \in Nat /\ Len(l) + k <= Len(s)
      BY <1>0, <2>0
    <2>2. /\ IsSeq(Combine(l)) /\ Len(Combine(l)) \in Nat /\ 0 < Len(Combine(l))
          /\ Len(Combine(l)) < Len(l) /\ (Distinct(l) => Distinct(Combine(l)))
      BY <1>1, <2>4, CombineFacts
    <2>3. Len(Combine(l)) + (k + 1) <= Len(s)
      BY <2>2, <2>4
    <2> QED
      BY <1>0, <2>1, <2>2, <2>3 DEF Fine
  <1>2. CASE ~(Len(l) > 1)
    <2>1. Turn(l) = l /\ Len(l) = 1
      BY <1>a, <1>2 DEF Turn
    <2> QED
      BY <1>0, <2>1 DEF Fine
  <1> QED
    BY <1>1, <1>2

\* Reduce climbs a tower.
LEMMA ReduceTower ==
  ASSUME NEW s, IsSeq(s), s # <<>>
  PROVE  \E f, d : Tower(f, s, d) /\ Reduce(s) = f[d][1]
  <1> DEFINE n == Len(s)
  <1>0. n \in Nat /\ n > 0
    BY EmptySeq, LenNat DEF IsSeq
  <1>1. PICK f : Levels(f, s, n) /\ Reduce(s) = f[n][1]
    BY <1>0, ReduceLevels
  <1>2. f[0] = s /\ \A k \in 0..n : k # 0 => f[k] = Turn(f[k - 1])
    BY <1>0, <1>1 DEF Levels
  <1> DEFINE T == { k \in Nat : k <= n => Fine(f[k], k, s) }
  <1>3. 0 \in T
    BY <1>0, <1>2 DEF Fine
  <1>4. \A k \in T \cap Nat : k + 1 \in T
    <2> SUFFICES ASSUME NEW k \in Nat, k + 1 <= n, Fine(f[k], k, s) PROVE Fine(f[k + 1], k + 1, s)
      BY <1>0
    <2>1. f[k + 1] = Turn(f[k])
      BY <1>0, <1>2
    <2> QED
      BY <1>0, <2>1, TurnFine
  <1> HIDE DEF T
  <1>5. \A k \in 0..n : Fine(f[k], k, s)
    <2>1. \A k \in Nat : k \in T
      BY <1>3, <1>4, Induction
    <2> QED
      BY <1>0, <2>1 DEF T
  <1>6. Len(f[n]) = 1
    BY <1>0, <1>5 DEF Fine
  <1> DEFINE D == { k \in Nat : Len(f[k]) = 1 }
  <1>7. PICK d \in Nat : d \in D /\ \A k \in 0..(d - 1) : k \notin D
    BY <1>0, <1>6, Least
  <1>8. d <= n
    BY <1>0, <1>6, <1>7
  <1>9. \A k \in 0..(d - 1) : Len(f[k]) > 1 /\ f[k + 1] = Combine(f[k])
    <2> TAKE k \in 0..(d - 1)
    <2>1. k \in 0..n /\ k + 1 \in 0..n /\ k \in Nat /\ Len(f[k]) # 1 /\ k + 1 # 0 /\ (k + 1) - 1 = k
      BY <1>0, <1>7, <1>8
    <2>2. Len(f[k]) \in Nat /\ 0 < Len(f[k])
      BY <1>5, <2>1 DEF Fine
    <2>3. Len(f[k]) > 1
      <3> DEFINE m == Len(f[k])
      <3>1. m \in Nat /\ 0 < m /\ m # 1
        BY <2>1, <2>2
      <3> HIDE DEF m
      <3>2. m > 1
        BY <3>1
      <3> QED
        BY <3>2 DEF m
    <2> QED
      BY <1>2, <2>1, <2>3 DEF Turn
  <1> DEFINE E == { j \in Nat : d + j <= n => f[d + j] = f[d] }
  <1>10. 0 \in E
    BY <1>7
  <1>11. \A j \in E \cap Nat : j + 1 \in E
    <2> SUFFICES ASSUME NEW j \in Nat, d + (j + 1) <= n, f[d + j] = f[d] PROVE f[d + (j + 1)] = f[d]
      BY <1>0, <1>7
    <2>1. f[d + (j + 1)] = Turn(f[d + j])
      <3>1. d + (j + 1) \in 0..n /\ d + (j + 1) # 0 /\ (d + (j + 1)) - 1 = d + j
        BY <1>0, <1>7
      <3> QED
        BY <1>2, <3>1
    <2>2. Len(f[d]) = 1
      BY <1>7
    <2> QED
      BY <2>1, <2>2 DEF Turn
  <1> HIDE DEF E
  <1>12. f[n] = f[d]
    <2>1. n - d \in E
      BY <1>0, <1>7, <1>8, <1>10, <1>11, Induction
    <2>2. d + (n - d) = n
      BY <1>0, <1>7
    <2> QED
      BY <1>0, <1>7, <1>8, <2>1, <2>2 DEF E
  <1>13. Tower(f, s, d)
    <2>1. \A k \in 0..d : IsSeq(f[k]) /\ (Distinct(s) => Distinct(f[k]))
      BY <1>0, <1>5, <1>7, <1>8 DEF Fine
    <2> QED
      BY <1>2, <1>7, <1>9, <2>1 DEF Tower
  <1> QED
    BY <1>1, <1>12, <1>13

\* The first node of a level above the leaves is a pair that begins with the
\* first node of the level below.
FirstOf(f, s, d, k) == \E y : f[k][1] = <<f[k - 1][1], y>>

LEMMA TowerFirst ==
  ASSUME NEW f, NEW s, NEW d, Tower(f, s, d), NEW k \in 1..d
  PROVE  FirstOf(f, s, d, k)
  <1> DEFINE l == f[k - 1]
  <1>1. d \in Nat /\ k - 1 \in 0..(d - 1) /\ k - 1 \in 0..d /\ (k - 1) + 1 = k
    BY DEF Tower
  <1>2. IsSeq(l) /\ Len(l) > 1 /\ f[k] = Combine(l)
    BY <1>1 DEF Tower
  <1> HIDE DEF l
  <1>3. /\ Len(Combine(l)) \in Nat /\ 0 < Len(Combine(l))
        /\ \A i \in 1..Len(Combine(l)) :
             Combine(l)[i] = <<l[2 * i - 1], IF 2 * i <= Len(l) THEN l[2 * i] ELSE l[2 * i - 1]>>
    BY <1>2, CombineFacts
  <1>4. 1 \in 1..Len(Combine(l)) /\ 2 * 1 - 1 = 1
    BY <1>3
  <1>5. Combine(l)[1] = <<l[1], IF 2 * 1 <= Len(l) THEN l[2 * 1] ELSE l[1]>>
    BY <1>3, <1>4
  <1> QED
    BY <1>2, <1>5 DEF FirstOf, l

\* A tower that is higher than another of the same root has a pair where the
\* other has its first leaf.
LEMMA HigherTower ==
  ASSUME NEW s, NEW t, NEW f, NEW g, NEW d, NEW e,
         Tower(f, s, d), Tower(g, t, e), d < e, f[d][1] = g[e][1]
  PROVE  \E x, y : s[1] = <<x, y>>
  <1> DEFINE T == { i \in Nat : i <= d => f[d - i][1] = g[e - i][1] }
  <1>0. d \in Nat /\ e \in Nat
    BY DEF Tower
  <1>1. 0 \in T
    BY <1>0
  <1>2. \A i \in T \cap Nat : i + 1 \in T
    <2> SUFFICES ASSUME NEW i \in Nat, i + 1 <= d, f[d - i][1] = g[e - i][1]
                 PROVE  f[d - (i + 1)][1] = g[e - (i + 1)][1]
      BY <1>0
    <2>1. FirstOf(f, s, d, d - i) /\ FirstOf(g, t, e, e - i)
      BY <1>0, TowerFirst
    <2>2. (d - i) - 1 = d - (i + 1) /\ (e - i) - 1 = e - (i + 1)
      BY <1>0
    <2>3. PICK y : f[d - i][1] = <<f[d - (i + 1)][1], y>>
      BY <2>1, <2>2 DEF FirstOf
    <2>4. PICK z : g[e - i][1] = <<g[e - (i + 1)][1], z>>
      BY <2>1, <2>2 DEF FirstOf
    <2>5. <<f[d - (i + 1)][1], y>> = <<g[e - (i + 1)][1], z>>
      BY <2>3, <2>4
    <2> QED
      BY <2>5
  <1> HIDE DEF T
  <1>3. f[0][1] = g[e - d][1]
    <2>1. d \in T
      BY <1>0, <1>1, <1>2, Induction
    <2> QED
      BY <1>0, <2>1 DEF T
  <1>4. FirstOf(g, t, e, e - d)
    BY <1>0, TowerFirst
  <1> QED
    BY <1>3, <1>4 DEF FirstOf, Tower

\* Levels of two towers of one height over comparable sequences are comparable.
LEMMA TowersComparable ==
  ASSUME NEW s, NEW t, NEW f, NEW g, NEW d, Tower(f, s, d), Tower(g, t, d), Comparable(s, t)
  PROVE  \A k \in 0..d : Comparable(f[k], g[k])
  <1>0. d \in Nat /\ \A k \in 0..d : IsSeq(f[k]) /\ IsSeq(g[k])
    BY DEF Tower
  <1>1. CASE Distinct(s) /\ Distinct(t)
    BY <1>0, <1>1 DEF Tower, Comparable
  <1>2. CASE Len(s) = Len(t)
    <2> DEFINE T == { k \in Nat : k <= d => Len(f[k]) = Len(g[k]) }
    <2>1. 0 \in T
      BY <1>2 DEF Tower
    <2>2. \A k \in T \cap Nat : k + 1 \in T
      <3> SUFFICES ASSUME NEW k \in Nat, k + 1 <= d, Len(f[k]) = Len(g[k])
                   PROVE  Len(f[k + 1]) = Len(g[k + 1])
        BY <1>0
      <3>1. k \in 0..(d - 1) /\ k \in 0..d
        BY <1>0
      <3>2. /\ Len(f[k]) > 1 /\ f[k + 1] = Combine(f[k])
            /\ Len(g[k]) > 1 /\ g[k + 1] = Combine(g[k])
        BY <3>1 DEF Tower
      <3> QED
        BY <1>0, <3>1, <3>2, CombineFacts
    <2> HIDE DEF T
    <2>3. \A k \in Nat : k \in T
      BY <2>1, <2>2, Induction
    <2>4. \A k \in 0..d : Len(f[k]) = Len(g[k])
      BY <1>0, <2>3 DEF T
    <2> QED
      BY <1>0, <2>4 DEF Comparable
  <1> QED
    BY <1>1, <1>2 DEF Comparable

\* Comparable sequences without a pair first, over which the tree has the same
\* root, are the same.
LEMMA ReduceInjective ==
  ASSUME NEW s, NEW t, Comparable(s, t), s # <<>>, t # <<>>, Reduce(s) = Reduce(t),
         \A x, y : s[1] # <<x, y>> /\ t[1] # <<x, y>>
  PROVE  s = t
  <1>1. PICK f, d : Tower(f, s, d) /\ Reduce(s) = f[d][1]
    BY ReduceTower DEF Comparable
  <1>2. PICK g, e : Tower(g, t, e) /\ Reduce(t) = g[e][1]
    BY ReduceTower DEF Comparable
  <1>3. d = e
    <2>1. ~(d < e) /\ ~(e < d)
      BY <1>1, <1>2, HigherTower
    <2> QED
      BY <1>1, <1>2, <2>1 DEF Tower
  <1>4. d \in Nat /\ Tower(f, s, d) /\ Tower(g, t, d) /\ f[d][1] = g[d][1]
    BY <1>1, <1>2, <1>3 DEF Tower
  <1>5. \A k \in 0..d : Comparable(f[k], g[k])
    BY <1>4, TowersComparable
  <1> DEFINE T == { i \in Nat : i <= d => f[d - i] = g[d - i] }
  <1>6. 0 \in T
    <2>1. IsSeq(f[d]) /\ IsSeq(g[d]) /\ Len(f[d]) = 1 /\ Len(g[d]) = 1
      BY <1>4 DEF Tower
    <2>2. f[d] = g[d]
      BY <1>4, <2>1, SameSeq
    <2> QED
      BY <1>4, <2>2
  <1>7. \A i \in T \cap Nat : i + 1 \in T
    <2> SUFFICES ASSUME NEW i \in Nat, i + 1 <= d, f[d - i] = g[d - i]
                 PROVE  f[d - (i + 1)] = g[d - (i + 1)]
      BY <1>4
    <2> DEFINE k == d - (i + 1)
    <2>1. k \in 0..(d - 1) /\ k \in 0..d /\ k + 1 = d - i
      BY <1>4
    <2> HIDE DEF k
    <2>2. Len(f[k]) > 1 /\ Len(g[k]) > 1 /\ Combine(f[k]) = Combine(g[k])
      BY <1>4, <2>1 DEF Tower
    <2>3. f[k] = g[k]
      BY <1>5, <2>1, <2>2, CombineInjective
    <2> QED
      BY <2>3 DEF k
  <1> HIDE DEF T
  <1>8. f[0] = g[0]
    <2>1. d \in T
      BY <1>4, <1>6, <1>7, Induction
    <2> QED
      BY <1>4, <2>1 DEF T
  <1> QED
    BY <1>4, <1>8 DEF Tower

\* Two nodes or more end in a pair.
LEMMA ReducePair ==
  ASSUME NEW s, IsSeq(s), Len(s) > 1
  PROVE  \E x, y : Reduce(s) = <<x, y>>
  <1>1. s # <<>>
    BY EmptySeq
  <1>2. PICK f, d : Tower(f, s, d) /\ Reduce(s) = f[d][1]
    BY <1>1, ReduceTower
  <1>3. d # 0
    BY <1>2 DEF Tower
  <1>4. d \in 1..d
    BY <1>2, <1>3 DEF Tower
  <1> QED
    BY <1>2, <1>4, TowerFirst DEF FirstOf

\* One node is its own root.
LEMMA ReduceOne ==
  ASSUME NEW s, IsSeq(s), Len(s) = 1
  PROVE  Reduce(s) = s[1]
  <1>1. s # <<>>
    BY EmptySeq
  <1>2. PICK f, d : Tower(f, s, d) /\ Reduce(s) = f[d][1]
    BY <1>1, ReduceTower
  <1>3. d = 0
    <2>1. ASSUME d # 0 PROVE FALSE
      <3>1. 0 \in 0..(d - 1)
        BY <1>2, <2>1 DEF Tower
      <3>2. Len(f[0]) > 1 /\ f[0] = s
        BY <1>2, <3>1 DEF Tower
      <3> DEFINE n == Len(s)
      <3>3. n \in Nat /\ n > 1 /\ n = 1
        BY <3>2, LenNat
      <3> HIDE DEF n
      <3> QED
        BY <3>3
    <2> QED
      BY <2>1
  <1> QED
    BY <1>2, <1>3 DEF Tower

\* The hashed leaves of a tree.
LEMMA LeafFacts ==
  ASSUME NEW a, IsSeq(a), a # <<>>
  PROVE  LET h == [i \in 1..Len(a) |-> LeafHash(a[i])] IN
         /\ MerkleRoot(a) = Reduce(h) /\ IsSeq(h) /\ Len(h) = Len(a) /\ Len(a) \in Nat /\ Len(a) > 0
         /\ h # <<>> /\ \A i \in 1..Len(a) : h[i] = <<a[i]>>
         /\ Distinct(a) => Distinct(h)
         /\ \A x, y : h[1] # <<x, y>>
  <1> DEFINE h == [i \in 1..Len(a) |-> LeafHash(a[i])]
  <1>1. Len(a) \in Nat /\ Len(a) > 0
    BY LenNat, EmptySeq DEF IsSeq
  <1>2. IsSeq(h) /\ Len(h) = Len(a)
    <2>1. h = [i \in 1..Len(a) |-> h[i]]
      OBVIOUS
    <2> HIDE DEF h
    <2> QED
      BY <1>1, <2>1, FunctionIsSeq
  <1>3. \A i \in 1..Len(a) : h[i] = <<a[i]>>
    BY DEF LeafHash
  <1>4. MerkleRoot(a) = Reduce(h)
    BY DEF MerkleRoot
  <1> HIDE DEF h
  <1>5. h # <<>>
    BY <1>1, <1>2, EmptySeq
  <1>6. ASSUME Distinct(a) PROVE Distinct(h)
    <2>1. \A i, j \in 1..Len(a) : h[i] = h[j] => a[i] = a[j]
      BY <1>3
    <2> QED
      BY <1>2, <1>6, <2>1 DEF Distinct
  <1>7. \A x, y : h[1] # <<x, y>>
    <2>1. 1 \in 1..Len(a)
      BY <1>1
    <2>2. h[1] = <<a[1]>>
      BY <1>3, <2>1
    <2> QED
      BY <2>2
  <1> QED
    BY <1>1, <1>2, <1>3, <1>4, <1>5, <1>6, <1>7 DEF h

\* The root of two leaves or more is no leaf's hash.
LEMMA MerklePair ==
  ASSUME NEW a, IsSeq(a), Len(a) > 1
  PROVE  \A x : MerkleRoot(a) # LeafHash(x)
  <1>1. a # <<>>
    BY EmptySeq
  <1> DEFINE h == [i \in 1..Len(a) |-> LeafHash(a[i])]
  <1>2. MerkleRoot(a) = Reduce(h) /\ IsSeq(h) /\ Len(h) = Len(a)
    BY <1>1, LeafFacts
  <1> HIDE DEF h
  <1>3. \E x, y : Reduce(h) = <<x, y>>
    BY <1>2, ReducePair
  <1>4. PICK x, y : MerkleRoot(a) = <<x, y>>
    BY <1>2, <1>3
  <1> QED
    BY <1>4 DEF LeafHash

\* Two sequences of leaves with one root are the same, if neither repeats a leaf
\* or both are of one length: the prefixes of leaves and nodes in merkle_root_v2
\* keep a level from standing for another, and the lone node that _merkle_combine
\* pairs with itself can only be told from a repeated leaf.
THEOREM MerkleInjective ==
  ASSUME NEW a, NEW b, Comparable(a, b), MerkleRoot(a) = MerkleRoot(b)
  PROVE  a = b
  <1>0. IsSeq(a) /\ IsSeq(b)
    BY DEF Comparable
  <1>1. CASE a # <<>> /\ b # <<>>
    <2> DEFINE h == [i \in 1..Len(a) |-> LeafHash(a[i])]
               k == [i \in 1..Len(b) |-> LeafHash(b[i])]
    <2>1. /\ MerkleRoot(a) = Reduce(h) /\ IsSeq(h) /\ Len(h) = Len(a) /\ h # <<>>
          /\ \A i \in 1..Len(a) : h[i] = <<a[i]>>
          /\ (Distinct(a) => Distinct(h)) /\ \A x, y : h[1] # <<x, y>>
      BY <1>0, <1>1, LeafFacts
    <2>2. /\ MerkleRoot(b) = Reduce(k) /\ IsSeq(k) /\ Len(k) = Len(b) /\ k # <<>>
          /\ \A i \in 1..Len(b) : k[i] = <<b[i]>>
          /\ (Distinct(b) => Distinct(k)) /\ \A x, y : k[1] # <<x, y>>
      BY <1>0, <1>1, LeafFacts
    <2> HIDE DEF h, k
    <2>3. Comparable(h, k)
      BY <2>1, <2>2 DEF Comparable
    <2>4. h = k
      BY <2>1, <2>2, <2>3, ReduceInjective
    <2>5. Len(a) = Len(b)
      BY <2>1, <2>2, <2>4
    <2>6. ASSUME NEW i \in 1..Len(a) PROVE a[i] = b[i]
      <3>1. h[i] = <<a[i]>> /\ k[i] = <<b[i]>>
        BY <2>1, <2>2, <2>5
      <3> QED
        BY <2>4, <3>1
    <2> QED
      BY <1>0, <2>5, <2>6, SameSeq
  <1>2. ASSUME NEW s, IsSeq(s), s # <<>> PROVE MerkleRoot(s) # EmptyRoot
    <2> DEFINE h == [i \in 1..Len(s) |-> LeafHash(s[i])]
    <2>1. MerkleRoot(s) = Reduce(h) /\ IsSeq(h) /\ Len(h) = Len(s) /\ Len(s) \in Nat /\ Len(s) > 0
      BY <1>2, LeafFacts
    <2>2. h[1] = <<s[1]>>
      BY <2>1 DEF LeafHash
    <2> HIDE DEF h
    <2>3. CASE Len(h) = 1
      <3>1. MerkleRoot(s) = <<s[1]>>
        BY <2>1, <2>2, <2>3, ReduceOne
      <3> QED
        BY <3>1 DEF EmptyRoot
    <2>4. CASE Len(h) > 1
      <3>1. PICK x, y : MerkleRoot(s) = <<x, y>>
        BY <2>1, <2>4, ReducePair
      <3> QED
        BY <3>1 DEF EmptyRoot
    <2> DEFINE n == Len(h)
    <2>5. n \in Nat /\ n > 0
      BY <2>1
    <2> HIDE DEF n
    <2>6. n = 1 \/ n > 1
      BY <2>5
    <2> QED
      BY <2>3, <2>4, <2>6 DEF n
  <1>3. CASE a = <<>>
    BY <1>0, <1>2, <1>3 DEF MerkleRoot
  <1>4. CASE b = <<>>
    BY <1>0, <1>2, <1>4 DEF MerkleRoot
  <1> QED
    BY <1>1, <1>3, <1>4

-----------------------------------------------------------------------------
(* A sequence without repetitions has as many elements as places.          *)
LEMMA DistinctCard ==
  ASSUME NEW S, NEW s \in Seq(S), Distinct(s)
  PROVE  IsFiniteSet(Elements(s)) /\ Cardinality(Elements(s)) = Len(s)
  <1>1. Len(s) \in Nat /\ DOMAIN s = 1..Len(s)
    BY LenProperties
  <1> DEFINE f == [i \in 1..Len(s) |-> s[i]]
  <1>2. f \in Bijection(1..Len(s), Elements(s))
    <2>1. f \in [1..Len(s) -> Elements(s)]
      BY DEF Elements
    <2>2. \A i, j \in 1..Len(s) : f[i] = f[j] => i = j
      BY DEF Distinct
    <2>3. \A e \in Elements(s) : \E i \in 1..Len(s) : f[i] = e
      BY DEF Elements
    <2> QED
      BY <2>1, <2>2, <2>3, Zenon DEF Bijection, Injection, Surjection, IsInjective
  <1>3. ExistsBijection(1..Len(s), Elements(s))
    BY <1>2 DEF ExistsBijection
  <1>4. Cardinality(Elements(s)) = Len(s)
    BY <1>1, <1>3, FS_CountingElements
  <1>5. IsFiniteSet(Elements(s))
    BY <1>1, <1>3, FS_NatBijection
  <1> QED
    BY <1>4, <1>5
=============================================================================
