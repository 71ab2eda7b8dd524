--------------------------- MODULE IndexTheorems ---------------------------
(***************************************************************************)
(* Facts about positions in sequences that the proofs of this project need *)
(* and the library does not state.                                         *)
(***************************************************************************)
EXTENDS Enumeration, Sequences, SequenceTheorems, FiniteSetTheorems, FunctionTheorems,
        WellFoundedInduction, TLAPS

\* A non-empty set of positions up to n has a greatest one: n less the least
\* distance from n, which exists because < is well founded on Nat.
LEMMA Maximum ==
    ASSUME NEW n \in Nat, NEW S \in SUBSET (1 .. n), S # {}
    PROVE  \E m \in S : \A j \in S : j <= m
<1> DEFINE T == {k \in Nat : n - k \in S}
           R == OpToRel(<, Nat)
<1>1. IsWellFoundedOn(R, Nat)
  BY NatLessThanWellFounded
<1>2. \A a, b \in Nat : a < b => <<a, b>> \in R
  BY Zenon DEF OpToRel
<1> HIDE DEF R
<1>3. T \subseteq Nat /\ T # {}
  <2>1. PICK i \in S : TRUE
    OBVIOUS
  <2>2. n - i \in Nat /\ n - (n - i) = i
    OBVIOUS
  <2> QED BY <2>1, <2>2
<1>4. PICK x \in T : \A y \in T : ~(<<y, x>> \in R)
  <2> HIDE DEF T
  <2> QED BY <1>1, <1>3, WFMin
<1>5. ASSUME NEW j \in S PROVE j <= n - x
  <2>1. n - j \in T /\ j \in Int /\ x \in Nat /\ n - j \in Nat
    OBVIOUS
  <2>2. ~(n - j < x)
    BY <2>1, <1>4, <1>2
  <2> QED BY <2>2, <2>1
<1> QED BY <1>4, <1>5

\* Appending a sequence of units keeps the type, the old positions and what
\* stood there.
LEMMA Appending ==
    ASSUME NEW S, NEW s \in Seq(S), NEW t \in Seq(S)
    PROVE  /\ s \o t \in Seq(S)
           /\ DOMAIN s \subseteq DOMAIN (s \o t)
           /\ \A i \in DOMAIN s : (s \o t)[i] = s[i]
           /\ Len(s \o t) = Len(s) + Len(t)
OBVIOUS

\* Concatenation is associative.
LEMMA Regrouping ==
    ASSUME NEW S
    PROVE  \A s, t, u \in Seq(S) : s \o (t \o u) = (s \o t) \o u
BY ConcatAssociative

\* A position of a concatenation is one of the first part or of the second.
LEMMA Positions ==
    ASSUME NEW S, NEW s \in Seq(S), NEW t \in Seq(S), NEW i \in DOMAIN (s \o t)
    PROVE  \/ i \in DOMAIN s /\ (s \o t)[i] = s[i]
           \/ /\ i \in Nat /\ Len(s) < i
              /\ i - Len(s) \in DOMAIN t /\ (s \o t)[i] = t[i - Len(s)]
OBVIOUS

\* A sequence of at most one element.
LEMMA AtMostOne ==
    ASSUME NEW S, NEW s \in Seq(S), Len(s) <= 1
    PROVE  \/ s = <<>> /\ Len(s) = 0 /\ DOMAIN s = {}
           \/ Len(s) = 1 /\ DOMAIN s = {1} /\ s[1] \in S
<1>1. Len(s) \in Nat /\ DOMAIN s = 1 .. Len(s)
  OBVIOUS
<1>2. CASE Len(s) = 0
  BY <1>1, <1>2, EmptySeq
<1>3. CASE Len(s) = 1
  <2>1. DOMAIN s = {1}
    BY <1>1, <1>3
  <2> QED BY <1>3, <2>1, ElementOfSeq
<1> QED BY <1>1, <1>2, <1>3

\* A function on the positions of such a sequence is such a sequence.
LEMMA OneAgain ==
    ASSUME NEW S, NEW s \in Seq(S), Len(s) <= 1, NEW T, NEW e \in T
    PROVE  [i \in DOMAIN s |-> e] \in Seq(T)
<1>1. Len(s) \in Nat /\ DOMAIN s = 1 .. Len(s)
  OBVIOUS
<1>2. [i \in 1 .. Len(s) |-> e] \in [1 .. Len(s) -> T]
  OBVIOUS
<1> QED BY <1>1, <1>2

\* Sequences of one and of two elements.
LEMMA Singleton ==
    ASSUME NEW S, NEW e \in S
    PROVE  <<e>> \in Seq(S) /\ Len(<<e>>) = 1
OBVIOUS

LEMMA Pair ==
    ASSUME NEW S, NEW e \in S, NEW f \in S
    PROVE  /\ <<e, f>> \in Seq(S)
           /\ Len(<<e, f>>) = 2 /\ DOMAIN <<e, f>> = 1 .. 2
           /\ <<e, f>>[1] = e /\ <<e, f>>[2] = f
OBVIOUS

\* The positions of two and of three things.
LEMMA Triple ==
    ASSUME NEW e, NEW f, NEW g
    PROVE  /\ DOMAIN <<e, f>> = {1, 2} /\ <<e, f>>[1] = e /\ <<e, f>>[2] = f
           /\ DOMAIN <<e, f, g>> = {1, 2, 3}
           /\ <<e, f, g>>[1] = e /\ <<e, f, g>>[2] = f /\ <<e, f, g>>[3] = g
           /\ Append(<<e, f>>, g) = <<e, f, g>>
<1>1. DOMAIN <<e, f>> = {1, 2} /\ <<e, f>>[1] = e /\ <<e, f>>[2] = f
  OBVIOUS
<1>2. DOMAIN <<e, f, g>> = {1, 2, 3}
  OBVIOUS
<1>3. <<e, f, g>>[1] = e /\ <<e, f, g>>[2] = f /\ <<e, f, g>>[3] = g
  OBVIOUS
<1>4. Append(<<e, f>>, g) = <<e, f, g>>
  <2> DEFINE V == {e, f, g}
             s == <<e, f>>
             w == <<e, f, g>>
  <2>1. s \in Seq(V) /\ w \in Seq(V) /\ g \in V /\ Len(s) = 2 /\ Len(w) = 3
    OBVIOUS
  <2>2. s[1] = e /\ s[2] = f /\ w[1] = e /\ w[2] = f /\ w[3] = g
    OBVIOUS
  <2> HIDE DEF s, w, V
  <2>3. /\ Append(s, g) \in Seq(V) /\ Len(Append(s, g)) = 3
        /\ Append(s, g)[1] = e /\ Append(s, g)[2] = f /\ Append(s, g)[3] = g
    BY <2>1, <2>2, AppendProperties
  <2>4. \A i \in 1 .. 3 : Append(s, g)[i] = w[i]
    <3>1. \A i \in 1 .. 3 : i = 1 \/ i = 2 \/ i = 3
      OBVIOUS
    <3> QED BY <2>2, <2>3, <3>1
  <2>5. Append(s, g) = w
    BY <2>1, <2>3, <2>4, SeqEqual
  <2> QED BY <2>5 DEF s, w
<1> QED BY <1>1, <1>2, <1>3, <1>4

-----------------------------------------------------------------------------
(* Positions in order. *)

\* Ranks run from 1 to the size of the set, in the order of the positions.
LEMMA Ranks ==
    ASSUME NEW n \in Nat, NEW S \in SUBSET (1 .. n)
    PROVE  /\ IsFiniteSet(S) /\ Cardinality(S) \in Nat
           /\ \A i \in S : Rank(S, i) \in 1 .. Cardinality(S)
           /\ \A i, j \in S : i < j => Rank(S, i) < Rank(S, j)
<1>1. IsFiniteSet(S) /\ Cardinality(S) \in Nat
  <2>1. IsFiniteSet(1 .. n)
    BY FS_Interval
  <2> QED BY <2>1, FS_Subset, FS_CardinalityType
<1>2. ASSUME NEW T \in SUBSET S
      PROVE  /\ IsFiniteSet(T) /\ Cardinality(T) \in Nat
             /\ Cardinality(T) <= Cardinality(S)
             /\ T # {} => Cardinality(T) # 0
             /\ \A U \in SUBSET T : /\ Cardinality(U) \in Nat
                                    /\ Cardinality(U) <= Cardinality(T)
                                    /\ Cardinality(U) = Cardinality(T) => U = T
  <2>1. IsFiniteSet(T) /\ Cardinality(T) <= Cardinality(S)
    BY <1>1, FS_Subset
  <2>2. Cardinality(T) \in Nat
    BY <2>1, FS_CardinalityType
  <2>3. T # {} => Cardinality(T) # 0
    BY <2>1, FS_EmptySet
  <2>4. ASSUME NEW U \in SUBSET T
        PROVE  /\ Cardinality(U) \in Nat
               /\ Cardinality(U) <= Cardinality(T)
               /\ Cardinality(U) = Cardinality(T) => U = T
    <3>1. IsFiniteSet(U) /\ Cardinality(U) <= Cardinality(T)
      BY <2>1, FS_Subset
    <3>2. Cardinality(U) = Cardinality(T) => U = T
      BY <2>1, FS_Subset
    <3> QED BY <3>1, <3>2, FS_CardinalityType
  <2> QED BY <2>1, <2>2, <2>3, <2>4
<1>3. ASSUME NEW i \in S PROVE Rank(S, i) \in 1 .. Cardinality(S)
  <2> DEFINE T == {j \in S : j <= i}
  <2>1. T \in SUBSET S /\ i \in T
    OBVIOUS
  <2>2. Rank(S, i) = Cardinality(T)
    BY DEF Rank
  <2> HIDE DEF T
  <2>3. Cardinality(T) \in Nat /\ Cardinality(T) <= Cardinality(S) /\ Cardinality(T) # 0
    BY <1>2, <2>1
  <2> QED BY <1>1, <2>2, <2>3
<1>4. ASSUME NEW i \in S, NEW j \in S, i < j PROVE Rank(S, i) < Rank(S, j)
  <2> DEFINE U == {k \in S : k <= i}
             T == {k \in S : k <= j}
  <2>0. i \in Nat /\ j \in Nat /\ \A k \in S : k \in Nat
    OBVIOUS
  <2>1. T \in SUBSET S /\ U \in SUBSET T /\ j \in T /\ j \notin U
    <3>1. \A k \in S : k <= i => k <= j
      BY <1>4, <2>0
    <3>2. ~(j <= i) /\ j <= j
      BY <1>4, <2>0
    <3> QED BY <3>1, <3>2
  <2>2. Rank(S, i) = Cardinality(U) /\ Rank(S, j) = Cardinality(T)
    BY DEF Rank
  <2> HIDE DEF T, U
  <2>3. /\ Cardinality(T) \in Nat /\ Cardinality(U) \in Nat
        /\ Cardinality(U) <= Cardinality(T)
        /\ Cardinality(U) = Cardinality(T) => U = T
    BY <1>2, <2>1
  <2> QED BY <2>1, <2>2, <2>3
<1> QED BY <1>1, <1>3, <1>4

\* The k-th position is the position of rank k.
LEMMA Enumerated ==
    ASSUME NEW n \in Nat, NEW S \in SUBSET (1 .. n)
    PROVE  /\ \A k \in 1 .. Cardinality(S) : Nth(S, k) \in S /\ Rank(S, Nth(S, k)) = k
           /\ \A i \in S : \A k : Rank(S, i) = k => Nth(S, k) = i
<1> DEFINE N == 1 .. Cardinality(S)
           f == [i \in S |-> Rank(S, i)]
<1>1. /\ IsFiniteSet(S) /\ Cardinality(S) \in Nat
      /\ \A i \in S : Rank(S, i) \in N
      /\ \A i, j \in S : i < j => Rank(S, i) < Rank(S, j)
  BY Ranks
<1>2. \A i, j \in S : Rank(S, i) = Rank(S, j) => i = j
  <2>1. \A i, j \in S : i = j \/ i < j \/ j < i
    OBVIOUS
  <2>2. \A i \in S : Rank(S, i) \in Nat
    BY <1>1
  <2> QED BY <1>1, <2>1, <2>2
<1>3. f \in Injection(S, N)
  BY <1>1, <1>2 DEF Injection, IsInjective
<1>4. IsFiniteSet(N) /\ Cardinality(N) = Cardinality(S)
  BY <1>1, FS_Interval
<1>5. f \in Surjection(S, N)
  <2> HIDE DEF f, N
  <2> QED BY <1>3, <1>4, FS_Injection
<1>6. \A k \in N : \E i \in S : Rank(S, i) = k
  BY <1>5 DEF Surjection
<1>7. ASSUME NEW k \in N PROVE Nth(S, k) \in S /\ Rank(S, Nth(S, k)) = k
  <2>1. \E i \in S : Rank(S, i) = k
    BY <1>6
  <2> QED BY <2>1 DEF Nth
<1>8. ASSUME NEW i \in S, NEW k, Rank(S, i) = k PROVE Nth(S, k) = i
  <2>1. Nth(S, k) \in S /\ Rank(S, Nth(S, k)) = k
    BY <1>8 DEF Nth
  <2> QED BY <1>2, <1>8, <2>1
<1> QED BY <1>7, <1>8

\* Positions added at the end leave the others where they are.
LEMMA EnumerationGrows ==
    ASSUME NEW n \in Nat, NEW S \in SUBSET (1 .. n), NEW m \in Nat, NEW T \in SUBSET (1 .. m),
           S \subseteq T, \A t \in T \ S : \A s \in S : s < t
    PROVE  /\ Cardinality(S) <= Cardinality(T)
           /\ \A k \in 1 .. Cardinality(S) : Nth(T, k) = Nth(S, k)
<1>1. IsFiniteSet(T) /\ Cardinality(T) \in Nat /\ Cardinality(S) \in Nat
  BY Ranks
<1>2. Cardinality(S) <= Cardinality(T)
  BY <1>1, FS_Subset
<1>3. ASSUME NEW k \in 1 .. Cardinality(S) PROVE Nth(T, k) = Nth(S, k)
  <2>1. PICK i \in S : i = Nth(S, k) /\ Rank(S, i) = k
    BY Enumerated
  <2>2. {j \in T : j <= i} = {j \in S : j <= i}
    <3>1. \A j \in T : j <= i => j \in S
      <4> SUFFICES ASSUME NEW j \in T, j <= i, j \notin S PROVE FALSE
        OBVIOUS
      <4>1. i < j /\ i \in Nat /\ j \in Nat
        OBVIOUS
      <4> QED BY <4>1
    <3> QED BY <3>1
  <2>3. Rank(T, i) = k
    BY <2>1, <2>2 DEF Rank
  <2> QED BY <2>1, <2>3, Enumerated
<1> QED BY <1>2, <1>3

LEMMA Interval ==
    ASSUME NEW n \in Nat
    PROVE  IsFiniteSet(1 .. n) /\ Cardinality(1 .. n) = n
BY FS_Interval

\* What a sequence has at a set of positions is a sequence, and has each of
\* them once and in order.
Selects(t, A, s, S) ==
    /\ t \in Seq(A) /\ Len(t) = Cardinality(S) /\ Cardinality(S) \in Nat
    /\ \A k \in 1 .. Cardinality(S) : Nth(S, k) \in S /\ t[k] = s[Nth(S, k)]
    /\ \A k, l \in 1 .. Cardinality(S) : k < l => Nth(S, k) < Nth(S, l)
    /\ \A i \in S : \E k \in 1 .. Cardinality(S) : Nth(S, k) = i

LEMMA Selected ==
    ASSUME NEW A, NEW s, NEW n \in Nat, NEW S \in SUBSET (1 .. n),
           \A i \in S : s[i] \in A
    PROVE  Selects(Those(s, S), A, s, S)
<1>1. PICK c \in Nat : c = Cardinality(S)
  BY Ranks
<1>2. \A k \in 1 .. c : Nth(S, k) \in S /\ Rank(S, Nth(S, k)) = k
  BY <1>1, Enumerated
<1>3. Those(s, S) \in [1 .. c -> A] /\ \A k \in 1 .. c : Those(s, S)[k] = s[Nth(S, k)]
  BY <1>1, <1>2 DEF Those
<1>4. PICK t : t = Those(s, S)
  OBVIOUS
<1>5. t \in Seq(A) /\ Len(t) = c
  <2>1. t \in [1 .. c -> A]
    BY <1>3, <1>4
  <2> QED BY <2>1
<1>6. ASSUME NEW k \in 1 .. c, NEW l \in 1 .. c, k < l PROVE Nth(S, k) < Nth(S, l)
  <2>1. PICK i \in S, j \in S : /\ i = Nth(S, k) /\ j = Nth(S, l)
                                /\ Rank(S, i) = k /\ Rank(S, j) = l
    BY <1>2
  <2>2. i = j \/ i < j \/ j < i
    OBVIOUS
  <2>3. j < i => Rank(S, j) < Rank(S, i)
    BY Ranks
  <2> QED BY <2>1, <2>2, <2>3, <1>6
<1>7. ASSUME NEW i \in S PROVE \E k \in 1 .. c : Nth(S, k) = i
  <2>1. Rank(S, i) \in 1 .. c
    BY <1>1, Ranks
  <2>2. Nth(S, Rank(S, i)) = i
    BY Enumerated
  <2> QED BY <2>1, <2>2
<1> QED BY <1>1, <1>2, <1>3, <1>4, <1>5, <1>6, <1>7 DEF Selects

\* An element more at the end, taken or not.
LEMMA SelectedGrows ==
    ASSUME NEW A, NEW s \in Seq(A), NEW x \in A, NEW S \in SUBSET (1 .. Len(s))
    PROVE  /\ Those(Append(s, x), S) = Those(s, S)
           /\ Those(Append(s, x), S \cup {Len(s) + 1}) = Append(Those(s, S), x)
<1>1. PICK n \in Nat : n = Len(s)
  OBVIOUS
<1>2. PICK u : u = Append(s, x)
  OBVIOUS
<1>3. /\ \A i \in 1 .. n : u[i] = s[i] /\ s[i] \in A
      /\ u[n + 1] = x
  BY <1>1, <1>2
<1>4. PICK c \in Nat : c = Cardinality(S)
  BY <1>1, Ranks
<1>5. \A k \in 1 .. c : Nth(S, k) \in 1 .. n
  BY <1>1, <1>4, Enumerated
<1>6. Those(u, S) = Those(s, S)
  BY <1>3, <1>4, <1>5 DEF Those
<1> DEFINE T == S \cup {n + 1}
<1>7. T \in SUBSET (1 .. n + 1) /\ n + 1 \notin S /\ S \in SUBSET (1 .. n)
  <2>1. S \in SUBSET (1 .. n)
    BY <1>1
  <2>2. \A i \in 1 .. n : i \in 1 .. n + 1
    OBVIOUS
  <2>3. n + 1 \notin 1 .. n /\ n + 1 \in 1 .. n + 1
    OBVIOUS
  <2> QED BY <2>1, <2>2, <2>3, Zenon
<1>8. Cardinality(T) = c + 1
  <2>1. IsFiniteSet(S)
    BY <1>1, Ranks
  <2> QED BY <2>1, <1>7, <1>4, FS_AddElement
<1>9. \A k \in 1 .. c : Nth(T, k) = Nth(S, k)
  <2>1. \A t \in T \ S : \A i \in S : i < t
    <3>1. \A i \in S : i \in 1 .. n
      BY <1>7
    <3>2. \A i \in 1 .. n : i < n + 1
      OBVIOUS
    <3> QED BY <3>1, <3>2
  <2>2. S \subseteq T /\ n + 1 \in Nat
    OBVIOUS
  <2> HIDE DEF T
  <2>3. \A k \in 1 .. Cardinality(S) : Nth(T, k) = Nth(S, k)
    BY <2>1, <2>2, <1>7, EnumerationGrows
  <2> QED BY <2>3, <1>4
<1>10. Nth(T, c + 1) = n + 1
  <2>1. {j \in T : j <= n + 1} = T
    <3> HIDE DEF T
    <3>1. \A j \in T : j \in 1 .. n + 1
      BY <1>7
    <3>2. \A j \in 1 .. n + 1 : j <= n + 1
      OBVIOUS
    <3> QED BY <3>1, <3>2
  <2>2. Rank(T, n + 1) = c + 1 /\ n + 1 \in T
    BY <2>1, <1>8 DEF Rank
  <2>3. n + 1 \in Nat
    OBVIOUS
  <2> HIDE DEF T
  <2>4. \A i \in T : \A k : Rank(T, i) = k => Nth(T, k) = i
    BY <2>3, <1>7, Enumerated
  <2> QED BY <2>2, <2>4
<1> HIDE DEF T
<1>11. PICK t : t = Those(s, S)
  OBVIOUS
<1>12. t \in Seq(A) /\ Len(t) = c /\ \A k \in 1 .. c : t[k] = s[Nth(S, k)]
  <2>1. \A i \in S : s[i] \in A
    BY <1>3, <1>7
  <2>2. Selects(t, A, s, S)
    BY <2>1, <1>7, <1>11, Selected
  <2> QED BY <2>2, <1>4 DEF Selects
<1>13. PICK v : v = Those(u, T)
  OBVIOUS
<1>14. v \in Seq(A) /\ Len(v) = c + 1 /\ \A k \in 1 .. c + 1 : v[k] = u[Nth(T, k)]
  <2>1. \A i \in T : u[i] \in A
    <3>1. \A i \in T : i \in 1 .. n \/ i = n + 1
      BY <1>7
    <3> QED BY <3>1, <1>3
  <2>2. n + 1 \in Nat
    OBVIOUS
  <2>3. Selects(v, A, u, T)
    BY <2>1, <2>2, <1>7, <1>13, Selected
  <2> QED BY <2>3, <1>8 DEF Selects
<1>15. \A k \in 1 .. c : v[k] = t[k]
  <2> TAKE k \in 1 .. c
  <2>1. k \in 1 .. c + 1 /\ Nth(S, k) \in 1 .. n
    BY <1>5
  <2> QED BY <2>1, <1>3, <1>9, <1>12, <1>14
<1>16. v[c + 1] = x
  <2>1. c + 1 \in 1 .. c + 1
    OBVIOUS
  <2> QED BY <2>1, <1>3, <1>10, <1>14
<1>17. v = Append(t, x)
  BY <1>12, <1>14, <1>15, <1>16
<1> QED BY <1>1, <1>2, <1>6, <1>7, <1>11, <1>13, <1>17 DEF T

LEMMA SelectedOnward ==
    \A A : \A s \in Seq(A), x \in A : \A S \in SUBSET (1 .. Len(s)) :
        /\ Those(Append(s, x), S) = Those(s, S)
        /\ Those(Append(s, x), S \cup {Len(s) + 1}) = Append(Those(s, S), x)
BY SelectedGrows, ZenonT(60)

\* An element that changes where it stands.
Changed(s, i, x) == [s EXCEPT ![i] = x]

LEMMA SelectedChanged ==
    ASSUME NEW A, NEW s \in Seq(A), NEW x \in A, NEW S \in SUBSET (1 .. Len(s)),
           NEW k \in 1 .. Cardinality(S)
    PROVE  Those(Changed(s, Nth(S, k), x), S) = Changed(Those(s, S), k, x)
<1>1. PICK n \in Nat : n = Len(s) /\ DOMAIN s = 1 .. n /\ s \in [1 .. n -> A]
  OBVIOUS
<1>2. PICK c \in Nat : c = Cardinality(S)
  BY <1>1, Ranks
<1>3. /\ \A l \in 1 .. c : Nth(S, l) \in 1 .. n
      /\ \A l \in 1 .. c : Nth(S, l) = Nth(S, k) => l = k
  <2>1. \A l \in 1 .. c : Nth(S, l) \in S /\ Rank(S, Nth(S, l)) = l
    BY <1>1, <1>2, Enumerated
  <2> QED BY <2>1, <1>1, <1>2
<1>4. PICK i \in 1 .. n : i = Nth(S, k)
  BY <1>2, <1>3
<1>5. PICK u : u = [s EXCEPT ![i] = x]
  OBVIOUS
<1>6. \A j \in 1 .. n : u[j] = IF j = i THEN x ELSE s[j]
  BY <1>1, <1>5
<1>7. Those(u, S) = [l \in 1 .. c |-> u[Nth(S, l)]] /\ Those(s, S) = [l \in 1 .. c |-> s[Nth(S, l)]]
  BY <1>2 DEF Those
<1>8. [[l \in 1 .. c |-> s[Nth(S, l)]] EXCEPT ![k] = x]
        = [l \in 1 .. c |-> IF l = k THEN x ELSE s[Nth(S, l)]]
  BY <1>2
<1>9. \A l \in 1 .. c : u[Nth(S, l)] = IF l = k THEN x ELSE s[Nth(S, l)]
  BY <1>2, <1>3, <1>4, <1>6
<1> QED BY <1>4, <1>5, <1>7, <1>8, <1>9 DEF Changed

\* All of it.
LEMMA SelectedAll ==
    ASSUME NEW A, NEW s \in Seq(A), NEW n \in Nat, n = Len(s)
    PROVE  Those(s, 1 .. n) = s
<1>1. PICK c \in Nat : c = Cardinality(1 .. n) /\ c = n
  <2>1. Cardinality(1 .. n) = n
    BY Interval
  <2> QED BY <2>1
<1>2. c = n
  BY <1>1
<1>3. ASSUME NEW k \in 1 .. n PROVE Nth(1 .. n, k) = k
  <2>1. {j \in 1 .. n : j <= k} = 1 .. k
    OBVIOUS
  <2>2. Rank(1 .. n, k) = k
    <3>1. Cardinality(1 .. k) = k
      BY Interval
    <3> QED BY <2>1, <3>1 DEF Rank
  <2>3. 1 .. n \in SUBSET (1 .. n)
    OBVIOUS
  <2> QED BY <2>2, <2>3, Enumerated
<1>4. Those(s, 1 .. n) = [k \in 1 .. n |-> s[k]]
  BY <1>1, <1>2, <1>3 DEF Those
<1> QED BY <1>4

-----------------------------------------------------------------------------
(* Folds over positions. *)

\* A set of natural numbers that is not empty has a least element.
LEMMA Least ==
    ASSUME NEW S \in SUBSET Nat, S # {}
    PROVE  \E m \in S : \A j \in S : m <= j
<1> DEFINE R == OpToRel(<, Nat)
<1>1. IsWellFoundedOn(R, Nat)
  BY NatLessThanWellFounded
<1>2. \A a, b \in Nat : a < b => <<a, b>> \in R
  BY Zenon DEF OpToRel
<1> HIDE DEF R
<1>3. PICK x \in S : \A y \in S : ~(<<y, x>> \in R)
  BY <1>1, WFMin
<1>4. ASSUME NEW j \in S PROVE x <= j
  <2>1. j \in Nat /\ x \in Nat
    OBVIOUS
  <2>2. ~(j < x)
    BY <2>1, <1>3, <1>2
  <2> QED BY <2>1, <2>2
<1> QED BY <1>4

\* A fold as a function: from e, step takes a value and a position to the next
\* value; f has the values up to n.
IsStep(step, S, n) == step \in [S \X (1 .. n) -> S]

Folded(f, n, S, e, step) ==
    /\ f \in [0 .. n -> S]
    /\ f[0] = e /\ \A i \in 1 .. n : f[i] = step[<<f[i - 1], i>>]

\* It exists,
LEMMA FoldExists ==
    ASSUME NEW N \in Nat, NEW S, NEW e \in S, NEW step, IsStep(step, S, N)
    PROVE  \E f : Folded(f, N, S, e, step)
<1>0. step \in [S \X (1 .. N) -> S]
  BY DEF IsStep
<1> DEFINE Good(n) == \E f : Folded(f, n, S, e, step)
           Bad == {n \in 0 .. N : ~Good(n)}
<1>1. Good(0)
  <2> DEFINE f == [i \in 0 .. 0 |-> e]
  <2>1. f \in [0 .. 0 -> S]
    OBVIOUS
  <2>2. Folded(f, 0, S, e, step)
    <3>1. f[0] = e /\ \A i \in 1 .. 0 : FALSE
      OBVIOUS
    <3> HIDE DEF f
    <3> QED BY <2>1, <3>1 DEF Folded
  <2> QED BY <2>1, <2>2
<1>2. ASSUME NEW n \in 0 .. N, n # 0, Good(n - 1)
      PROVE  Good(n)
  <2>1. PICK g : Folded(g, n - 1, S, e, step)
    BY <1>2
  <2>2. n \in Nat /\ n \in 1 .. N /\ n - 1 \in 0 .. n - 1 /\ 0 \in 0 .. n - 1 /\ 0 \in 0 .. n
    BY <1>2
  <2>3. PICK v \in S : v = step[<<g[n - 1], n>>]
    <3>1. g[n - 1] \in S
      BY <2>1, <2>2 DEF Folded
    <3> QED BY <3>1, <2>2, <1>0
  <2> DEFINE f == [i \in 0 .. n |-> IF i = n THEN v ELSE g[i]]
  <2>4. \A i \in 0 .. n : i # n => i \in 0 .. n - 1
    BY <2>2
  <2>5. f \in [0 .. n -> S]
    <3>1. \A i \in 0 .. n : (IF i = n THEN v ELSE g[i]) \in S
      BY <2>1, <2>4 DEF Folded
    <3> QED BY <3>1
  <2>6. f[0] = e
    <3>1. g[0] = e
      BY <2>1 DEF Folded
    <3> QED BY <3>1, <1>2, <2>2
  <2>7. ASSUME NEW i \in 1 .. n PROVE f[i] = step[<<f[i - 1], i>>]
    <3>1. i \in 0 .. n /\ i - 1 \in 0 .. n /\ i - 1 # n /\ i \in Nat
      BY <2>2
    <3>2. f[i - 1] = g[i - 1]
      BY <3>1
    <3>3. CASE i = n
      <4>1. f[i] = v
        BY <3>3, <3>1
      <4> QED BY <4>1, <3>2, <2>3, <3>3
    <3>4. CASE i # n
      <4>1. i \in 1 .. n - 1
        BY <3>4, <2>2, <3>1
      <4>2. g[i] = step[<<g[i - 1], i>>]
        BY <2>1, <4>1 DEF Folded
      <4>3. f[i] = g[i]
        BY <3>1, <3>4
      <4> QED BY <4>2, <4>3, <3>2
    <3> QED BY <3>3, <3>4
  <2>8. Folded(f, n, S, e, step)
    <3> HIDE DEF f
    <3> QED BY <2>5, <2>6, <2>7 DEF Folded
  <2> QED BY <2>5, <2>8
<1>3. Bad = {}
  <2> SUFFICES ASSUME Bad # {} PROVE FALSE
    OBVIOUS
  <2> HIDE DEF Good
  <2>1. Bad \in SUBSET Nat
    OBVIOUS
  <2>2. PICK m \in Bad : \A j \in Bad : m <= j
    BY <2>1, Least
  <2>3. m # 0 /\ m \in 0 .. N /\ ~Good(m)
    BY <1>1
  <2>4. m - 1 \in 0 .. N /\ m - 1 \notin Bad
    BY <2>2, <2>3
  <2> QED BY <2>3, <2>4, <1>2
<1> QED BY <1>3

\* and what is computed step by step, as long as it stays in S, is that fold.
Computes(h, n, S, e, step) ==
    h[0] = e /\ \A i \in 1 .. n : h[i - 1] \in S => h[i] = step[<<h[i - 1], i>>]

LEMMA FoldUnique ==
    ASSUME NEW N \in Nat, NEW S, NEW e \in S, NEW step, IsStep(step, S, N),
           NEW f, Folded(f, N, S, e, step),
           NEW n \in 0 .. N, NEW h, Computes(h, n, S, e, step)
    PROVE  \A i \in 0 .. n : h[i] = f[i]
<1> DEFINE Bad == {i \in 0 .. n : h[i] # f[i]}
<1> SUFFICES ASSUME Bad # {} PROVE FALSE
  OBVIOUS
<1>1. Bad \in SUBSET Nat
  OBVIOUS
<1>2. PICK m \in Bad : \A j \in Bad : m <= j
  <2> HIDE DEF Bad
  <2> QED BY <1>1, Least
<1>3. m \in 0 .. n /\ m # 0 /\ m \in 1 .. n /\ m - 1 \in 0 .. n /\ m - 1 \in 0 .. N /\ m \in 1 .. N
  BY DEF Folded, Computes
<1>4. h[m - 1] = f[m - 1]
  <2>1. m - 1 \notin Bad
    BY <1>2, <1>3
  <2> QED BY <2>1, <1>3
<1>5. h[m] = step[<<f[m - 1], m>>]
  <2>1. f[m - 1] \in S
    BY <1>3 DEF Folded
  <2> QED BY <2>1, <1>3, <1>4 DEF Computes
<1>6. f[m] = step[<<f[m - 1], m>>]
  BY <1>3 DEF Folded
<1> QED BY <1>5, <1>6, <1>3

\* A total starts at 0 and grows by one weight at a time.
LEMMA TotalStep ==
    ASSUME NEW N \in Nat, NEW w \in [1 .. N -> Nat]
    PROVE  /\ Total(w, 0) = 0
           /\ \A n \in 0 .. N : Total(w, n) \in Nat
           /\ \A n \in 1 .. N : Total(w, n) = Total(w, n - 1) + w[n]
<1>0. PICK T : T = Nat
  OBVIOUS
<1>z. PICK z \in T : z = 0
  BY <1>0
<1> DEFINE step == [p \in Nat \X (1 .. N) |-> p[1] + w[p[2]]]
<1>1. IsStep(step, T, N)
  BY <1>0 DEF IsStep
<1>2. \A a \in Nat, i \in 1 .. N : step[<<a, i>>] = a + w[i]
  OBVIOUS
<1> HIDE DEF step
<1>3. PICK f : Folded(f, N, T, z, step)
  BY <1>1, FoldExists
<1>6. \A n \in 0 .. N : f[n] \in Nat
  BY <1>0, <1>3 DEF Folded
<1>5. f[0] = 0 /\ \A n \in 1 .. N : f[n] = f[n - 1] + w[n] /\ n - 1 \in 0 .. N
  <2>1. \A n \in 1 .. N : n - 1 \in 0 .. N
    OBVIOUS
  <2>2. \A n \in 1 .. N : f[n - 1] \in Nat
    BY <1>0, <2>1, <1>3 DEF Folded
  <2>3. f[0] = 0 /\ \A n \in 1 .. N : f[n] = step[<<f[n - 1], n>>]
    BY <1>z, <1>3 DEF Folded
  <2> QED BY <1>2, <2>1, <2>2, <2>3
<1>4. ASSUME NEW n \in 0 .. N PROVE Total(w, n) = f[n]
  <2> DEFINE Eq(s) == s = [i \in 0 .. n |-> IF i = 0 THEN 0 ELSE s[i - 1] + w[i]]
             g == [i \in 0 .. n |-> f[i]]
  <2>1. Eq(g)
    <3>1. f[0] = 0 /\ \A i \in 1 .. n : f[i] = f[i - 1] + w[i]
      BY <1>5
    <3>2. \A i \in 0 .. n : f[i] = IF i = 0 THEN 0 ELSE g[i - 1] + w[i]
      BY <3>1
    <3> QED BY <3>2
  <2> DEFINE h == CHOOSE s : Eq(s)
  <2>2. Eq(h)
    BY <2>1
  <2>3. Total(w, n) = h[n]
    BY DEF Total, Through
  <2> HIDE DEF h
  <2>4. h[0] = 0 /\ \A i \in 1 .. n : h[i] = h[i - 1] + w[i] /\ i \in 1 .. N
    BY <2>2
  <2>5. h[n] = f[n]
    <3>1. \A i \in 1 .. n : h[i - 1] \in Nat => h[i] = step[<<h[i - 1], i>>]
      BY <2>4, <1>2
    <3>3. Computes(h, n, T, z, step)
      BY <1>0, <1>z, <2>4, <3>1 DEF Computes
    <3>2. \A i \in 0 .. n : h[i] = f[i]
      BY <1>1, <1>3, <3>3, FoldUnique
    <3> QED BY <3>2
  <2> HIDE DEF Eq, g
  <2> QED BY <2>3, <2>5
<1>7. Total(w, 0) = 0
  <2>1. 0 \in 0 .. N
    OBVIOUS
  <2> QED BY <2>1, <1>4, <1>5
<1>8. ASSUME NEW n \in 1 .. N PROVE Total(w, n) = Total(w, n - 1) + w[n]
  <2>1. n - 1 \in 0 .. N /\ n \in 0 .. N /\ f[n] = f[n - 1] + w[n]
    BY <1>5
  <2>2. Total(w, n) = f[n] /\ Total(w, n - 1) = f[n - 1]
    BY <2>1, <1>4
  <2> QED BY <2>1, <2>2
<1> QED BY <1>4, <1>6, <1>7, <1>8

\* Equal weights add up to the same,
LEMMA TotalSame ==
    ASSUME NEW M \in Nat, NEW v \in [1 .. M -> Nat],
           NEW N \in Nat, NEW w \in [1 .. N -> Nat],
           NEW n \in 0 .. N, n <= M, \A i \in 1 .. n : v[i] = w[i]
    PROVE  Total(v, n) = Total(w, n)
<1> DEFINE Bad == {i \in 0 .. n : Total(v, i) # Total(w, i)}
<1> SUFFICES ASSUME Bad # {} PROVE FALSE
  <2>1. n \in 0 .. n
    OBVIOUS
  <2> QED BY <2>1
<1>1. Bad \in SUBSET Nat
  OBVIOUS
<1>2. PICK m \in Bad : \A j \in Bad : m <= j
  <2> HIDE DEF Bad
  <2> QED BY <1>1, Least
<1>3. Total(v, 0) = 0 /\ Total(w, 0) = 0
  BY TotalStep
<1>4. /\ m \in 1 .. n /\ m \in 1 .. N /\ m \in 1 .. M
      /\ m - 1 \in 0 .. n /\ m - 1 \notin Bad
  BY <1>2, <1>3
<1>5. Total(v, m) = Total(v, m - 1) + v[m] /\ Total(w, m) = Total(w, m - 1) + w[m]
  BY <1>4, TotalStep
<1> QED BY <1>4, <1>5

\* no weight adds up to nothing,
LEMMA TotalOfNothing ==
    ASSUME NEW N \in Nat, NEW w \in [1 .. N -> Nat], NEW n \in 0 .. N,
           \A i \in 1 .. N : w[i] = 0
    PROVE  Total(w, n) = 0
<1> DEFINE Bad == {i \in 0 .. N : Total(w, i) # 0}
<1> SUFFICES ASSUME Bad # {} PROVE FALSE
  OBVIOUS
<1>1. Bad \in SUBSET Nat
  OBVIOUS
<1>2. PICK m \in Bad : \A j \in Bad : m <= j
  <2> HIDE DEF Bad
  <2> QED BY <1>1, Least
<1>3. Total(w, 0) = 0
  BY TotalStep
<1>4. m \in 1 .. N /\ m - 1 \in 0 .. N /\ m - 1 \notin Bad
  BY <1>2, <1>3
<1>5. Total(w, m) = Total(w, m - 1) + w[m]
  BY <1>4, TotalStep
<1> QED BY <1>4, <1>5

\* and weights that differ in one place add up to so much more or less.
LEMMA TotalChanged ==
    ASSUME NEW N \in Nat, NEW v \in [1 .. N -> Nat], NEW w \in [1 .. N -> Nat],
           NEW k \in 1 .. N, \A i \in 1 .. N : i # k => v[i] = w[i]
    PROVE  \A n \in k .. N : Total(w, n) - Total(v, n) = w[k] - v[k]
<1> DEFINE Bad == {i \in k .. N : Total(w, i) - Total(v, i) # w[k] - v[k]}
<1> SUFFICES ASSUME Bad # {} PROVE FALSE
  OBVIOUS
<1>1. Bad \in SUBSET Nat
  OBVIOUS
<1>2. PICK m \in Bad : \A j \in Bad : m <= j
  <2> HIDE DEF Bad
  <2> QED BY <1>1, Least
<1>3. /\ m \in 1 .. N /\ m - 1 \in 0 .. N
      /\ v[m] \in Nat /\ w[m] \in Nat /\ v[k] \in Nat /\ w[k] \in Nat
  BY <1>2
<1>4. /\ Total(v, m) = Total(v, m - 1) + v[m] /\ Total(w, m) = Total(w, m - 1) + w[m]
      /\ Total(v, m - 1) \in Nat /\ Total(w, m - 1) \in Nat
  BY <1>3, TotalStep
<1>5. CASE m = k
  <2>1. Total(v, m - 1) = Total(w, m - 1)
    <3>1. \A i \in 1 .. m - 1 : v[i] = w[i]
      BY <1>5
    <3>2. m - 1 <= N
      BY <1>3
    <3> QED BY <1>3, <3>1, <3>2, TotalSame
  <2> QED BY <2>1, <1>3, <1>4, <1>5
<1>6. CASE m # k
  <2>1. m - 1 \in k .. N /\ m - 1 \notin Bad /\ v[m] = w[m]
    BY <1>2, <1>6, <1>3
  <2> QED BY <2>1, <1>3, <1>4
<1> QED BY <1>5, <1>6

-----------------------------------------------------------------------------
(* What is counted or added up in another order. *)

OneToOne(f, S, T) ==
    f \in [S -> T] /\ \A a, b \in S : f[a] = f[b] => a = b

Onto(f, S, T) == \A t \in T : \E s \in S : f[s] = t

LEMMA NoMore ==
    ASSUME NEW S, NEW T, IsFiniteSet(T), NEW f, OneToOne(f, S, T)
    PROVE  IsFiniteSet(S) /\ Cardinality(S) <= Cardinality(T)
<1>1. f \in Injection(S, T)
  BY Fun_IsInj DEF OneToOne
<1> QED BY <1>1, FS_Injection

LEMMA AsMany ==
    ASSUME NEW S, IsFiniteSet(S), NEW T, NEW f, OneToOne(f, S, T), Onto(f, S, T)
    PROVE  IsFiniteSet(T) /\ Cardinality(T) = Cardinality(S)
<1>1. f \in Injection(S, T) /\ f \in Surjection(S, T)
  BY Fun_IsInj, Fun_IsSurj DEF OneToOne, Onto
<1> QED BY <1>1, FS_Surjection

\* The weights of the positions in S, no weight elsewhere.
Only(w, n, S) == [i \in 1 .. n |-> IF i \in S THEN w[i] ELSE 0]

LEMMA WeightAdded ==
    ASSUME NEW n \in Nat, NEW x \in [1 .. n -> Nat], NEW y \in [1 .. n -> Nat], NEW p \in 1 .. n,
           \A i \in 1 .. n : i # p => x[i] = y[i]
    PROVE  x[p] = 0 => Total(y, n) = Total(x, n) + y[p]
<1>1. \A l \in p .. n : Total(y, l) - Total(x, l) = y[p] - x[p]
  BY TotalChanged, Zenon
<1>2. n \in p .. n /\ n \in 0 .. n /\ x[p] \in Nat /\ y[p] \in Nat
  OBVIOUS
<1>3. Total(x, n) \in Nat /\ Total(y, n) \in Nat
  BY <1>2, TotalStep
<1> QED BY <1>1, <1>2, <1>3

LEMMA OnlyTyped ==
    ASSUME NEW n \in Nat, NEW w \in [1 .. n -> Nat], NEW S
    PROVE  Only(w, n, S) \in [1 .. n -> Nat] /\ Total(Only(w, n, S), n) \in Nat
<1>1. PICK x \in [1 .. n -> Nat] : x = Only(w, n, S)
  BY DEF Only
<1>2. n \in 0 .. n
  OBVIOUS
<1> QED BY <1>1, <1>2, TotalStep

LEMMA OnlyNothing ==
    ASSUME NEW n \in Nat, NEW w \in [1 .. n -> Nat]
    PROVE  Total(Only(w, n, {}), n) = 0
<1>1. PICK x \in [1 .. n -> Nat] : x = Only(w, n, {})
  BY DEF Only
<1>2. n \in 0 .. n /\ \A i \in 1 .. n : x[i] = 0
  BY <1>1 DEF Only
<1>3. Total(x, n) = 0
  BY <1>2, TotalOfNothing, Zenon
<1> QED BY <1>1, <1>3

LEMMA OnlyMore ==
    ASSUME NEW n \in Nat, NEW w \in [1 .. n -> Nat], NEW S, NEW p \in 1 .. n, p \notin S
    PROVE  Total(Only(w, n, S \cup {p}), n) = Total(Only(w, n, S), n) + w[p]
<1>1. PICK x \in [1 .. n -> Nat], y \in [1 .. n -> Nat] :
         x = Only(w, n, S) /\ y = Only(w, n, S \cup {p})
  BY DEF Only
<1>2. x[p] = 0 /\ y[p] = w[p]
  BY <1>1 DEF Only
<1>3. \A i \in 1 .. n : i # p => x[i] = y[i]
  BY <1>1 DEF Only
<1>4. x[p] = 0 => Total(y, n) = Total(x, n) + y[p]
  BY <1>3, WeightAdded, Zenon
<1> QED BY <1>1, <1>2, <1>4, Zenon

\* A position of 1 to n for each of 1 to m, none twice: what they weigh is the
\* weight of those positions.
\* The positions that f has up to m.
Taken(f, m) == {f[k] : k \in 1 .. m}

LEMMA TotalThrough ==
    ASSUME NEW n \in Nat, NEW w \in [1 .. n -> Nat], NEW m \in Nat,
           NEW f, OneToOne(f, 1 .. m, 1 .. n),
           NEW v \in [1 .. m -> Nat], \A k \in 1 .. m : v[k] = w[f[k]]
    PROVE  Total(v, m) = Total(Only(w, n, Taken(f, m)), n)
<1>1. f \in [1 .. m -> 1 .. n] /\ \A a, b \in 1 .. m : f[a] = f[b] => a = b
  BY DEF OneToOne
<1> DEFINE U(k) == Only(w, n, {f[l] : l \in 1 .. k})
           Bad == {k \in 0 .. m : Total(v, k) # Total(U(k), n)}
<1>2. Bad = {}
  <2> SUFFICES ASSUME Bad # {} PROVE FALSE
    OBVIOUS
  <2>1. PICK k \in Bad : \A j \in Bad : k <= j
    <3>1. Bad \in SUBSET Nat
      OBVIOUS
    <3> HIDE DEF Bad
    <3> QED BY <3>1, Least
  <2>2. k \in 0 .. m /\ Total(v, k) # Total(U(k), n)
    BY <2>1
  <2>3. \A j \in 0 .. m : j < k => Total(v, j) = Total(U(j), n)
    BY <2>1, <2>2
  <2> HIDE DEF Bad
  <2>4. k # 0
    <3> SUFFICES ASSUME k = 0 PROVE FALSE
      OBVIOUS
    <3>1. Total(v, 0) = 0
      BY TotalStep
    <3>2. U(0) = Only(w, n, {})
      <4>1. {f[l] : l \in 1 .. 0} = {}
        OBVIOUS
      <4> QED BY <4>1, Zenon
    <3> HIDE DEF U
    <3>3. Total(Only(w, n, {}), n) = 0
      BY OnlyNothing, Zenon
    <3> QED BY <3>1, <3>2, <3>3, <2>2, Zenon
  <2>5. k \in 1 .. m /\ k - 1 \in 0 .. m /\ k - 1 < k
    BY <2>2, <2>4
  <2>6. PICK p \in 1 .. n : p = f[k]
    BY <2>5, <1>1
  <2>7. PICK S : S = {f[l] : l \in 1 .. k - 1}
    OBVIOUS
  <2>8. p \notin S
    <3>1. \A l \in 1 .. k - 1 : l \in 1 .. m /\ l # k
      BY <2>5
    <3> QED BY <3>1, <2>5, <2>6, <2>7, <1>1
  <2>9. {f[l] : l \in 1 .. k} = S \cup {p}
    <3>1. \A l \in 1 .. k : l = k \/ l \in 1 .. k - 1
      BY <2>5
    <3>2. k \in 1 .. k /\ \A l \in 1 .. k - 1 : l \in 1 .. k
      BY <2>5
    <3> QED BY <3>1, <3>2, <2>6, <2>7
  <2>10. U(k - 1) = Only(w, n, S) /\ U(k) = Only(w, n, S \cup {p})
    BY <2>7, <2>9
  <2> HIDE DEF U
  <2>11. Total(Only(w, n, S \cup {p}), n) = Total(Only(w, n, S), n) + w[p]
    BY <2>8, OnlyMore, ZenonT(30)
  <2>12. Total(v, k) = Total(v, k - 1) + v[k]
    BY <2>5, TotalStep
  <2>13. v[k] = w[p]
    BY <2>5, <2>6
  <2>14. Total(v, k - 1) = Total(U(k - 1), n)
    BY <2>3, <2>5
  <2> QED BY <2>2, <2>10, <2>11, <2>12, <2>13, <2>14
<1>3. m \in 0 .. m
  OBVIOUS
<1>4. U(m) = Only(w, n, Taken(f, m))
  BY Zenon DEF Taken
<1> HIDE DEF U
<1> QED BY <1>2, <1>3, <1>4, Zenon

\* In any order the weights add up to the same.
LEMMA TotalReordered ==
    ASSUME NEW n \in Nat, NEW f, OneToOne(f, 1 .. n, 1 .. n), Onto(f, 1 .. n, 1 .. n),
           NEW w \in [1 .. n -> Nat], NEW v \in [1 .. n -> Nat],
           \A k \in 1 .. n : v[k] = w[f[k]]
    PROVE  Total(v, n) = Total(w, n)
<1>1. PICK S : S = Taken(f, n)
  OBVIOUS
<1>2. S = 1 .. n
  BY <1>1 DEF OneToOne, Onto, Taken
<1>3. Only(w, n, S) = w
  <2>1. Only(w, n, S) = [i \in 1 .. n |-> w[i]]
    BY <1>2 DEF Only
  <2> QED BY <2>1
<1>4. Total(v, n) = Total(Only(w, n, Taken(f, n)), n)
  BY TotalThrough, Zenon
<1> QED BY <1>1, <1>3, <1>4, Zenon

-----------------------------------------------------------------------------
(* What is sorted has everything once. *)

\* O is a strict order of the positions up to n.
StrictOrder(O, n) ==
    /\ \A i \in 1 .. n : <<i, i>> \notin O
    /\ \A i, j, k \in 1 .. n : <<i, j>> \in O /\ <<j, k>> \in O => <<i, k>> \in O
    /\ \A i, j \in 1 .. n : i = j \/ <<i, j>> \in O \/ <<j, i>> \in O

Ahead(O, n, i) == {j \in 1 .. n : <<j, i>> \in O}

\* The k-th of them.
PlaceOf(O, n, k) == CHOOSE i \in 1 .. n : Cardinality(Ahead(O, n, i)) = k - 1

LEMMA Placed ==
    ASSUME NEW n \in Nat, NEW O, StrictOrder(O, n)
    PROVE  \E f : /\ OneToOne(f, 1 .. n, 1 .. n) /\ Onto(f, 1 .. n, 1 .. n)
                  /\ \A k \in 1 .. n : f[k] = PlaceOf(O, n, k)
<1>1. \A i \in 1 .. n : <<i, i>> \notin O
  BY DEF StrictOrder
<1>2. \A i, j, k \in 1 .. n : <<i, j>> \in O /\ <<j, k>> \in O => <<i, k>> \in O
  BY DEF StrictOrder
<1>3. \A i, j \in 1 .. n : i = j \/ <<i, j>> \in O \/ <<j, i>> \in O
  BY DEF StrictOrder
<1>4. \A i : Ahead(O, n, i) \in SUBSET (1 .. n)
  BY DEF Ahead
<1>5. IsFiniteSet(1 .. n) /\ Cardinality(1 .. n) = n
  BY Interval
<1>6. ASSUME NEW i \in 1 .. n
      PROVE  IsFiniteSet(Ahead(O, n, i)) /\ Cardinality(Ahead(O, n, i)) \in 0 .. n - 1
  <2>1. PICK A : A = Ahead(O, n, i)
    OBVIOUS
  <2>2. A \in SUBSET (1 .. n) /\ i \notin A
    BY <2>1, <1>1, <1>4 DEF Ahead
  <2>3. IsFiniteSet(A) /\ Cardinality(A) <= n /\ (n = Cardinality(A) => 1 .. n = A)
    BY <2>2, <1>5, FS_Subset
  <2>4. Cardinality(A) \in Nat
    BY <2>3, FS_CardinalityType
  <2>5. Cardinality(A) # n
    BY <2>2, <2>3
  <2> QED BY <2>1, <2>3, <2>4, <2>5
<1>7. ASSUME NEW i \in 1 .. n, NEW j \in 1 .. n, <<i, j>> \in O
      PROVE  Cardinality(Ahead(O, n, i)) # Cardinality(Ahead(O, n, j))
  <2>1. PICK A, B : A = Ahead(O, n, i) /\ B = Ahead(O, n, j)
    OBVIOUS
  <2>2. A \in SUBSET B /\ i \in B /\ i \notin A
    BY <2>1, <1>1, <1>2, <1>7 DEF Ahead
  <2>3. IsFiniteSet(B)
    BY <2>1, <1>6
  <2>4. Cardinality(B) = Cardinality(A) => B = A
    BY <2>2, <2>3, FS_Subset
  <2> QED BY <2>1, <2>2, <2>4
<1> DEFINE g == [i \in 1 .. n |-> Cardinality(Ahead(O, n, i)) + 1]
<1>8. g \in [1 .. n -> 1 .. n]
  <2>1. \A i \in 1 .. n : Cardinality(Ahead(O, n, i)) + 1 \in 1 .. n
    <3> SUFFICES ASSUME NEW i \in 1 .. n PROVE Cardinality(Ahead(O, n, i)) + 1 \in 1 .. n
      OBVIOUS
    <3>1. PICK c \in 0 .. n - 1 : c = Cardinality(Ahead(O, n, i))
      BY <1>6
    <3>2. c + 1 \in 1 .. n
      OBVIOUS
    <3> QED BY <3>1, <3>2
  <2> QED BY <2>1
<1>9. \A i, j \in 1 .. n : g[i] = g[j] => i = j
  <2> SUFFICES ASSUME NEW i \in 1 .. n, NEW j \in 1 .. n, g[i] = g[j] PROVE i = j
    OBVIOUS
  <2>1. PICK c \in Nat, d \in Nat : c = Cardinality(Ahead(O, n, i)) /\ d = Cardinality(Ahead(O, n, j))
    BY <1>6
  <2>2. c = d
    <3>1. c + 1 = d + 1
      BY <2>1
    <3> QED BY <3>1
  <2> QED BY <2>1, <2>2, <1>3, <1>7
<1>10. g \in Surjection(1 .. n, 1 .. n)
  <2>1. g \in Injection(1 .. n, 1 .. n)
    <3> HIDE DEF g
    <3> QED BY <1>8, <1>9, Fun_IsInj
  <2> HIDE DEF g
  <2> QED BY <2>1, <1>5, FS_Injection
<1>11. \A k \in 1 .. n : \E i \in 1 .. n : g[i] = k
  <2> HIDE DEF g
  <2> QED BY <1>10, Fun_SurjectionProperties
<1> DEFINE f == [k \in 1 .. n |-> PlaceOf(O, n, k)]
<1>12. ASSUME NEW k \in 1 .. n, NEW i \in 1 .. n PROVE g[i] = k <=> PlaceOf(O, n, k) = i
  <2>1. ASSUME NEW j \in 1 .. n PROVE g[j] = k <=> Cardinality(Ahead(O, n, j)) = k - 1
    <3>1. PICK c \in Nat : c = Cardinality(Ahead(O, n, j))
      BY <1>6
    <3>2. g[j] = c + 1
      BY <3>1
    <3> HIDE DEF g
    <3> QED BY <3>1, <3>2
  <2>2. PICK j \in 1 .. n : g[j] = k
    BY <1>11
  <2> HIDE DEF g
  <2>3. Cardinality(Ahead(O, n, j)) = k - 1
    BY <2>1, <2>2
  <2>4. /\ PlaceOf(O, n, k) \in 1 .. n
        /\ Cardinality(Ahead(O, n, PlaceOf(O, n, k))) = k - 1
    BY <2>3, Zenon DEF PlaceOf
  <2>5. g[PlaceOf(O, n, k)] = k
    BY <2>1, <2>4
  <2> QED BY <2>4, <2>5, <1>9
<1> HIDE DEF g
<1>13. f \in [1 .. n -> 1 .. n] /\ \A k \in 1 .. n : f[k] = PlaceOf(O, n, k)
  <2>1. \A k \in 1 .. n : PlaceOf(O, n, k) \in 1 .. n
    BY <1>11, <1>12
  <2> QED BY <2>1
<1>14. \A k, l \in 1 .. n : f[k] = f[l] => k = l
  <2> HIDE DEF f
  <2> QED BY <1>12, <1>13
<1>15. \A i \in 1 .. n : \E k \in 1 .. n : f[k] = i
  <2> HIDE DEF f
  <2> QED BY <1>8, <1>12, <1>13
<1> HIDE DEF f
<1> QED BY <1>13, <1>14, <1>15 DEF OneToOne, Onto

\* The positions that f takes into S, in their order, are S in some order.
Reordered(h, c, f, E, S) ==
    /\ c \in Nat /\ c = Cardinality(S) /\ c = Cardinality(E)
    /\ OneToOne(h, 1 .. c, 1 .. c) /\ Onto(h, 1 .. c, 1 .. c)
    /\ \A k \in 1 .. c : Nth(E, k) \in E /\ Nth(S, h[k]) = f[Nth(E, k)]

LEMMA SelectedReordered ==
    ASSUME NEW n \in Nat, NEW f, OneToOne(f, 1 .. n, 1 .. n), Onto(f, 1 .. n, 1 .. n),
           NEW S \in SUBSET (1 .. n), NEW E, E = {i \in 1 .. n : f[i] \in S}
    PROVE  \E c, h : Reordered(h, c, f, E, S)
<1>1. /\ f \in [1 .. n -> 1 .. n] /\ \A a, b \in 1 .. n : f[a] = f[b] => a = b
      /\ \A t \in 1 .. n : \E s \in 1 .. n : f[s] = t
  BY DEF OneToOne, Onto
<1>2. E \in SUBSET (1 .. n) /\ \A i \in 1 .. n : i \in E <=> f[i] \in S
  OBVIOUS
<1>3. PICK c \in Nat : c = Cardinality(S) /\ \A i \in S : Rank(S, i) \in 1 .. c
  BY Ranks
<1>4. IsFiniteSet(E) /\ \A i \in E : Rank(E, i) \in 1 .. Cardinality(E)
  BY <1>2, Ranks
<1>5. Cardinality(E) = c
  <2>1. PICK g : g = [i \in E |-> f[i]]
    OBVIOUS
  <2>2. OneToOne(g, E, S)
    <3>1. g \in [E -> S] /\ \A i \in E : g[i] = f[i]
      BY <2>1, <1>2
    <3> QED BY <3>1, <1>1, <1>2 DEF OneToOne
  <2>3. Onto(g, E, S)
    <3> SUFFICES ASSUME NEW t \in S PROVE \E i \in E : g[i] = t
      BY DEF Onto
    <3>1. PICK i \in 1 .. n : f[i] = t
      BY <1>1
    <3>2. i \in E
      BY <3>1, <1>2
    <3> QED BY <3>1, <3>2, <2>1
  <2> QED BY <2>2, <2>3, <1>3, <1>4, AsMany
<1>6. /\ \A k \in 1 .. c : Nth(E, k) \in E /\ Rank(E, Nth(E, k)) = k
      /\ \A i \in E : \A k : Rank(E, i) = k => Nth(E, k) = i
  BY <1>2, <1>5, Enumerated
<1>7. /\ \A k \in 1 .. c : Nth(S, k) \in S /\ Rank(S, Nth(S, k)) = k
      /\ \A i \in S : \A k : Rank(S, i) = k => Nth(S, k) = i
  BY <1>3, Enumerated
<1>8. PICK h : h = [k \in 1 .. c |-> Rank(S, f[Nth(E, k)])]
  OBVIOUS
<1>9. \A k \in 1 .. c : f[Nth(E, k)] \in S
  BY <1>2, <1>6
<1>10. h \in [1 .. c -> 1 .. c] /\ \A k \in 1 .. c : h[k] = Rank(S, f[Nth(E, k)])
  BY <1>3, <1>8, <1>9
<1>11. \A k \in 1 .. c : Nth(S, h[k]) = f[Nth(E, k)]
  BY <1>7, <1>9, <1>10
<1>12. OneToOne(h, 1 .. c, 1 .. c)
  <2>1. ASSUME NEW a \in 1 .. c, NEW b \in 1 .. c, h[a] = h[b] PROVE a = b
    <3>1. f[Nth(E, a)] = f[Nth(E, b)]
      BY <2>1, <1>11
    <3>2. Nth(E, a) \in 1 .. n /\ Nth(E, b) \in 1 .. n
      BY <1>2, <1>6
    <3>3. Nth(E, a) = Nth(E, b)
      BY <3>1, <3>2, <1>1
    <3> QED BY <3>3, <1>6
  <2> QED BY <2>1, <1>10 DEF OneToOne
<1>13. Onto(h, 1 .. c, 1 .. c)
  <2> SUFFICES ASSUME NEW t \in 1 .. c PROVE \E k \in 1 .. c : h[k] = t
    BY DEF Onto
  <2>1. PICK i \in S : i = Nth(S, t) /\ Rank(S, i) = t
    BY <1>7
  <2>2. PICK j \in 1 .. n : f[j] = i
    BY <1>1
  <2>3. j \in E
    BY <2>2, <1>2
  <2>4. PICK k \in 1 .. c : k = Rank(E, j)
    BY <2>3, <1>4, <1>5
  <2>5. Nth(E, k) = j
    BY <2>3, <2>4, <1>6
  <2>6. h[k] = t
    BY <2>1, <2>2, <2>5, <1>10
  <2> QED BY <2>6
<1>14. \A k \in 1 .. c : Nth(E, k) \in E /\ Nth(S, h[k]) = f[Nth(E, k)]
  BY <1>6, <1>11
<1>15. Reordered(h, c, f, E, S)
  BY <1>3, <1>5, <1>12, <1>13, <1>14 DEF Reordered
<1> QED BY <1>15
=============================================================================
