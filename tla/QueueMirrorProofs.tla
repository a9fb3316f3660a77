------------------------- MODULE QueueMirrorProofs -------------------------
(***************************************************************************)
(* Proofs about the queue mirror, for any clients, texts and scenarios.    *)
(*                                                                         *)
(* Its methods are scans of sequences, written as recursive functions, so  *)
(* the module first derives induction over the naturals and the existence  *)
(* of recursively defined functions from the library's WFMin, with sets    *)
(* and functions in place of the operators that the provers cannot         *)
(* instantiate.  Then: what the scans return, what each method of the      *)
(* mirror does to a good mirror, what each action does to the state, and   *)
(* the theorems about the specification.                                   *)
(***************************************************************************)
EXTENDS QueueMirror, NaturalsInduction, WellFoundedInduction,
        SequenceTheorems, TLAPS

\* Every nonempty set of naturals has a least element: WFMin of the library for
\* the order on Nat.  (Its induction rules take an operator, and the provers
\* cannot instantiate them.)
LEMMA NatMin ==
  ASSUME NEW T \in SUBSET Nat, T # {}
  PROVE  \E x \in T : \A y \in T : x <= y
<1> DEFINE R == {p \in Nat \X Nat : p[1] < p[2]}
<1>1. IsWellFoundedOn(OpToRel(<, Nat), Nat)
  BY NatLessThanWellFounded
<1>2. R = OpToRel(<, Nat)
  BY DEF OpToRel
<1>3. IsWellFoundedOn(R, Nat)
  BY <1>1, <1>2
<1>4. \E x \in T : \A y \in T : ~ (<<y, x>> \in R)
  <2> HIDE DEF R
  <2> QED BY <1>3, WFMin
<1>5. \A x, y \in Nat : ~(<<y, x>> \in R) => x <= y
  <2> SUFFICES ASSUME NEW x \in Nat, NEW y \in Nat, y < x
               PROVE  <<y, x>> \in R
    OBVIOUS
  <2> QED OBVIOUS
<1> QED
  <2> HIDE DEF R
  <2> QED BY <1>4, <1>5

\* Induction over the naturals, for a set instead of a predicate.
LEMMA Induction ==
  ASSUME NEW T, 0 \in T, \A n \in Nat : n \in T => n + 1 \in T
  PROVE  Nat \subseteq T
<1> SUFFICES ASSUME NEW k \in Nat, k \notin T PROVE FALSE
  OBVIOUS
<1> DEFINE B == {n \in Nat : n \notin T}
<1>1. PICK m \in B : \A y \in B : m <= y
  BY NatMin
<1>2. m # 0 /\ m - 1 \in Nat /\ m - 1 \notin B
  BY <1>1
<1> QED BY <1>2, <1>1

\* The same up to a bound, for what is true of a prefix of a scan.
LEMMA BoundedInduction ==
  ASSUME NEW T, NEW n \in Nat, 0 \in T,
         \A k \in 1..n : k - 1 \in T => k \in T
  PROVE  0..n \subseteq T
<1> DEFINE B == {k \in Nat : k <= n => k \in T}
<1>1. 0 \in B
  OBVIOUS
<1>2. ASSUME NEW k \in Nat, k \in B PROVE k + 1 \in B
  <2> SUFFICES ASSUME k + 1 <= n PROVE k + 1 \in T
    OBVIOUS
  <2>1. k \in T /\ k + 1 \in 1..n /\ (k + 1) - 1 = k
    BY <1>2
  <2> QED BY <2>1
<1>3. Nat \subseteq B
  <2> HIDE DEF B
  <2> QED BY <1>1, <1>2, Induction
<1> QED BY <1>3

\* Functions are equal if they have the same domain and the same values.
LEMMA SameFunction ==
  ASSUME NEW D, NEW f, NEW g, f = [x \in D |-> f[x]], g = [x \in D |-> g[x]],
         \A x \in D : f[x] = g[x]
  PROVE  f = g
OBVIOUS

\* g is computed from first by the steps F, each a function of the value before.
Computes(g, n, S, first, F) ==
  /\ g \in [0..n -> S]
  /\ g[0] = first
  /\ \A i \in 1..n : g[i] = F[i][g[i - 1]]

\* A scan exists: the function that starts with a value and goes on with steps
\* given as a function is well defined.  Retain, reorder_local and Matched are
\* scans of this form.
LEMMA Recursion ==
  ASSUME NEW S, NEW n \in Nat, NEW first \in S,
         NEW F \in [1..n -> [S -> S]]
  PROVE  \E g : Computes(g, n, S, first, F)
<1> DEFINE T == {k \in Nat : k <= n => \E g : Computes(g, k, S, first, F)}
<1>1. 0 \in T
  <2> DEFINE g0 == [i \in 0..0 |-> first]
  <2>1. Computes(g0, 0, S, first, F)
    BY DEF Computes
  <2> QED BY <2>1
<1>2. ASSUME NEW k \in Nat, k \in T PROVE k + 1 \in T
  <2> SUFFICES ASSUME k + 1 <= n
               PROVE  \E g : Computes(g, k + 1, S, first, F)
    OBVIOUS
  <2>1. PICK g : Computes(g, k, S, first, F)
    BY <1>2
  <2> DEFINE v == F[k + 1][g[k]]
             h == [i \in 0..(k + 1) |-> IF i = k + 1 THEN v ELSE g[i]]
  <2>2. v \in S
    BY <2>1 DEF Computes
  <2>3. h \in [0..(k + 1) -> S]
    <3> HIDE DEF v
    <3> QED BY <2>1, <2>2 DEF Computes
  <2>4. h[0] = first /\ \A i \in 1..(k + 1) : h[i] = F[i][h[i - 1]]
    BY <2>1 DEF Computes
  <2> HIDE DEF h
  <2> QED BY <2>3, <2>4 DEF Computes
<1>3. n \in T
  <2> HIDE DEF T
  <2> QED BY <1>1, <1>2, Induction
<1> QED BY <1>3

\* The intermediate results of Retain.
Keeps(kept, S, s, I) ==
  /\ kept \in [0..Len(s) -> Seq(S)]
  /\ kept[0] = <<>>
  /\ \A n \in 1..Len(s) :
       kept[n] = IF n \in I THEN Append(kept[n - 1], s[n]) ELSE kept[n - 1]

\* Retain computes what its recursive definition says.
LEMMA RetainDef ==
  ASSUME NEW S, NEW s \in Seq(S), NEW I
  PROVE  \E kept : Keeps(kept, S, s, I) /\ Retain(s, I) = kept[Len(s)]
<1> DEFINE Q == Seq(S)
           N == Len(s)
           e == <<>>
           Step(n, k) == IF n \in I THEN Append(k, s[n]) ELSE k
           F == [n \in 1..N |-> [k \in Q |-> Step(n, k)]]
           Body(g) == [n \in 0..N |->
                         IF n = 0 THEN e
                         ELSE IF n \in I THEN Append(g[n - 1], s[n])
                         ELSE g[n - 1]]
           K == CHOOSE g : g = Body(g)
<1>1. \A n \in 1..N, k \in Q : Step(n, k) \in Q
  OBVIOUS
<1>2. N \in Nat /\ e \in Q
  OBVIOUS
<1>3. F \in [1..N -> [Q -> Q]]
  <2> HIDE DEF Step, Q, N
  <2> QED BY <1>1
<1>4. PICK g : Computes(g, N, Q, e, F)
  <2> HIDE DEF F, Q, N, e
  <2> QED BY <1>2, <1>3, Recursion
<1>5. ASSUME NEW n \in 1..N PROVE g[n] = Step(n, g[n - 1])
  <2>1. g[n - 1] \in Q
    <3> HIDE DEF Q, N
    <3> QED BY <1>2, <1>4 DEF Computes
  <2> HIDE DEF Step, Q, N
  <2> QED BY <1>4, <2>1 DEF Computes
<1>6. g = Body(g)
  <2> DEFINE b == Body(g)
  <2> HIDE DEF Q, N, e
  <2>1. g[0] = e /\ g = [n \in 0..N |-> g[n]]
    BY <1>4 DEF Computes
  <2>2. ASSUME NEW n \in 0..N PROVE g[n] = b[n]
    BY <1>2, <1>5, <2>1
  <2>3. b = [n \in 0..N |-> b[n]]
    OBVIOUS
  <2>4. g = b
    <3> HIDE DEF b
    <3> QED BY <2>1, <2>2, <2>3, SameFunction
  <2> QED BY <2>4
<1>7. K = Body(K)
  <2> HIDE DEF Body
  <2> QED BY <1>6
<1>8. Retain(s, I) = K[N]
  BY DEF Retain
<1>9. DOMAIN K = 0..N /\ K[0] = e /\ \A n \in 1..N : K[n] = Step(n, K[n - 1])
  <2> DEFINE b == Body(K)
  <2> HIDE DEF K, N, e
  <2>1. DOMAIN b = 0..N /\ b[0] = e
    BY <1>2
  <2>2. ASSUME NEW n \in 1..N PROVE b[n] = Step(n, K[n - 1])
    BY <1>2
  <2>3. K = b
    BY <1>7
  <2> HIDE DEF b, Step
  <2> QED BY <2>1, <2>2, <2>3
<1>10. K \in [0..N -> Q]
  <2> DEFINE T == {n \in 0..N : K[n] \in Q}
  <2> HIDE DEF K, N, Q, e, Step
  <2>1. 0 \in T /\ \A n \in 1..N : n - 1 \in T => n \in T
    BY <1>1, <1>2, <1>9
  <2>2. 0..N \subseteq T
    <3> HIDE DEF T
    <3> QED BY <1>2, <2>1, BoundedInduction
  <2>3. K = [n \in 0..N |-> K[n]]
    BY <1>7
  <2> QED BY <2>2, <2>3
<1>11. Keeps(K, S, s, I)
  <2> HIDE DEF K
  <2> QED BY <1>9, <1>10 DEF Keeps
<1> QED
  <2> HIDE DEF K
  <2> QED BY <1>8, <1>11

\* r is made of items of s at different positions in I, the first n at most.
SubsequenceBy(h, r, s, n, I) ==
  /\ h \in [1..Len(r) -> 1..n]
  /\ \A a \in 1..Len(r) : h[a] \in I /\ r[a] = s[h[a]]
  /\ \A a, b \in 1..Len(r) : h[a] = h[b] => a = b

\* Retain returns a subsequence with the items at the positions kept.
LEMMA RetainFacts ==
  ASSUME NEW S, NEW s \in Seq(S), NEW I
  PROVE  /\ Retain(s, I) \in Seq(S)
         /\ \E h : SubsequenceBy(h, Retain(s, I), s, Len(s), I)
<1>1. PICK kept : Keeps(kept, S, s, I) /\ Retain(s, I) = kept[Len(s)]
  BY RetainDef
<1> DEFINE N == Len(s)
           T == {n \in 0..N : \E h : SubsequenceBy(h, kept[n], s, n, I)}
<1>2. N \in Nat
  OBVIOUS
<1>3. 0 \in T
  <2> DEFINE h0 == [a \in 1..0 |-> 0]
  <2>1. SubsequenceBy(h0, <<>>, s, 0, I)
    BY DEF SubsequenceBy
  <2> QED BY <1>1, <1>2, <2>1 DEF Keeps
<1>4. ASSUME NEW n \in 1..N, n - 1 \in T PROVE n \in T
  <2> DEFINE k == kept[n - 1]
  <2>1. PICK h : SubsequenceBy(h, k, s, n - 1, I)
    BY <1>4
  <2>2. k \in Seq(S) /\ n \in Nat /\ n - 1 \in Nat /\ s[n] \in S /\ n \in 0..N
    <3>1. n - 1 \in 0..N /\ n \in 0..N /\ n \in 1..Len(s)
      BY <1>2
    <3>2. k \in Seq(S)
      BY <1>1, <3>1 DEF Keeps
    <3> QED BY <1>2, <3>1, <3>2
  <2>3. CASE n \notin I
    <3>1. kept[n] = k
      BY <1>1, <2>3 DEF Keeps
    <3>2. SubsequenceBy(h, k, s, n, I)
      <4> HIDE DEF k
      <4> QED BY <2>1, <2>2 DEF SubsequenceBy
    <3> QED BY <2>2, <3>1, <3>2
  <2>4. CASE n \in I
    <3> DEFINE r == Append(k, s[n])
               g == [a \in 1..Len(r) |-> IF a = Len(r) THEN n ELSE h[a]]
    <3>1. kept[n] = r
      BY <1>1, <2>4 DEF Keeps
    <3>2. /\ Len(r) = Len(k) + 1 /\ Len(k) \in Nat
          /\ r[Len(r)] = s[n]
          /\ \A a \in 1..Len(k) : r[a] = k[a]
      <4> HIDE DEF k
      <4> QED BY <2>2
    <3>3. g \in [1..Len(r) -> 1..n]
      <4> HIDE DEF k, r
      <4> QED BY <2>1, <2>2, <3>2 DEF SubsequenceBy
    <3>4. ASSUME NEW a \in 1..Len(r) PROVE g[a] \in I /\ r[a] = s[g[a]]
      <4> HIDE DEF k, r
      <4> QED BY <2>1, <2>2, <2>4, <3>2 DEF SubsequenceBy
    <3>5. ASSUME NEW a \in 1..Len(r), NEW b \in 1..Len(r), g[a] = g[b]
          PROVE  a = b
      <4> HIDE DEF k, r
      <4>1. \A c \in 1..Len(k) : h[c] \in 1..(n - 1)
        BY <2>1 DEF SubsequenceBy
      <4>2. \A c \in 1..Len(r) : c = Len(r) \/ c \in 1..Len(k)
        BY <3>2
      <4>3. CASE a = Len(r) \/ b = Len(r)
        BY <2>2, <3>5, <4>1, <4>2, <4>3
      <4>4. CASE a \in 1..Len(k) /\ b \in 1..Len(k)
        <5>1. g[a] = h[a] /\ g[b] = h[b]
          BY <3>2, <4>4
        <5> QED BY <2>1, <3>5, <4>4, <5>1 DEF SubsequenceBy
      <4> QED BY <4>2, <4>3, <4>4
    <3>6. SubsequenceBy(g, r, s, n, I)
      <4> HIDE DEF g, r
      <4> QED BY <3>3, <3>4, <3>5 DEF SubsequenceBy
    <3> QED BY <2>2, <3>1, <3>6
  <2> QED BY <2>3, <2>4
<1>5. N \in T
  <2>1. 0..N \subseteq T
    <3> HIDE DEF T
    <3> QED BY <1>2, <1>3, <1>4, BoundedInduction
  <2> QED BY <1>2, <2>1
<1>6. kept[N] \in Seq(S)
  BY <1>1, <1>2 DEF Keeps
<1>7. \E h : SubsequenceBy(h, kept[N], s, N, I)
  BY <1>5
<1> QED BY <1>1, <1>6, <1>7

\* The rows of s have different ids.
Distinct(s) == \A i, j \in DOMAIN s : s[i].id = s[j].id => i = j

\* Retain keeps ids different.
LEMMA RetainDistinct ==
  ASSUME NEW S, NEW s \in Seq(S), NEW I
  PROVE  /\ Retain(s, I) \in Seq(S)
         /\ \A i \in DOMAIN Retain(s, I) :
              \E j \in DOMAIN s : j \in I /\ Retain(s, I)[i] = s[j]
         /\ Distinct(s) => Distinct(Retain(s, I))
<1> DEFINE r == Retain(s, I)
<1>1. r \in Seq(S) /\ DOMAIN r = 1..Len(r) /\ DOMAIN s = 1..Len(s)
  BY RetainFacts
<1>2. PICK h : SubsequenceBy(h, r, s, Len(s), I)
  BY RetainFacts
<1> HIDE DEF r
<1>3. \A i \in DOMAIN r : h[i] \in DOMAIN s /\ h[i] \in I /\ r[i] = s[h[i]]
  BY <1>1, <1>2 DEF SubsequenceBy
<1>4. ASSUME Distinct(s) PROVE Distinct(r)
  BY <1>1, <1>2, <1>3, <1>4 DEF Distinct, SubsequenceBy
<1> QED BY <1>1, <1>3, <1>4 DEF r

\* RemoveAt returns the other items, in their order (Vec::remove).
LEMMA RemoveFacts ==
  ASSUME NEW S, NEW s \in Seq(S), NEW p \in DOMAIN s
  PROVE  /\ RemoveAt(s, p) \in Seq(S)
         /\ Len(RemoveAt(s, p)) = Len(s) - 1
         /\ \A i \in DOMAIN RemoveAt(s, p) :
              RemoveAt(s, p)[i] = IF i < p THEN s[i] ELSE s[i + 1]
<1> DEFINE a == SubSeq(s, 1, p - 1)
           b == SubSeq(s, p + 1, Len(s))
<1>1. Len(s) \in Nat /\ p \in 1..Len(s) /\ \A i \in 1..Len(s) : s[i] \in S
  OBVIOUS
<1>2. a \in Seq(S) /\ Len(a) = p - 1 /\ \A i \in 1..(p - 1) : a[i] = s[i]
  BY <1>1
<1>3. /\ b \in Seq(S) /\ Len(b) = Len(s) - p
      /\ \A i \in 1..(Len(s) - p) : b[i] = s[p + i]
  BY <1>1
<1>4. RemoveAt(s, p) = a \o b
  BY DEF RemoveAt
<1> HIDE DEF a, b
<1>5. /\ a \o b \in Seq(S) /\ Len(a \o b) = Len(s) - 1
      /\ DOMAIN (a \o b) = 1..(Len(s) - 1)
  BY <1>1, <1>2, <1>3
<1>6. ASSUME NEW i \in 1..(Len(s) - 1)
      PROVE  (a \o b)[i] = IF i < p THEN s[i] ELSE s[i + 1]
  <2>1. CASE i < p
    BY <1>1, <1>2, <1>3, <2>1
  <2>2. CASE ~(i < p)
    <3>1. i - (p - 1) \in 1..(Len(s) - p) /\ p + (i - (p - 1)) = i + 1
      BY <1>1, <2>2
    <3>2. (a \o b)[i] = b[i - (p - 1)]
      <4>1. i \in 1..(Len(a) + Len(b)) /\ ~(i <= Len(a))
        BY <1>1, <1>2, <1>3, <2>2
      <4> QED BY <1>2, <1>3, <4>1, ConcatProperties
    <3> QED BY <1>3, <2>2, <3>1, <3>2
  <2> QED BY <2>1, <2>2
<1> QED BY <1>4, <1>5, <1>6

\* RemoveAt keeps ids different.
LEMMA RemoveDistinct ==
  ASSUME NEW S, NEW s \in Seq(S), NEW p \in DOMAIN s
  PROVE  /\ RemoveAt(s, p) \in Seq(S)
         /\ \A i \in DOMAIN RemoveAt(s, p) :
              \E j \in DOMAIN s : j # p /\ RemoveAt(s, p)[i] = s[j]
         /\ Distinct(s) => Distinct(RemoveAt(s, p))
<1> DEFINE r == RemoveAt(s, p)
           h(i) == IF i < p THEN i ELSE i + 1
<1>1. /\ r \in Seq(S) /\ DOMAIN r = 1..(Len(s) - 1) /\ DOMAIN s = 1..Len(s)
      /\ p \in 1..Len(s) /\ Len(s) \in Nat
      /\ \A i \in DOMAIN r : r[i] = s[h(i)]
  BY RemoveFacts
<1> HIDE DEF r
<1>2. \A i \in DOMAIN r : h(i) \in DOMAIN s /\ h(i) # p /\ r[i] = s[h(i)]
  BY <1>1
<1>3. \A i, j \in DOMAIN r : h(i) = h(j) => i = j
  BY <1>1
<1>4. ASSUME Distinct(s) PROVE Distinct(r)
  <2> HIDE DEF h
  <2> QED BY <1>1, <1>2, <1>3, <1>4 DEF Distinct
<1> HIDE DEF h
<1> QED BY <1>1, <1>2, <1>4 DEF r

\* SelectInSeq finds a position if there is one.
LEMMA MinFound ==
  ASSUME NEW I \in SUBSET Nat, I # {}
  PROVE  Min(I) \in I
BY NatMin DEF Min

\* SelectInSeq, the code's iter().position(): 0, or a position that fits.
LEMMA PositionFacts ==
  ASSUME NEW S, NEW s \in Seq(S), NEW id
  PROVE  LET p == PositionOf(s, id) IN
         \/ p = 0 /\ id \notin IdsOf(s)
         \/ p \in DOMAIN s /\ s[p].id = id
<1> DEFINE I == {i \in 1..Len(s) : s[i].id = id}
<1>1. PositionOf(s, id) = IF I # {} THEN Min(I) ELSE 0
  BY DEF PositionOf, SelectInSeq
<1>2. I # {} => Min(I) \in I
  <2>1. I \in SUBSET Nat
    OBVIOUS
  <2> HIDE DEF I
  <2> QED BY <2>1, MinFound
<1>3. DOMAIN s = 1..Len(s)
  OBVIOUS
<1> QED BY <1>1, <1>2, <1>3 DEF IdsOf
-----------------------------------------------------------------------------
\* The sequences of rows, and what the methods do to their sets of rows.
RowSeq(s, S) == s \in Seq(S) /\ Distinct(s)

\* The ids of a sequence depend on its set of rows only.
LEMMA IdsOfSet ==
  ASSUME NEW s
  PROVE  IdsOf(s) = {e.id : e \in ToSet(s)}
BY DEF IdsOf, ToSet

\* No rows.
LEMMA EmptyRows ==
  ASSUME NEW S
  PROVE  RowSeq(<<>>, S) /\ ToSet(<<>>) = {} /\ IdsOf(<<>>) = {}
BY DEF RowSeq, Distinct, ToSet, IdsOf

\* A row with a new id goes to the end.
LEMMA AppendRows ==
  ASSUME NEW S, NEW s, RowSeq(s, S), NEW e \in S, e.id \notin IdsOf(s)
  PROVE  /\ RowSeq(Append(s, e), S)
         /\ ToSet(Append(s, e)) = ToSet(s) \cup {e}
         /\ IdsOf(Append(s, e)) = IdsOf(s) \cup {e.id}
<1> DEFINE r == Append(s, e)
<1>1. s \in Seq(S) /\ Len(s) \in Nat /\ DOMAIN s = 1..Len(s)
  BY DEF RowSeq
<1>2. /\ r \in Seq(S) /\ DOMAIN r = 1..(Len(s) + 1)
      /\ r[Len(s) + 1] = e /\ \A i \in 1..Len(s) : r[i] = s[i]
  BY <1>1
<1> HIDE DEF r
<1>3. \A i \in DOMAIN r : i = Len(s) + 1 \/ i \in DOMAIN s
  BY <1>1, <1>2
<1>4. Distinct(r)
  BY <1>1, <1>2, <1>3 DEF RowSeq, Distinct, IdsOf
<1>5. ToSet(r) = ToSet(s) \cup {e}
  BY <1>1, <1>2, <1>3 DEF ToSet
<1>6. IdsOf(r) = IdsOf(s) \cup {e.id}
  BY <1>1, <1>2, <1>3 DEF IdsOf
<1> QED BY <1>2, <1>4, <1>5, <1>6 DEF RowSeq, r

\* A row with a new id goes to the front.
LEMMA FrontRows ==
  ASSUME NEW S, NEW s, RowSeq(s, S), NEW e \in S, e.id \notin IdsOf(s)
  PROVE  /\ RowSeq(<<e>> \o s, S)
         /\ ToSet(<<e>> \o s) = ToSet(s) \cup {e}
         /\ IdsOf(<<e>> \o s) = IdsOf(s) \cup {e.id}
<1> DEFINE r == <<e>> \o s
<1>1. s \in Seq(S) /\ Len(s) \in Nat /\ DOMAIN s = 1..Len(s)
  BY DEF RowSeq
<1>2. /\ r \in Seq(S) /\ DOMAIN r = 1..(Len(s) + 1)
      /\ r[1] = e /\ \A i \in 1..Len(s) : r[i + 1] = s[i]
  BY <1>1
<1> HIDE DEF r
<1>3. \A i \in DOMAIN r : i = 1 \/ (i - 1 \in DOMAIN s /\ r[i] = s[i - 1])
  BY <1>1, <1>2
<1>4. Distinct(r)
  <2> SUFFICES ASSUME NEW i \in DOMAIN r, NEW j \in DOMAIN r,
                      r[i].id = r[j].id
               PROVE  i = j
    BY DEF Distinct
  <2>1. i \in Nat /\ j \in Nat
    BY <1>1, <1>2
  <2>2. CASE i # 1 /\ j # 1
    <3>1. i - 1 = j - 1
      BY <1>3, <2>2 DEF RowSeq, Distinct
    <3> QED BY <2>1, <3>1
  <2>3. CASE i = 1 \/ j = 1
    BY <1>2, <1>3, <2>3 DEF IdsOf
  <2> QED BY <2>2, <2>3
<1>5. \A i \in DOMAIN s : i + 1 \in DOMAIN r /\ r[i + 1] = s[i]
  BY <1>1, <1>2
<1>6. 1 \in DOMAIN r
  BY <1>1, <1>2
<1>7. ToSet(r) = ToSet(s) \cup {e}
  <2>1. ToSet(r) \subseteq ToSet(s) \cup {e}
    BY <1>2, <1>3 DEF ToSet
  <2>2. e \in ToSet(r)
    BY <1>2, <1>6 DEF ToSet
  <2>3. ASSUME NEW i \in DOMAIN s PROVE s[i] \in ToSet(r)
    BY <1>5 DEF ToSet
  <2>4. ToSet(s) \subseteq ToSet(r)
    BY <2>3 DEF ToSet
  <2> QED BY <2>1, <2>2, <2>4
<1>8. IdsOf(r) = IdsOf(s) \cup {e.id}
  <2>1. IdsOf(r) = {x.id : x \in ToSet(r)}
    BY IdsOfSet
  <2>2. IdsOf(s) = {x.id : x \in ToSet(s)}
    BY IdsOfSet
  <2> QED BY <1>7, <2>1, <2>2
<1> QED BY <1>2, <1>4, <1>7, <1>8 DEF RowSeq, r

\* r has rows of s only, and none with an id of X.
Fewer(r, s, S, X) ==
  /\ RowSeq(r, S)
  /\ ToSet(r) \subseteq ToSet(s)
  /\ IdsOf(r) \subseteq IdsOf(s)
  /\ IdsOf(r) \cap X = {}

\* A row is removed by its position.
LEMMA RemoveRows ==
  ASSUME NEW S, NEW s, RowSeq(s, S), NEW p \in DOMAIN s
  PROVE  Fewer(RemoveAt(s, p), s, S, {s[p].id})
<1> DEFINE r == RemoveAt(s, p)
<1>1. /\ r \in Seq(S)
      /\ \A i \in DOMAIN r : \E j \in DOMAIN s : j # p /\ r[i] = s[j]
      /\ Distinct(r)
  BY RemoveDistinct DEF RowSeq
<1> HIDE DEF r
<1>2. ToSet(r) \subseteq ToSet(s) /\ IdsOf(r) \subseteq IdsOf(s)
  BY <1>1 DEF ToSet, IdsOf
<1>3. s[p].id \notin IdsOf(r)
  BY <1>1 DEF IdsOf, RowSeq, Distinct
<1> QED BY <1>1, <1>2, <1>3 DEF Fewer, RowSeq, r

\* Nothing but the row at that position is lost.
LEMMA RemovedRow ==
  ASSUME NEW S, NEW s \in Seq(S), NEW p \in DOMAIN s
  PROVE  ToSet(s) = ToSet(RemoveAt(s, p)) \cup {s[p]}
<1> DEFINE r == RemoveAt(s, p)
<1>1. /\ Len(s) \in Nat /\ p \in 1..Len(s) /\ DOMAIN s = 1..Len(s)
      /\ DOMAIN r = 1..(Len(s) - 1)
      /\ \A i \in DOMAIN r : r[i] = IF i < p THEN s[i] ELSE s[i + 1]
  BY RemoveFacts
<1> HIDE DEF r
<1>2. ASSUME NEW j \in DOMAIN s, j # p PROVE \E i \in DOMAIN r : r[i] = s[j]
  <2>1. CASE j < p
    BY <1>1, <1>2, <2>1
  <2>2. CASE j > p
    <3>1. j - 1 \in DOMAIN r /\ ~(j - 1 < p) /\ (j - 1) + 1 = j
      BY <1>1, <2>2
    <3> QED BY <1>1, <3>1
  <2> QED BY <1>1, <1>2, <2>1, <2>2
<1>3. \A i \in DOMAIN r : \E j \in DOMAIN s : r[i] = s[j]
  <2> SUFFICES ASSUME NEW i \in DOMAIN r PROVE \E j \in DOMAIN s : r[i] = s[j]
    OBVIOUS
  <2>1. i \in DOMAIN s /\ i + 1 \in DOMAIN s
    BY <1>1
  <2> QED BY <1>1, <2>1
<1> QED BY <1>2, <1>3 DEF ToSet, r

\* Rows are filtered.
LEMMA RetainRows ==
  ASSUME NEW S, NEW s, RowSeq(s, S), NEW I, NEW X,
         \A i \in DOMAIN s : i \in I => s[i].id \notin X
  PROVE  Fewer(Retain(s, I), s, S, X)
<1> DEFINE r == Retain(s, I)
<1>1. /\ r \in Seq(S)
      /\ \A i \in DOMAIN r : \E j \in DOMAIN s : j \in I /\ r[i] = s[j]
      /\ Distinct(r)
  BY RetainDistinct DEF RowSeq
<1> HIDE DEF r
<1>2. ToSet(r) \subseteq ToSet(s) /\ IdsOf(r) \subseteq IdsOf(s)
  BY <1>1 DEF ToSet, IdsOf
<1>3. IdsOf(r) \cap X = {}
  BY <1>1 DEF IdsOf
<1> QED BY <1>1, <1>2, <1>3 DEF Fewer, RowSeq, r

\* The rows with an id are filtered out.
LEMMA WithoutRows ==
  ASSUME NEW S, NEW s, RowSeq(s, S), NEW id
  PROVE  Fewer(Without(s, id), s, S, {id})
<1> DEFINE I == {i \in DOMAIN s : s[i].id # id}
<1>1. \A i \in DOMAIN s : i \in I => s[i].id \notin {id}
  OBVIOUS
<1>2. Fewer(Retain(s, I), s, S, {id})
  <2> HIDE DEF I
  <2> QED BY <1>1, RetainRows
<1> QED BY <1>2 DEF Without

\* The row with an id is looked up and removed: none is left with that id.
LEMMA RemovedRows ==
  ASSUME NEW S, NEW s, RowSeq(s, S), NEW id
  PROVE  Fewer(Removed(s, PositionOf(s, id)), s, S, {id})
<1> DEFINE p == PositionOf(s, id)
<1>1. \/ p = 0 /\ id \notin IdsOf(s)
      \/ p \in DOMAIN s /\ s[p].id = id
  BY PositionFacts DEF RowSeq
<1>2. 0 \notin DOMAIN s
  BY DEF RowSeq
<1> SUFFICES Fewer(Removed(s, p), s, S, {id})
  OBVIOUS
<1> HIDE DEF p
<1>3. CASE p = 0
  BY <1>1, <1>2, <1>3 DEF Removed, Fewer
<1>4. CASE p \in DOMAIN s /\ s[p].id = id
  <2>1. Fewer(RemoveAt(s, p), s, S, {s[p].id})
    BY <1>4, RemoveRows
  <2> QED BY <1>2, <1>4, <2>1 DEF Removed
<1> QED BY <1>1, <1>3, <1>4

\* The first row is taken.
LEMMA TailRows ==
  ASSUME NEW S, NEW s, RowSeq(s, S), s # <<>>
  PROVE  /\ s[1] \in S /\ s[1] \in ToSet(s) /\ s[1].id \in IdsOf(s)
         /\ Fewer(Tail(s), s, S, {s[1].id})
<1> DEFINE r == Tail(s)
<1>1. s \in Seq(S) /\ Len(s) \in Nat \ {0} /\ DOMAIN s = 1..Len(s)
  BY DEF RowSeq
<1>2. /\ r \in Seq(S) /\ DOMAIN r = 1..(Len(s) - 1)
      /\ \A i \in DOMAIN r : i + 1 \in DOMAIN s /\ r[i] = s[i + 1]
  BY <1>1
<1>3. 1 \in DOMAIN s /\ s[1] \in S
  BY <1>1
<1> HIDE DEF r
<1>4. Distinct(r)
  <2> SUFFICES ASSUME NEW i \in DOMAIN r, NEW j \in DOMAIN r,
                      r[i].id = r[j].id
               PROVE  i = j
    BY DEF Distinct
  <2>1. i + 1 = j + 1
    BY <1>2 DEF RowSeq, Distinct
  <2> QED BY <1>1, <1>2, <2>1
<1>5. ToSet(r) \subseteq ToSet(s) /\ IdsOf(r) \subseteq IdsOf(s)
  BY <1>2 DEF ToSet, IdsOf
<1>6. s[1].id \notin IdsOf(r)
  <2> SUFFICES ASSUME NEW i \in DOMAIN r, r[i].id = s[1].id PROVE FALSE
    BY DEF IdsOf
  <2>1. i + 1 = 1
    BY <1>2, <1>3 DEF RowSeq, Distinct
  <2> QED BY <1>1, <1>2, <2>1
<1> QED BY <1>2, <1>3, <1>4, <1>5, <1>6 DEF Fewer, RowSeq, ToSet, IdsOf, r

\* Two sequences of rows in one.
Disjoint(A, B) == A \cap B = {}
Joined(s, t, V) ==
  /\ RowSeq(s \o t, V)
  /\ IdsOf(s \o t) = IdsOf(s) \cup IdsOf(t)
  /\ ToSet(s \o t) = ToSet(s) \cup ToSet(t)

\* The rows of two queues with different ids, in one sequence.
LEMMA ConcatRows ==
  ASSUME NEW V, NEW s, RowSeq(s, V), NEW t, RowSeq(t, V),
         Disjoint(IdsOf(s), IdsOf(t))
  PROVE  Joined(s, t, V)
<1> DEFINE r == s \o t
<1>1. s \in Seq(V) /\ t \in Seq(V)
  BY DEF RowSeq
<1>2. /\ Len(s) \in Nat /\ DOMAIN s = 1..Len(s)
      /\ Len(t) \in Nat /\ DOMAIN t = 1..Len(t)
  BY <1>1, LenProperties
<1>3. /\ r \in Seq(V) /\ Len(r) = Len(s) + Len(t)
      /\ \A i \in 1..(Len(s) + Len(t)) :
           r[i] = IF i <= Len(s) THEN s[i] ELSE t[i - Len(s)]
  BY <1>1, ConcatProperties
<1> HIDE DEF r
<1>4. DOMAIN r = 1..(Len(s) + Len(t))
  BY <1>3, LenProperties
<1>5. ASSUME NEW i \in DOMAIN r
      PROVE  /\ i \in Nat
             /\ \/ i \in DOMAIN s /\ r[i] = s[i]
                \/ i - Len(s) \in DOMAIN t /\ r[i] = t[i - Len(s)] /\ i > Len(s)
  BY <1>2, <1>3, <1>4
<1>6. \A i \in DOMAIN s : i \in DOMAIN r /\ r[i] = s[i]
  BY <1>2, <1>3, <1>4
<1>7. ASSUME NEW i \in DOMAIN t
      PROVE  i + Len(s) \in DOMAIN r /\ r[i + Len(s)] = t[i]
  <2>1. i + Len(s) \in 1..(Len(s) + Len(t)) /\ ~(i + Len(s) <= Len(s))
        /\ (i + Len(s)) - Len(s) = i
    BY <1>2
  <2> QED BY <1>3, <1>4, <2>1
<1>8. Distinct(r)
  <2> SUFFICES ASSUME NEW i \in DOMAIN r, NEW j \in DOMAIN r, r[i].id = r[j].id
               PROVE  i = j
    BY DEF Distinct
  <2>1. CASE i \in DOMAIN s /\ r[i] = s[i] /\ j \in DOMAIN s /\ r[j] = s[j]
    BY <2>1 DEF RowSeq, Distinct
  <2>2. CASE /\ i - Len(s) \in DOMAIN t /\ r[i] = t[i - Len(s)]
             /\ j - Len(s) \in DOMAIN t /\ r[j] = t[j - Len(s)]
    <3>1. i - Len(s) = j - Len(s)
      BY <2>2 DEF RowSeq, Distinct
    <3> QED BY <1>2, <1>5, <3>1
  <2>3. CASE \/ /\ i \in DOMAIN s /\ r[i] = s[i]
                /\ j - Len(s) \in DOMAIN t /\ r[j] = t[j - Len(s)]
             \/ /\ j \in DOMAIN s /\ r[j] = s[j]
                /\ i - Len(s) \in DOMAIN t /\ r[i] = t[i - Len(s)]
    BY <2>3 DEF IdsOf, Disjoint
  <2> QED BY <1>5, <2>1, <2>2, <2>3
<1>9. IdsOf(r) = IdsOf(s) \cup IdsOf(t)
  <2>1. IdsOf(r) \subseteq IdsOf(s) \cup IdsOf(t)
    BY <1>5 DEF IdsOf
  <2>2. IdsOf(s) \subseteq IdsOf(r)
    BY <1>6 DEF IdsOf
  <2>3. IdsOf(t) \subseteq IdsOf(r)
    BY <1>7 DEF IdsOf
  <2> QED BY <2>1, <2>2, <2>3
<1>10. ToSet(r) = ToSet(s) \cup ToSet(t)
  <2>1. ToSet(r) \subseteq ToSet(s) \cup ToSet(t)
    BY <1>5 DEF ToSet
  <2>2. ToSet(s) \subseteq ToSet(r)
    BY <1>6 DEF ToSet
  <2>3. ToSet(t) \subseteq ToSet(r)
    BY <1>7 DEF ToSet
  <2> QED BY <2>1, <2>2, <2>3
<1> QED BY <1>3, <1>8, <1>9, <1>10 DEF RowSeq, r, Joined

\* Rows stay well typed when the counter of ids grows.
LEMMA GrownRows ==
  ASSUME NEW S, NEW T, S \subseteq T, NEW s, RowSeq(s, S)
  PROVE  RowSeq(s, T)
BY SeqMonotonic DEF RowSeq
-----------------------------------------------------------------------------
\* The rows of the three queues when the counter of ids stands at n.
LocalRow(n) == [id: KnownAt(n), text: Texts, version: Nat]
PiRow(n) == [id: KnownAt(n), text: QueueTexts, lane: Lanes]
ReservedRow(n) == [id: KnownAt(n), text: Texts]

\* The counter only adds ids.
LEMMA KnownGrows ==
  ASSUME NEW n \in Nat, NEW k \in Nat, n <= k
  PROVE  /\ KnownAt(n) \subseteq KnownAt(k) /\ KnownAt(n) \subseteq Ids
         /\ LocalRow(n) \subseteq LocalRow(k)
         /\ PiRow(n) \subseteq PiRow(k)
         /\ ReservedRow(n) \subseteq ReservedRow(k)
<1>1. 1..n \subseteq 1..k /\ 1..n \subseteq Nat
  OBVIOUS
<1>2. KnownAt(n) \subseteq KnownAt(k) /\ KnownAt(n) \subseteq Ids
  BY <1>1 DEF KnownAt, Ids, Generated
<1> QED BY <1>2 DEF LocalRow, PiRow, ReservedRow

\* The id made from the next value of the counter is no id known before.
LEMMA NewId ==
  ASSUME NEW n \in Nat, NEW prefix \in {"extension", "pi"}
  PROVE  /\ <<prefix, n + 1>> \in KnownAt(n + 1)
         /\ <<prefix, n + 1>> \notin KnownAt(n) \cup {None}
         /\ <<prefix, n + 1>> \notin Clients
<1>1. <<prefix, n + 1>> \in Generated
  BY DEF Generated
<1>2. n + 1 \in 1..(n + 1) /\ n + 1 \notin 1..n
  OBVIOUS
<1>3. <<prefix, n + 1>> \in KnownAt(n + 1)
  BY <1>2 DEF KnownAt
<1>4. <<prefix, n + 1>> \notin {"extension", "pi"} \X (1..n)
  BY <1>2
<1> QED BY <1>1, <1>3, <1>4, MirrorAssumption DEF KnownAt, Ids

\* The rows of a report while its texts are matched, and the ids U in use
\* elsewhere.
Accs ==
  LET PiRows == [id: Ids, text: QueueTexts, lane: Lanes]
  IN  [previous: Seq(PiRows), next: Seq(PiRows),
       reserved: Seq([id: Ids, text: Texts]), seq: Nat]

\* What holds between two texts of a report: rows found, rows not yet found
\* and reservations have different ids, and none of them is in U, the ids used
\* elsewhere (local rows, running prompt).
IsAcc(a) == a = [previous |-> a.previous, next |-> a.next,
                 reserved |-> a.reserved, seq |-> a.seq]

Scanned(a, U) ==
  /\ IsAcc(a)
  /\ a.seq \in Nat
  /\ RowSeq(a.previous, PiRow(a.seq))
  /\ RowSeq(a.next, PiRow(a.seq))
  /\ RowSeq(a.reserved, ReservedRow(a.seq))
  /\ IdsOf(a.previous) \cap IdsOf(a.next) = {}
  /\ IdsOf(a.previous) \cap IdsOf(a.reserved) = {}
  /\ IdsOf(a.next) \cap IdsOf(a.reserved) = {}
  /\ IdsOf(a.previous) \cap U = {}
  /\ IdsOf(a.next) \cap U = {}
  /\ IdsOf(a.reserved) \cap U = {}
  /\ U \subseteq KnownAt(a.seq) \cup {None}

\* The ids of rows are known.
LEMMA IdOfRow ==
  ASSUME NEW n \in Nat, NEW s, NEW i \in DOMAIN s,
         RowSeq(s, PiRow(n)) \/ RowSeq(s, ReservedRow(n)) \/ RowSeq(s, LocalRow(n))
  PROVE  s[i].id \in KnownAt(n) /\ s[i].id \in IdsOf(s)
<1>1. s[i].id \in IdsOf(s)
  BY DEF IdsOf
<1>2. \A S : RowSeq(s, S) => s[i] \in S
  BY ElementOfSeq, LenProperties DEF RowSeq
<1>3. CASE RowSeq(s, PiRow(n))
  BY <1>1, <1>2, <1>3 DEF PiRow
<1>4. CASE RowSeq(s, ReservedRow(n))
  BY <1>1, <1>2, <1>4 DEF ReservedRow
<1>5. CASE RowSeq(s, LocalRow(n))
  BY <1>1, <1>2, <1>5 DEF LocalRow
<1> QED BY <1>3, <1>4, <1>5

\* The states of a scan are in one set, as Recursion asks for.
LEMMA ScannedInAccs ==
  ASSUME NEW a, NEW U, Scanned(a, U)
  PROVE  a \in Accs
<1> DEFINE n == a.seq
           PiRows == [id: Ids, text: QueueTexts, lane: Lanes]
           ReservedRows == [id: Ids, text: Texts]
<1>1. n \in Nat /\ KnownAt(n) \subseteq Ids
  BY KnownGrows DEF Scanned
<1>2. PiRow(n) \subseteq PiRows /\ ReservedRow(n) \subseteq ReservedRows
  <2> HIDE DEF n
  <2> QED BY <1>1 DEF PiRow, ReservedRow
<1>3. /\ a.previous \in Seq(PiRow(n)) /\ a.next \in Seq(PiRow(n))
      /\ a.reserved \in Seq(ReservedRow(n))
  BY DEF Scanned, RowSeq
<1> HIDE DEF PiRows, ReservedRows
<1>4. /\ a.previous \in Seq(PiRows) /\ a.next \in Seq(PiRows)
      /\ a.reserved \in Seq(ReservedRows)
  BY <1>2, <1>3, SeqMonotonic
<1>5. a = [previous |-> a.previous, next |-> a.next,
           reserved |-> a.reserved, seq |-> a.seq]
  BY DEF Scanned, IsAcc
<1>6. Accs = [previous: Seq(PiRows), next: Seq(PiRows),
              reserved: Seq(ReservedRows), seq: Nat]
  BY DEF Accs, PiRows, ReservedRows
<1> QED BY <1>1, <1>4, <1>5, <1>6

\* ReservedFor returns 0 or a position of the reservations.
LEMMA ReservedForFacts ==
  ASSUME NEW S, NEW s \in Seq(S), NEW lane, NEW t
  PROVE  ReservedFor(s, lane, t) \in {0} \cup DOMAIN s
<1> DEFINE I == {i \in 1..Len(s) : s[i].text = t}
           same == SelectInSeq(s, LAMBDA r : r.text = t)
<1>1. same = IF I # {} THEN Min(I) ELSE 0
  BY DEF SelectInSeq
<1>2. I # {} => Min(I) \in I
  <2>1. I \in SUBSET Nat
    OBVIOUS
  <2> HIDE DEF I
  <2> QED BY <2>1, MinFound
<1>3. DOMAIN s = 1..Len(s) /\ (s # <<>> => 1 \in DOMAIN s)
  OBVIOUS
<1>4. same \in {0} \cup DOMAIN s
  BY <1>1, <1>2, <1>3
<1>5. ReservedFor(s, lane, t) = IF lane # "Steering" \/ s = <<>> THEN 0
                                ELSE IF same = 0 THEN 1 ELSE same
  BY DEF ReservedFor
<1> HIDE DEF same
<1> QED BY <1>3, <1>4, <1>5

\* The entry that a text gets.
Takes(b, a, x, e) ==
  /\ e.text = x.text
  /\ e \in PiRow(b.seq)
  /\ b.next = Append(a.next, e)

\* One text of a report: whether its row is found again, claimed from a
\* reservation or made new, rows, reservations and unmatched rows keep different
\* ids and one row with the text is added.
LEMMA MatchStep ==
  ASSUME NEW a, NEW U, Scanned(a, U),
         NEW x \in [text: QueueTexts, lane: Lanes]
  PROVE  /\ Scanned(Match(a, x), U)
         /\ a.seq <= Match(a, x).seq
         /\ \E e : Takes(Match(a, x), a, x, e)
<1> DEFINE Entry(id) == [id |-> id, text |-> x.text, lane |-> x.lane]
           I == {i \in 1..Len(a.previous) :
                   a.previous[i].lane = x.lane /\ a.previous[i].text = x.text}
           p == SelectInSeq(a.previous,
                  LAMBDA e : e.lane = x.lane /\ e.text = x.text)
           r == ReservedFor(a.reserved, x.lane, x.text)
           b == Match(a, x)
<1>1. /\ IsAcc(a)
      /\ a.seq \in Nat
      /\ RowSeq(a.previous, PiRow(a.seq))
      /\ RowSeq(a.next, PiRow(a.seq))
      /\ RowSeq(a.reserved, ReservedRow(a.seq))
  BY DEF Scanned
<1>2. p = 0 \/ (p \in DOMAIN a.previous /\ a.previous[p].text = x.text)
  <2>1. p = IF I # {} THEN Min(I) ELSE 0
    BY DEF SelectInSeq
  <2>2. I # {} => Min(I) \in I
    <3>1. I \in SUBSET Nat
      BY <1>1 DEF RowSeq
    <3> HIDE DEF I
    <3> QED BY <3>1, MinFound
  <2>3. DOMAIN a.previous = 1..Len(a.previous)
    BY <1>1 DEF RowSeq
  <2> HIDE DEF p
  <2> QED BY <2>1, <2>2, <2>3
<1>3. r = 0 \/ r \in DOMAIN a.reserved
  <2> HIDE DEF p, b
  <2> QED BY <1>1, ReservedForFacts DEF RowSeq
<1>4. b = CASE p # 0 ->
                 [a EXCEPT !.next = Append(@, a.previous[p]),
                           !.previous = RemoveAt(@, p)]
            [] p = 0 /\ r # 0 ->
                 [a EXCEPT !.next = Append(@, Entry(a.reserved[r].id)),
                           !.reserved = RemoveAt(@, r)]
            [] OTHER ->
                 [a EXCEPT !.next = Append(@, Entry(<<"pi", a.seq + 1>>)),
                           !.seq = NextSeq(@)]
  BY DEF Match
<1> HIDE DEF p, r, b
<1>5. CASE p # 0
  <2> DEFINE e == a.previous[p]
  <2>1. /\ b.next = Append(a.next, e) /\ b.previous = RemoveAt(a.previous, p)
        /\ b.reserved = a.reserved /\ b.seq = a.seq
        /\ IsAcc(b)
    BY <1>1, <1>4, <1>5 DEF IsAcc
  <2>2. /\ e.id \in IdsOf(a.previous) /\ e \in PiRow(a.seq) /\ e.text = x.text
        /\ p \in DOMAIN a.previous
    BY <1>1, <1>2, <1>5, IdOfRow DEF RowSeq
  <2>3. Fewer(b.previous, a.previous, PiRow(a.seq), {e.id})
    BY <1>1, <2>1, <2>2, RemoveRows
  <2> HIDE DEF e
  <2>4. e.id \notin IdsOf(a.next)
    BY <2>2 DEF Scanned
  <2>5. RowSeq(b.next, PiRow(a.seq)) /\ IdsOf(b.next) = IdsOf(a.next) \cup {e.id}
    BY <1>1, <2>1, <2>2, <2>4, AppendRows
  <2>6. Scanned(b, U)
    BY <1>1, <2>1, <2>2, <2>3, <2>5 DEF Scanned, Fewer
  <2>7. Takes(b, a, x, e)
    BY <2>1, <2>2 DEF Takes
  <2> QED BY <1>1, <2>1, <2>6, <2>7 DEF b
<1>6. CASE p = 0 /\ r # 0
  <2> DEFINE id == a.reserved[r].id
             e == Entry(id)
  <2>1. /\ b.next = Append(a.next, e) /\ b.reserved = RemoveAt(a.reserved, r)
        /\ b.previous = a.previous /\ b.seq = a.seq
        /\ IsAcc(b)
    BY <1>1, <1>4, <1>6 DEF IsAcc
  <2>2. id \in IdsOf(a.reserved) /\ id \in KnownAt(a.seq) /\ r \in DOMAIN a.reserved
    BY <1>1, <1>3, <1>6, IdOfRow
  <2>3. Fewer(b.reserved, a.reserved, ReservedRow(a.seq), {id})
    BY <1>1, <2>1, <2>2, RemoveRows
  <2> HIDE DEF id
  <2>4. id \notin IdsOf(a.next) /\ e.id = id /\ e.text = x.text
        /\ e \in PiRow(a.seq)
    BY <2>2 DEF Scanned, PiRow
  <2> HIDE DEF e
  <2>5. RowSeq(b.next, PiRow(a.seq)) /\ IdsOf(b.next) = IdsOf(a.next) \cup {id}
    BY <1>1, <2>1, <2>2, <2>4, AppendRows
  <2>6. Scanned(b, U)
    BY <1>1, <2>1, <2>2, <2>3, <2>5 DEF Scanned, Fewer
  <2>7. Takes(b, a, x, e)
    BY <2>1, <2>4 DEF Takes
  <2> QED BY <1>1, <2>1, <2>6, <2>7 DEF b
<1>7. CASE p = 0 /\ r = 0
  <2> DEFINE id == <<"pi", a.seq + 1>>
             e == Entry(id)
  <2>1. /\ b.next = Append(a.next, e) /\ b.reserved = a.reserved
        /\ b.previous = a.previous /\ b.seq = a.seq + 1
        /\ IsAcc(b)
    BY <1>1, <1>4, <1>7 DEF NextSeq, IsAcc
  <2>2. id \in KnownAt(b.seq) /\ id \notin KnownAt(a.seq) \cup {None}
    BY <1>1, <2>1, NewId
  <2>3. /\ b.seq \in Nat /\ a.seq <= b.seq
        /\ KnownAt(a.seq) \subseteq KnownAt(b.seq)
        /\ RowSeq(a.previous, PiRow(b.seq))
        /\ RowSeq(a.next, PiRow(b.seq))
        /\ RowSeq(a.reserved, ReservedRow(b.seq))
    BY <1>1, <2>1, KnownGrows, GrownRows
  <2>4. /\ IdsOf(a.previous) \subseteq KnownAt(a.seq)
        /\ IdsOf(a.next) \subseteq KnownAt(a.seq)
        /\ IdsOf(a.reserved) \subseteq KnownAt(a.seq)
    BY <1>1, IdOfRow DEF IdsOf
  <2> HIDE DEF id
  <2>5. e.id = id /\ e.text = x.text /\ e \in PiRow(b.seq)
    BY <2>2 DEF PiRow
  <2> HIDE DEF e
  <2>6. RowSeq(b.next, PiRow(b.seq)) /\ IdsOf(b.next) = IdsOf(a.next) \cup {id}
    BY <2>1, <2>2, <2>3, <2>4, <2>5, AppendRows
  <2>7. Scanned(b, U)
    BY <2>1, <2>2, <2>3, <2>4, <2>6 DEF Scanned
  <2>8. Takes(b, a, x, e)
    BY <2>1, <2>5 DEF Takes
  <2> QED BY <2>3, <2>7, <2>8 DEF b
<1> QED BY <1>5, <1>6, <1>7

\* The intermediate results of Matched.
Scans(acc, first, desired, U) ==
  /\ acc[0] = first
  /\ \A n \in 0..Len(desired) : Scanned(acc[n], U)
  /\ \A n \in 1..Len(desired) : acc[n] = Match(acc[n - 1], desired[n])

\* Matched computes the scan of its definition.
LEMMA MatchedDef ==
  ASSUME NEW first, NEW U, Scanned(first, U),
         NEW desired \in Seq([text: QueueTexts, lane: Lanes])
  PROVE  \E acc : /\ Scans(acc, first, desired, U)
                  /\ Matched(first, desired) = acc[Len(desired)]
<1> DEFINE Q == {a \in Accs : Scanned(a, U)}
           N == Len(desired)
           F == [n \in 1..N |-> [a \in Q |-> Match(a, desired[n])]]
           Body(g) == [n \in 0..N |-> IF n = 0 THEN first
                                      ELSE Match(g[n - 1], desired[n])]
           K == CHOOSE g : g = Body(g)
<1>1. \A n \in 1..N, a \in Q : Match(a, desired[n]) \in Q
  <2> SUFFICES ASSUME NEW n \in 1..N, NEW a \in Q
               PROVE  Match(a, desired[n]) \in Q
    OBVIOUS
  <2> DEFINE x == desired[n]
  <2>1. x \in [text: QueueTexts, lane: Lanes]
    BY ElementOfSeq
  <2> HIDE DEF x
  <2>2. Scanned(Match(a, x), U)
    BY <2>1, MatchStep
  <2>3. Match(a, x) \in Accs
    BY <2>2, ScannedInAccs
  <2> QED BY <2>2, <2>3 DEF x
<1>2. N \in Nat /\ first \in Q
  BY ScannedInAccs
<1>3. F \in [1..N -> [Q -> Q]]
  <2> HIDE DEF Q, N
  <2> QED BY <1>1
<1>4. PICK g : Computes(g, N, Q, first, F)
  <2> HIDE DEF F, Q, N
  <2> QED BY <1>2, <1>3, Recursion
<1>5. ASSUME NEW n \in 1..N PROVE g[n] = Match(g[n - 1], desired[n])
  <2> HIDE DEF Q, N
  <2>1. g[n - 1] \in Q
    BY <1>2, <1>4 DEF Computes
  <2> QED BY <1>4, <2>1 DEF Computes
<1>6. g = Body(g)
  <2> DEFINE b == Body(g)
  <2> HIDE DEF Q, N
  <2>1. g[0] = first /\ g = [n \in 0..N |-> g[n]]
    BY <1>4 DEF Computes
  <2>2. ASSUME NEW n \in 0..N PROVE g[n] = b[n]
    <3>1. CASE n = 0
      BY <2>1, <3>1
    <3>2. CASE n \in 1..N
      <4>1. n # 0
        BY <1>2, <3>2
      <4>2. b[n] = Match(g[n - 1], desired[n])
        BY <4>1
      <4> QED BY <1>5, <3>2, <4>2
    <3> QED BY <1>2, <3>1, <3>2
  <2>3. b = [n \in 0..N |-> b[n]]
    OBVIOUS
  <2>4. g = b
    <3> HIDE DEF b
    <3> QED BY <2>1, <2>2, <2>3, SameFunction
  <2> QED BY <2>4
<1>7. K = Body(K)
  <2> HIDE DEF Body
  <2> QED BY <1>6
<1>8. Matched(first, desired) = K[N]
  BY DEF Matched
<1>9. K[0] = first /\ \A n \in 1..N : K[n] = Match(K[n - 1], desired[n])
  <2> DEFINE b == Body(K)
  <2> HIDE DEF K, N
  <2>1. b[0] = first
    BY <1>2
  <2>2. ASSUME NEW n \in 1..N PROVE b[n] = Match(K[n - 1], desired[n])
    BY <1>2
  <2>3. K = b
    BY <1>7
  <2> HIDE DEF b
  <2> QED BY <2>1, <2>2, <2>3
<1>10. \A n \in 0..N : K[n] \in Q
  <2> DEFINE T == {n \in 0..N : K[n] \in Q}
  <2> HIDE DEF K, N, Q
  <2>1. 0 \in T /\ \A n \in 1..N : n - 1 \in T => n \in T
    BY <1>1, <1>2, <1>9
  <2>2. 0..N \subseteq T
    <3> HIDE DEF T
    <3> QED BY <1>2, <2>1, BoundedInduction
  <2> QED BY <2>2
<1>11. Scans(K, first, desired, U)
  <2> HIDE DEF K
  <2> QED BY <1>9, <1>10 DEF Scans
<1> QED
  <2> HIDE DEF K
  <2> QED BY <1>8, <1>11

\* The whole report: one row for each text, in order, and all ids different.
LEMMA MatchedFacts ==
  ASSUME NEW first, NEW U, Scanned(first, U), first.next = <<>>,
         NEW desired \in Seq([text: QueueTexts, lane: Lanes])
  PROVE  LET a == Matched(first, desired) IN
         /\ Scanned(a, U)
         /\ first.seq <= a.seq
         /\ Len(a.next) = Len(desired)
         /\ \A i \in 1..Len(desired) : a.next[i].text = desired[i].text
<1>1. PICK acc : /\ Scans(acc, first, desired, U)
                 /\ Matched(first, desired) = acc[Len(desired)]
  BY MatchedDef
<1> DEFINE N == Len(desired)
           P(n) == /\ first.seq <= acc[n].seq
                   /\ Len(acc[n].next) = n
                   /\ \A i \in 1..n : acc[n].next[i].text = desired[i].text
           T == {n \in 0..N : P(n)}
<1>2. N \in Nat
  OBVIOUS
<1>3. 0 \in T
  BY <1>1, <1>2 DEF Scans, Scanned
<1>4. ASSUME NEW n \in 1..N, n - 1 \in T PROVE n \in T
  <2> DEFINE a == acc[n - 1]
             b == acc[n]
             x == desired[n]
  <2>1. n - 1 \in 0..N /\ n \in 0..N /\ n - 1 \in Nat /\ n \in Nat
    BY <1>2
  <2>2. Scanned(a, U) /\ Scanned(b, U) /\ b = Match(a, x)
    BY <1>1, <2>1 DEF Scans
  <2>3. x \in [text: QueueTexts, lane: Lanes]
    BY <2>1, ElementOfSeq
  <2>4. /\ first.seq <= a.seq
        /\ Len(a.next) = n - 1
        /\ \A i \in 1..(n - 1) : a.next[i].text = desired[i].text
    BY <1>4
  <2> HIDE DEF a, x
  <2>5. a.seq <= b.seq /\ \E e : Takes(b, a, x, e)
    BY <2>2, <2>3, MatchStep
  <2>6. PICK e : Takes(b, a, x, e)
    BY <2>5
  <2> HIDE DEF b
  <2>7. /\ a.next \in Seq(PiRow(a.seq)) /\ b.next = Append(a.next, e)
        /\ e.text = x.text /\ first.seq \in Nat /\ a.seq \in Nat
        /\ b.seq \in Nat
    BY <2>2, <2>6 DEF Scanned, RowSeq, Takes
  <2>8. /\ Len(b.next) = n
        /\ \A i \in 1..(n - 1) : b.next[i] = a.next[i]
        /\ b.next[n] = e
    BY <2>1, <2>4, <2>7
  <2>9. ASSUME NEW i \in 1..n PROVE b.next[i].text = desired[i].text
    <3>1. CASE i = n
      BY <2>7, <2>8, <3>1 DEF x
    <3>2. CASE i \in 1..(n - 1)
      BY <2>4, <2>8, <3>2
    <3> QED BY <2>1, <3>1, <3>2
  <2>10. first.seq <= b.seq
    BY <2>4, <2>5, <2>7
  <2> QED BY <2>1, <2>8, <2>9, <2>10 DEF b
<1>5. N \in T
  <2>1. 0..N \subseteq T
    <3> HIDE DEF T
    <3> QED BY <1>2, <1>3, <1>4, BoundedInduction
  <2> QED BY <1>2, <2>1
<1>6. Scanned(acc[N], U)
  BY <1>1, <1>2 DEF Scans
<1> QED BY <1>1, <1>5, <1>6
-----------------------------------------------------------------------------
\* The invariant of the mirror: no two of its rows, the reservations and the
\* running prompt share an id, and no client that is still to send its prompt (F)
\* is mentioned, which is why its row can be added.
IsMirror(m) == m = [local |-> m.local, pi |-> m.pi, reserved |-> m.reserved,
                    running |-> m.running, seq |-> m.seq]

Apart(m, F) ==
  /\ IdsOf(m.pi) \cap IdsOf(m.local) = {}
  /\ IdsOf(m.pi) \cap IdsOf(m.reserved) = {}
  /\ IdsOf(m.local) \cap IdsOf(m.reserved) = {}
  /\ m.running \notin IdsOf(m.pi) \cup IdsOf(m.local) \cup IdsOf(m.reserved)
  /\ F \cap (IdsOf(m.pi) \cup IdsOf(m.local) \cup IdsOf(m.reserved)) = {}
  /\ m.running \notin F

Good(m, F) ==
  /\ IsMirror(m)
  /\ m.seq \in Nat
  /\ RowSeq(m.local, LocalRow(m.seq))
  /\ RowSeq(m.pi, PiRow(m.seq))
  /\ RowSeq(m.reserved, ReservedRow(m.seq))
  /\ m.running \in KnownAt(m.seq) \cup {None}
  /\ F \subseteq Clients
  /\ Apart(m, F)

\* A mirror that only loses rows stays good.
LEMMA GoodFewer ==
  ASSUME NEW m, NEW F, Good(m, F), NEW k, NEW G, G \subseteq F,
         IsMirror(k), k.seq = m.seq,
         RowSeq(k.local, LocalRow(m.seq)), IdsOf(k.local) \subseteq IdsOf(m.local),
         RowSeq(k.pi, PiRow(m.seq)), IdsOf(k.pi) \subseteq IdsOf(m.pi),
         RowSeq(k.reserved, ReservedRow(m.seq)),
         IdsOf(k.reserved) \subseteq IdsOf(m.reserved),
         k.running \in {m.running, None}
  PROVE  Good(k, G)
<1>1. None \notin Ids /\ KnownAt(m.seq) \subseteq Ids /\ Clients \subseteq Ids
  BY MirrorAssumption, KnownGrows DEF Good, Ids
<1>2. \A S, s, i : RowSeq(s, S) /\ i \in DOMAIN s => s[i] \in S
  BY ElementOfSeq, LenProperties DEF RowSeq
<1>3. /\ IdsOf(m.local) \subseteq KnownAt(m.seq)
      /\ IdsOf(m.pi) \subseteq KnownAt(m.seq)
      /\ IdsOf(m.reserved) \subseteq KnownAt(m.seq)
  BY IdOfRow DEF Good, IdsOf
<1>4. Apart(k, G)
  BY <1>1, <1>3 DEF Good, Apart
<1> QED BY <1>4 DEF Good

\* clear: a mirror with no rows is good.
LEMMA EmptyGood ==
  ASSUME NEW F \in SUBSET Clients, NEW n \in Nat
  PROVE  Good([EmptyMirror EXCEPT !.seq = n], F)
<1> DEFINE m == [EmptyMirror EXCEPT !.seq = n]
<1>1. /\ m.local = <<>> /\ m.pi = <<>> /\ m.reserved = <<>> /\ m.running = None
      /\ m.seq = n /\ IsMirror(m)
  BY DEF EmptyMirror, IsMirror
<1> HIDE DEF m
<1>2. None \notin F
  BY MirrorAssumption DEF Ids
<1>3. IdsOf(<<>>) = {} /\ \A S : RowSeq(<<>>, S)
  BY EmptyRows
<1> QED BY <1>1, <1>2, <1>3 DEF Good, Apart, m

\* What enqueue_local leaves behind.
NewRow(id, t) == [id |-> id, text |-> t, version |-> 0]

Enqueued(k, m, id, t) ==
  /\ k.pi = m.pi /\ k.seq = m.seq /\ k.running = m.running
  /\ k.local = Append(m.local, NewRow(id, t))
  /\ ToSet(k.local) = ToSet(m.local) \cup {NewRow(id, t)}
  /\ IdsOf(k.local) = IdsOf(m.local) \cup {id}

\* enqueue_local with an id that is in no row.
LEMMA EnqueueGood ==
  ASSUME NEW m, NEW F, Good(m, F), NEW G, G \subseteq F, NEW t \in Texts,
         NEW id, id \in KnownAt(m.seq),
         id \notin IdsOf(m.pi) \cup IdsOf(m.local) \cup IdsOf(m.reserved),
         id # m.running, id \notin G
  PROVE  LET k == enqueue_local(m, id, t)
         IN  Good(k, G) /\ Enqueued(k, m, id, t)
<1> DEFINE k == enqueue_local(m, id, t)
           e == NewRow(id, t)
<1>1. /\ k.local = Append(m.local, e) /\ k.pi = m.pi /\ k.reserved = m.reserved
      /\ k.running = m.running /\ k.seq = m.seq /\ IsMirror(k)
  <2>1. PositionOf(m.local, id) = 0
    BY PositionFacts DEF Good, RowSeq, IdsOf
  <2>2. k = [m EXCEPT !.local = Append(@, e)]
    BY <2>1 DEF enqueue_local, NewRow
  <2> HIDE DEF k, e
  <2> QED BY <2>2 DEF Good, IsMirror
<1>2. e \in LocalRow(m.seq) /\ e.id = id
  BY DEF LocalRow, NewRow
<1> HIDE DEF k, e
<1>3. /\ RowSeq(k.local, LocalRow(m.seq))
      /\ ToSet(k.local) = ToSet(m.local) \cup {e}
      /\ IdsOf(k.local) = IdsOf(m.local) \cup {id}
  BY <1>1, <1>2, AppendRows DEF Good
<1>4. Apart(k, G)
  BY <1>1, <1>3 DEF Good, Apart
<1>5. Good(k, G)
  BY <1>1, <1>3, <1>4 DEF Good
<1> QED BY <1>1, <1>3, <1>5 DEF k, e, Enqueued

\* reserve with an id that is in no row of the queues.
LEMMA ReserveGood ==
  ASSUME NEW m, NEW F, Good(m, F), NEW G, G \subseteq F, NEW t \in Texts,
         NEW id, id \in KnownAt(m.seq),
         id \notin IdsOf(m.pi) \cup IdsOf(m.local),
         id # m.running, id \notin G
  PROVE  LET k == reserve(m, id, t)
         IN  Good(k, G) /\ k.pi = m.pi /\ k.seq = m.seq /\ k.local = m.local
<1> DEFINE k == reserve(m, id, t)
           w == Without(m.reserved, id)
           e == [id |-> id, text |-> t]
<1>1. /\ k.reserved = Append(w, e) /\ k.pi = m.pi /\ k.local = m.local
      /\ k.running = m.running /\ k.seq = m.seq /\ IsMirror(k)
  <2> DEFINE z == Append(w, e)
  <2>1. IsMirror(m) /\ k = [m EXCEPT !.reserved = z]
    BY DEF reserve, Good
  <2> HIDE DEF k, z
  <2>2. /\ k.reserved = z /\ k.pi = m.pi /\ k.local = m.local
        /\ k.running = m.running /\ k.seq = m.seq /\ IsMirror(k)
    BY <2>1 DEF IsMirror
  <2> QED BY <2>2 DEF z
<1>2. e \in ReservedRow(m.seq) /\ e.id = id
  BY DEF ReservedRow
<1>3. Fewer(w, m.reserved, ReservedRow(m.seq), {id})
  BY WithoutRows DEF Good
<1> HIDE DEF k, e, w
<1>4. /\ RowSeq(k.reserved, ReservedRow(m.seq))
      /\ IdsOf(k.reserved) \subseteq IdsOf(m.reserved) \cup {id}
  BY <1>1, <1>2, <1>3, AppendRows DEF Fewer
<1>5. Apart(k, G)
  BY <1>1, <1>4 DEF Good, Apart
<1>6. Good(k, G)
  BY <1>1, <1>4, <1>5 DEF Good
<1> QED BY <1>1, <1>6 DEF k

\* take_local: afterwards the id is free.
LEMMA TakeGood ==
  ASSUME NEW m, NEW F, Good(m, F), NEW id
  PROVE  LET k == take_local(m, id)
         IN  /\ Good(k, F) /\ k.pi = m.pi /\ k.seq = m.seq
             /\ k.running = m.running /\ k.reserved = m.reserved
             /\ ToSet(k.local) \subseteq ToSet(m.local)
             /\ id \notin IdsOf(k.local)
<1> DEFINE k == take_local(m, id)
<1>1. /\ k.local = Removed(m.local, PositionOf(m.local, id)) /\ k.pi = m.pi
      /\ k.reserved = m.reserved /\ k.running = m.running /\ k.seq = m.seq
      /\ IsMirror(k)
  BY DEF take_local, Good, IsMirror
<1> HIDE DEF k
<1>2. Fewer(k.local, m.local, LocalRow(m.seq), {id})
  BY <1>1, RemovedRows DEF Good
<1>3. Good(k, F)
  BY <1>1, <1>2, GoodFewer DEF Good, Fewer
<1> QED BY <1>1, <1>2, <1>3 DEF Fewer, k

\* push_front_local of a row that was taken before.
LEMMA PushFrontGood ==
  ASSUME NEW m, NEW F, Good(m, F), NEW e \in LocalRow(m.seq),
         e.id \notin IdsOf(m.pi) \cup IdsOf(m.reserved) \cup F \cup {m.running}
  PROVE  LET k == push_front_local(m, e)
         IN  /\ Good(k, F) /\ k.pi = m.pi /\ k.seq = m.seq
             /\ ToSet(k.local) \subseteq ToSet(m.local) \cup {e}
<1> DEFINE k == push_front_local(m, e)
           w == Without(m.local, e.id)
<1>1. /\ k.local = <<e>> \o w /\ k.pi = m.pi /\ k.reserved = m.reserved
      /\ k.running = m.running /\ k.seq = m.seq /\ IsMirror(k)
  <2> DEFINE z == <<e>> \o w
  <2>1. IsMirror(m) /\ k = [m EXCEPT !.local = z]
    BY DEF push_front_local, Good
  <2> HIDE DEF k, z
  <2>2. /\ k.local = z /\ k.pi = m.pi /\ k.reserved = m.reserved
        /\ k.running = m.running /\ k.seq = m.seq /\ IsMirror(k)
    BY <2>1 DEF IsMirror
  <2> QED BY <2>2 DEF z
<1>2. Fewer(w, m.local, LocalRow(m.seq), {e.id})
  BY WithoutRows DEF Good
<1> HIDE DEF k, w
<1>3. /\ RowSeq(k.local, LocalRow(m.seq))
      /\ ToSet(k.local) = ToSet(w) \cup {e}
      /\ IdsOf(k.local) = IdsOf(w) \cup {e.id}
  BY <1>1, <1>2, FrontRows DEF Fewer
<1>4. Apart(k, F)
  BY <1>1, <1>2, <1>3 DEF Good, Apart, Fewer
<1>5. Good(k, F)
  BY <1>1, <1>3, <1>4 DEF Good
<1> QED BY <1>1, <1>2, <1>3, <1>5 DEF k, Fewer

\* clear_running.
LEMMA ClearRunningGood ==
  ASSUME NEW m, NEW F, Good(m, F)
  PROVE  LET k == clear_running(m)
         IN  Good(k, F) /\ k.pi = m.pi /\ k.seq = m.seq /\ k.local = m.local
<1> DEFINE k == clear_running(m)
<1>1. /\ k.local = m.local /\ k.pi = m.pi /\ k.reserved = <<>>
      /\ k.running = None /\ k.seq = m.seq /\ IsMirror(k)
  <2> DEFINE z == <<>>
  <2>1. IsMirror(m) /\ k = [m EXCEPT !.reserved = z, !.running = None]
    BY DEF clear_running, Good
  <2> HIDE DEF k, z
  <2>2. /\ k.local = m.local /\ k.pi = m.pi /\ k.reserved = z
        /\ k.running = None /\ k.seq = m.seq /\ IsMirror(k)
    BY <2>1 DEF IsMirror
  <2> QED BY <2>2 DEF z
<1> HIDE DEF k
<1>2. RowSeq(k.reserved, ReservedRow(m.seq)) /\ IdsOf(k.reserved) = {}
  BY <1>1, EmptyRows
<1>3. Good(k, F)
  BY <1>1, <1>2, GoodFewer DEF Good
<1> QED BY <1>1, <1>3 DEF k

\* release_reservation.
LEMMA ReleaseGood ==
  ASSUME NEW m, NEW F, Good(m, F), NEW id
  PROVE  LET k == release_reservation(m, id)
         IN  Good(k, F) /\ k.pi = m.pi /\ k.seq = m.seq /\ k.local = m.local
<1> DEFINE k == release_reservation(m, id)
<1>1. /\ k.reserved = Without(m.reserved, id) /\ k.pi = m.pi
      /\ k.local = m.local /\ k.running = m.running /\ k.seq = m.seq
      /\ IsMirror(k)
  BY DEF release_reservation, Good, IsMirror
<1> HIDE DEF k
<1>2. Fewer(k.reserved, m.reserved, ReservedRow(m.seq), {id})
  BY <1>1, WithoutRows DEF Good
<1>3. Good(k, F)
  BY <1>1, <1>2, GoodFewer DEF Good, Fewer
<1> QED BY <1>1, <1>3 DEF k

\* The local rows are replaced by some of them.
LEMMA SetLocalGood ==
  ASSUME NEW m, NEW F, Good(m, F), NEW z, RowSeq(z, LocalRow(m.seq)),
         IdsOf(z) \subseteq IdsOf(m.local)
  PROVE  LET k == [m EXCEPT !.local = z]
         IN  Good(k, F) /\ k.pi = m.pi /\ k.seq = m.seq /\ k.local = z
<1> DEFINE k == [m EXCEPT !.local = z]
<1>1. /\ k.local = z /\ k.pi = m.pi /\ k.reserved = m.reserved
      /\ k.running = m.running /\ k.seq = m.seq /\ IsMirror(k)
  BY DEF Good, IsMirror
<1> HIDE DEF k
<1>2. Good(k, F)
  BY <1>1, GoodFewer DEF Good
<1> QED BY <1>1, <1>2 DEF k

\* A prompt whose id is in no row becomes the running one.
LEMMA SetRunningGood ==
  ASSUME NEW m, NEW F, Good(m, F), NEW G, G \subseteq F, NEW id,
         id \in KnownAt(m.seq),
         id \notin IdsOf(m.pi) \cup IdsOf(m.local) \cup IdsOf(m.reserved) \cup G
  PROVE  LET k == [m EXCEPT !.running = id]
         IN  Good(k, G) /\ k.pi = m.pi /\ k.seq = m.seq /\ k.local = m.local
<1> DEFINE k == [m EXCEPT !.running = id]
<1>1. /\ k.local = m.local /\ k.pi = m.pi /\ k.reserved = m.reserved
      /\ k.running = id /\ k.seq = m.seq /\ IsMirror(k)
  BY DEF Good, IsMirror
<1> HIDE DEF k
<1>2. Apart(k, G)
  BY <1>1 DEF Good, Apart
<1>3. Good(k, G)
  BY <1>1, <1>2 DEF Good
<1> QED BY <1>1, <1>3 DEF k

\* The counter goes on.
LEMMA CountGood ==
  ASSUME NEW m, NEW F, Good(m, F)
  PROVE  LET k == [m EXCEPT !.seq = NextSeq(@)]
         IN  /\ Good(k, F) /\ k.pi = m.pi /\ k.seq = m.seq + 1
             /\ k.local = m.local /\ k.reserved = m.reserved
             /\ k.running = m.running
<1> DEFINE k == [m EXCEPT !.seq = NextSeq(@)]
<1>1. /\ k.local = m.local /\ k.pi = m.pi /\ k.reserved = m.reserved
      /\ k.running = m.running /\ k.seq = m.seq + 1 /\ IsMirror(k)
  BY DEF Good, IsMirror, NextSeq
<1> HIDE DEF k
<1>2. /\ KnownAt(m.seq) \subseteq KnownAt(k.seq)
      /\ LocalRow(m.seq) \subseteq LocalRow(k.seq)
      /\ PiRow(m.seq) \subseteq PiRow(k.seq)
      /\ ReservedRow(m.seq) \subseteq ReservedRow(k.seq)
      /\ k.seq \in Nat
  BY <1>1, KnownGrows DEF Good
<1>3. /\ RowSeq(k.local, LocalRow(k.seq)) /\ RowSeq(k.pi, PiRow(k.seq))
      /\ RowSeq(k.reserved, ReservedRow(k.seq))
  BY <1>1, <1>2, GrownRows DEF Good
<1>4. Good(k, F)
  BY <1>1, <1>2, <1>3 DEF Good, Apart
<1> QED BY <1>1, <1>4 DEF k

\* An edit changes the text and raises the version.
LEMMA EditedRow ==
  ASSUME NEW n, NEW e \in LocalRow(n), NEW t \in Texts
  PROVE  /\ Edited(e, t) \in LocalRow(n) /\ Edited(e, t).id = e.id
         /\ Edited(e, t).version = e.version + 1
<1>1. /\ e.id \in KnownAt(n) /\ e.version \in Nat
      /\ e = [id |-> e.id, text |-> e.text, version |-> e.version]
  BY DEF LocalRow
<1> DEFINE v == e.version + 1
           f == Edited(e, t)
<1>2. f = [e EXCEPT !.text = t, !.version = v]
  BY DEF Edited
<1>3. v \in Nat
  BY <1>1
<1> HIDE DEF v, f
<1>4. f \in LocalRow(n) /\ f.id = e.id /\ f.version = v
  BY <1>2, <1>3 DEF LocalRow
<1> QED BY <1>4 DEF v, f

\* edit_local: the row with the id is replaced by the edited one.
LEMMA EditGood ==
  ASSUME NEW m, NEW F, Good(m, F), NEW id \in IdsOf(m.local), NEW t \in Texts
  PROVE  LET k == edit_local(m, id, t)
         IN  /\ Good(k, F) /\ k.pi = m.pi /\ k.seq = m.seq
             /\ \E e \in ToSet(m.local) :
                  /\ e.id = id
                  /\ ToSet(k.local) \subseteq
                       {l \in ToSet(m.local) : l.id # id} \cup {Edited(e, t)}
<1> DEFINE s == m.local
           S == LocalRow(m.seq)
           z == [i \in DOMAIN s |-> IF s[i].id = id THEN Edited(s[i], t) ELSE s[i]]
<1>1. RowSeq(s, S) /\ s \in Seq(S) /\ Len(s) \in Nat /\ DOMAIN s = 1..Len(s)
  BY DEF Good, RowSeq
<1>2. \A i \in DOMAIN s : s[i] \in S
  BY <1>1
<1>3. ASSUME NEW i \in DOMAIN s PROVE z[i] \in S /\ z[i].id = s[i].id
  BY <1>2, EditedRow
<1>4. DOMAIN z = DOMAIN s /\ z \in Seq(S)
  <2>1. DOMAIN z = DOMAIN s /\ z = [i \in 1..Len(s) |-> z[i]]
    BY <1>1
  <2>2. z \in [1..Len(s) -> S]
    <3> HIDE DEF z, S
    <3> QED BY <1>1, <1>3, <2>1
  <2> HIDE DEF z, S
  <2> QED BY <1>1, <2>1, <2>2
<1>5. PICK p \in DOMAIN s : s[p].id = id
  BY DEF IdsOf
<1>6. ASSUME NEW i \in DOMAIN s
      PROVE  z[i] \in {l \in ToSet(s) : l.id # id} \cup {Edited(s[p], t)}
  <2>1. CASE s[i].id = id
    <3>1. i = p
      BY <1>1, <1>5, <2>1 DEF RowSeq, Distinct
    <3> QED BY <2>1, <3>1
  <2>2. CASE s[i].id # id
    BY <2>2 DEF ToSet
  <2> QED BY <2>1, <2>2
<1> HIDE DEF z, S
<1>7. RowSeq(z, S) /\ IdsOf(z) \subseteq IdsOf(s)
  BY <1>1, <1>3, <1>4 DEF RowSeq, Distinct, IdsOf
<1>8. ToSet(z) \subseteq {l \in ToSet(s) : l.id # id} \cup {Edited(s[p], t)}
  BY <1>4, <1>6 DEF ToSet
<1>9. edit_local(m, id, t) = [m EXCEPT !.local = z]
  BY DEF edit_local, z
<1>10. s[p] \in ToSet(s)
  BY DEF ToSet
<1> DEFINE k == [m EXCEPT !.local = z]
<1>11. Good(k, F) /\ k.pi = m.pi /\ k.seq = m.seq /\ k.local = z
  BY <1>7, SetLocalGood DEF S
<1> HIDE DEF k
<1> QED BY <1>5, <1>8, <1>9, <1>10, <1>11 DEF k

\* The state of a reordering of the rows s: what was moved and what was not yet,
\* without loss and without repetition.
Split(a, s, S) ==
  /\ a = [reordered |-> a.reordered, remaining |-> a.remaining]
  /\ RowSeq(a.reordered, S) /\ RowSeq(a.remaining, S)
  /\ Disjoint(IdsOf(a.reordered), IdsOf(a.remaining))
  /\ ToSet(a.reordered) \cup ToSet(a.remaining) = ToSet(s)

\* One id of the pager's list, known or not.
LEMMA MovedSplit ==
  ASSUME NEW S, NEW s, NEW a, Split(a, s, S), NEW id
  PROVE  Split(Moved(a, id), s, S)
<1> DEFINE t == a.remaining
           u == a.reordered
           p == PositionOf(t, id)
           e == t[p]
           v == Append(u, e)
           w == RemoveAt(t, p)
           b == [reordered |-> v, remaining |-> w]
<1>1. /\ RowSeq(u, S) /\ RowSeq(t, S) /\ Disjoint(IdsOf(u), IdsOf(t))
      /\ ToSet(u) \cup ToSet(t) = ToSet(s)
  BY DEF Split
<1>2. p = 0 \/ p \in DOMAIN t
  BY <1>1, PositionFacts DEF RowSeq
<1>3. Moved(a, id) = IF p = 0 THEN a ELSE b
  BY DEF Moved
<1>4. CASE p = 0
  BY <1>3, <1>4
<1>5. CASE p # 0 /\ p \in DOMAIN t
  <2> HIDE DEF p
  <2>1. Fewer(w, t, S, {e.id}) /\ ToSet(t) = ToSet(w) \cup {e}
    BY <1>1, <1>5, RemoveRows, RemovedRow DEF RowSeq
  <2>2. e \in S /\ e.id \in IdsOf(t)
    BY <1>1, <1>5 DEF RowSeq, IdsOf
  <2> HIDE DEF t, u, e, w
  <2>3. e.id \notin IdsOf(u)
    BY <1>1, <2>2 DEF Disjoint
  <2>4. /\ RowSeq(v, S) /\ ToSet(v) = ToSet(u) \cup {e}
        /\ IdsOf(v) = IdsOf(u) \cup {e.id}
    BY <1>1, <2>2, <2>3, AppendRows
  <2> HIDE DEF v
  <2>5. b = [reordered |-> b.reordered, remaining |-> b.remaining]
        /\ b.reordered = v /\ b.remaining = w
    OBVIOUS
  <2>6. RowSeq(w, S) /\ IdsOf(w) \subseteq IdsOf(t) /\ e.id \notin IdsOf(w)
    BY <2>1 DEF Fewer
  <2>7. Disjoint(IdsOf(v), IdsOf(w))
    BY <1>1, <2>4, <2>6 DEF Disjoint
  <2>8. ToSet(v) \cup ToSet(w) = ToSet(s)
    BY <1>1, <2>1, <2>4
  <2> HIDE DEF b
  <2>9. Split(b, s, S)
    BY <2>4, <2>5, <2>6, <2>7, <2>8 DEF Split
  <2> QED BY <1>3, <1>5, <2>9
<1> QED BY <1>2, <1>4, <1>5

\* The rows moved so far and then the others.
Arranged(m, a) == [m EXCEPT !.local = a.reordered \o a.remaining]

\* The scan of reorder_local, for any list of ids.
LEMMA ReorderDef ==
  ASSUME NEW m, NEW S, RowSeq(m.local, S), NEW X, NEW ordered \in Seq(X)
  PROVE  \E a : Split(a, m.local, S) /\ reorder_local(m, ordered) = Arranged(m, a)
<1> DEFINE s == m.local
           Q == {a \in [reordered: Seq(S), remaining: Seq(S)] : Split(a, s, S)}
           N == Len(ordered)
           first == [reordered |-> <<>>, remaining |-> s]
           F == [n \in 1..N |-> [a \in Q |-> Moved(a, ordered[n])]]
           Body(g) == [n \in 0..N |-> IF n = 0 THEN first
                                      ELSE Moved(g[n - 1], ordered[n])]
           K == CHOOSE g : g = Body(g)
<1>1. \A a : Split(a, s, S) => a \in Q
  BY DEF Split, RowSeq
<1>2. N \in Nat /\ first \in Q
  <2>1. Split(first, s, S)
    <3>1. /\ first = [reordered |-> first.reordered,
                      remaining |-> first.remaining]
          /\ first.reordered = <<>> /\ first.remaining = s
      OBVIOUS
    <3> HIDE DEF first
    <3>2. RowSeq(<<>>, S) /\ ToSet(<<>>) = {} /\ IdsOf(<<>>) = {}
      BY EmptyRows
    <3> QED BY <3>1, <3>2 DEF Split, Disjoint
  <2> HIDE DEF Q
  <2> QED BY <1>1, <2>1
<1>3. \A n \in 1..N, a \in Q : Moved(a, ordered[n]) \in Q
  <2> SUFFICES ASSUME NEW n \in 1..N, NEW a \in Q
               PROVE  Moved(a, ordered[n]) \in Q
    OBVIOUS
  <2>1. Split(Moved(a, ordered[n]), s, S)
    BY MovedSplit
  <2> HIDE DEF Q
  <2> QED BY <1>1, <2>1
<1> HIDE DEF first
<1>4. F \in [1..N -> [Q -> Q]]
  <2> HIDE DEF Q, N
  <2> QED BY <1>3
<1>5. PICK g : Computes(g, N, Q, first, F)
  <2> HIDE DEF F, Q, N
  <2> QED BY <1>2, <1>4, Recursion
<1>6. ASSUME NEW n \in 1..N PROVE g[n] = Moved(g[n - 1], ordered[n])
  <2> HIDE DEF Q, N
  <2>1. g[n - 1] \in Q
    BY <1>2, <1>5 DEF Computes
  <2> QED BY <1>5, <2>1 DEF Computes
<1>7. g = Body(g)
  <2> DEFINE b == Body(g)
  <2> HIDE DEF Q, N
  <2>1. g[0] = first /\ g = [n \in 0..N |-> g[n]]
    BY <1>5 DEF Computes
  <2>2. ASSUME NEW n \in 0..N PROVE g[n] = b[n]
    <3>1. CASE n = 0
      BY <2>1, <3>1
    <3>2. CASE n \in 1..N
      <4>1. n # 0
        BY <1>2, <3>2
      <4>2. b[n] = Moved(g[n - 1], ordered[n])
        BY <4>1
      <4> QED BY <1>6, <3>2, <4>2
    <3> QED BY <1>2, <3>1, <3>2
  <2>3. b = [n \in 0..N |-> b[n]]
    OBVIOUS
  <2>4. g = b
    <3> HIDE DEF b
    <3> QED BY <2>1, <2>2, <2>3, SameFunction
  <2> QED BY <2>4
<1>8. K = Body(K)
  <2> HIDE DEF Body
  <2> QED BY <1>7
<1>9. reorder_local(m, ordered) = Arranged(m, K[N])
  BY DEF reorder_local, first, Arranged
<1>10. K[0] = first /\ \A n \in 1..N : K[n] = Moved(K[n - 1], ordered[n])
  <2> DEFINE b == Body(K)
  <2> HIDE DEF K, N
  <2>1. b[0] = first
    BY <1>2
  <2>2. ASSUME NEW n \in 1..N PROVE b[n] = Moved(K[n - 1], ordered[n])
    BY <1>2
  <2>3. K = b
    BY <1>8
  <2> HIDE DEF b
  <2> QED BY <2>1, <2>2, <2>3
<1>11. K[N] \in Q
  <2> DEFINE T == {n \in 0..N : K[n] \in Q}
  <2> HIDE DEF K, N, Q
  <2>1. 0 \in T /\ \A n \in 1..N : n - 1 \in T => n \in T
    BY <1>2, <1>3, <1>10
  <2>2. 0..N \subseteq T
    <3> HIDE DEF T
    <3> QED BY <1>2, <2>1, BoundedInduction
  <2> QED BY <1>2, <2>2
<1>12. Split(K[N], s, S)
  <2> HIDE DEF K, N
  <2> QED BY <1>11
<1> HIDE DEF K, N
<1> QED BY <1>9, <1>12

\* reorder_local loses and repeats no row of a mirror with different ids,
\* whatever list the pager sends: with unknown ids, with repetitions, or with
\* some of the rows only.
THEOREM ReorderKeepsRows ==
  ASSUME NEW m, NEW F, Good(m, F), NEW X, NEW ordered \in Seq(X)
  PROVE  LET k == reorder_local(m, ordered)
         IN  /\ Good(k, F) /\ k.pi = m.pi /\ k.seq = m.seq
             /\ ToSet(k.local) = ToSet(m.local)
<1> DEFINE s == m.local
           S == LocalRow(m.seq)
<1>1. RowSeq(s, S)
  BY DEF Good
<1>2. PICK a : Split(a, s, S) /\ reorder_local(m, ordered) = Arranged(m, a)
  <2> HIDE DEF S
  <2> QED BY <1>1, ReorderDef
<1> DEFINE z == a.reordered \o a.remaining
           k == [m EXCEPT !.local = z]
<1>3. RowSeq(z, S) /\ ToSet(z) = ToSet(s)
  <2> HIDE DEF S
  <2>1. Joined(a.reordered, a.remaining, S)
    BY <1>2, ConcatRows DEF Split
  <2> QED BY <1>2, <2>1 DEF Joined, Split
<1>4. IdsOf(z) \subseteq IdsOf(s)
  <2> HIDE DEF z, s
  <2> QED BY <1>3, IdsOfSet
<1> HIDE DEF z
<1>5. Good(k, F) /\ k.pi = m.pi /\ k.seq = m.seq /\ k.local = z
  BY <1>3, <1>4, SetLocalGood DEF S
<1> HIDE DEF k
<1> QED BY <1>2, <1>3, <1>5 DEF k, z, Arranged

\* What the rows show, and what a report says.
TextsOf(rows) == [i \in DOMAIN rows |-> rows[i].text]
Lines(queue) == queue["Steering"] \o queue["FollowUp"]

\* The texts of a report in the order in which they are matched: steering first.
LEMMA DesiredFacts ==
  ASSUME NEW queue \in [Lanes -> Seq(QueueTexts)]
  PROVE  /\ Desired(queue) \in Seq([text: QueueTexts, lane: Lanes])
         /\ Lines(queue) \in Seq(QueueTexts)
         /\ Len(Desired(queue)) = Len(Lines(queue))
         /\ \A i \in 1..Len(Lines(queue)) :
              Desired(queue)[i].text = Lines(queue)[i]
<1> DEFINE X == [text: QueueTexts, lane: Lanes]
           a == queue["Steering"]
           b == queue["FollowUp"]
           A == [i \in DOMAIN a |-> [text |-> a[i], lane |-> "Steering"]]
           B == [i \in DOMAIN b |-> [text |-> b[i], lane |-> "FollowUp"]]
<1>1. a \in Seq(QueueTexts) /\ b \in Seq(QueueTexts)
  BY DEF Lanes
<1>2. Desired(queue) = A \o B /\ Lines(queue) = a \o b
  BY DEF Desired, Lines
<1> HIDE DEF a, b
<1>3. /\ Len(a) \in Nat /\ DOMAIN a = 1..Len(a)
      /\ Len(b) \in Nat /\ DOMAIN b = 1..Len(b)
  BY <1>1, LenProperties
<1>4. /\ \A i \in 1..Len(a) : A[i] \in X /\ A[i].text = a[i]
      /\ \A i \in 1..Len(b) : B[i] \in X /\ B[i].text = b[i]
  <2>1. \A i \in 1..Len(a) : a[i] \in QueueTexts
    BY <1>1, ElementOfSeq
  <2>2. \A i \in 1..Len(b) : b[i] \in QueueTexts
    BY <1>1, ElementOfSeq
  <2>3. ASSUME NEW i \in 1..Len(a) PROVE A[i] \in X /\ A[i].text = a[i]
    <3>1. A[i] = [text |-> a[i], lane |-> "Steering"]
      BY <1>3
    <3> HIDE DEF A
    <3> QED BY <2>1, <3>1 DEF Lanes
  <2>4. ASSUME NEW i \in 1..Len(b) PROVE B[i] \in X /\ B[i].text = b[i]
    <3>1. B[i] = [text |-> b[i], lane |-> "FollowUp"]
      BY <1>3
    <3> HIDE DEF B
    <3> QED BY <2>2, <3>1 DEF Lanes
  <2> QED BY <2>3, <2>4
<1>5. A \in Seq(X) /\ Len(A) = Len(a)
  <2>1. A = [i \in 1..Len(a) |-> A[i]]
    BY <1>3
  <2>2. A \in [1..Len(a) -> X]
    <3> HIDE DEF A, X
    <3> QED BY <1>4, <2>1
  <2> HIDE DEF A, X
  <2> QED BY <1>3, <2>2
<1>6. B \in Seq(X) /\ Len(B) = Len(b)
  <2>1. B = [i \in 1..Len(b) |-> B[i]]
    BY <1>3
  <2>2. B \in [1..Len(b) -> X]
    <3> HIDE DEF B, X
    <3> QED BY <1>4, <2>1
  <2> HIDE DEF B, X
  <2> QED BY <1>3, <2>2
<1> DEFINE N == Len(a) + Len(b)
<1> HIDE DEF A, B, X
<1>7. /\ A \o B \in Seq(X) /\ Len(A \o B) = N
      /\ \A i \in 1..N : (A \o B)[i] = IF i <= Len(a) THEN A[i]
                                       ELSE B[i - Len(a)]
  <2>1. /\ A \o B \in Seq(X) /\ Len(A \o B) = Len(A) + Len(B)
        /\ \A i \in 1..(Len(A) + Len(B)) :
             (A \o B)[i] = IF i <= Len(A) THEN A[i] ELSE B[i - Len(A)]
    BY <1>5, <1>6, ConcatProperties
  <2> QED BY <1>5, <1>6, <2>1
<1>8. /\ a \o b \in Seq(QueueTexts) /\ Len(a \o b) = N
      /\ \A i \in 1..N : (a \o b)[i] = IF i <= Len(a) THEN a[i]
                                       ELSE b[i - Len(a)]
  BY <1>1, ConcatProperties
<1>9. ASSUME NEW i \in 1..N PROVE (A \o B)[i].text = (a \o b)[i]
  <2>1. CASE i <= Len(a)
    <3>1. i \in 1..Len(a)
      BY <1>3, <2>1
    <3> QED BY <1>4, <1>7, <1>8, <2>1, <3>1
  <2>2. CASE ~(i <= Len(a))
    <3>1. i - Len(a) \in 1..Len(b)
      BY <1>3, <2>2
    <3> QED BY <1>4, <1>7, <1>8, <2>2, <3>1
  <2> QED BY <2>1, <2>2
<1> HIDE DEF N
<1> QED BY <1>2, <1>7, <1>8, <1>9 DEF X

\* apply_queue_update, for any mirror with different ids and any report: the
\* mirror then shows the texts of the report, in its order and each as often as
\* reported, the local rows stay, and the ids of rows, reservations and running
\* prompt are different again.
THEOREM ReportApplied ==
  ASSUME NEW m, NEW F, Good(m, F), NEW queue \in [Lanes -> Seq(QueueTexts)]
  PROVE  LET k == apply_queue_update(m, queue)
         IN  /\ Good(k, F) /\ k.local = m.local /\ m.seq <= k.seq
             /\ TextsOf(k.pi) = Lines(queue)
<1> DEFINE U == IdsOf(m.local) \cup F \cup {m.running}
           first == [previous |-> m.pi, next |-> <<>>,
                     reserved |-> m.reserved, seq |-> m.seq]
           desired == Desired(queue)
           a == Matched(first, desired)
           gone == SelectInSeq(a.previous, LAMBDA e : e.lane = "FollowUp")
           w == Retain(a.reserved, {i \in DOMAIN a.reserved :
                                      a.reserved[i].id \notin IdsOf(a.next)})
           r == IF gone = 0 THEN m.running ELSE a.previous[gone].id
           k == apply_queue_update(m, queue)
<1>1. /\ IsMirror(m) /\ m.seq \in Nat
      /\ RowSeq(m.local, LocalRow(m.seq)) /\ RowSeq(m.pi, PiRow(m.seq))
      /\ RowSeq(m.reserved, ReservedRow(m.seq))
      /\ m.running \in KnownAt(m.seq) \cup {None}
      /\ F \subseteq Clients /\ Apart(m, F)
  BY DEF Good
<1>2. IdsOf(m.local) \subseteq KnownAt(m.seq) /\ Clients \subseteq KnownAt(m.seq)
  BY <1>1, IdOfRow DEF IdsOf, KnownAt
<1>3. Scanned(first, U) /\ first.next = <<>> /\ first.seq = m.seq
  <2>1. /\ first.previous = m.pi /\ first.next = <<>>
        /\ first.reserved = m.reserved /\ first.seq = m.seq /\ IsAcc(first)
    BY DEF IsAcc
  <2> HIDE DEF first
  <2>2. RowSeq(first.next, PiRow(m.seq)) /\ IdsOf(first.next) = {}
    BY <2>1, EmptyRows
  <2> QED BY <1>1, <1>2, <2>1, <2>2 DEF Scanned, Apart
<1>4. /\ desired \in Seq([text: QueueTexts, lane: Lanes])
      /\ Lines(queue) \in Seq(QueueTexts)
      /\ Len(desired) = Len(Lines(queue))
      /\ \A i \in 1..Len(Lines(queue)) : desired[i].text = Lines(queue)[i]
  BY DesiredFacts
<1> HIDE DEF first, desired, U
<1>5. /\ Scanned(a, U) /\ m.seq <= a.seq /\ Len(a.next) = Len(desired)
      /\ \A i \in 1..Len(desired) : a.next[i].text = desired[i].text
  BY <1>3, <1>4, MatchedFacts
<1>6. /\ k.local = m.local /\ k.pi = a.next /\ k.reserved = w
      /\ k.running = r /\ k.seq = a.seq /\ IsMirror(k)
  <2>1. k = [m EXCEPT !.pi = a.next, !.reserved = w, !.seq = a.seq,
                      !.running = r]
    BY DEF apply_queue_update, first, desired
  <2> HIDE DEF k, a, w, r
  <2> QED BY <1>1, <2>1 DEF IsMirror
<1>7. gone = 0 \/ gone \in DOMAIN a.previous
  <2> HIDE DEF a
  <2> DEFINE I == {i \in 1..Len(a.previous) : a.previous[i].lane = "FollowUp"}
  <2>1. gone = IF I # {} THEN Min(I) ELSE 0
    BY DEF SelectInSeq
  <2>2. DOMAIN a.previous = 1..Len(a.previous) /\ I \in SUBSET Nat
    BY <1>5 DEF Scanned, RowSeq
  <2>3. I # {} => Min(I) \in I
    <3> HIDE DEF I
    <3> QED BY <2>2, MinFound
  <2> HIDE DEF gone
  <2> QED BY <2>1, <2>2, <2>3
<1>8. Fewer(w, a.reserved, ReservedRow(a.seq), IdsOf(a.next))
  <2> HIDE DEF a
  <2> DEFINE I == {i \in DOMAIN a.reserved :
                     a.reserved[i].id \notin IdsOf(a.next)}
  <2>1. \A i \in DOMAIN a.reserved :
          i \in I => a.reserved[i].id \notin IdsOf(a.next)
    OBVIOUS
  <2>2. RowSeq(a.reserved, ReservedRow(a.seq))
    BY <1>5 DEF Scanned
  <2>3. Fewer(Retain(a.reserved, I), a.reserved, ReservedRow(a.seq),
              IdsOf(a.next))
    <3> HIDE DEF I
    <3> QED BY <2>1, <2>2, RetainRows
  <2> QED BY <2>3
<1> HIDE DEF k, a, w, gone
<1>9. /\ r = m.running \/ r \in IdsOf(a.previous)
      /\ r \in KnownAt(a.seq) \cup {None}
  <2>1. KnownAt(m.seq) \subseteq KnownAt(a.seq)
    BY <1>1, <1>5, KnownGrows DEF Scanned
  <2>2. CASE gone = 0
    BY <1>1, <2>1, <2>2
  <2>3. CASE gone # 0 /\ gone \in DOMAIN a.previous
    BY <1>5, <2>3, IdOfRow DEF Scanned
  <2> QED BY <1>7, <2>2, <2>3
<1> HIDE DEF r
<1>10. RowSeq(k.local, LocalRow(k.seq))
  <2>1. LocalRow(m.seq) \subseteq LocalRow(a.seq)
    BY <1>1, <1>5, KnownGrows DEF Scanned
  <2> QED BY <1>1, <1>6, <2>1, GrownRows
<1>11. Apart(k, F)
  BY <1>1, <1>5, <1>6, <1>8, <1>9 DEF Apart, Scanned, Fewer, U
<1>12. Good(k, F)
  BY <1>1, <1>5, <1>6, <1>8, <1>9, <1>10, <1>11 DEF Good, Scanned, Fewer
<1>13. TextsOf(k.pi) = Lines(queue)
  <2> DEFINE N == Len(Lines(queue))
             f == TextsOf(k.pi)
             g == Lines(queue)
  <2>1. DOMAIN a.next = 1..N /\ DOMAIN g = 1..N
    BY <1>4, <1>5, LenProperties DEF Scanned, RowSeq
  <2>2. f = [i \in 1..N |-> f[i]] /\ \A i \in 1..N : f[i] = a.next[i].text
    BY <1>6, <2>1 DEF TextsOf
  <2>3. g = [i \in 1..N |-> g[i]]
    BY <1>4, <2>1
  <2>4. \A i \in 1..N : f[i] = g[i]
    BY <1>4, <1>5, <2>2
  <2> HIDE DEF f, g, N
  <2>5. f = g
    BY <2>2, <2>3, <2>4, SameFunction
  <2> QED BY <2>5 DEF f, g
<1> QED BY <1>5, <1>6, <1>12, <1>13 DEF k
-----------------------------------------------------------------------------
\* The inductive invariant of the adapter with Pi.
Messages == [id: Ids, text: Texts, how: Behaviours]

\* What TypeOK says about the adapter besides its mirror.
AdapterTypes ==
  /\ agent_running \in BOOLEAN
  /\ cancelling \in BOOLEAN
  /\ active \subseteq Clients
  /\ outbox \subseteq Messages
  /\ published \subseteq Rows

\* ... and about the world.
WorldTypes ==
  /\ stdin \in Seq(Messages)
  /\ pi \in [running: BOOLEAN,
             queue: [Lanes -> Seq([owner: Ids \cup {None},
                                   text: QueueTexts])]]
  /\ channel \in Seq([kind: {"start", "queue", "settled"},
                      queue: [Lanes -> Seq(QueueTexts)]])
  /\ left \in [extra: Nat, edits: Nat]
  /\ bash_running \in BOOLEAN
  /\ may \subseteq Liberties

Inv == Good(mirror, fresh) /\ AdapterTypes /\ WorldTypes

\* Local rows are what the pager is shown.
LEMMA LocalAreRows ==
  ASSUME NEW m, NEW F, Good(m, F)
  PROVE  ToSet(m.local) \subseteq LocalRow(m.seq) /\ ToSet(m.local) \subseteq Rows
<1>1. LocalRow(m.seq) \subseteq Rows
  BY KnownGrows DEF Good, LocalRow, Rows
<1>2. \A i \in DOMAIN m.local : m.local[i] \in LocalRow(m.seq)
  BY ElementOfSeq, LenProperties DEF Good, RowSeq
<1> QED BY <1>1, <1>2 DEF ToSet

\* A handler ends with a good mirror that shows the same of Pi as m, and it
\* publishes.
Ends(m, F) ==
  /\ Good(mirror', F)
  /\ mirror'.pi = m.pi
  /\ mirror'.seq = m.seq
  /\ published' = published \cup ToSet(mirror'.local)
  /\ agent_running' \in BOOLEAN
  /\ active' \subseteq Clients
  /\ outbox' \subseteq Messages

\* dispatch_next_queued ends a handler well: it may only take the first row.
LEMMA DispatchEnds ==
  ASSUME Inv, NEW m, NEW F, Good(m, F), NEW running \in BOOLEAN,
         NEW act \in SUBSET Clients, dispatch_next_queued(m, running, act)
  PROVE  Ends(m, F) /\ ToSet(mirror'.local) \subseteq ToSet(m.local)
<1>1. CASE adapter_busy(m, running, act) \/ m.local = <<>>
  <2>1. /\ Publish(m) /\ agent_running' = running /\ active' = act
        /\ UNCHANGED outbox
    BY <1>1 DEF dispatch_next_queued
  <2> QED BY <2>1 DEF Publish, Ends, Inv, AdapterTypes
<1>2. CASE ~(adapter_busy(m, running, act) \/ m.local = <<>>)
  <2> DEFINE e == m.local[1]
             z == Tail(m.local)
             k == [m EXCEPT !.local = z]
             j == [k EXCEPT !.running = e.id]
  <2>1. /\ Publish([m EXCEPT !.local = Tail(@), !.running = e.id])
        /\ agent_running' = TRUE
        /\ active' = act \cup ({e.id} \cap Clients)
        /\ outbox' = outbox \cup {[id |-> e.id, text |-> e.text,
                                   how |-> "dispatch"]}
    BY <1>2 DEF dispatch_next_queued
  <2>2. /\ e \in LocalRow(m.seq) /\ e.id \in IdsOf(m.local)
        /\ Fewer(z, m.local, LocalRow(m.seq), {e.id})
    BY <1>2, TailRows DEF Good
  <2>3. j = [m EXCEPT !.local = Tail(@), !.running = e.id]
    BY DEF Good, IsMirror
  <2> HIDE DEF e, z
  <2>4. Good(k, F) /\ k.pi = m.pi /\ k.seq = m.seq /\ k.local = z
    BY <2>2, SetLocalGood DEF Fewer
  <2>5. k.reserved = m.reserved /\ k.pi = m.pi
    BY DEF Good, IsMirror
  <2> HIDE DEF k
  <2>6. e.id \in KnownAt(k.seq) /\ e.id \in Ids /\ e.text \in Texts
    BY <2>2, <2>4, KnownGrows DEF LocalRow, Good
  <2>7. e.id \notin IdsOf(k.pi) \cup IdsOf(k.local) \cup IdsOf(k.reserved) \cup F
    BY <2>2, <2>4, <2>5 DEF Good, Apart, Fewer
  <2>8. Good(j, F) /\ j.pi = k.pi /\ j.seq = k.seq /\ j.local = k.local
    BY <2>4, <2>6, <2>7, SetRunningGood
  <2> HIDE DEF j
  <2>9. mirror' = j /\ published' = published \cup ToSet(j.local)
    BY <2>1, <2>3 DEF Publish
  <2>10. outbox' \subseteq Messages
    BY <2>1, <2>6 DEF Inv, AdapterTypes, Messages, Behaviours
  <2>11. active' \subseteq Clients
    BY <2>1
  <2> QED BY <2>1, <2>2, <2>4, <2>8, <2>9, <2>10, <2>11 DEF Ends, Fewer
<1> QED BY <1>1, <1>2

\* interject_local_queue ends well in each of its three cases.
LEMMA InterjectEnds ==
  ASSUME Inv, NEW m, NEW F, Good(m, F), NEW e \in LocalRow(m.seq),
         e.id \in IdsOf(m.local), interject_local_queue(m, e)
  PROVE  /\ Ends(m, F)
         /\ ToSet(mirror'.local) \subseteq
              {l \in ToSet(m.local) : l.id # e.id} \cup {e}
<1> DEFINE k == take_local(m, e.id)
           f == push_front_local(k, e)
           g == reserve(k, e.id, e.text)
           act == active \cup ({e.id} \cap Clients)
<1>1. /\ Good(k, F) /\ k.pi = m.pi /\ k.seq = m.seq
      /\ k.running = m.running /\ k.reserved = m.reserved
      /\ ToSet(k.local) \subseteq ToSet(m.local)
      /\ e.id \notin IdsOf(k.local)
  BY TakeGood
<1>2. ToSet(k.local) \subseteq {l \in ToSet(m.local) : l.id # e.id}
  <2>1. \A l \in ToSet(k.local) : l.id \in IdsOf(k.local)
    <3> HIDE DEF k
    <3> QED BY IdsOfSet
  <2> HIDE DEF k
  <2> QED BY <1>1, <2>1
<1>3. \/ cancelling /\ Publish(f) /\ UNCHANGED <<agent_running, active, outbox>>
      \/ active = {} /\ dispatch_next_queued(f, FALSE, {})
      \/ /\ Publish(g) /\ active' = act
         /\ outbox' = outbox \cup {[id |-> e.id, text |-> e.text,
                                    how |-> "steer"]}
         /\ UNCHANGED agent_running
  <2> HIDE DEF k
  <2>1. CASE cancelling
    BY <2>1 DEF interject_local_queue, k
  <2>2. CASE ~cancelling /\ ~agent_running /\ active = {}
    BY <2>2 DEF interject_local_queue, k
  <2>3. CASE ~cancelling /\ ~(~agent_running /\ active = {})
    BY <2>3 DEF interject_local_queue, k
  <2> QED BY <2>1, <2>2, <2>3
<1> HIDE DEF k
<1>4. e.id \in KnownAt(k.seq) /\ e.id \in Ids /\ e.text \in Texts
      /\ e \in LocalRow(k.seq)
  BY <1>1, KnownGrows DEF LocalRow, Good
<1>5. e.id \notin IdsOf(k.pi) \cup IdsOf(k.reserved) \cup F \cup {k.running}
  BY <1>1 DEF Good, Apart
<1>6. /\ Good(f, F) /\ f.pi = m.pi /\ f.seq = m.seq
      /\ ToSet(f.local) \subseteq ToSet(k.local) \cup {e}
  BY <1>1, <1>4, <1>5, PushFrontGood
<1>7. Good(g, F) /\ g.pi = m.pi /\ g.seq = m.seq /\ g.local = k.local
  BY <1>1, <1>4, <1>5, ReserveGood
<1> HIDE DEF f, g
<1>8. CASE cancelling /\ Publish(f) /\ UNCHANGED <<agent_running, active, outbox>>
  BY <1>2, <1>6, <1>8 DEF Ends, Publish, Inv, AdapterTypes
<1>9. CASE active = {} /\ dispatch_next_queued(f, FALSE, {})
  <2>1. Ends(f, F) /\ ToSet(mirror'.local) \subseteq ToSet(f.local)
    BY <1>6, <1>9, DispatchEnds
  <2> QED BY <1>2, <1>6, <2>1 DEF Ends
<1>10. CASE /\ Publish(g) /\ active' = act
            /\ outbox' = outbox \cup {[id |-> e.id, text |-> e.text,
                                       how |-> "steer"]}
            /\ UNCHANGED agent_running
  <2>1. outbox' \subseteq Messages
    BY <1>4, <1>10 DEF Inv, AdapterTypes, Messages, Behaviours
  <2>2. active' \subseteq Clients
    BY <1>10 DEF Inv, AdapterTypes
  <2> QED BY <1>2, <1>7, <1>10, <2>1, <2>2 DEF Ends, Publish, Inv, AdapterTypes
<1> QED BY <1>3, <1>8, <1>9, <1>10
-----------------------------------------------------------------------------
\* What an action may do to the local rows: drop some, add one with a new id,
\* or give one the next version.
Arrives(e) ==
  /\ ToSet(mirror'.local) \subseteq ToSet(mirror.local) \cup {e}
  /\ e.id \in KnownAt(mirror'.seq)
  /\ e.id \notin fresh'
  /\ e.id \in fresh \/ e.id \notin KnownAt(mirror.seq)

\* ... or replaces a row by a later version of it.
Bumps(d, e) ==
  /\ d \in ToSet(mirror.local)
  /\ e.id = d.id
  /\ e.version = d.version + 1
  /\ ToSet(mirror'.local) \subseteq
       {l \in ToSet(mirror.local) : l.id # d.id} \cup {e}

\* How a step may change the local rows: all rows are shown; rows leave, one
\* arrives, or one is edited.
LocalStep ==
  \/ UNCHANGED <<mirror, published>>
  \/ /\ published' = published \cup ToSet(mirror'.local)
     /\ mirror.seq <= mirror'.seq
     /\ \/ ToSet(mirror'.local) \subseteq ToSet(mirror.local)
        \/ \E e : Arrives(e)
        \/ \E d, e : Bumps(d, e)

\* The mirrored rows stay.
PiKept == mirror'.pi = mirror.pi

\* A handler that ends well keeps the invariant.
LEMMA EndsInv ==
  ASSUME Inv, NEW m, Ends(m, fresh'), cancelling' \in BOOLEAN, WorldTypes'
  PROVE  Inv'
<1>1. Good(mirror', fresh') /\ ToSet(mirror'.local) \subseteq Rows
  BY LocalAreRows DEF Ends
<1>2. AdapterTypes'
  BY <1>1 DEF Ends, Inv, AdapterTypes
<1> QED BY <1>1, <1>2 DEF Inv

\* Handlers that leave Pi alone keep the types of the world.
LEMMA WorldKept ==
  ASSUME Inv, UNCHANGED <<piVars, left, bash_running, may>>
  PROVE  WorldTypes'
BY DEF Inv, WorldTypes, piVars

\* The counter is a number, and client ids are known whatever it is.
LEMMA SeqSelf ==
  ASSUME NEW m, NEW F, Good(m, F)
  PROVE  m.seq \in Nat /\ m.seq <= m.seq /\ Clients \subseteq KnownAt(m.seq)
BY DEF Good, KnownAt

\* A new prompt of a client, queued, sent or steering.
LEMMA ClientStep ==
  ASSUME Inv, NEW c \in Clients, NEW t \in Texts, Client(c, t)
  PROVE  Inv' /\ LocalStep /\ PiKept
<1>1. /\ c \in fresh /\ fresh' = fresh \ {c} /\ WorldTypes'
      /\ Good(mirror, fresh) /\ cancelling \in BOOLEAN
      /\ agent_running \in BOOLEAN /\ active \subseteq Clients
  BY WorldKept DEF Client, Inv, AdapterTypes
<1>2. /\ c \in KnownAt(mirror.seq) /\ c \in Ids /\ c # mirror.running
      /\ c \notin IdsOf(mirror.pi) \cup IdsOf(mirror.local) \cup
                  IdsOf(mirror.reserved)
      /\ c \notin fresh' /\ fresh' \subseteq fresh
      /\ mirror.seq <= mirror.seq
  BY <1>1, SeqSelf DEF Good, Apart, Ids
<1>3. CASE prompt_queued(c, t)
  <2> DEFINE k == enqueue_local(mirror, c, t)
             e == NewRow(c, t)
  <2>1. /\ Good(k, fresh') /\ k.pi = mirror.pi /\ k.seq = mirror.seq
        /\ ToSet(k.local) = ToSet(mirror.local) \cup {e}
    <3>1. Good(k, fresh') /\ Enqueued(k, mirror, c, t)
      BY <1>1, <1>2, EnqueueGood
    <3> HIDE DEF k
    <3> QED BY <3>1 DEF Enqueued
  <2>2. dispatch_next_queued(k, agent_running, active) /\ cancelling' = cancelling
    BY <1>3 DEF prompt_queued
  <2> HIDE DEF k
  <2>3. Ends(k, fresh') /\ ToSet(mirror'.local) \subseteq ToSet(k.local)
    BY <1>1, <2>1, <2>2, DispatchEnds
  <2>4. Inv'
    BY <1>1, <2>2, <2>3, EndsInv
  <2>5. e.id = c
    BY DEF NewRow
  <2> HIDE DEF e
  <2>6. Arrives(e)
    BY <1>1, <1>2, <2>1, <2>3, <2>5 DEF Arrives, Ends
  <2> QED BY <1>2, <2>1, <2>3, <2>4, <2>6 DEF LocalStep, PiKept, Ends
<1>4. CASE prompt_direct(c, t)
  <2> DEFINE k == IF Busy THEN reserve(mirror, c, t)
                  ELSE [mirror EXCEPT !.running = c]
  <2>1. /\ Good(k, fresh') /\ k.pi = mirror.pi /\ k.seq = mirror.seq
        /\ k.local = mirror.local
    <3>1. CASE Busy
      BY <1>1, <1>2, <3>1, ReserveGood
    <3>2. CASE ~Busy
      BY <1>1, <1>2, <3>2, SetRunningGood
    <3> QED BY <3>1, <3>2
  <2>2. /\ Publish(k) /\ agent_running' = TRUE /\ active' = active \cup {c}
        /\ \E how \in Behaviours :
             outbox' = outbox \cup {[id |-> c, text |-> t, how |-> how]}
        /\ cancelling' = cancelling
    BY <1>4 DEF prompt_direct, Behaviours
  <2> HIDE DEF k
  <2>3. outbox' \subseteq Messages
    BY <1>2, <2>2 DEF Inv, AdapterTypes, Messages
  <2>4. Ends(k, fresh')
    BY <1>1, <2>1, <2>2, <2>3 DEF Ends, Publish
  <2> QED BY <1>1, <1>2, <2>1, <2>2, <2>4, EndsInv
       DEF LocalStep, PiKept, Ends, Publish
<1>5. CASE handle_steer_message(c, t)
  <2> DEFINE k == reserve(mirror, c, t)
  <2>1. /\ Good(k, fresh') /\ k.pi = mirror.pi /\ k.seq = mirror.seq
        /\ k.local = mirror.local
    BY <1>1, <1>2, ReserveGood
  <2>2. /\ Publish(k) /\ UNCHANGED <<agent_running, active, cancelling>>
        /\ outbox' = outbox \cup {[id |-> c, text |-> t, how |-> "steer"]}
    BY <1>5 DEF handle_steer_message
  <2> HIDE DEF k
  <2>3. outbox' \subseteq Messages
    BY <1>2, <2>2 DEF Inv, AdapterTypes, Messages, Behaviours
  <2>4. Ends(k, fresh')
    BY <1>1, <2>1, <2>2, <2>3 DEF Ends, Publish
  <2> QED BY <1>1, <1>2, <2>1, <2>2, <2>4, EndsInv
       DEF LocalStep, PiKept, Ends, Publish
<1> QED BY <1>3, <1>4, <1>5 DEF Client

\* enqueue_extension_message, also when it interjects its own row at once.
LEMMA ExtensionStep ==
  ASSUME Inv, NEW lane, NEW t \in Texts, enqueue_extension_message(lane, t)
  PROVE  Inv' /\ LocalStep /\ PiKept
<1> DEFINE id == <<"extension", mirror.seq + 1>>
           j == [mirror EXCEPT !.seq = NextSeq(@)]
           k == enqueue_local(j, id, t)
           e == NewRow(id, t)
<1>1. /\ Good(mirror, fresh) /\ cancelling \in BOOLEAN /\ fresh' = fresh
      /\ agent_running \in BOOLEAN /\ active \subseteq Clients
      /\ cancelling' = cancelling
  BY DEF enqueue_extension_message, Inv, AdapterTypes
<1>2. WorldTypes'
  <2>1. left.extra \in Nat /\ left.extra > 0 /\ left \in [extra: Nat, edits: Nat]
    BY DEF enqueue_extension_message, Inv, WorldTypes
  <2>2. left' \in [extra: Nat, edits: Nat]
    BY <2>1 DEF enqueue_extension_message
  <2> QED BY <2>2 DEF enqueue_extension_message, Inv, WorldTypes, piVars
<1>3. /\ Good(j, fresh) /\ j.pi = mirror.pi /\ j.seq = mirror.seq + 1
      /\ j.local = mirror.local /\ j.reserved = mirror.reserved
      /\ j.running = mirror.running
  BY <1>1, CountGood
<1>4. /\ id \in KnownAt(j.seq) /\ id \notin KnownAt(mirror.seq) \cup {None}
      /\ id \notin Clients /\ mirror.seq \in Nat
  BY <1>1, <1>3, NewId DEF Good
<1>5. /\ IdsOf(mirror.local) \subseteq KnownAt(mirror.seq)
      /\ IdsOf(mirror.pi) \subseteq KnownAt(mirror.seq)
      /\ IdsOf(mirror.reserved) \subseteq KnownAt(mirror.seq)
      /\ mirror.running \in KnownAt(mirror.seq) \cup {None}
      /\ fresh \subseteq Clients
  BY <1>1, IdOfRow DEF Good, IdsOf
<1>6. cancelling => UNCHANGED <<mirror, published, agent_running, active, outbox>>
  BY DEF enqueue_extension_message
<1>7. ~cancelling => \/ interject_local_queue(k, Last(k.local))
                     \/ dispatch_next_queued(k, agent_running, active)
  <2>1. IF cancelling
        THEN UNCHANGED <<mirror, published, agent_running, active, outbox>>
        ELSE IF lane = "Steering" /\ agent_running
        THEN interject_local_queue(k, Last(k.local))
        ELSE dispatch_next_queued(k, agent_running, active)
    BY Zenon DEF enqueue_extension_message
  <2> HIDE DEF k
  <2> QED BY <2>1
<1>8. e.id = id
  BY DEF NewRow
<1> HIDE DEF id, j
<1>9. /\ Good(k, fresh) /\ k.pi = j.pi /\ k.seq = j.seq
      /\ ToSet(k.local) = ToSet(j.local) \cup {e}
      /\ IdsOf(k.local) = IdsOf(j.local) \cup {id}
      /\ k.local = Append(j.local, e)
  <2>1. Good(k, fresh) /\ Enqueued(k, j, id, t)
    BY <1>3, <1>4, <1>5, EnqueueGood
  <2> HIDE DEF k
  <2> QED BY <2>1 DEF Enqueued
<1>10. Last(k.local) = e /\ e \in LocalRow(k.seq)
  <2>1. Last(k.local) = e
    BY <1>3, <1>9 DEF Last, Good, RowSeq
  <2> QED BY <1>9, <2>1, LocalAreRows
<1> HIDE DEF k, e
<1>11. CASE cancelling
  BY <1>1, <1>2, <1>6, <1>11 DEF Inv, AdapterTypes, LocalStep, PiKept
<1>12. CASE ~cancelling
  <2>1. Ends(k, fresh) /\ ToSet(mirror'.local) \subseteq ToSet(k.local)
    <3>1. CASE interject_local_queue(k, Last(k.local))
      <4>1. interject_local_queue(k, e) /\ e.id \in IdsOf(k.local)
        BY <1>8, <1>9, <1>10, <3>1
      <4>2. /\ Ends(k, fresh)
            /\ ToSet(mirror'.local) \subseteq
                 {l \in ToSet(k.local) : l.id # e.id} \cup {e}
        BY <1>9, <1>10, <4>1, InterjectEnds
      <4> QED BY <1>9, <4>2
    <3>2. CASE dispatch_next_queued(k, agent_running, active)
      BY <1>1, <1>9, <3>2, DispatchEnds
    <3> QED BY <1>7, <1>12, <3>1, <3>2
  <2>2. Inv'
    BY <1>1, <1>2, <2>1, EndsInv
  <2>3. Arrives(e)
    BY <1>1, <1>3, <1>4, <1>5, <1>8, <1>9, <2>1 DEF Arrives, Ends
  <2> QED BY <1>3, <1>4, <1>9, <2>1, <2>2, <2>3 DEF LocalStep, PiKept, Ends
<1> QED BY <1>11, <1>12

\* A handler that just publishes.
LEMMA PublishEnds ==
  ASSUME Inv, NEW k, Good(k, fresh), Publish(k),
         UNCHANGED <<agent_running, active, outbox>>
  PROVE  Ends(k, fresh)
BY DEF Ends, Publish, Inv, AdapterTypes

\* A handler after which there are no new local rows.
LEMMA LessStep ==
  ASSUME Inv, NEW k, Ends(k, fresh'), cancelling' \in BOOLEAN, WorldTypes',
         mirror.seq <= k.seq, ToSet(mirror'.local) \subseteq ToSet(mirror.local)
  PROVE  Inv' /\ LocalStep
BY EndsInv DEF Ends, LocalStep

\* The row that the pager names is a local row.
LEMMA CurrentFacts ==
  ASSUME Inv, NEW row, Named(row)
  PROVE  /\ Current(row) \in LocalRow(mirror.seq)
         /\ Current(row) \in ToSet(mirror.local)
         /\ Current(row).id = row.id
         /\ row.id \in IdsOf(mirror.local)
<1> DEFINE s == mirror.local
           p == PositionOf(s, row.id)
<1>1. Good(mirror, fresh) /\ s \in Seq(LocalRow(mirror.seq))
  BY DEF Inv, Good, RowSeq
<1>2. row.id \in IdsOf(s)
  BY DEF Named, IdsOf
<1>3. p \in DOMAIN s /\ s[p].id = row.id
  BY <1>1, <1>2, PositionFacts
<1>4. Current(row) = s[p]
  BY DEF Current
<1>5. s[p] \in ToSet(s)
  BY <1>3 DEF ToSet
<1> QED BY <1>1, <1>2, <1>3, <1>4, <1>5, LocalAreRows

\* The bound on edits.
LEMMA EditsLeft ==
  ASSUME Inv, left.edits > 0, left' = [left EXCEPT !.edits = @ - 1],
         UNCHANGED <<piVars, bash_running, may>>
  PROVE  WorldTypes'
<1>1. left.edits \in Nat /\ left \in [extra: Nat, edits: Nat]
  BY DEF Inv, WorldTypes
<1>2. left' \in [extra: Nat, edits: Nat]
  BY <1>1
<1> QED BY <1>2 DEF Inv, WorldTypes, piVars

\* x.ai/queue/remove and x.ai/queue/interject.
LEMMA RowStep ==
  ASSUME Inv, NEW row,
         \/ queue_remove(row)
         \/ queue_interject(row)
         \/ \E t \in Texts : queue_interject_edited(row, t)
  PROVE  Inv' /\ LocalStep /\ PiKept
<1>1. Good(mirror, fresh) /\ cancelling \in BOOLEAN /\ mirror.seq <= mirror.seq
  BY SeqSelf DEF Inv, AdapterTypes
<1>2. CASE queue_remove(row)
  <2> DEFINE k == take_local(mirror, row.id)
  <2>1. /\ Good(k, fresh) /\ k.pi = mirror.pi /\ k.seq = mirror.seq
        /\ ToSet(k.local) \subseteq ToSet(mirror.local)
    BY <1>1, TakeGood
  <2>2. /\ Publish(k) /\ UNCHANGED <<agent_running, active, outbox>>
        /\ cancelling' = cancelling /\ fresh' = fresh /\ WorldTypes'
    BY <1>2, WorldKept DEF queue_remove
  <2> HIDE DEF k
  <2>3. Ends(k, fresh') /\ mirror' = k
    BY <2>1, <2>2, PublishEnds DEF Publish
  <2> QED BY <1>1, <2>1, <2>2, <2>3, LessStep DEF PiKept
<1>3. CASE queue_interject(row)
  <2> DEFINE e == Current(row)
  <2>1. /\ Named(row) /\ interject_local_queue(mirror, e)
        /\ cancelling' = cancelling /\ fresh' = fresh /\ WorldTypes'
    BY <1>3, WorldKept DEF queue_interject
  <2>2. /\ e \in LocalRow(mirror.seq) /\ e \in ToSet(mirror.local)
        /\ e.id \in IdsOf(mirror.local)
    BY <2>1, CurrentFacts
  <2> HIDE DEF e
  <2>3. /\ Ends(mirror, fresh')
        /\ ToSet(mirror'.local) \subseteq
             {l \in ToSet(mirror.local) : l.id # e.id} \cup {e}
    BY <1>1, <2>1, <2>2, InterjectEnds
  <2>4. ToSet(mirror'.local) \subseteq ToSet(mirror.local)
    BY <2>2, <2>3
  <2> QED BY <1>1, <2>1, <2>3, <2>4, LessStep DEF PiKept, Ends
<1>4. ASSUME NEW t \in Texts, queue_interject_edited(row, t)
      PROVE  Inv' /\ LocalStep /\ PiKept
  <2> DEFINE d == Current(row)
             e == Edited(d, t)
  <2>1. /\ Named(row) /\ interject_local_queue(mirror, e)
        /\ cancelling' = cancelling /\ fresh' = fresh /\ WorldTypes'
    BY <1>4, EditsLeft DEF queue_interject_edited
  <2>2. /\ d \in LocalRow(mirror.seq) /\ d \in ToSet(mirror.local)
        /\ d.id \in IdsOf(mirror.local)
    BY <2>1, CurrentFacts
  <2> HIDE DEF d
  <2>3. e \in LocalRow(mirror.seq) /\ e.id = d.id /\ e.version = d.version + 1
    BY <2>2, EditedRow
  <2> HIDE DEF e
  <2>4. /\ Ends(mirror, fresh')
        /\ ToSet(mirror'.local) \subseteq
             {l \in ToSet(mirror.local) : l.id # e.id} \cup {e}
    BY <1>1, <2>1, <2>2, <2>3, InterjectEnds
  <2>5. Bumps(d, e)
    BY <2>2, <2>3, <2>4 DEF Bumps
  <2>6. Inv'
    BY <1>1, <2>1, <2>4, EndsInv
  <2> QED BY <1>1, <2>4, <2>5, <2>6 DEF Ends, LocalStep, PiKept
<1> QED BY <1>2, <1>3, <1>4

\* x.ai/queue/edit.
LEMMA EditStep ==
  ASSUME Inv, NEW id \in IdsOf(mirror.local), NEW t \in Texts,
         queue_edit(id, t)
  PROVE  Inv' /\ LocalStep /\ PiKept
<1> DEFINE k == edit_local(mirror, id, t)
<1>1. Good(mirror, fresh) /\ cancelling \in BOOLEAN /\ mirror.seq <= mirror.seq
  BY SeqSelf DEF Inv, AdapterTypes
<1>2. /\ Publish(k) /\ UNCHANGED <<agent_running, active, outbox>>
      /\ cancelling' = cancelling /\ fresh' = fresh /\ WorldTypes'
  BY EditsLeft DEF queue_edit
<1>3. /\ Good(k, fresh) /\ k.pi = mirror.pi /\ k.seq = mirror.seq
      /\ \E e \in ToSet(mirror.local) :
           /\ e.id = id
           /\ ToSet(k.local) \subseteq
                {l \in ToSet(mirror.local) : l.id # id} \cup {Edited(e, t)}
  BY <1>1, EditGood
<1> HIDE DEF k
<1>4. PICK d \in ToSet(mirror.local) :
        /\ d.id = id
        /\ ToSet(k.local) \subseteq
             {l \in ToSet(mirror.local) : l.id # id} \cup {Edited(d, t)}
  BY <1>3
<1>5. d \in LocalRow(mirror.seq)
  BY <1>1, LocalAreRows
<1>6. Edited(d, t).id = d.id /\ Edited(d, t).version = d.version + 1
  BY <1>5, EditedRow
<1>7. Ends(k, fresh') /\ mirror' = k
  BY <1>2, <1>3, PublishEnds DEF Publish
<1>8. Bumps(d, Edited(d, t))
  BY <1>4, <1>6, <1>7 DEF Bumps
<1>9. Inv'
  BY <1>1, <1>2, <1>7, EndsInv
<1> QED BY <1>1, <1>3, <1>7, <1>8, <1>9 DEF Ends, LocalStep, PiKept

\* x.ai/queue/reorder.
LEMMA ReorderStep ==
  ASSUME Inv, NEW ordered \in Orders, queue_reorder(ordered)
  PROVE  Inv' /\ LocalStep /\ PiKept
<1> DEFINE k == reorder_local(mirror, ordered)
           X == {row.id : row \in published}
<1>1. ordered \in Seq(X)
  <2>1. MaxOrder \in Nat /\ ordered \in [1..MaxOrder -> X]
    BY MirrorAssumption DEF Orders
  <2> HIDE DEF X
  <2> QED BY <2>1
<1> HIDE DEF X
<1>2. Good(mirror, fresh) /\ cancelling \in BOOLEAN /\ mirror.seq <= mirror.seq
  BY SeqSelf DEF Inv, AdapterTypes
<1>3. /\ Good(k, fresh) /\ k.pi = mirror.pi /\ k.seq = mirror.seq
      /\ ToSet(k.local) = ToSet(mirror.local)
  BY <1>1, <1>2, ReorderKeepsRows
<1>4. /\ Publish(k) /\ UNCHANGED <<agent_running, active, outbox>>
      /\ cancelling' = cancelling /\ fresh' = fresh /\ WorldTypes'
  BY WorldKept DEF queue_reorder
<1> HIDE DEF k
<1>5. Ends(k, fresh') /\ mirror' = k
  BY <1>3, <1>4, PublishEnds DEF Publish
<1> QED BY <1>2, <1>3, <1>4, <1>5, LessStep DEF PiKept

\* x.ai/queue/clear.
LEMMA ClearStep ==
  ASSUME Inv, queue_clear
  PROVE  Inv' /\ LocalStep /\ PiKept
<1> DEFINE z == <<>>
           k == [mirror EXCEPT !.local = z]
<1>1. Good(mirror, fresh) /\ cancelling \in BOOLEAN /\ mirror.seq <= mirror.seq
  BY SeqSelf DEF Inv, AdapterTypes
<1>2. RowSeq(z, LocalRow(mirror.seq)) /\ IdsOf(z) = {} /\ ToSet(z) = {}
  BY EmptyRows
<1>3. /\ Publish(k) /\ UNCHANGED <<agent_running, active, outbox>>
      /\ cancelling' = cancelling /\ fresh' = fresh /\ WorldTypes'
  BY WorldKept DEF queue_clear
<1> HIDE DEF z
<1>4. Good(k, fresh) /\ k.pi = mirror.pi /\ k.seq = mirror.seq /\ k.local = z
  BY <1>1, <1>2, SetLocalGood
<1> HIDE DEF k
<1>5. Ends(k, fresh') /\ mirror' = k
  BY <1>3, <1>4, PublishEnds DEF Publish
<1> QED BY <1>1, <1>2, <1>3, <1>4, <1>5, LessStep DEF PiKept

\* cancel empties the mirror.
LEMMA CancelStep ==
  ASSUME Inv, cancel
  PROVE  Inv' /\ LocalStep /\ mirror'.pi = <<>>
<1> DEFINE k == clear(mirror)
<1>1. /\ Good(mirror, fresh) /\ mirror.seq <= mirror.seq /\ mirror.seq \in Nat
      /\ fresh \subseteq Clients
  BY SeqSelf DEF Inv, Good
<1>2. Good(k, fresh) /\ k.pi = <<>> /\ k.seq = mirror.seq /\ k.local = <<>>
  <2>1. k = [EmptyMirror EXCEPT !.seq = mirror.seq]
    BY DEF clear
  <2>2. Good([EmptyMirror EXCEPT !.seq = mirror.seq], fresh)
    BY <1>1, EmptyGood
  <2> QED BY <2>1, <2>2 DEF EmptyMirror
<1>3. /\ Publish(k) /\ UNCHANGED <<agent_running, outbox>> /\ active' = {}
      /\ cancelling' = TRUE /\ fresh' = fresh /\ WorldTypes'
  BY WorldKept DEF cancel
<1> HIDE DEF k
<1>4. Ends(k, fresh') /\ mirror' = k
  BY <1>2, <1>3 DEF Publish, Ends, Inv, AdapterTypes
<1>5. ToSet(mirror'.local) \subseteq ToSet(mirror.local)
  BY <1>2, <1>4, EmptyRows
<1> QED BY <1>1, <1>2, <1>3, <1>4, <1>5, LessStep

\* The end of a run, however the adapter learns of it.
LEMMA SettledStep ==
  ASSUME Inv, NEW act \in SUBSET Clients,
         dispatch_next_queued(clear_running(mirror), FALSE, act),
         cancelling' \in BOOLEAN, fresh' = fresh, WorldTypes'
  PROVE  Inv' /\ LocalStep /\ PiKept
<1> DEFINE k == clear_running(mirror)
<1>1. Good(mirror, fresh) /\ mirror.seq <= mirror.seq
  BY SeqSelf DEF Inv
<1>2. Good(k, fresh) /\ k.pi = mirror.pi /\ k.seq = mirror.seq
      /\ k.local = mirror.local
  BY <1>1, ClearRunningGood
<1>3. dispatch_next_queued(k, FALSE, act)
  OBVIOUS
<1> HIDE DEF k
<1>4. Ends(k, fresh') /\ ToSet(mirror'.local) \subseteq ToSet(mirror.local)
  BY <1>2, <1>3, DispatchEnds
<1> QED BY <1>1, <1>2, <1>4, LessStep DEF PiKept, Ends

\* settle_cancelled_prompts and probe_prompt_without_agent.
LEMMA SettleStep ==
  ASSUME Inv, settle_confirmed \/ probe
  PROVE  Inv' /\ LocalStep /\ PiKept
<1>1. \E act \in SUBSET Clients :
        dispatch_next_queued(clear_running(mirror), FALSE, act)
  BY DEF settle_confirmed, probe, Inv, AdapterTypes
<1>2. cancelling' \in BOOLEAN /\ fresh' = fresh /\ WorldTypes'
  BY WorldKept DEF settle_confirmed, probe
<1> QED BY <1>1, <1>2, SettledStep

\* replace_bootstrap.
LEMMA ReloadStep ==
  ASSUME Inv, replace_bootstrap
  PROVE  Inv'
<1>1. Good([EmptyMirror EXCEPT !.seq = 0], fresh)
  BY EmptyGood DEF Inv, Good
<1>2. [EmptyMirror EXCEPT !.seq = 0] = EmptyMirror
  BY DEF EmptyMirror
<1>3. WorldTypes' /\ fresh' = fresh /\ mirror' = EmptyMirror
  BY WorldKept DEF replace_bootstrap
<1>4. AdapterTypes'
  BY DEF replace_bootstrap, Inv, AdapterTypes
<1> QED BY <1>1, <1>2, <1>3, <1>4 DEF Inv

\* The events and queues of Pi.
Kinds == {"start", "queue", "settled"}
Items == [owner: Ids \cup {None}, text: QueueTexts]

\* What Pi reports of its queues.
LEMMA LinesTyped ==
  ASSUME NEW queue \in [Lanes -> Seq(Items)]
  PROVE  QueueLines(queue) \in [Lanes -> Seq(QueueTexts)]
<1>1. ASSUME NEW lane \in Lanes
      PROVE  [i \in DOMAIN queue[lane] |-> queue[lane][i].text] \in Seq(QueueTexts)
  <2> DEFINE s == queue[lane]
  <2>1. s \in Seq(Items)
    OBVIOUS
  <2> HIDE DEF s
  <2>2. Len(s) \in Nat /\ DOMAIN s = 1..Len(s)
    BY <2>1
  <2>3. \A i \in 1..Len(s) : s[i].text \in QueueTexts
    <3>1. \A i \in 1..Len(s) : s[i] \in Items
      BY <2>1, ElementOfSeq
    <3> QED BY <3>1 DEF Items
  <2>4. [i \in 1..Len(s) |-> s[i].text] \in [1..Len(s) -> QueueTexts]
    BY <2>2, <2>3
  <2> DEFINE f == [i \in DOMAIN s |-> s[i].text]
  <2>5. f \in [1..Len(s) -> QueueTexts]
    BY <2>2, <2>4
  <2>6. f \in Seq(QueueTexts)
    <3> HIDE DEF f
    <3> QED BY <2>2, <2>5
  <2> QED BY <2>6 DEF s
<1> QED BY <1>1 DEF QueueLines

\* Pi changes its state and reports it.
LEMMA PiIsTyped ==
  ASSUME Inv, NEW running \in BOOLEAN, NEW queue \in [Lanes -> Seq(Items)],
         NEW kind \in Kinds, PiIs(running, queue, kind)
  PROVE  /\ pi' \in [running: BOOLEAN, queue: [Lanes -> Seq(Items)]]
         /\ channel' \in Seq([kind: Kinds, queue: [Lanes -> Seq(QueueTexts)]])
<1> DEFINE q == QueueLines(queue)
<1>1. q \in [Lanes -> Seq(QueueTexts)]
  BY LinesTyped
<1>2. channel' = Append(channel, [kind |-> kind, queue |-> q])
      /\ pi' = [running |-> running, queue |-> queue]
  BY DEF PiIs
<1> HIDE DEF q
<1>3. channel \in Seq([kind: Kinds, queue: [Lanes -> Seq(QueueTexts)]])
  BY DEF Inv, WorldTypes, Kinds
<1> QED BY <1>1, <1>2, <1>3

\* Pi queues a text.
LEMMA QueuedTyped ==
  ASSUME Inv, NEW lane \in Lanes, NEW owner \in Ids \cup {None},
         NEW t \in QueueTexts
  PROVE  Queued(lane, owner, t) \in [Lanes -> Seq(Items)]
<1>1. pi.queue \in [Lanes -> Seq(Items)]
  BY DEF Inv, WorldTypes, Items
<1>2. [owner |-> owner, text |-> t] \in Items
  BY DEF Items
<1>3. Append(pi.queue[lane], [owner |-> owner, text |-> t]) \in Seq(Items)
  BY <1>1, <1>2
<1> QED BY <1>1, <1>3 DEF Queued

\* The adapter takes no part in a step, or one of its tasks writes.
LEMMA ApatheticStep ==
  ASSUME Inv, UNCHANGED <<mirror, agent_running, cancelling, active, published,
                          fresh>>,
         outbox' \subseteq outbox, WorldTypes'
  PROVE  Inv' /\ LocalStep /\ PiKept
BY DEF Inv, AdapterTypes, LocalStep, PiKept

\* A Bash command starts or ends.
LEMMA BashStep ==
  ASSUME Inv, execute_bash \/ bash_returns
  PROVE  Inv' /\ LocalStep /\ PiKept /\ UNCHANGED <<cancelling, pi, channel>>
<1>1. UNCHANGED <<adapterVars, piVars, fresh, left, may>>
  BY DEF execute_bash, bash_returns
<1>2. bash_running' \in BOOLEAN
  BY DEF execute_bash, bash_returns
<1>3. WorldTypes'
  BY <1>1, <1>2 DEF Inv, WorldTypes, piVars
<1> QED BY <1>1, <1>3, ApatheticStep DEF adapterVars, piVars

\* Pi's own steps, and those in which the adapter's rows stay as they are.
LEMMA PiStep ==
  ASSUME Inv, \/ PiTakes
              \/ PiSettles
              \/ \E lane \in Lanes : PiDequeues(lane)
              \/ \E lane \in Lanes, t \in Texts : PiActs(lane, t)
              \/ \E l \in outbox : write(l)
              \/ settle_deadline
  PROVE  Inv' /\ LocalStep /\ PiKept
<1>1. /\ stdin \in Seq(Messages)
      /\ pi \in [running: BOOLEAN, queue: [Lanes -> Seq(Items)]]
      /\ channel \in Seq([kind: Kinds, queue: [Lanes -> Seq(QueueTexts)]])
      /\ left \in [extra: Nat, edits: Nat] /\ may \subseteq Liberties
      /\ bash_running \in BOOLEAN
      /\ outbox \subseteq Messages
  BY DEF Inv, WorldTypes, AdapterTypes, Items, Kinds
<1>2. ASSUME PiTakes PROVE Inv' /\ LocalStep /\ PiKept
  <2> DEFINE l == Head(stdin)
  <2>1. l \in Messages /\ stdin' \in Seq(Messages)
    BY <1>1, <1>2 DEF PiTakes
  <2>2. \/ PiIs(TRUE, pi.queue, "start")
        \/ \E t \in QueueTexts : PiIs(TRUE, Queued("Steering", l.id, t), "queue")
        \/ UNCHANGED <<pi, channel>>
    <3>1. l.text \in QueueTexts /\ <<l.text>> \in QueueTexts
      BY <2>1 DEF Messages, QueueTexts
    <3> HIDE DEF l
    <3> QED BY <1>2, <3>1 DEF PiTakes, l
  <2> HIDE DEF l
  <2>3. /\ pi' \in [running: BOOLEAN, queue: [Lanes -> Seq(Items)]]
        /\ channel' \in Seq([kind: Kinds, queue: [Lanes -> Seq(QueueTexts)]])
    <3>1. CASE PiIs(TRUE, pi.queue, "start")
      BY <1>1, <3>1, PiIsTyped DEF Kinds
    <3>2. ASSUME NEW t \in QueueTexts,
                 PiIs(TRUE, Queued("Steering", l.id, t), "queue")
          PROVE  /\ pi' \in [running: BOOLEAN, queue: [Lanes -> Seq(Items)]]
                 /\ channel' \in Seq([kind: Kinds,
                                      queue: [Lanes -> Seq(QueueTexts)]])
      <4>1. l.id \in Ids \cup {None} /\ "Steering" \in Lanes
        BY <2>1 DEF Messages, Lanes
      <4>2. Queued("Steering", l.id, t) \in [Lanes -> Seq(Items)]
        BY <4>1, QueuedTyped
      <4> QED BY <3>2, <4>2, PiIsTyped DEF Kinds
    <3> QED BY <1>1, <2>2, <3>1, <3>2
  <2>4. WorldTypes'
    BY <1>1, <1>2, <2>1, <2>3 DEF PiTakes, WorldTypes, Items, Kinds
  <2> QED BY <1>2, <2>4, ApatheticStep DEF PiTakes, adapterVars
<1>3. ASSUME PiSettles PROVE Inv' /\ LocalStep /\ PiKept
  <2>1. /\ pi' \in [running: BOOLEAN, queue: [Lanes -> Seq(Items)]]
        /\ channel' \in Seq([kind: Kinds, queue: [Lanes -> Seq(QueueTexts)]])
    BY <1>1, <1>3, PiIsTyped DEF PiSettles, Kinds
  <2>2. WorldTypes'
    BY <1>1, <1>3, <2>1 DEF PiSettles, WorldTypes, Items, Kinds
  <2> QED BY <1>3, <2>2, ApatheticStep DEF PiSettles, adapterVars
<1>4. ASSUME NEW lane \in Lanes, PiDequeues(lane)
      PROVE  Inv' /\ LocalStep /\ PiKept
  <2> DEFINE q == [pi.queue EXCEPT ![lane] = Tail(@)]
  <2>1. q \in [Lanes -> Seq(Items)]
    <3>1. pi.queue[lane] \in Seq(Items) /\ pi.queue[lane] # <<>>
      BY <1>1, <1>4 DEF PiDequeues
    <3>2. Tail(pi.queue[lane]) \in Seq(Items)
      BY <3>1
    <3> QED BY <1>1, <3>2
  <2>2. PiIs(TRUE, q, "queue")
    BY <1>4 DEF PiDequeues
  <2> HIDE DEF q
  <2>3. /\ pi' \in [running: BOOLEAN, queue: [Lanes -> Seq(Items)]]
        /\ channel' \in Seq([kind: Kinds, queue: [Lanes -> Seq(QueueTexts)]])
    BY <2>1, <2>2, PiIsTyped DEF Kinds
  <2>4. WorldTypes'
    BY <1>1, <1>4, <2>3 DEF PiDequeues, WorldTypes, Items, Kinds
  <2> QED BY <1>4, <2>4, ApatheticStep DEF PiDequeues, adapterVars
<1>5. ASSUME NEW lane \in Lanes, NEW t \in Texts, PiActs(lane, t)
      PROVE  Inv' /\ LocalStep /\ PiKept
  <2>1. Queued(lane, None, t) \in [Lanes -> Seq(Items)]
    <3>1. t \in QueueTexts /\ None \in Ids \cup {None}
      BY DEF QueueTexts
    <3> QED BY <3>1, QueuedTyped
  <2>2. \/ PiIs(TRUE, Queued(lane, None, t), "queue")
        \/ PiIs(TRUE, pi.queue, "start")
    BY <1>5 DEF PiActs
  <2>3. /\ pi' \in [running: BOOLEAN, queue: [Lanes -> Seq(Items)]]
        /\ channel' \in Seq([kind: Kinds, queue: [Lanes -> Seq(QueueTexts)]])
    BY <1>1, <2>1, <2>2, PiIsTyped DEF Kinds
  <2>4. left' \in [extra: Nat, edits: Nat]
    <3>1. left.extra > 0 /\ left' = [left EXCEPT !.extra = @ - 1]
      BY <1>5 DEF PiActs
    <3>2. left.extra \in Nat /\ left.extra - 1 \in Nat
      BY <1>1, <3>1
    <3> QED BY <1>1, <3>1, <3>2
  <2>5. WorldTypes'
    BY <1>1, <1>5, <2>3, <2>4 DEF PiActs, WorldTypes, Items, Kinds
  <2> QED BY <1>5, <2>5, ApatheticStep DEF PiActs, adapterVars
<1>6. ASSUME NEW l \in outbox, write(l) PROVE Inv' /\ LocalStep /\ PiKept
  <2>1. stdin' \in Seq(Messages)
    BY <1>1, <1>6 DEF write
  <2>2. WorldTypes'
    BY <1>1, <1>6, <2>1 DEF write, WorldTypes, Items, Kinds
  <2>3. outbox' \subseteq outbox
    BY <1>6 DEF write
  <2> QED BY <1>6, <2>2, <2>3, ApatheticStep DEF write
<1>7. ASSUME settle_deadline PROVE Inv' /\ LocalStep /\ PiKept
  BY <1>7, WorldKept DEF settle_deadline, Inv, AdapterTypes, LocalStep, PiKept
<1> QED BY <1>2, <1>3, <1>4, <1>5, <1>6, <1>7

\* A refused line: its reservation or the running prompt is released.
LEMMA RefusedStep ==
  ASSUME Inv, PiRefuses
  PROVE  Inv' /\ LocalStep /\ PiKept
<1> DEFINE l == Head(stdin)
           m == release_reservation(mirror, l.id)
           k == clear_running(m)
           act == active \ {l.id}
<1>1. /\ Good(mirror, fresh) /\ mirror.seq <= mirror.seq
      /\ stdin \in Seq(Messages) /\ stdin # <<>>
      /\ cancelling' = cancelling /\ cancelling \in BOOLEAN /\ fresh' = fresh
      /\ act \in SUBSET Clients
  BY SeqSelf DEF Inv, AdapterTypes, WorldTypes, PiRefuses
<1>2. l \in Messages /\ stdin' \in Seq(Messages)
  BY <1>1 DEF PiRefuses
<1>3. WorldTypes'
  BY <1>2 DEF PiRefuses, Inv, WorldTypes
<1>4. \/ Publish(m) /\ active' = act /\ UNCHANGED <<agent_running, outbox>>
      \/ /\ Publish(k) /\ agent_running' = FALSE /\ active' = act
         /\ UNCHANGED outbox
      \/ dispatch_next_queued(clear_running(mirror), FALSE, act)
  <2>1. l.how \in {"steer", "prompt", "dispatch"}
    BY <1>2 DEF Messages, Behaviours
  <2>2. CASE l.how = "steer"
    BY <2>2 DEF PiRefuses
  <2>3. CASE l.how = "prompt"
    BY <2>3 DEF PiRefuses
  <2>4. CASE l.how = "dispatch"
    BY <2>4 DEF PiRefuses
  <2> QED BY <2>1, <2>2, <2>3, <2>4
<1>5. Good(m, fresh) /\ m.pi = mirror.pi /\ m.seq = mirror.seq
      /\ m.local = mirror.local
  BY <1>1, ReleaseGood
<1> HIDE DEF l, m, act
<1>6. Good(k, fresh) /\ k.pi = m.pi /\ k.seq = m.seq /\ k.local = m.local
  BY <1>5, ClearRunningGood
<1> HIDE DEF k
<1>7. CASE Publish(m) /\ active' = act /\ UNCHANGED <<agent_running, outbox>>
  <2>1. Ends(m, fresh') /\ mirror' = m
    BY <1>1, <1>5, <1>7 DEF Publish, Ends, Inv, AdapterTypes
  <2> QED BY <1>1, <1>3, <1>5, <2>1, LessStep DEF PiKept
<1>8. CASE /\ Publish(k) /\ agent_running' = FALSE /\ active' = act
           /\ UNCHANGED outbox
  <2>1. Ends(k, fresh') /\ mirror' = k
    BY <1>1, <1>6, <1>8 DEF Publish, Ends, Inv, AdapterTypes
  <2> QED BY <1>1, <1>3, <1>5, <1>6, <2>1, LessStep DEF PiKept
<1>9. CASE dispatch_next_queued(clear_running(mirror), FALSE, act)
  BY <1>1, <1>3, <1>9, SettledStep
<1> QED BY <1>4, <1>7, <1>8, <1>9

\* What the event loop does with the first event e.
LEMMA EventFacts ==
  ASSUME Inv, handle_event
  PROVE  /\ channel # <<>> /\ channel' = Tail(channel)
         /\ Head(channel).kind \in Kinds
         /\ Head(channel).queue \in [Lanes -> Seq(QueueTexts)]
         /\ WorldTypes' /\ fresh' = fresh
         /\ Head(channel).kind = "settled" =>
              /\ cancelling' = FALSE
              /\ dispatch_next_queued(clear_running(mirror), FALSE, {})
         /\ Head(channel).kind # "settled" /\ cancelling =>
              UNCHANGED adapterVars
         /\ Head(channel).kind = "start" /\ ~cancelling =>
              /\ agent_running' = TRUE
              /\ UNCHANGED <<mirror, cancelling, active, outbox, published>>
         /\ Head(channel).kind = "queue" /\ ~cancelling =>
              /\ Publish(apply_queue_update(mirror, Head(channel).queue))
              /\ UNCHANGED <<agent_running, cancelling, active, outbox>>
<1> DEFINE e == Head(channel)
           E == [kind: Kinds, queue: [Lanes -> Seq(QueueTexts)]]
<1>1. channel \in Seq(E) /\ channel # <<>> /\ channel' = Tail(channel)
  BY DEF Inv, WorldTypes, handle_event, Kinds
<1>2. e \in E /\ Tail(channel) \in Seq(E)
  <2> HIDE DEF E
  <2> QED BY <1>1
<1>3. WorldTypes' /\ fresh' = fresh
  BY <1>1, <1>2 DEF handle_event, Inv, WorldTypes, Kinds
<1>4. e.kind \in Kinds /\ e.queue \in [Lanes -> Seq(QueueTexts)]
  BY <1>2
<1> HIDE DEF e
<1>5. CASE e.kind = "settled"
  BY <1>1, <1>3, <1>4, <1>5 DEF handle_event, e
<1>6. CASE e.kind # "settled" /\ cancelling
  BY <1>1, <1>3, <1>4, <1>6 DEF handle_event, e
<1>7. CASE e.kind = "start" /\ ~cancelling
  BY <1>1, <1>3, <1>4, <1>7 DEF handle_event, e
<1>8. CASE e.kind = "queue" /\ ~cancelling
  BY <1>1, <1>3, <1>4, <1>8 DEF handle_event, e
<1> QED BY <1>4, <1>5, <1>6, <1>7, <1>8 DEF Kinds

\* handle_event: a report that is applied determines what the mirror shows, and
\* no other event changes its rows of Pi.
LEMMA EventStep ==
  ASSUME Inv, handle_event
  PROVE  /\ Inv' /\ LocalStep
         /\ IF Head(channel).kind = "queue" /\ ~cancelling
            THEN TextsOf(mirror'.pi) = Lines(Head(channel).queue)
            ELSE PiKept
<1> DEFINE e == Head(channel)
           k == apply_queue_update(mirror, e.queue)
<1>1. /\ Good(mirror, fresh) /\ cancelling \in BOOLEAN
      /\ e.kind \in Kinds /\ e.queue \in [Lanes -> Seq(QueueTexts)]
      /\ WorldTypes' /\ fresh' = fresh
  BY EventFacts DEF Inv, AdapterTypes
<1>2. CASE e.kind = "settled"
  <2>1. /\ cancelling' = FALSE
        /\ dispatch_next_queued(clear_running(mirror), FALSE, {})
    BY <1>2, EventFacts
  <2>2. {} \in SUBSET Clients /\ cancelling' \in BOOLEAN
    BY <2>1
  <2>3. Inv' /\ LocalStep /\ PiKept
    BY <1>1, <2>1, <2>2, SettledStep
  <2> QED BY <1>2, <2>3
<1>3. CASE e.kind # "settled" /\ cancelling
  <2>1. UNCHANGED adapterVars
    BY <1>3, EventFacts
  <2> QED BY <1>1, <1>3, <2>1
       DEF adapterVars, Inv, AdapterTypes, LocalStep, PiKept
<1>4. CASE e.kind = "start" /\ ~cancelling
  <2>1. /\ agent_running' = TRUE
        /\ UNCHANGED <<mirror, cancelling, active, outbox, published>>
    BY <1>4, EventFacts
  <2> QED BY <1>1, <1>4, <2>1 DEF Inv, AdapterTypes, LocalStep, PiKept
<1>5. CASE e.kind = "queue" /\ ~cancelling
  <2>1. /\ Publish(k) /\ UNCHANGED <<agent_running, cancelling, active, outbox>>
    BY <1>5, EventFacts
  <2>2. /\ Good(k, fresh) /\ k.local = mirror.local /\ mirror.seq <= k.seq
        /\ TextsOf(k.pi) = Lines(e.queue)
    BY <1>1, ReportApplied
  <2> HIDE DEF k
  <2>3. Ends(k, fresh') /\ mirror' = k
    BY <1>1, <2>1, <2>2, PublishEnds DEF Publish
  <2>4. /\ ToSet(mirror'.local) \subseteq ToSet(mirror.local)
        /\ cancelling' \in BOOLEAN
    BY <1>1, <2>1, <2>2, <2>3
  <2>5. Inv' /\ LocalStep
    BY <1>1, <2>2, <2>3, <2>4, LessStep
  <2>6. TextsOf(mirror'.pi) = Lines(e.queue)
    BY <2>2, <2>3
  <2> QED BY <1>5, <2>5, <2>6
<1> QED BY <1>1, <1>2, <1>3, <1>4, <1>5 DEF Kinds
-----------------------------------------------------------------------------
\* Every step but a reload changes the local rows as LocalStep says.
LEMMA NextStep ==
  ASSUME Inv, Next
  PROVE  /\ Inv' /\ may' = may /\ fresh' \subseteq fresh
         /\ LocalStep \/ "reload" \in may
<1>1. may' = may /\ fresh' \subseteq fresh
  BY DEF Next, Pager, Client, enqueue_extension_message, PiActs, queue_remove,
         queue_interject, queue_interject_edited, queue_edit, queue_reorder,
         queue_clear, cancel, settle_confirmed, settle_deadline, probe,
         replace_bootstrap, write, PiTakes, PiRefuses, PiDequeues, PiSettles,
         handle_event, execute_bash, bash_returns
<1>2. replace_bootstrap => "reload" \in may
  BY DEF replace_bootstrap
<1>3. CASE \E c \in Clients, t \in Texts : Client(c, t)
  BY <1>1, <1>3, ClientStep
<1>4. CASE \E lane \in Lanes, t \in Texts :
             enqueue_extension_message(lane, t) \/ PiActs(lane, t)
  BY <1>1, <1>4, ExtensionStep, PiStep
<1>5. CASE Pager
  <2>1. CASE \E row \in published : queue_remove(row) \/ queue_interject(row)
    BY <1>1, <2>1, RowStep
  <2>2. CASE \E row \in published, t \in Texts : queue_interject_edited(row, t)
    BY <1>1, <2>2, RowStep
  <2>3. CASE \E id \in IdsOf(mirror.local), t \in Texts : queue_edit(id, t)
    BY <1>1, <2>3, EditStep
  <2>4. CASE \E ordered \in Orders : queue_reorder(ordered)
    BY <1>1, <2>4, ReorderStep
  <2>5. CASE queue_clear
    BY <1>1, <2>5, ClearStep
  <2>6. CASE cancel
    BY <1>1, <2>6, CancelStep
  <2> QED BY <1>5, <2>1, <2>2, <2>3, <2>4, <2>5, <2>6 DEF Pager
<1>6. CASE settle_confirmed \/ probe
  BY <1>1, <1>6, SettleStep
<1>7. CASE replace_bootstrap
  BY <1>1, <1>2, <1>7, ReloadStep
<1>8. CASE \/ settle_deadline \/ PiTakes \/ PiSettles
           \/ \E lane \in Lanes : PiDequeues(lane)
           \/ \E l \in outbox : write(l)
  BY <1>1, <1>8, PiStep
<1>9. CASE PiRefuses
  BY <1>1, <1>9, RefusedStep
<1>10. CASE handle_event
  BY <1>1, <1>10, EventStep
<1>11. CASE execute_bash \/ bash_returns
  BY <1>1, <1>11, BashStep
<1> QED BY <1>3, <1>4, <1>5, <1>6, <1>7, <1>8, <1>9, <1>10, <1>11 DEF Next

\* The invariant holds at first.
LEMMA InvInit ==
  ASSUME Init
  PROVE  Inv
<1>1. Good([EmptyMirror EXCEPT !.seq = 0], fresh)
  BY EmptyGood DEF Init
<1>2. [EmptyMirror EXCEPT !.seq = 0] = EmptyMirror
  BY DEF EmptyMirror
<1>3. AdapterTypes
  BY DEF Init, AdapterTypes
<1>4. left \in [extra: Nat, edits: Nat] /\ may \subseteq Liberties
  BY MirrorAssumption DEF Init
<1>5. WorldTypes
  <2>1. pi \in [running: BOOLEAN, queue: [Lanes -> Seq(Items)]]
    BY DEF Init
  <2>2. bash_running \in BOOLEAN
    BY DEF Init
  <2> QED BY <1>4, <2>1, <2>2 DEF Init, WorldTypes, Items
<1> QED BY <1>1, <1>2, <1>3, <1>5 DEF Init, Inv

\* Inv is inductive.
LEMMA InvHolds == Spec => []Inv
<1>1. Init => Inv
  BY InvInit
<1>2. Inv /\ [Next]_vars => Inv'
  <2> SUFFICES ASSUME Inv, [Next]_vars PROVE Inv'
    OBVIOUS
  <2>1. CASE Next
    BY <2>1, NextStep
  <2>2. CASE UNCHANGED vars
    BY <2>2 DEF Inv, AdapterTypes, WorldTypes, vars, adapterVars, piVars
  <2> QED BY <2>1, <2>2
<1> QED BY <1>1, <1>2, PTL DEF Spec

\* Inv implies the types.
LEMMA InvTypes ==
  ASSUME Inv
  PROVE  TypeOK
<1> DEFINE m == mirror
           L == LocalRow(m.seq)
           P == PiRow(m.seq)
           R == ReservedRow(m.seq)
           K == KnownAt(m.seq) \cup {None}
<1>1. /\ m = [local |-> m.local, pi |-> m.pi, reserved |-> m.reserved,
              running |-> m.running, seq |-> m.seq]
      /\ m.local \in Seq(L) /\ m.pi \in Seq(P) /\ m.reserved \in Seq(R)
      /\ m.running \in K /\ m.seq \in Nat /\ fresh \subseteq Clients
  BY DEF Inv, Good, IsMirror, RowSeq
<1>2. m \in [local: Seq(L), pi: Seq(P), reserved: Seq(R), running: K, seq: Nat]
  <2> HIDE DEF L, P, R, K
  <2> QED BY <1>1
<1>3. mirror \in [local: Seq([id: Known, text: Texts, version: Nat]),
                  pi: Seq([id: Known, text: QueueTexts, lane: Lanes]),
                  reserved: Seq([id: Known, text: Texts]),
                  running: Known \cup {None}, seq: Nat]
  BY <1>2 DEF LocalRow, PiRow, ReservedRow, Known
<1> QED BY <1>1, <1>3 DEF TypeOK, Inv, AdapterTypes, WorldTypes, Messages

\* The state of the queue mirror is well typed for any clients, texts and
\* scenarios: in particular the ids in the mirror of queue_bridge.rs are of
\* clients or were made by its counter.
THEOREM TypeCorrect == Spec => []TypeOK
BY InvHolds, InvTypes, PTL

\* Rows are in a larger set.
LEMMA WiderRows ==
  ASSUME NEW S, NEW s, RowSeq(s, S), NEW V, S \subseteq V
  PROVE  RowSeq(s, V)
BY SeqMonotonic DEF RowSeq

\* The rows of a good mirror, in one sequence, as the pager gets them.
LEMMA AllRows ==
  ASSUME NEW m, NEW F, Good(m, F)
  PROVE  \E V : /\ RowSeq(m.pi \o m.local \o m.reserved, V)
                /\ m.running \notin IdsOf(m.pi \o m.local \o m.reserved)
<1> DEFINE P == PiRow(m.seq)
           L == LocalRow(m.seq)
           R == ReservedRow(m.seq)
           V == P \cup L \cup R
           a == m.pi \o m.local
           b == a \o m.reserved
<1>1. /\ RowSeq(m.local, L) /\ RowSeq(m.pi, P)
      /\ RowSeq(m.reserved, R) /\ Apart(m, F)
  BY DEF Good
<1>2. P \subseteq V /\ L \subseteq V /\ R \subseteq V
  OBVIOUS
<1> HIDE DEF P, L, R, V
<1>3. RowSeq(m.local, V) /\ RowSeq(m.pi, V) /\ RowSeq(m.reserved, V)
  BY <1>2, <1>1, WiderRows
<1>4. RowSeq(a, V) /\ IdsOf(a) = IdsOf(m.pi) \cup IdsOf(m.local)
  <2>1. Disjoint(IdsOf(m.pi), IdsOf(m.local))
    BY <1>1 DEF Apart, Disjoint
  <2>2. Joined(m.pi, m.local, V)
    BY <1>3, <2>1, ConcatRows
  <2> QED BY <2>2 DEF Joined
<1> HIDE DEF a
<1>5. Disjoint(IdsOf(a), IdsOf(m.reserved))
  BY <1>1, <1>4 DEF Apart, Disjoint
<1>6. RowSeq(b, V) /\ IdsOf(b) = IdsOf(a) \cup IdsOf(m.reserved)
  <2>1. Joined(a, m.reserved, V)
    BY <1>3, <1>4, <1>5, ConcatRows
  <2> QED BY <2>1 DEF Joined
<1>7. m.running \notin IdsOf(b)
  BY <1>1, <1>4, <1>6 DEF Apart
<1>8. b = m.pi \o m.local \o m.reserved
  BY DEF a
<1> HIDE DEF b
<1> QED BY <1>6, <1>7, <1>8

\* Inv implies that ids are unique.
LEMMA InvUnique ==
  ASSUME Inv
  PROVE  IdsUnique
BY AllRows DEF Inv, IdsUnique, RowSeq, Distinct

\* However prompts, reports, edits, cancellations, refusals and reloads
\* interleave, the ids of mirrored rows, local rows and reservations differ, and
\* the running prompt is not queued as well: apply_queue_update, reserve,
\* take_local and push_front_local never give one id to two rows.
THEOREM UniqueIds == Spec => []IdsUnique
BY InvHolds, InvUnique, PTL
-----------------------------------------------------------------------------
\* The rows that the pager was shown: their ids are not used for new rows, and
\* none is ahead of the row that has its id now.
Shown ==
  /\ \A p \in published : p.id \in KnownAt(mirror.seq) /\ p.id \notin fresh
  /\ ToSet(mirror.local) \subseteq published
  /\ \A p \in published, l \in ToSet(mirror.local) :
       p.id = l.id => p.version <= l.version
  /\ \A p, q \in published : p.id = q.id /\ p.version = q.version => p = q

\* A reload forgets versions.
VersionInv == Free({"reload"}) => Shown

\* Every step that changes local rows as LocalStep says keeps Shown.
LEMMA ShownStep ==
  ASSUME Inv, Inv', Shown, LocalStep, fresh' \subseteq fresh
  PROVE  Shown'
<1>1. /\ published \subseteq Rows /\ published' \subseteq Rows
      /\ \A r \in Rows : r.version \in Nat
  BY DEF Inv, AdapterTypes, Rows
<1>2. mirror.seq \in Nat /\ mirror'.seq \in Nat
  BY DEF Inv, Good
<1> DEFINE L == ToSet(mirror.local)
           M == ToSet(mirror'.local)
<1>3. L \subseteq Rows /\ M \subseteq Rows
  BY LocalAreRows DEF Inv
<1>4. /\ \A p \in published : p.id \in KnownAt(mirror.seq) /\ p.id \notin fresh
      /\ L \subseteq published
      /\ \A p \in published, l \in L : p.id = l.id => p.version <= l.version
      /\ \A p, q \in published : p.id = q.id /\ p.version = q.version => p = q
  BY DEF Shown
<1> SUFFICES /\ \A p \in published' : p.id \in KnownAt(mirror'.seq)
                                      /\ p.id \notin fresh'
             /\ M \subseteq published'
             /\ \A p \in published', l \in M :
                  p.id = l.id => p.version <= l.version
             /\ \A p, q \in published' :
                  p.id = q.id /\ p.version = q.version => p = q
  BY DEF Shown
<1>5. CASE UNCHANGED <<mirror, published>>
  BY <1>4, <1>5
<1>6. CASE /\ published' = published \cup M /\ mirror.seq <= mirror'.seq
           /\ M \subseteq L
  <2>1. KnownAt(mirror.seq) \subseteq KnownAt(mirror'.seq)
    BY <1>2, <1>6, KnownGrows
  <2>2. published' = published
    BY <1>4, <1>6
  <2> HIDE DEF L, M
  <2> QED BY <1>4, <1>6, <2>1, <2>2
<1>7. ASSUME NEW e, published' = published \cup M, mirror.seq <= mirror'.seq,
             Arrives(e)
      PROVE  /\ \A p \in published' : p.id \in KnownAt(mirror'.seq)
                                      /\ p.id \notin fresh'
             /\ M \subseteq published'
             /\ \A p \in published', l \in M :
                  p.id = l.id => p.version <= l.version
             /\ \A p, q \in published' :
                  p.id = q.id /\ p.version = q.version => p = q
  <2>1. KnownAt(mirror.seq) \subseteq KnownAt(mirror'.seq)
    BY <1>2, <1>7, KnownGrows
  <2>2. /\ M \subseteq L \cup {e} /\ e.id \in KnownAt(mirror'.seq)
        /\ e.id \notin fresh' /\ \A p \in published : p.id # e.id
    BY <1>4, <1>7 DEF Arrives
  <2> HIDE DEF L, M
  <2>3. /\ published' \subseteq published \cup {e}
        /\ e \in published' => e \in Rows
    BY <1>1, <1>4, <1>7, <2>2
  <2>4. \A p \in published' : p \in published \/ p = e
    BY <2>3
  <2>5. \A l \in M : l \in L \/ l = e
    BY <2>2
  <2>6. \A p \in published', l \in M : p.id = l.id => p.version <= l.version
    BY <1>1, <1>4, <2>2, <2>4, <2>5
  <2> QED BY <1>4, <1>7, <2>1, <2>2, <2>4, <2>6
<1>8. ASSUME NEW d, NEW e, published' = published \cup M,
              mirror.seq <= mirror'.seq, Bumps(d, e)
       PROVE  /\ \A p \in published' : p.id \in KnownAt(mirror'.seq)
                                       /\ p.id \notin fresh'
              /\ M \subseteq published'
              /\ \A p \in published', l \in M :
                   p.id = l.id => p.version <= l.version
              /\ \A p, q \in published' :
                   p.id = q.id /\ p.version = q.version => p = q
  <2>1. KnownAt(mirror.seq) \subseteq KnownAt(mirror'.seq)
    BY <1>2, <1>8, KnownGrows
  <2>2. /\ M \subseteq {l \in L : l.id # d.id} \cup {e} /\ d \in L
        /\ e.id = d.id /\ e.version = d.version + 1
    BY <1>8 DEF Bumps
  <2> HIDE DEF L, M
  <2>3. /\ d \in published /\ d.version \in Nat
        /\ \A p \in published : p.id = e.id => p.version < e.version
    BY <1>1, <1>3, <1>4, <2>2
  <2>4. \A p \in published' : p \in published \/ p = e
    BY <1>4, <1>8, <2>2
  <2>5. \A l \in M : (l \in L /\ l.id # e.id) \/ l = e
    BY <2>2
  <2>6. ASSUME NEW p \in published', NEW l \in M, p.id = l.id
        PROVE  p.version <= l.version
    <3>1. p.version \in Nat /\ l.version \in Nat
      BY <1>1, <1>3
    <3>2. CASE l = e
      BY <2>3, <2>4, <2>6, <3>1, <3>2
    <3>3. CASE l \in L /\ l.id # e.id
      BY <1>4, <2>4, <2>6, <3>3
    <3> QED BY <2>5, <3>2, <3>3
  <2>7. ASSUME NEW p \in published', NEW q \in published', p.id = q.id,
               p.version = q.version
        PROVE  p = q
    <3>1. p.version \in Nat /\ q.version \in Nat
      BY <1>1
    <3>2. CASE p \in published /\ q \in published
      BY <1>4, <2>7, <3>2
    <3>3. CASE p = e \/ q = e
      BY <2>3, <2>4, <2>7, <3>1, <3>3
    <3> QED BY <2>4, <3>2, <3>3
  <2>8. \A p \in published' : p.id \in KnownAt(mirror'.seq) /\ p.id \notin fresh'
    BY <1>4, <2>1, <2>2, <2>3, <2>4
  <2> QED BY <1>8, <2>6, <2>7, <2>8
<1> QED BY <1>5, <1>6, <1>7, <1>8 DEF LocalStep

\* Without reloads, a pair of id and version stands for one text for good: a
\* stale click in the pager, which take_local answers by the version, hits the text it was shown.
THEOREM VersionsNameTexts == Spec => []VersionNamesText
<1>1. Init => VersionInv
  BY EmptyRows DEF Init, VersionInv, Shown, EmptyMirror
<1>2. Inv /\ VersionInv /\ [Next]_vars => VersionInv'
  <2> SUFFICES ASSUME Inv, VersionInv, [Next]_vars PROVE VersionInv'
    OBVIOUS
  <2>1. CASE Next
    <3>1. /\ Inv' /\ may' = may /\ fresh' \subseteq fresh
          /\ LocalStep \/ "reload" \in may
      BY <2>1, NextStep
    <3>2. "reload" \in may => VersionInv'
      BY <3>1 DEF VersionInv, Free
    <3>3. ASSUME LocalStep PROVE VersionInv'
      <4>1. Shown => Shown'
        BY <3>1, <3>3, ShownStep
      <4> QED BY <3>1, <4>1 DEF VersionInv, Free
    <3> QED BY <3>1, <3>2, <3>3
  <2>2. CASE UNCHANGED vars
    BY <2>2 DEF VersionInv, Shown, Free, vars, adapterVars
  <2> QED BY <2>1, <2>2
<1>3. VersionInv => VersionNamesText
  BY DEF VersionInv, Shown, VersionNamesText
<1> QED BY <1>1, <1>2, <1>3, InvHolds, PTL DEF Spec
-----------------------------------------------------------------------------
\* Nothing queued, and the events of Pi.
Quiet(q) == \A lane \in Lanes : q[lane] = <<>>

Events == [kind: Kinds, queue: [Lanes -> Seq(QueueTexts)]]

\* How the mirrored rows (view) relate to the queues q of Pi through the events
\* under way (ch), hold being a pending cancellation.  The last event tells the
\* queues as they are now; starts and settlements happen on empty queues, before
\* and after them, so that not applying their queues loses nothing; while reports
\* are ignored the view is empty.
Tracks(view, hold, running, q, ch) ==
  /\ ~running => Quiet(q)
  /\ \A i \in 1..Len(ch) :
       ch[i].kind # "queue" =>
         /\ Quiet(ch[i].queue)
         /\ IF i = 1 THEN view = <<>> ELSE Quiet(ch[i - 1].queue)
  /\ ch # <<>> => ch[Len(ch)].queue = q
  /\ ch = <<>> /\ ~hold => TextsOf(view) = Lines(q)
  /\ hold => view = <<>>

\* No texts in either lane.
LEMMA QuietLines ==
  ASSUME NEW q \in [Lanes -> Seq(QueueTexts)], Quiet(q)
  PROVE  Lines(q) = <<>>
<1>1. q["Steering"] = <<>> /\ q["FollowUp"] = <<>>
  BY DEF Quiet, Lanes
<1>2. <<>> \o <<>> = <<>>
  OBVIOUS
<1> QED BY <1>1, <1>2 DEF Lines

\* No rows, no texts.
LEMMA NoTexts ==
  ASSUME NEW S, NEW view \in Seq(S)
  PROVE  TextsOf(view) = <<>> <=> view = <<>>
<1>1. DOMAIN view = 1..Len(view) /\ Len(view) \in Nat
  BY LenProperties
<1>2. DOMAIN TextsOf(view) = DOMAIN view
  BY DEF TextsOf
<1>3. ASSUME TextsOf(view) = <<>> PROVE view = <<>>
  <2>1. DOMAIN TextsOf(view) = {}
    BY <1>3
  <2>2. 1..Len(view) = {}
    BY <1>1, <1>2, <2>1
  <2>3. ~(1 <= Len(view))
    BY <1>1, <2>2
  <2>4. Len(view) = 0
    BY <1>1, <2>3
  <2> QED BY <2>4, EmptySeq
<1>4. ASSUME view = <<>> PROVE TextsOf(view) = <<>>
  BY <1>4 DEF TextsOf
<1> QED BY <1>3, <1>4

\* A cancellation: the view is emptied.
LEMMA HeldTracks ==
  ASSUME NEW view, NEW hold, NEW running, NEW q, NEW ch,
         Tracks(view, hold, running, q, ch)
  PROVE  Tracks(<<>>, TRUE, running, q, ch)
BY DEF Tracks

\* The cancellation settles when Pi is idle, and so has nothing queued.
LEMMA ReleasedTracks ==
  ASSUME NEW S, NEW view \in Seq(S), NEW hold \in BOOLEAN,
         NEW q \in [Lanes -> Seq(QueueTexts)], NEW ch,
         Tracks(view, hold, FALSE, q, ch)
  PROVE  Tracks(view, FALSE, FALSE, q, ch)
<1>1. hold => TextsOf(view) = <<>> /\ Lines(q) = <<>>
  BY QuietLines, NoTexts DEF Tracks
<1> QED BY <1>1 DEF Tracks

\* Pi changes its queues and sends an event.
LEMMA GrownTracks ==
  ASSUME NEW S, NEW view \in Seq(S), NEW hold \in BOOLEAN, NEW running \in BOOLEAN,
         NEW q \in [Lanes -> Seq(QueueTexts)], NEW ch \in Seq(Events),
         Tracks(view, hold, running, q, ch),
         NEW e \in Events, NEW runs \in BOOLEAN,
         ~runs => Quiet(e.queue),
         e.kind # "queue" => e.queue = q /\ Quiet(q)
  PROVE  Tracks(view, hold, runs, e.queue, Append(ch, e))
<1> DEFINE c == Append(ch, e)
<1>1. Len(ch) \in Nat /\ DOMAIN ch = 1..Len(ch)
  BY LenProperties
<1>2. /\ c \in Seq(Events) /\ c # <<>> /\ Len(c) = Len(ch) + 1
      /\ \A i \in 1..Len(ch) : c[i] = ch[i]
      /\ c[Len(ch) + 1] = e
  BY AppendProperties
<1> HIDE DEF c
<1>3. ASSUME NEW i \in 1..Len(c), c[i].kind # "queue"
      PROVE  /\ Quiet(c[i].queue)
             /\ IF i = 1 THEN view = <<>> ELSE Quiet(c[i - 1].queue)
  <2>1. CASE i \in 1..Len(ch)
    <3>1. c[i] = ch[i] /\ (i # 1 => c[i - 1] = ch[i - 1])
      <4>1. \A j \in 1..Len(ch) : c[j] = ch[j]
        BY <1>2
      <4>2. i # 1 => i - 1 \in 1..Len(ch)
        BY <1>1, <2>1
      <4> QED BY <2>1, <4>1, <4>2
    <3> QED BY <1>3, <2>1, <3>1 DEF Tracks
  <2>2. CASE i = Len(ch) + 1
    <3>1. c[i] = e /\ e.queue = q /\ Quiet(q)
      BY <1>2, <1>3, <2>2
    <3>2. CASE i = 1
      <4>1. ch = <<>>
        BY <1>1, <2>2, <3>2, EmptySeq
      <4>2. view = <<>>
        BY <3>1, <4>1, QuietLines, NoTexts DEF Tracks
      <4> QED BY <3>1, <3>2, <4>2
    <3>3. CASE i # 1
      <4>1. i - 1 = Len(ch) /\ Len(ch) \in 1..Len(ch) /\ ch # <<>>
        BY <1>1, <2>2, <3>3, EmptySeq
      <4>2. c[i - 1] = ch[Len(ch)] /\ ch[Len(ch)].queue = q
        BY <1>2, <4>1 DEF Tracks
      <4> QED BY <3>1, <3>3, <4>2
    <3> QED BY <3>2, <3>3
  <2> QED BY <1>1, <1>2, <2>1, <2>2
<1>4. c[Len(c)].queue = e.queue
  BY <1>2
<1>5. hold => view = <<>>
  BY DEF Tracks
<1>6. Tracks(view, hold, runs, e.queue, c)
  BY <1>2, <1>3, <1>4, <1>5 DEF Tracks
<1> QED BY <1>6 DEF c

\* What handle_event makes of an event e: view and hold become v and h.
Heard(view, hold, e, v, h) ==
  /\ IF e.kind = "queue" /\ ~hold THEN TextsOf(v) = Lines(e.queue) ELSE v = view
  /\ IF e.kind = "settled" THEN h = FALSE ELSE h = hold

\* The event loop takes an event.
LEMMA TakenTracks ==
  ASSUME NEW S, NEW view \in Seq(S), NEW hold \in BOOLEAN, NEW running \in BOOLEAN,
         NEW q \in [Lanes -> Seq(QueueTexts)], NEW ch \in Seq(Events), ch # <<>>,
         Tracks(view, hold, running, q, ch),
         NEW T, NEW v \in Seq(T), NEW h \in BOOLEAN,
         Heard(view, hold, Head(ch), v, h)
  PROVE  Tracks(v, h, running, q, Tail(ch))
<1> DEFINE c == Tail(ch)
<1>1. /\ IF Head(ch).kind = "queue" /\ ~hold
         THEN TextsOf(v) = Lines(Head(ch).queue) ELSE v = view
      /\ IF Head(ch).kind = "settled" THEN h = FALSE ELSE h = hold
  BY DEF Heard
<1>2. Len(ch) \in Nat /\ Len(ch) >= 1 /\ DOMAIN ch = 1..Len(ch)
  BY LenProperties, EmptySeq
<1>3. /\ c \in Seq(Events) /\ Len(c) = Len(ch) - 1
      /\ \A i \in 1..Len(c) : c[i] = ch[i + 1]
  BY <1>2, HeadTailProperties
<1>4. Head(ch) = ch[1] /\ ch[1] \in Events
  BY <1>2
<1> HIDE DEF c
<1>5. ch[1].kind # "queue" => Quiet(ch[1].queue) /\ view = <<>>
  BY <1>2 DEF Tracks
<1>6. h => v = <<>>
  BY <1>1, <1>4, <1>5 DEF Tracks
<1>7. Quiet(ch[1].queue) => v = <<>>
  <2>1. CASE ch[1].kind = "queue" /\ ~hold
    <3>1. ch[1].queue \in [Lanes -> Seq(QueueTexts)]
      BY <1>4 DEF Events
    <3> QED BY <1>1, <1>4, <2>1, <3>1, QuietLines, NoTexts
  <2>2. CASE ~(ch[1].kind = "queue" /\ ~hold)
    BY <1>1, <1>4, <1>5, <2>2 DEF Tracks
  <2> QED BY <2>1, <2>2
<1>8. ASSUME NEW i \in 1..Len(c), c[i].kind # "queue"
      PROVE  /\ Quiet(c[i].queue)
             /\ IF i = 1 THEN v = <<>> ELSE Quiet(c[i - 1].queue)
  <2>1. /\ i + 1 \in 1..Len(ch) /\ i + 1 # 1 /\ c[i] = ch[i + 1]
        /\ (i + 1) - 1 = i /\ i \in Nat
    BY <1>2, <1>3
  <2>2. Quiet(ch[i + 1].queue) /\ Quiet(ch[i].queue)
    BY <1>8, <2>1 DEF Tracks
  <2>3. i # 1 => c[i - 1] = ch[i]
    <3> SUFFICES ASSUME i # 1 PROVE c[i - 1] = ch[i]
      OBVIOUS
    <3>1. i - 1 \in 1..Len(c) /\ (i - 1) + 1 = i
      BY <1>2, <1>3
    <3> QED BY <1>3, <3>1
  <2> QED BY <1>7, <2>1, <2>2, <2>3
<1>9. ASSUME c # <<>> PROVE c[Len(c)].queue = q
  <2>1. Len(c) \in 1..Len(c) /\ Len(c) + 1 = Len(ch)
    BY <1>2, <1>3, <1>9, EmptySeq
  <2> QED BY <1>3, <2>1 DEF Tracks
<1>10. ASSUME c = <<>>, ~h PROVE TextsOf(v) = Lines(q)
  <2>1. Len(ch) = 1
    <3>1. Len(c) = 0
      BY <1>10
    <3> HIDE <1>10
    <3>2. Len(ch) \in Nat /\ Len(ch) - 1 = 0
      BY <1>2, <1>3, <3>1
    <3> QED BY <3>2
  <2>2. ch[1].queue = q
    BY <2>1 DEF Tracks
  <2>3. CASE ch[1].kind = "queue"
    <3>1. ~hold
      BY <1>1, <1>4, <1>10, <2>3
    <3> QED BY <1>1, <1>4, <2>2, <2>3, <3>1
  <2>4. CASE ch[1].kind # "queue"
    BY <1>5, <1>7, <2>2, <2>4, QuietLines, NoTexts
  <2> QED BY <2>3, <2>4
<1>11. ~running => Quiet(q)
  BY DEF Tracks
<1>12. Tracks(v, h, running, q, c)
  BY <1>6, <1>8, <1>9, <1>10, <1>11 DEF Tracks
<1> QED BY <1>12 DEF c

\* The same of the state.
Exact == Tracks(mirror.pi, cancelling, pi.running, QueueLines(pi.queue), channel)

\* Empty queues are reported as such.
LEMMA QuietQueue ==
  ASSUME NEW queue \in [Lanes -> Seq(Items)]
  PROVE  Quiet(QueueLines(queue)) <=> Quiet(queue)
<1>1. ASSUME NEW lane \in Lanes
      PROVE  QueueLines(queue)[lane] = TextsOf(queue[lane])
  BY DEF QueueLines, TextsOf
<1>2. ASSUME NEW lane \in Lanes
      PROVE  QueueLines(queue)[lane] = <<>> <=> queue[lane] = <<>>
  <2>1. queue[lane] \in Seq(Items)
    OBVIOUS
  <2> QED BY <1>1, <2>1, NoTexts
<1> QED BY <1>2 DEF Quiet

\* The types that the lemmas on Tracks need.
LEMMA TrackTypes ==
  ASSUME Inv
  PROVE  /\ mirror.pi \in Seq(PiRow(mirror.seq))
         /\ cancelling \in BOOLEAN /\ pi.running \in BOOLEAN
         /\ pi.queue \in [Lanes -> Seq(Items)]
         /\ QueueLines(pi.queue) \in [Lanes -> Seq(QueueTexts)]
         /\ channel \in Seq(Events)
<1>1. pi.queue \in [Lanes -> Seq(Items)]
  BY DEF Inv, WorldTypes, Items
<1>2. QueueLines(pi.queue) \in [Lanes -> Seq(QueueTexts)]
  BY <1>1, LinesTyped
<1> QED BY <1>1, <1>2 DEF Inv, Good, RowSeq, AdapterTypes, WorldTypes, Events,
                          Kinds

\* Steps of the adapter that leave the mirror of Pi alone.
LEMMA KeptExact ==
  ASSUME Exact, PiKept, UNCHANGED <<cancelling, pi, channel>>
  PROVE  Exact'
BY DEF Exact, PiKept

\* Pi reports its queues; it starts and settles with empty ones.
LEMMA ReportExact ==
  ASSUME Inv, Exact, UNCHANGED adapterVars,
         NEW runs \in BOOLEAN, NEW queue \in [Lanes -> Seq(Items)],
         NEW kind \in Kinds, PiIs(runs, queue, kind),
         ~runs => Quiet(queue),
         kind # "queue" => queue = pi.queue /\ Quiet(queue)
  PROVE  Exact'
<1> DEFINE e == [kind |-> kind, queue |-> QueueLines(queue)]
           q == QueueLines(pi.queue)
<1>1. e \in Events
  BY LinesTyped DEF Events
<1>2. /\ mirror'.pi = mirror.pi /\ cancelling' = cancelling
      /\ pi'.running = runs /\ QueueLines(pi'.queue) = e.queue
      /\ channel' = Append(channel, e)
  BY DEF PiIs, adapterVars
<1>3. ~runs => Quiet(e.queue)
  BY QuietQueue
<1>4. e.kind # "queue" => e.queue = q /\ Quiet(q)
  BY QuietQueue
<1> HIDE DEF e, q
<1>5. Tracks(mirror.pi, cancelling, runs, e.queue, Append(channel, e))
  <2>1. Tracks(mirror.pi, cancelling, pi.running, q, channel)
    BY DEF Exact, q
  <2>2. /\ mirror.pi \in Seq(PiRow(mirror.seq))
        /\ cancelling \in BOOLEAN /\ pi.running \in BOOLEAN
        /\ q \in [Lanes -> Seq(QueueTexts)] /\ channel \in Seq(Events)
    BY TrackTypes DEF q
  <2> QED BY <1>1, <1>3, <1>4, <2>1, <2>2, GrownTracks
<1> QED BY <1>2, <1>5 DEF Exact

\* Pi's steps.
LEMMA PiExact ==
  ASSUME Inv, Exact, \/ PiTakes
                     \/ PiSettles
                     \/ \E lane \in Lanes : PiDequeues(lane)
                     \/ \E lane \in Lanes, t \in Texts : PiActs(lane, t)
  PROVE  Exact'
<1>1. /\ pi.queue \in [Lanes -> Seq(Items)] /\ stdin \in Seq(Messages)
      /\ ~pi.running => Quiet(pi.queue)
  <2>1. ~pi.running => Quiet(QueueLines(pi.queue))
    BY DEF Exact, Tracks
  <2> QED BY <2>1, TrackTypes, QuietQueue DEF Inv, WorldTypes
<1>2. ASSUME UNCHANGED adapterVars, ~pi.running, PiIs(TRUE, pi.queue, "start")
      PROVE  Exact'
  BY <1>1, <1>2, ReportExact DEF Kinds
<1>3. ASSUME UNCHANGED adapterVars, NEW queue \in [Lanes -> Seq(Items)],
             PiIs(TRUE, queue, "queue")
      PROVE  Exact'
  BY <1>3, ReportExact DEF Kinds
<1>4. ASSUME PiTakes PROVE Exact'
  <2> DEFINE l == Head(stdin)
  <2>1. l \in Messages
    BY <1>1, <1>4 DEF PiTakes
  <2>2. \/ ~pi.running /\ PiIs(TRUE, pi.queue, "start")
        \/ \E t \in QueueTexts : PiIs(TRUE, Queued("Steering", l.id, t), "queue")
        \/ UNCHANGED <<pi, channel>>
    <3>1. l.text \in QueueTexts /\ <<l.text>> \in QueueTexts
      BY <2>1 DEF Messages, QueueTexts
    <3> HIDE DEF l
    <3> QED BY <1>4, <3>1 DEF PiTakes, l
  <2>3. UNCHANGED adapterVars
    BY <1>4 DEF PiTakes
  <2>4. l.id \in Ids \cup {None} /\ "Steering" \in Lanes
    BY <2>1 DEF Messages, Lanes
  <2> HIDE DEF l
  <2>5. ASSUME NEW t \in QueueTexts,
               PiIs(TRUE, Queued("Steering", l.id, t), "queue")
        PROVE  Exact'
    <3>1. Queued("Steering", l.id, t) \in [Lanes -> Seq(Items)]
      BY <2>4, QueuedTyped
    <3> QED BY <1>3, <2>3, <2>5, <3>1
  <2>6. CASE UNCHANGED <<pi, channel>>
    BY <2>3, <2>6 DEF Exact, adapterVars
  <2> QED BY <1>2, <2>2, <2>3, <2>5, <2>6
<1>5. ASSUME PiSettles PROVE Exact'
  <2>1. UNCHANGED adapterVars /\ Quiet(pi.queue) /\ PiIs(FALSE, pi.queue, "settled")
    BY <1>5 DEF PiSettles, Quiet
  <2> QED BY <1>1, <2>1, ReportExact DEF Kinds
<1>6. ASSUME NEW lane \in Lanes, PiDequeues(lane) PROVE Exact'
  <2> DEFINE q == [pi.queue EXCEPT ![lane] = Tail(@)]
  <2>1. q \in [Lanes -> Seq(Items)]
    <3>1. pi.queue[lane] \in Seq(Items) /\ pi.queue[lane] # <<>>
      BY <1>1, <1>6 DEF PiDequeues
    <3>2. Tail(pi.queue[lane]) \in Seq(Items)
      BY <3>1
    <3> QED BY <1>1, <3>2
  <2>2. PiIs(TRUE, q, "queue") /\ UNCHANGED adapterVars
    BY <1>6 DEF PiDequeues
  <2> HIDE DEF q
  <2> QED BY <1>3, <2>1, <2>2
<1>7. ASSUME NEW lane \in Lanes, NEW t \in Texts, PiActs(lane, t) PROVE Exact'
  <2>1. Queued(lane, None, t) \in [Lanes -> Seq(Items)]
    <3>1. t \in QueueTexts /\ None \in Ids \cup {None}
      BY DEF QueueTexts
    <3> QED BY <3>1, QueuedTyped
  <2>2. /\ UNCHANGED adapterVars
        /\ \/ PiIs(TRUE, Queued(lane, None, t), "queue")
           \/ ~pi.running /\ PiIs(TRUE, pi.queue, "start")
    BY <1>7 DEF PiActs
  <2> QED BY <1>2, <1>3, <2>1, <2>2
<1> QED BY <1>4, <1>5, <1>6, <1>7

\* handle_event.
LEMMA EventExact ==
  ASSUME Inv, Exact, handle_event
  PROVE  Exact'
<1> DEFINE q == QueueLines(pi.queue)
<1>1. /\ mirror.pi \in Seq(PiRow(mirror.seq))
      /\ cancelling \in BOOLEAN /\ pi.running \in BOOLEAN
      /\ q \in [Lanes -> Seq(QueueTexts)] /\ channel \in Seq(Events)
  BY TrackTypes
<1>2. Inv' /\ cancelling' \in BOOLEAN /\ mirror'.pi \in Seq(PiRow(mirror'.seq))
  <2>1. Inv'
    BY EventStep
  <2> QED BY <2>1 DEF Inv, Good, RowSeq, AdapterTypes
<1>3. /\ channel # <<>> /\ channel' = Tail(channel) /\ pi' = pi
      /\ IF Head(channel).kind = "settled" THEN cancelling' = FALSE
         ELSE cancelling' = cancelling
  <2>1. pi' = pi
    BY DEF handle_event
  <2>2. Head(channel).kind \in {"start", "queue", "settled"}
    BY EventFacts DEF Kinds
  <2> QED BY <1>1, <2>1, <2>2, EventFacts DEF adapterVars
<1>4. IF Head(channel).kind = "queue" /\ ~cancelling
      THEN TextsOf(mirror'.pi) = Lines(Head(channel).queue)
      ELSE mirror'.pi = mirror.pi
  BY EventStep DEF PiKept
<1>5. Tracks(mirror.pi, cancelling, pi.running, q, channel)
  BY DEF Exact
<1> HIDE DEF q
<1>6. Tracks(mirror'.pi, cancelling', pi.running, q, Tail(channel))
  <2> DEFINE v == mirror'.pi
             h == cancelling'
  <2>1. /\ v \in Seq(PiRow(mirror'.seq)) /\ h \in BOOLEAN
        /\ Heard(mirror.pi, cancelling, Head(channel), v, h)
        /\ channel # <<>>
    BY <1>2, <1>3, <1>4 DEF Heard
  <2> HIDE DEF v, h
  <2>2. Tracks(v, h, pi.running, q, Tail(channel))
    BY <1>1, <1>5, <2>1, TakenTracks
  <2> QED BY <2>2 DEF v, h
<1> QED BY <1>3, <1>6 DEF Exact, q

\* Every step, one case per action.
LEMMA ExactStep ==
  ASSUME Inv, Exact, Next, Free({"deadline", "reload"})
  PROVE  Exact'
<1>1. ~settle_deadline /\ ~replace_bootstrap
  BY DEF Free, settle_deadline, replace_bootstrap
<1>2. CASE \E c \in Clients, t \in Texts : Client(c, t)
  <2>1. UNCHANGED <<cancelling, pi, channel>>
    BY <1>2 DEF Client, prompt_queued, prompt_direct, handle_steer_message, piVars
  <2> QED BY <1>2, <2>1, ClientStep, KeptExact
<1>3. CASE \E lane \in Lanes, t \in Texts : enqueue_extension_message(lane, t)
  <2>1. UNCHANGED <<cancelling, pi, channel>>
    BY <1>3 DEF enqueue_extension_message, piVars
  <2> QED BY <1>3, <2>1, ExtensionStep, KeptExact
<1>4. CASE Pager
  <2>1. CASE cancel
    <3>1. mirror'.pi = <<>> /\ cancelling' = TRUE /\ UNCHANGED <<pi, channel>>
      BY <2>1, CancelStep DEF cancel, piVars
    <3>2. Tracks(<<>>, TRUE, pi.running, QueueLines(pi.queue), channel)
      BY HeldTracks DEF Exact
    <3> QED BY <3>1, <3>2 DEF Exact
  <2>2. CASE \E row \in published : queue_remove(row) \/ queue_interject(row)
    <3>1. UNCHANGED <<cancelling, pi, channel>>
      BY <2>2 DEF queue_remove, queue_interject, piVars
    <3> QED BY <2>2, <3>1, RowStep, KeptExact
  <2>3. CASE \E row \in published, t \in Texts : queue_interject_edited(row, t)
    <3>1. UNCHANGED <<cancelling, pi, channel>>
      BY <2>3 DEF queue_interject_edited, piVars
    <3> QED BY <2>3, <3>1, RowStep, KeptExact
  <2>4. CASE \E id \in IdsOf(mirror.local), t \in Texts : queue_edit(id, t)
    <3>1. UNCHANGED <<cancelling, pi, channel>>
      BY <2>4 DEF queue_edit, piVars
    <3> QED BY <2>4, <3>1, EditStep, KeptExact
  <2>5. CASE \E ordered \in Orders : queue_reorder(ordered)
    <3>1. UNCHANGED <<cancelling, pi, channel>>
      BY <2>5 DEF queue_reorder, piVars
    <3> QED BY <2>5, <3>1, ReorderStep, KeptExact
  <2>6. CASE queue_clear
    <3>1. UNCHANGED <<cancelling, pi, channel>>
      BY <2>6 DEF queue_clear, piVars
    <3> QED BY <2>6, <3>1, ClearStep, KeptExact
  <2> QED BY <1>4, <2>1, <2>2, <2>3, <2>4, <2>5, <2>6 DEF Pager
<1>5. CASE settle_confirmed \/ probe
  <2>1. /\ ~pi.running /\ cancelling' = FALSE /\ UNCHANGED <<pi, channel>>
        /\ mirror'.pi = mirror.pi
    BY <1>5, SettleStep DEF settle_confirmed, probe, piVars, PiKept
  <2> DEFINE q == QueueLines(pi.queue)
  <2>2. /\ mirror.pi \in Seq(PiRow(mirror.seq)) /\ cancelling \in BOOLEAN
        /\ pi.running = FALSE /\ q \in [Lanes -> Seq(QueueTexts)]
    BY <2>1, TrackTypes
  <2>3. Tracks(mirror.pi, cancelling, FALSE, q, channel)
    BY <2>2 DEF Exact
  <2> HIDE DEF q
  <2>4. Tracks(mirror.pi, FALSE, FALSE, q, channel)
    BY <2>2, <2>3, ReleasedTracks
  <2> QED BY <2>1, <2>2, <2>4 DEF Exact, q
<1>6. CASE PiRefuses
  <2>1. UNCHANGED <<cancelling, pi, channel>>
    BY <1>6 DEF PiRefuses
  <2> QED BY <1>6, <2>1, RefusedStep, KeptExact
<1>7. CASE \E l \in outbox : write(l)
  BY <1>7 DEF write, Exact
<1>8. CASE handle_event
  BY <1>8, EventExact
<1>9. CASE \/ PiTakes \/ PiSettles
           \/ \E lane \in Lanes : PiDequeues(lane)
           \/ \E lane \in Lanes, t \in Texts : PiActs(lane, t)
  BY <1>9, PiExact
<1>10. CASE execute_bash \/ bash_returns
  BY <1>10, BashStep, KeptExact
<1> QED BY <1>1, <1>2, <1>3, <1>4, <1>5, <1>6, <1>7, <1>8, <1>9, <1>10 DEF Next

\* When all events are handled and no cancellation is pending, the mirror shows
\* exactly what Pi has queued, in its order, although handle_event ignores the
\* reports that arrive during a cancellation: clear empties the mirror, and a
\* cancellation that settles by Pi's word settles on empty queues.  (Not so when
\* its deadline passes, or after a reload.)
THEOREM MirrorShowsPi == Spec => []MirrorExact
<1> DEFINE I == Free({"deadline", "reload"}) => Exact
<1>1. Init => I
  <2> SUFFICES ASSUME Init PROVE Exact
    OBVIOUS
  <2> DEFINE q == QueueLines(pi.queue)
  <2>1. pi.queue \in [Lanes -> Seq(Items)] /\ Quiet(pi.queue)
    BY DEF Init, Quiet
  <2>2. Quiet(q) /\ q \in [Lanes -> Seq(QueueTexts)]
    BY <2>1, QuietQueue, LinesTyped
  <2> HIDE DEF q
  <2>3. Lines(q) = <<>>
    BY <2>2, QuietLines
  <2>4. mirror.pi = <<>> /\ TextsOf(<<>>) = <<>>
    BY DEF Init, EmptyMirror, TextsOf
  <2>5. channel = <<>> /\ Len(channel) = 0 /\ cancelling = FALSE
    BY DEF Init
  <2>6. Tracks(mirror.pi, cancelling, pi.running, q, channel)
    BY <2>2, <2>3, <2>4, <2>5 DEF Tracks
  <2> QED BY <2>6 DEF Exact, q
<1>2. Inv /\ I /\ [Next]_vars => I'
  <2> SUFFICES ASSUME Inv, I, [Next]_vars PROVE I'
    OBVIOUS
  <2>1. CASE Next
    <3>1. may' = may
      BY <2>1, NextStep
    <3>2. Free({"deadline", "reload"}) => Exact'
      BY <2>1, ExactStep
    <3> QED BY <3>1, <3>2 DEF Free
  <2>2. CASE UNCHANGED vars
    BY <2>2 DEF Exact, Free, vars, adapterVars, piVars
  <2> QED BY <2>1, <2>2
<1>3. I => MirrorExact
  BY DEF Exact, Tracks, MirrorExact, Caught, TextsOf, Lines
<1> QED BY <1>1, <1>2, <1>3, InvHolds, PTL DEF Spec
=============================================================================
