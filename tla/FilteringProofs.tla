-------------------------- MODULE FilteringProofs --------------------------
(***************************************************************************)
(* What filtering a list does, for every list: the elements kept are those *)
(* at the places given, in their order.  And what cutting a page out of a  *)
(* set in the order of its list does, for every finite set.                *)
(*                                                                         *)
(* The induction over the length is by a least counterexample: the         *)
(* library's well-founded minimum needs no operator parameter.             *)
(***************************************************************************)
EXTENDS Filtering, FiniteSetTheorems, SequenceTheorems, WellFoundedInduction, TLAPS

LEMMA LessThanIsWellFounded == IsWellFoundedOn({p \in Nat \X Nat : p[1] < p[2]}, Nat)
<1>1. OpToRel(<, Nat) = {p \in Nat \X Nat : p[1] < p[2]}
  BY DEF OpToRel
<1> QED
  BY <1>1, NatLessThanWellFounded

\* The first number of which something is not so, for proofs by induction.
LEMMA LeastNumber ==
  ASSUME NEW S, S \subseteq Nat, S # {}
  PROVE  \E n \in S : \A m \in S : n <= m
<1> DEFINE R == {p \in Nat \X Nat : p[1] < p[2]}
<1>1. IsWellFoundedOn(R, Nat)
  BY LessThanIsWellFounded
<1> HIDE DEF R
<1>2. PICK n \in S : \A m \in S : <<m, n>> \notin R
  BY <1>1, WFMin
<1>3. \A m \in S : ~(m < n)
  BY <1>2 DEF R
<1> QED
  BY <1>2, <1>3

\* A function that keeps the elements of the first places, step by step.
Keeping(f, l, places, n) ==
  f = [i \in 0..n |->
        IF i = 0 THEN <<>>
        ELSE IF i \in places THEN Append(f[i - 1], l[i]) ELSE f[i - 1]]

LEMMA KeepingExists ==
  ASSUME NEW l, NEW places
  PROVE  \A n \in Nat : \E f : Keeping(f, l, places, n)
<1> DEFINE Bad == {n \in Nat : ~ \E f : Keeping(f, l, places, n)}
<1> SUFFICES ASSUME Bad # {} PROVE FALSE
  OBVIOUS
<1>1. PICK n \in Bad : \A m \in Bad : n <= m
  BY LeastNumber
<1>2. n # 0
  <2>1. Keeping([i \in 0..0 |-> <<>>], l, places, 0)
    BY DEF Keeping
  <2> QED
    BY <2>1
<1>3. PICK f : Keeping(f, l, places, n - 1)
  <2>1. n - 1 \in Nat /\ n - 1 \notin Bad
    BY <1>1, <1>2
  <2> QED
    BY <2>1
<1> DEFINE last == IF n \in places THEN Append(f[n - 1], l[n]) ELSE f[n - 1]
           g == [i \in 0..n |-> IF i = n THEN last ELSE f[i]]
<1>4. Keeping(g, l, places, n)
  <2>1. \A i \in 0..n : g[i] =
          IF i = 0 THEN <<>>
          ELSE IF i \in places THEN Append(g[i - 1], l[i]) ELSE g[i - 1]
    <3> SUFFICES ASSUME NEW i \in 0..n
                 PROVE  g[i] = IF i = 0 THEN <<>>
                               ELSE IF i \in places THEN Append(g[i - 1], l[i]) ELSE g[i - 1]
      OBVIOUS
    <3>1. CASE i = n
      BY <1>1, <1>2, <3>1
    <3>2. CASE i < n
      <4>1. i \in 0..(n - 1) /\ g[i] = f[i] /\ (i # 0 => g[i - 1] = f[i - 1])
        BY <1>1, <1>2, <3>2
      <4>2. f[i] = IF i = 0 THEN <<>>
                   ELSE IF i \in places THEN Append(f[i - 1], l[i]) ELSE f[i - 1]
        BY <1>3, <4>1 DEF Keeping
      <4> QED
        BY <4>1, <4>2
    <3> QED
      BY <1>1, <3>1, <3>2
  <2>2. g = [i \in 0..n |-> g[i]]
    OBVIOUS
  <2> HIDE DEF g
  <2> QED
    BY <2>1, <2>2 DEF Keeping
<1> QED
  BY <1>1, <1>4

LEMMA KeptIsTheLast ==
  ASSUME NEW l, NEW places, Len(l) \in Nat
  PROVE  \E f : Keeping(f, l, places, Len(l)) /\ Kept(l, places) = f[Len(l)]
<1> DEFINE f == CHOOSE f : Keeping(f, l, places, Len(l))
<1>1. Keeping(f, l, places, Len(l))
  BY KeepingExists
<1>2. Kept(l, places) = f[Len(l)]
  BY Zenon DEF Kept, Keeping
<1> QED
  BY <1>1, <1>2, Zenon

\* A sequence that holds the elements of l at the places P, in their order.
InOrder(s, l, P) ==
  \E at \in [1..Len(s) -> P] :
    /\ \A k \in 1..Len(s) : s[k] = l[at[k]]
    /\ \A k, m \in 1..Len(s) : k < m => at[k] < at[m]
    /\ \A i \in P : \E k \in 1..Len(s) : at[k] = i

LEMMA InOrderGrows ==
  ASSUME NEW E, NEW l \in Seq(E), NEW i \in 1..Len(l), NEW P \in SUBSET (1..(i - 1)),
         NEW s \in Seq(E), InOrder(s, l, P)
  PROVE  Append(s, l[i]) \in Seq(E) /\ InOrder(Append(s, l[i]), l, P \cup {i})
<1>1. PICK at \in [1..Len(s) -> P] :
        /\ \A k \in 1..Len(s) : s[k] = l[at[k]]
        /\ \A k, m \in 1..Len(s) : k < m => at[k] < at[m]
        /\ \A j \in P : \E k \in 1..Len(s) : at[k] = j
  BY DEF InOrder
<1> DEFINE t == Append(s, l[i])
           there == [k \in 1..Len(t) |-> IF k = Len(t) THEN i ELSE at[k]]
<1>2. l[i] \in E
  BY ElementOfSeq
<1>3. /\ t \in Seq(E) /\ Len(t) = Len(s) + 1 /\ Len(s) \in Nat
      /\ t[Len(t)] = l[i] /\ \A k \in 1..Len(s) : t[k] = s[k]
  BY <1>2, AppendProperties, LenProperties
<1> HIDE DEF t
<1>4. /\ there \in [1..Len(t) -> P \cup {i}] /\ there[Len(t)] = i
      /\ \A k \in 1..Len(s) : there[k] = at[k]
  BY <1>3
<1>5. \A k \in 1..Len(t) : k \in 1..Len(s) \/ k = Len(t)
  BY <1>3
<1> HIDE DEF there
<1>6. \A k \in 1..Len(t) : t[k] = l[there[k]]
  BY <1>1, <1>3, <1>4, <1>5
<1>7. \A k, m \in 1..Len(t) : k < m => there[k] < there[m]
  <2> SUFFICES ASSUME NEW k \in 1..Len(t), NEW m \in 1..Len(t), k < m
               PROVE  there[k] < there[m]
    OBVIOUS
  <2>1. k \in 1..Len(s)
    BY <1>3
  <2>2. at[k] \in P
    BY <1>1, <2>1
  <2>3. at[k] < i
    <3>1. at[k] \in 1..(i - 1)
      BY <2>2
    <3> QED
      BY <3>1
  <2>4. CASE m \in 1..Len(s)
    BY <1>1, <1>4, <2>1, <2>4
  <2>5. CASE m = Len(t)
    BY <1>4, <2>1, <2>3, <2>5
  <2> QED
    BY <1>5, <2>4, <2>5
<1>8. \A j \in P \cup {i} : \E k \in 1..Len(t) : there[k] = j
  <2>1. Len(t) \in 1..Len(t) /\ 1..Len(s) \subseteq 1..Len(t)
    BY <1>3
  <2> QED
    BY <1>1, <1>4, <2>1
<1>9. InOrder(t, l, P \cup {i})
  BY <1>4, <1>6, <1>7, <1>8 DEF InOrder
<1> QED
  BY <1>3, <1>9 DEF t

\* Filtering keeps what is at the places given, once each and in order.
THEOREM FilteringKeeps ==
  ASSUME NEW E, NEW l \in Seq(E), NEW places \in SUBSET (1..Len(l))
  PROVE  Kept(l, places) \in Seq(E) /\ InOrder(Kept(l, places), l, places)
<1>1. Len(l) \in Nat
  BY LenProperties
<1>2. PICK f : Keeping(f, l, places, Len(l)) /\ Kept(l, places) = f[Len(l)]
  BY <1>1, KeptIsTheLast
<1>3. \A i \in 0..Len(l) : f[i] =
        IF i = 0 THEN <<>>
        ELSE IF i \in places THEN Append(f[i - 1], l[i]) ELSE f[i - 1]
  BY <1>2 DEF Keeping
<1> DEFINE Upto(i) == places \cap (1..i)
           Good(i) == f[i] \in Seq(E) /\ InOrder(f[i], l, Upto(i))
           Bad == {i \in 0..Len(l) : ~Good(i)}
<1> HIDE DEF Upto, Good
<1>4. Bad = {}
  <2> SUFFICES ASSUME Bad # {} PROVE FALSE
    OBVIOUS
  <2>a. Bad \subseteq Nat
    BY <1>1
  <2>1. PICK i \in Bad : \A m \in Bad : i <= m
    BY <2>a, LeastNumber
  <2>b. i \in 0..Len(l) /\ ~Good(i)
    BY <2>1
  <2>2. i # 0
    <3>1. f[0] = <<>> /\ Upto(0) = {}
      BY <1>1, <1>3 DEF Upto
    <3>2. InOrder(<<>>, l, {})
      <4>1. Len(<<>>) = 0
        OBVIOUS
      <4>2. [k \in 1..0 |-> 0] \in [1..0 -> {}]
        OBVIOUS
      <4> QED
        BY <4>1, <4>2 DEF InOrder
    <3>3. Good(0)
      BY <3>1, <3>2, EmptySeq DEF Good
    <3> QED
      BY <2>b, <3>3
  <2>c. i \in 1..Len(l) /\ i - 1 \in 0..Len(l) /\ i - 1 < i
    BY <1>1, <2>b, <2>2
  <2>d. i - 1 \notin Bad
    BY <2>1, <2>a, <2>c
  <2>3. f[i - 1] \in Seq(E) /\ InOrder(f[i - 1], l, Upto(i - 1))
    BY <2>c, <2>d DEF Good
  <2>4. CASE i \in places
    <3>1. Upto(i) = Upto(i - 1) \cup {i} /\ Upto(i - 1) \in SUBSET (1..(i - 1))
      BY <1>1, <2>c, <2>4 DEF Upto
    <3>2. f[i] = Append(f[i - 1], l[i])
      BY <1>3, <2>2, <2>b, <2>4
    <3>3. /\ Append(f[i - 1], l[i]) \in Seq(E)
          /\ InOrder(Append(f[i - 1], l[i]), l, Upto(i - 1) \cup {i})
      BY <2>c, <2>3, <3>1, InOrderGrows
    <3>4. f[i] \in Seq(E) /\ InOrder(f[i], l, Upto(i))
      BY <3>1, <3>2, <3>3
    <3> QED
      BY <2>b, <3>4 DEF Good
  <2>5. CASE i \notin places
    <3>1. Upto(i) = Upto(i - 1)
      BY <1>1, <2>c, <2>5 DEF Upto
    <3>2. f[i] = f[i - 1]
      BY <1>3, <2>2, <2>b, <2>5
    <3> QED
      BY <2>b, <2>3, <3>1, <3>2 DEF Good
  <2> QED
    BY <2>4, <2>5
<1>a. Len(l) \in 0..Len(l)
  BY <1>1
<1>5. Len(l) \in 0..Len(l) /\ Upto(Len(l)) = places
  BY <1>a DEF Upto
<1>6. f[Len(l)] \in Seq(E) /\ InOrder(f[Len(l)], l, places)
  BY <1>4, <1>5 DEF Good
<1> QED
  BY <1>2, <1>6

-----------------------------------------------------------------------------
(* The elements of a list.                                                 *)

In(l) == {l[i] : i \in 1..Len(l)}

LEMMA JoinedElements ==
  ASSUME NEW E, NEW a \in Seq(E), NEW b \in Seq(E)
  PROVE  In(a \o b) = In(a) \cup In(b)
<1>1. /\ Len(a) \in Nat /\ Len(b) \in Nat /\ Len(a \o b) = Len(a) + Len(b)
      /\ \A i \in 1..Len(a \o b) :
           (a \o b)[i] = IF i <= Len(a) THEN a[i] ELSE b[i - Len(a)]
  BY ConcatProperties, LenProperties
<1>2. \A i \in 1..Len(a) : i \in 1..Len(a \o b) /\ (a \o b)[i] = a[i]
  BY <1>1
<1>3. ASSUME NEW i \in 1..Len(b)
      PROVE  i + Len(a) \in 1..Len(a \o b) /\ (a \o b)[i + Len(a)] = b[i]
  <2>1. i + Len(a) \in 1..Len(a \o b) /\ ~(i + Len(a) <= Len(a)) /\ i + Len(a) - Len(a) = i
    BY <1>1
  <2> QED
    BY <1>1, <2>1
<1>4. ASSUME NEW i \in 1..Len(a \o b) PROVE (a \o b)[i] \in In(a) \cup In(b)
  <2>1. CASE i <= Len(a)
    BY <1>1, <2>1 DEF In
  <2>2. CASE i > Len(a)
    <3>1. i - Len(a) \in 1..Len(b) /\ (a \o b)[i] = b[i - Len(a)]
      BY <1>1, <2>2
    <3> QED
      BY <3>1 DEF In
  <2> QED
    BY <1>1, <2>1, <2>2
<1> QED
  BY <1>2, <1>3, <1>4 DEF In

LEMMA OneElement == ASSUME NEW e PROVE In(<<e>>) = {e} /\ In(<<>>) = {}
<1>1. Len(<<e>>) = 1 /\ <<e>>[1] = e /\ Len(<<>>) = 0
  OBVIOUS
<1> QED
  BY <1>1 DEF In

LEMMA FirstAndRest ==
  ASSUME NEW E, NEW s \in Seq(E), s # <<>>
  PROVE  /\ In(s) = {Head(s)} \cup In(Tail(s))
         /\ \A i \in 2..Len(s) : s[i] \in In(Tail(s))
<1>1. /\ Len(Tail(s)) = Len(s) - 1 /\ Len(s) \in Nat /\ Len(s) > 0 /\ Head(s) = s[1]
      /\ \A i \in 1..Len(Tail(s)) : Tail(s)[i] = s[i + 1]
  BY HeadTailProperties, LenProperties, EmptySeq
<1>2. ASSUME NEW i \in 2..Len(s) PROVE s[i] \in In(Tail(s))
  <2>1. i - 1 \in 1..Len(Tail(s)) /\ (i - 1) + 1 = i
    BY <1>1
  <2>2. Tail(s)[i - 1] = s[i]
    BY <1>1, <2>1
  <2> QED
    BY <2>1, <2>2 DEF In
<1>3. 1 \in 1..Len(s) /\ \A i \in 1..Len(s) : i = 1 \/ i \in 2..Len(s)
  BY <1>1
<1>4. \A i \in 1..Len(Tail(s)) : i + 1 \in 1..Len(s)
  BY <1>1
<1> QED
  BY <1>1, <1>2, <1>3, <1>4 DEF In

LEMMA AppendedElements ==
  ASSUME NEW E, NEW s \in Seq(E), NEW e \in E
  PROVE  In(Append(s, e)) = In(s) \cup {e}
<1>1. <<e>> \in Seq(E)
  OBVIOUS
<1>2. Append(s, e) = s \o <<e>>
  BY AppendIsConcat
<1>3. In(s \o <<e>>) = In(s) \cup In(<<e>>)
  BY <1>1, JoinedElements
<1>4. In(<<e>>) = {e}
  BY OneElement
<1> QED
  BY <1>2, <1>3, <1>4

LEMMA KeptIn ==
  ASSUME NEW E, NEW l \in Seq(E), NEW places \in SUBSET (1..Len(l))
  PROVE  In(Kept(l, places)) = {l[i] : i \in places}
<1> DEFINE r == Kept(l, places)
<1>1. InOrder(r, l, places)
  BY FilteringKeeps
<1> HIDE DEF r
<1>2. PICK at \in [1..Len(r) -> places] :
        /\ \A k \in 1..Len(r) : r[k] = l[at[k]]
        /\ \A i \in places : \E k \in 1..Len(r) : at[k] = i
  BY <1>1 DEF InOrder
<1>3. ASSUME NEW i \in places PROVE l[i] \in In(r)
  <2>1. PICK k \in 1..Len(r) : at[k] = i
    BY <1>2
  <2>2. r[k] = l[i]
    BY <1>2, <2>1
  <2> QED
    BY <2>2 DEF In
<1>4. \A x \in In(r) : \E i \in places : x = l[i]
  <2>1. \A k \in 1..Len(r) : at[k] \in places /\ r[k] = l[at[k]]
    BY <1>2
  <2> QED
    BY <2>1 DEF In
<1>5. In(r) = {l[i] : i \in places}
  BY <1>3, <1>4
<1> QED
  BY <1>5 DEF r

LEMMA KeptIsShorter ==
  ASSUME NEW E, NEW l \in Seq(E), NEW places \in SUBSET (1..Len(l))
  PROVE  Kept(l, places) \in Seq(E) /\ Len(Kept(l, places)) <= Len(l)
<1> DEFINE r == Kept(l, places)
<1>1. r \in Seq(E) /\ InOrder(r, l, places)
  BY FilteringKeeps
<1> HIDE DEF r
<1>2. PICK at \in [1..Len(r) -> places] :
        \A k, m \in 1..Len(r) : k < m => at[k] < at[m]
  BY <1>1 DEF InOrder
<1>3. Len(r) \in Nat /\ Len(l) \in Nat
  BY <1>1, LenProperties
\* The k-th element kept is at the k-th place or later.
<1>4. \A k \in 1..Len(r) : k <= at[k]
  <2> DEFINE Bad == {k \in 1..Len(r) : ~(k <= at[k])}
  <2> SUFFICES ASSUME Bad # {} PROVE FALSE
    OBVIOUS
  <2>1. Bad \subseteq Nat
    OBVIOUS
  <2>2. PICK k \in Bad : \A m \in Bad : k <= m
    BY <2>1, LeastNumber
  <2>3. k \in 1..Len(r) /\ ~(k <= at[k]) /\ at[k] \in 1..Len(l)
    BY <1>2, <2>2
  <2>4. k # 1
    BY <1>3, <2>3
  <2>5. k - 1 \in 1..Len(r) /\ k - 1 < k
    BY <1>3, <2>3, <2>4
  <2>6. k - 1 \notin Bad
    BY <2>2, <2>5
  <2>7. k - 1 <= at[k - 1] /\ at[k - 1] < at[k] /\ at[k - 1] \in 1..Len(l)
    BY <1>2, <2>3, <2>5, <2>6
  <2> QED
    BY <1>3, <2>3, <2>7
<1>5. Len(r) <= Len(l)
  <2>1. CASE Len(r) = 0
    BY <1>3, <2>1
  <2>2. CASE Len(r) # 0
    <3>1. Len(r) \in 1..Len(r)
      BY <1>3, <2>2
    <3>2. Len(r) <= at[Len(r)] /\ at[Len(r)] \in 1..Len(l)
      BY <1>2, <1>4, <3>1
    <3> QED
      BY <1>3, <3>2
  <2> QED
    BY <2>1, <2>2
<1> QED
  BY <1>1, <1>5 DEF r
-----------------------------------------------------------------------------
(* Sequences that gain elements at their end and lose some at their front. *)

LEMMA OneMore ==
  ASSUME NEW T, NEW s \in Seq(T), NEW x \in T
  PROVE  /\ s \o <<x>> \in Seq(T) /\ Len(s \o <<x>>) = Len(s) + 1 /\ Len(s) \in Nat
         /\ (s \o <<x>>)[Len(s) + 1] = x
         /\ \A i \in 1 .. Len(s) : (s \o <<x>>)[i] = s[i]
<1>1. <<x>> \in Seq(T) /\ Len(<<x>>) = 1 /\ <<x>>[1] = x
  OBVIOUS
<1> QED
  BY <1>1

LEMMA TwoMore ==
  ASSUME NEW T, NEW s \in Seq(T), NEW x \in T, NEW y \in T
  PROVE  /\ s \o <<x, y>> \in Seq(T) /\ Len(s \o <<x, y>>) = Len(s) + 2 /\ Len(s) \in Nat
         /\ (s \o <<x, y>>)[Len(s) + 1] = x /\ (s \o <<x, y>>)[Len(s) + 2] = y
         /\ \A i \in 1 .. Len(s) : (s \o <<x, y>>)[i] = s[i]
<1>1. <<x, y>> \in Seq(T) /\ Len(<<x, y>>) = 2 /\ <<x, y>>[1] = x /\ <<x, y>>[2] = y
  OBVIOUS
<1> QED
  BY <1>1

LEMMA OneLess ==
  ASSUME NEW T, NEW s \in Seq(T), s # <<>>
  PROVE  /\ Len(s) \in Nat /\ Len(s) >= 1 /\ Head(s) = s[1] /\ Head(s) \in T
         /\ Tail(s) \in Seq(T) /\ Len(Tail(s)) = Len(s) - 1
         /\ \A i \in 1 .. Len(Tail(s)) : Tail(s)[i] = s[i + 1]
OBVIOUS

\* What is left of a list without its first d elements.
LEMMA LastElements ==
  ASSUME NEW S, NEW t \in Seq(S), NEW d \in Nat, d <= Len(t)
  PROVE  /\ SubSeq(t, d + 1, Len(t)) \in Seq(S)
         /\ Len(SubSeq(t, d + 1, Len(t))) = Len(t) - d
         /\ \A i \in 1 .. Len(SubSeq(t, d + 1, Len(t))) : SubSeq(t, d + 1, Len(t))[i] = t[d + i]
<1> DEFINE u == SubSeq(t, d + 1, Len(t))
<1>1. Len(t) \in Nat /\ d + 1 \in 1 .. Len(t) + 1 /\ Len(t) \in d + 1 - 1 .. Len(t)
  BY LenProperties
<1>2. u \in Seq(S) /\ Len(u) = IF d + 1 <= Len(t) THEN Len(t) - (d + 1) + 1 ELSE 0
  BY <1>1, SubSeqProperties
<1>3. \A i \in 1 .. Len(t) - (d + 1) + 1 : u[i] = t[d + 1 + i - 1]
  BY <1>1, SubSeqProperties
<1> HIDE DEF u
<1>4. Len(u) = Len(t) - d
  BY <1>1, <1>2
<1>5. \A i \in 1 .. Len(u) : u[i] = t[d + i]
  BY <1>1, <1>3, <1>4
<1> QED
  BY <1>2, <1>4, <1>5 DEF u

-----------------------------------------------------------------------------
(* The order of a list of posts: those of P before the others, and the     *)
(* later ones first.                                                       *)

Over(P, p, q) == IF p \in P <=> q \in P THEN p > q ELSE p \in P
Downward(P, s, n) == \A i, j \in 1 .. n : i < j => Over(P, s[i], s[j])
LaidOut(P, S, s) == s \in [1 .. Cardinality(S) -> S] /\ Downward(P, s, Cardinality(S))

LEMMA OverOrders ==
  ASSUME NEW P, NEW p \in Nat, NEW q \in Nat
  PROVE  /\ ~Over(P, p, p)
         /\ Over(P, p, q) => ~Over(P, q, p)
         /\ p # q => Over(P, p, q) \/ Over(P, q, p)
BY DEF Over

LEMMA LowestPost ==
  ASSUME NEW P, NEW S, S \subseteq Nat, S # {}
  PROVE  \E b \in S : \A p \in S \ {b} : Over(P, p, b)
<1>1. CASE S \subseteq P
  <2>1. PICK b \in S : \A m \in S : b <= m
    BY LeastNumber
  <2>2. \A p \in S \ {b} : Over(P, p, b)
    BY <1>1, <2>1 DEF Over
  <2> QED
    BY <2>2
<1>2. CASE ~ (S \subseteq P)
  <2>1. S \ P \subseteq Nat /\ S \ P # {}
    BY <1>2
  <2>2. PICK b \in S \ P : \A m \in S \ P : b <= m
    BY <2>1, LeastNumber
  <2>3. \A p \in S \ {b} : Over(P, p, b)
    BY <2>2 DEF Over
  <2> QED
    BY <2>2, <2>3
<1> QED
  BY <1>1, <1>2

\* Any finite set of posts can be laid out in that order.
Orderable(P, S) == \E s : LaidOut(P, S, s)

LEMMA PostsCanBeOrdered ==
  ASSUME NEW P
  PROVE  \A S : IsFiniteSet(S) /\ S \subseteq Nat => Orderable(P, S)
<1> DEFINE Bad == {n \in Nat : \E S : /\ IsFiniteSet(S) /\ S \subseteq Nat
                                      /\ Cardinality(S) = n /\ ~Orderable(P, S)}
<1>1. Bad = {}
  <2> SUFFICES ASSUME Bad # {} PROVE FALSE
    OBVIOUS
  <2>1. PICK n \in Bad : \A m \in Bad : n <= m
    BY LeastNumber
  <2>2. PICK S : IsFiniteSet(S) /\ S \subseteq Nat /\ Cardinality(S) = n /\ ~Orderable(P, S)
    BY <2>1
  <2>3. n \in Nat
    BY <2>1
  <2>4. CASE S = {}
    <3>1. n = 0
      BY <2>2, <2>4, FS_EmptySet
    <3>2. PICK s : s = [i \in 1 .. 0 |-> 0]
      OBVIOUS
    <3>3. s \in [1 .. 0 -> S] /\ \A i, j \in 1 .. 0 : i < j => Over(P, s[i], s[j])
      BY <3>2
    <3> QED
      BY <2>2, <3>1, <3>3 DEF Orderable, LaidOut, Downward
  <2>5. CASE S # {}
    <3>1. PICK b \in S : \A p \in S \ {b} : Over(P, p, b)
      BY <2>2, <2>5, LowestPost
    <3>2. PICK T : T = S \ {b}
      OBVIOUS
    <3>3. IsFiniteSet(T) /\ T \subseteq Nat /\ Cardinality(T) = n - 1
      BY <2>2, <3>1, <3>2, FS_RemoveElement
    <3>4. Cardinality(T) \in Nat
      BY <3>3, FS_CardinalityType
    <3>5. n - 1 \in Nat /\ n - 1 \notin Bad
      BY <2>1, <2>3, <3>3, <3>4
    <3>6. Orderable(P, T)
      BY <3>3, <3>5
    <3>7. PICK t \in [1 .. n - 1 -> T] : Downward(P, t, n - 1)
      BY <3>3, <3>6 DEF Orderable, LaidOut
    <3>8. PICK s : s = [i \in 1 .. n |-> IF i = n THEN b ELSE t[i]]
      OBVIOUS
    <3>9. s \in [1 .. n -> S]
      BY <2>3, <3>1, <3>2, <3>7, <3>8
    <3>10. ASSUME NEW i \in 1 .. n, NEW j \in 1 .. n, i < j
           PROVE  Over(P, s[i], s[j])
      <4>1. i \in 1 .. n - 1 /\ s[i] = t[i] /\ t[i] \in T
        BY <2>3, <3>7, <3>8, <3>10
      <4>2. CASE j = n
        <5>1. s[j] = b
          BY <3>8, <4>2
        <5> QED
          BY <3>1, <3>2, <4>1, <5>1
      <4>3. CASE j # n
        <5>1. j \in 1 .. n - 1 /\ s[j] = t[j]
          BY <2>3, <3>8, <4>3
        <5> QED
          BY <3>7, <3>10, <4>1, <5>1 DEF Downward
      <4> QED
        BY <4>2, <4>3
    <3>11. Downward(P, s, n)
      BY <3>10 DEF Downward
    <3> QED
      BY <2>2, <3>9, <3>11 DEF Orderable, LaidOut
  <2> QED
    BY <2>4, <2>5
<1> SUFFICES ASSUME NEW S, IsFiniteSet(S), S \subseteq Nat PROVE Orderable(P, S)
  OBVIOUS
<1>2. Cardinality(S) \in Nat
  BY FS_CardinalityType
<1> QED
  BY <1>1, <1>2

\* Laid out so, each post has one place.
OnePlace(S, s) ==
  /\ \A i, j \in 1 .. Cardinality(S) : s[i] = s[j] => i = j
  /\ \A p \in S : \E i \in 1 .. Cardinality(S) : s[i] = p

LEMMA OrderedIsAll ==
  ASSUME NEW P, NEW S, IsFiniteSet(S), S \subseteq Nat, NEW s, LaidOut(P, S, s)
  PROVE  OnePlace(S, s)
<1>1. PICK n : n = Cardinality(S)
  OBVIOUS
<1>2. /\ n \in Nat /\ s \in [1 .. n -> S]
      /\ \A i, j \in 1 .. n : i < j => Over(P, s[i], s[j])
  BY <1>1, FS_CardinalityType DEF LaidOut, Downward
<1>3. ASSUME NEW i \in 1 .. n, NEW j \in 1 .. n, s[i] = s[j], i # j
      PROVE  FALSE
  <2>1. s[i] \in Nat /\ s[j] \in Nat
    BY <1>2
  <2>2. i < j \/ j < i
    BY <1>2, <1>3
  <2>3. Over(P, s[i], s[j]) \/ Over(P, s[j], s[i])
    BY <1>2, <2>2
  <2> QED
    BY <1>3, <2>1, <2>3, OverOrders
<1>4. PICK T : T = {s[i] : i \in 1 .. n}
  OBVIOUS
<1>5. T \subseteq S
  BY <1>2, <1>4
<1>6. s \in Surjection(1 .. n, T)
  BY <1>2, <1>4 DEF Surjection
<1>7. s \in Injection(1 .. n, T)
  BY <1>3, <1>6 DEF Surjection, Injection, IsInjective
<1>8. IsFiniteSet(1 .. n) /\ Cardinality(1 .. n) = n
  BY <1>2, FS_Interval
<1>9. s \in Bijection(1 .. n, T)
  BY <1>6, <1>7 DEF Bijection
<1>10. Cardinality(T) = n
  BY <1>2, <1>8, <1>9, FS_CountingElements DEF ExistsBijection
<1>11. T = S
  BY <1>1, <1>5, <1>10, FS_Subset
<1> QED
  BY <1>1, <1>3, <1>4, <1>11 DEF OnePlace

\* The posts above the end of a list that starts below a cursor; 0 is no post.
Between(live, P, cursor, end) ==
  {p \in live : /\ cursor = 0 \/ Over(P, cursor, p)
                /\ end = 0 \/ p = end \/ Over(P, p, end)}

\* What n places of s after the first k hold.
IsCut(live, P, from, s, cursor, drop, n, next) ==
  /\ n \in Int
  /\ \A i \in 1 .. n : i + drop \in 1 .. Cardinality(from) /\ s[i + drop] \in live
  /\ \A i, j \in 1 .. n : s[i + drop] = s[j + drop] => i = j
  /\ next \in live \cup {0}
  /\ next # 0 => \E i \in 1 .. n : s[i + drop] = next
  /\ cursor \in live \cup {0} =>
       {s[i + drop] : i \in 1 .. n} = Between(live, P, cursor, next)

\* A page, cut from the posts at a cursor and below it.
LEMMA PageCut ==
  ASSUME NEW P, NEW live, IsFiniteSet(live), live \subseteq Nat \ {0}, NEW cursor \in Nat,
         NEW from, from = {p \in live : cursor = 0 \/ p = cursor \/ Over(P, cursor, p)},
         NEW s, LaidOut(P, from, s),
         NEW drop, drop = IF cursor = 0 THEN 0 ELSE 1,
         NEW most \in Nat \ {0}, NEW n,
         n = (IF Cardinality(from) - drop > most THEN most ELSE Cardinality(from) - drop),
         NEW next, next = IF Cardinality(from) - drop > most THEN s[most + drop] ELSE 0
  PROVE  IsCut(live, P, from, s, cursor, drop, n, next)
<1>1. from \subseteq live /\ from \subseteq Nat
  OBVIOUS
<1>2. IsFiniteSet(from)
  BY <1>1, FS_Subset
<1>3. PICK m : m = Cardinality(from)
  OBVIOUS
<1>4. m \in Nat
  BY <1>2, <1>3, FS_CardinalityType
<1>5. /\ \A i, j \in 1 .. m : s[i] = s[j] => i = j
      /\ \A p \in from : \E i \in 1 .. m : s[i] = p
  <2>1. OnePlace(from, s)
    BY <1>1, <1>2, OrderedIsAll
  <2> QED
    BY <1>3, <2>1 DEF OnePlace
<1>6. s \in [1 .. m -> from] /\ \A i, j \in 1 .. m : i < j => Over(P, s[i], s[j])
  BY <1>3 DEF LaidOut, Downward
<1>7. drop \in {0, 1} /\ n \in Int /\ n <= m - drop /\ n <= most
  BY <1>3, <1>4
<1>8. \A i \in 1 .. n : i + drop \in 1 .. m /\ s[i + drop] \in from
  <2> SUFFICES ASSUME NEW i \in 1 .. n
               PROVE  i + drop \in 1 .. m /\ s[i + drop] \in from
    OBVIOUS
  <2>1. i + drop \in 1 .. m
    BY <1>4, <1>7
  <2> QED
    BY <1>6, <2>1
<1>9. \A i, j \in 1 .. n : s[i + drop] = s[j + drop] => i = j
  BY <1>4, <1>5, <1>7, <1>8
<1>10. next \in live \cup {0}
  <2>1. CASE m - drop > most
    <3>1. most + drop \in 1 .. m
      BY <1>4, <1>7, <2>1
    <3> QED
      BY <1>1, <1>3, <1>6, <2>1, <3>1
  <2>2. CASE ~(m - drop > most)
    BY <1>3, <2>2
  <2> QED
    BY <2>1, <2>2
<1>12. next # 0 => \E i \in 1 .. n : s[i + drop] = next
  <2> SUFFICES ASSUME next # 0 PROVE \E i \in 1 .. n : s[i + drop] = next
    OBVIOUS
  <2>1. next = s[most + drop] /\ n = most /\ most \in 1 .. n
    BY <1>7
  <2> QED
    BY <2>1
<1>11. ASSUME cursor \in live \cup {0}
       PROVE  {s[i + drop] : i \in 1 .. n} = Between(live, P, cursor, next)
  <2>1. ASSUME cursor # 0
        PROVE  m >= 1 /\ s[1] = cursor
    <3>1. PICK i \in 1 .. m : s[i] = cursor
      BY <1>5, <1>11, <2>1
    <3>2. i = 1
      <4> SUFFICES ASSUME i # 1 PROVE FALSE
        OBVIOUS
      <4>1. 1 \in 1 .. m /\ 1 < i
        BY <1>4, <3>1
      <4>2. s[1] \in from /\ Over(P, s[1], cursor) /\ s[1] # cursor
        BY <1>5, <1>6, <3>1, <4>1
      <4>3. Over(P, cursor, s[1])
        BY <2>1, <4>2
      <4> QED
        BY <1>1, <4>2, <4>3, OverOrders
    <3> QED
      BY <1>4, <3>1, <3>2
  <2>2. \A p \in live : (p \in from /\ p # cursor) <=> (cursor = 0 \/ Over(P, cursor, p))
    BY <1>11, OverOrders
  <2>3. \A k \in 1 .. m : s[k] # cursor <=> (drop = 1 => k # 1)
    <3>1. CASE cursor = 0
      <4>1. drop = 0 /\ \A k \in 1 .. m : s[k] \in live
        BY <1>1, <1>6, <3>1
      <4>2. \A k \in 1 .. m : s[k] # cursor
        BY <3>1, <4>1
      <4> QED
        BY <4>1, <4>2
    <3>2. CASE cursor # 0
      <4>1. drop = 1 /\ 1 \in 1 .. m /\ s[1] = cursor
        BY <1>4, <2>1, <3>2
      <4> QED
        BY <1>5, <4>1
    <3> QED
      BY <3>1, <3>2
  <2>4. ASSUME NEW k \in 1 .. m
        PROVE  (next = 0 \/ s[k] = next \/ Over(P, s[k], next)) <=> k <= n + drop
    <3>1. CASE m - drop > most
      <4>1. n = most /\ next = s[n + drop] /\ n + drop \in 1 .. m
        BY <1>3, <1>4, <1>7, <3>1
      <4>2. s[k] \in Nat \ {0} /\ next \in Nat \ {0}
        BY <1>1, <1>6, <4>1
      <4>3. CASE k < n + drop
        <5>1. Over(P, s[k], next)
          BY <1>6, <4>1, <4>3
        <5> QED
          BY <1>4, <4>1, <4>3, <5>1
      <4>4. CASE k = n + drop
        BY <1>4, <4>1, <4>4
      <4>5. CASE k > n + drop
        <5>1. Over(P, next, s[k]) /\ s[k] # next
          BY <1>5, <1>6, <4>1, <4>5
        <5>2. ~Over(P, s[k], next)
          BY <4>2, <5>1, OverOrders
        <5> QED
          BY <1>4, <4>1, <4>2, <4>5, <5>1, <5>2
      <4> QED
        BY <1>4, <1>7, <4>3, <4>4, <4>5
    <3>2. CASE ~(m - drop > most)
      <4>1. next = 0 /\ n = m - drop
        BY <1>3, <3>2
      <4> QED
        BY <1>4, <1>7, <4>1
    <3> QED
      BY <3>1, <3>2
  <2>5. ASSUME NEW p \in Between(live, P, cursor, next)
        PROVE  \E i \in 1 .. n : s[i + drop] = p
    <3>1. p \in live /\ (cursor = 0 \/ Over(P, cursor, p))
          /\ (next = 0 \/ p = next \/ Over(P, p, next))
      BY DEF Between
    <3>2. p \in from /\ p # cursor
      BY <2>2, <3>1
    <3>3. PICK k \in 1 .. m : s[k] = p
      BY <1>5, <3>2
    <3>4. k <= n + drop /\ (drop = 1 => k # 1)
      BY <2>3, <2>4, <3>1, <3>2, <3>3
    <3>5. k - drop \in 1 .. n /\ (k - drop) + drop = k
      BY <1>4, <1>7, <3>4
    <3> QED
      BY <3>3, <3>5
  <2>6. ASSUME NEW i \in 1 .. n
        PROVE  s[i + drop] \in Between(live, P, cursor, next)
    <3>1. i + drop \in 1 .. m /\ s[i + drop] \in from /\ i + drop <= n + drop
      BY <1>7, <1>8
    <3>2. drop = 1 => i + drop # 1
      BY <1>7
    <3>3. s[i + drop] # cursor
      BY <2>3, <3>1, <3>2
    <3>4. next = 0 \/ s[i + drop] = next \/ Over(P, s[i + drop], next)
      BY <2>4, <3>1
    <3>5. s[i + drop] \in live /\ (cursor = 0 \/ Over(P, cursor, s[i + drop]))
      BY <1>1, <2>2, <3>1, <3>3
    <3> QED
      BY <3>4, <3>5 DEF Between
  <2>7. PICK T : T = {s[i + drop] : i \in 1 .. n}
    OBVIOUS
  <2>8. T \subseteq Between(live, P, cursor, next)
    BY <2>6, <2>7
  <2>9. Between(live, P, cursor, next) \subseteq T
    BY <2>5, <2>7, Zenon
  <2> QED
    BY <2>7, <2>8, <2>9, Zenon
<1> QED
  BY <1>1, <1>3, <1>7, <1>8, <1>9, <1>10, <1>11, <1>12 DEF IsCut
=============================================================================
