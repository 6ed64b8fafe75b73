------------------------ MODULE AsioSchedulerLemmas ------------------------
(***************************************************************************)
(* What the operators of AsioScheduler compute: lists, the handles reached *)
(* from others, and circles of handles that wait for one another.          *)
(***************************************************************************)
EXTENDS AsioScheduler, FiniteSetTheorems, WellFoundedInduction, TLAPS

-----------------------------------------------------------------------------
\* Numbers.

\* A set of naturals has a least element.
LEMMA Least ==
  ASSUME NEW T \in SUBSET Nat, T # {}
  PROVE  \E x \in T : \A y \in T : x <= y
<1> DEFINE R == OpToRel(<, Nat)
<1>1. IsWellFoundedOn(R, Nat)
  BY NatLessThanWellFounded
<1>2. \A x, y \in Nat : x < y => <<x, y>> \in R
  BY DEF OpToRel
<1> HIDE DEF R
<1>3. PICK x \in T : \A y \in T : ~(<<y, x>> \in R)
  BY <1>1, WFMin
<1>4. \A y \in T : ~(y < x)
  BY <1>2, <1>3, Zenon
<1>5. \A y \in T : x <= y
  BY <1>4
<1> QED
  BY <1>5

\* Min, of which createAwaitAll takes the context.
LEMMA MinEffect ==
  ASSUME NEW T \in SUBSET Nat, T # {}
  PROVE  Min(T) \in T /\ \A x \in T : Min(T) <= x
<1>1. \E x \in T : \A y \in T : x <= y
  BY Least
<1> QED
  BY <1>1 DEF Min

\* A set of naturals with a bound has a greatest element.
LEMMA Greatest ==
  ASSUME NEW m \in Nat, NEW T \in SUBSET (1..m), T # {}
  PROVE  \E x \in T : \A y \in T : y <= x
<1> DEFINE U == {m - x : x \in T}
<1>0. \A x \in T : x \in 1..m /\ m - x \in Nat
  OBVIOUS
<1>1. U \in SUBSET Nat /\ U # {}
  BY <1>0
<1>2. PICK u \in U : \A v \in U : u <= v
  <2> HIDE DEF U
  <2> QED
    BY <1>1, Least
<1>3. PICK x \in T : u = m - x
  OBVIOUS
<1>4. ASSUME NEW y \in T PROVE y <= x
  <2>1. m - x <= m - y
    BY <1>2, <1>3
  <2> QED
    BY <1>0, <2>1
<1> QED
  BY <1>4

-----------------------------------------------------------------------------
\* Lists.

\* The members of a sequence of S are in S, and only the empty one has none.
LEMMA EmptyEffect ==
  /\ ToSet(<<>>) = {}
  /\ \A S : \A s \in Seq(S) : (s = <<>> <=> ToSet(s) = {}) /\ ToSet(s) \subseteq S
<1>1. ToSet(<<>>) = {}
  BY DEF ToSet
<1>2. ASSUME NEW S, NEW s \in Seq(S)
      PROVE  (s = <<>> <=> ToSet(s) = {}) /\ ToSet(s) \subseteq S
  <2>1. DOMAIN s = 1..Len(s) /\ \A i \in 1..Len(s) : s[i] \in S
    OBVIOUS
  <2>2. ToSet(s) \subseteq S
    BY <2>1 DEF ToSet
  <2>3. ASSUME s # <<>> PROVE ToSet(s) # {}
    <3>1. 1 \in DOMAIN s
      BY <2>3
    <3> QED
      BY <3>1 DEF ToSet
  <2> QED
    BY <1>1, <2>2, <2>3
<1> QED
  BY <1>1, <1>2

\* A function on 1..n is a sequence of length n.
LEMMA FunctionIsList ==
  ASSUME NEW S, NEW n \in Nat, NEW f \in [1..n -> S]
  PROVE  f \in Seq(S) /\ Len(f) = n
  OBVIOUS

\* Append adds one member.
LEMMA AppendEffect ==
  ASSUME NEW S, NEW s \in Seq(S), NEW x \in S
  PROVE  /\ Append(s, x) \in Seq(S)
         /\ Append(s, x) # <<>>
         /\ ToSet(Append(s, x)) = ToSet(s) \cup {x}
<1>1. /\ Append(s, x) \in Seq(S) /\ Len(Append(s, x)) = Len(s) + 1
      /\ \A i \in 1..Len(s) : Append(s, x)[i] = s[i]
      /\ Append(s, x)[Len(s) + 1] = x
  OBVIOUS
<1> DEFINE t == Append(s, x)
<1> HIDE DEF t
<1>2. \A i \in 1..Len(s) + 1 : i \in 1..Len(s) \/ i = Len(s) + 1
  OBVIOUS
<1>3. DOMAIN s = 1..Len(s) /\ DOMAIN t = 1..Len(s) + 1
  BY <1>1 DEF t
<1>4. ToSet(t) = ToSet(s) \cup {x}
  BY <1>1, <1>2, <1>3 DEF ToSet, t
<1> QED
  BY <1>1, <1>4 DEF t

\* Taking the last element off ...
LEMMA FrontEffect ==
  ASSUME NEW S, NEW s \in Seq(S), s # <<>>
  PROVE  /\ Front(s) \in Seq(S) /\ Last(s) \in S
         /\ Len(s) >= 1 /\ Len(Front(s)) = Len(s) - 1
         /\ \A i \in 1..Len(s) - 1 : Front(s)[i] = s[i]
         /\ ToSet(s) = ToSet(Front(s)) \cup {Last(s)}
<1>0. Len(s) \in Nat \ {0} /\ Len(s) \in DOMAIN s
  OBVIOUS
<1>1. /\ Front(s) \in Seq(S) /\ Last(s) \in S /\ Len(Front(s)) = Len(s) - 1
      /\ \A i \in 1..Len(s) - 1 : Front(s)[i] = s[i]
  <2> DEFINE n == Len(s) - 1
  <2>1. n \in Nat /\ n <= Len(s)
    BY <1>0
  <2>2. /\ SubSeq(s, 1, n) \in Seq(S) /\ Len(SubSeq(s, 1, n)) = n
        /\ \A i \in 1..n : SubSeq(s, 1, n)[i] = s[i]
    <3> HIDE DEF n
    <3> QED
      BY <2>1
  <2>3. Last(s) \in S
    BY <1>0 DEF Last
  <2> QED
    BY <2>2, <2>3 DEF Front
<1> DEFINE t == Front(s)
<1> HIDE DEF t
<1>2. \A i \in 1..Len(s) : i \in 1..Len(s) - 1 \/ i = Len(s)
  BY <1>0
<1>3. DOMAIN s = 1..Len(s) /\ DOMAIN t = 1..Len(s) - 1 /\ \A i \in 1..Len(s) - 1 : t[i] = s[i]
  BY <1>1 DEF t
<1>4. \A i \in 1..Len(s) - 1 : i \in 1..Len(s)
  BY <1>0
<1>5. ToSet(s) = ToSet(t) \cup {Last(s)}
  BY <1>0, <1>2, <1>3, <1>4 DEF ToSet, Last
<1> QED
  BY <1>0, <1>1, <1>5 DEF t

\* ... or the first.
LEMMA TailEffect ==
  ASSUME NEW S, NEW s \in Seq(S), s # <<>>
  PROVE  /\ Tail(s) \in Seq(S) /\ Head(s) \in S
         /\ ToSet(s) = ToSet(Tail(s)) \cup {Head(s)}
<1>1. /\ Tail(s) \in Seq(S) /\ Head(s) \in S /\ Head(s) = s[1] /\ Len(Tail(s)) = Len(s) - 1
      /\ \A i \in 1..Len(s) - 1 : Tail(s)[i] = s[i + 1]
  OBVIOUS
<1> DEFINE t == Tail(s)
<1> HIDE DEF t
<1>2. /\ DOMAIN s = 1..Len(s) /\ DOMAIN t = 1..Len(s) - 1
      /\ \A i \in 1..Len(s) - 1 : t[i] = s[i + 1]
      /\ \A i \in 1..Len(s) : i = 1 \/ (i - 1 \in 1..Len(s) - 1 /\ (i - 1) + 1 = i)
      /\ \A i \in 1..Len(s) - 1 : i + 1 \in 1..Len(s)
      /\ 1 \in 1..Len(s)
  BY <1>1 DEF t
<1>3. ASSUME NEW x \in ToSet(s) PROVE x \in ToSet(t) \cup {s[1]}
  <2>1. PICK i \in 1..Len(s) : x = s[i]
    BY <1>2 DEF ToSet
  <2>2. CASE i = 1
    BY <2>1, <2>2
  <2>3. CASE i - 1 \in 1..Len(s) - 1 /\ (i - 1) + 1 = i
    <3>1. t[i - 1] = x
      BY <1>2, <2>1, <2>3
    <3> QED
      BY <1>2, <2>3, <3>1 DEF ToSet
  <2> QED
    BY <1>2, <2>2, <2>3
<1>4. ASSUME NEW x \in ToSet(t) \cup {s[1]} PROVE x \in ToSet(s)
  BY <1>2 DEF ToSet
<1>5. ToSet(s) = ToSet(t) \cup {s[1]}
  BY <1>3, <1>4
<1> QED
  BY <1>1, <1>5 DEF t

\* A concatenation is the first sequence, then the second, and has the members
\* of both.
LEMMA ConcatEffect ==
  ASSUME NEW S, NEW s \in Seq(S), NEW t \in Seq(S)
  PROVE  /\ s \o t \in Seq(S) /\ Len(s \o t) = Len(s) + Len(t)
         /\ \A i \in 1..Len(s) : (s \o t)[i] = s[i]
         /\ \A i \in 1..Len(t) : (s \o t)[Len(s) + i] = t[i]
         /\ ToSet(s \o t) = ToSet(s) \cup ToSet(t)
<1>1. /\ s \o t \in Seq(S) /\ Len(s \o t) = Len(s) + Len(t)
      /\ \A i \in 1..Len(s) : (s \o t)[i] = s[i]
      /\ \A i \in 1..Len(t) : (s \o t)[Len(s) + i] = t[i]
  OBVIOUS
<1> DEFINE u == s \o t
<1> HIDE DEF u
<1>2. /\ DOMAIN s = 1..Len(s) /\ DOMAIN t = 1..Len(t) /\ DOMAIN u = 1..Len(s) + Len(t)
      /\ \A i \in 1..Len(s) : u[i] = s[i]
      /\ \A i \in 1..Len(t) : u[Len(s) + i] = t[i]
  BY <1>1 DEF u
<1>3. \A i \in 1..Len(s) + Len(t) :
        i \in 1..Len(s) \/ (i - Len(s) \in 1..Len(t) /\ Len(s) + (i - Len(s)) = i)
  OBVIOUS
<1>4. /\ \A i \in 1..Len(s) : i \in 1..Len(s) + Len(t)
      /\ \A i \in 1..Len(t) : Len(s) + i \in 1..Len(s) + Len(t)
  OBVIOUS
<1>5. ASSUME NEW x \in ToSet(u) PROVE x \in ToSet(s) \cup ToSet(t)
  <2>1. PICK i \in 1..Len(s) + Len(t) : x = u[i]
    BY <1>2 DEF ToSet
  <2>2. CASE i \in 1..Len(s)
    BY <1>2, <2>1, <2>2 DEF ToSet
  <2>3. CASE i - Len(s) \in 1..Len(t) /\ Len(s) + (i - Len(s)) = i
    <3>1. t[i - Len(s)] = x
      BY <1>2, <2>1, <2>3
    <3> QED
      BY <1>2, <2>3, <3>1 DEF ToSet
  <2> QED
    BY <1>3, <2>2, <2>3
<1>6. ASSUME NEW x \in ToSet(s) \cup ToSet(t) PROVE x \in ToSet(u)
  <2>1. CASE x \in ToSet(s)
    BY <1>2, <1>4, <2>1 DEF ToSet
  <2>2. CASE x \in ToSet(t)
    <3>1. PICK i \in 1..Len(t) : x = t[i]
      BY <1>2, <2>2 DEF ToSet
    <3> QED
      BY <1>2, <1>4, <3>1 DEF ToSet
  <2> QED
    BY <1>6, <2>1, <2>2
<1> QED
  BY <1>1, <1>5, <1>6 DEF u

\* s is t without some of its elements.
Sublist(s, t) ==
  \E e \in [DOMAIN s -> DOMAIN t] :
    /\ \A i \in DOMAIN s : s[i] = t[e[i]]
    /\ \A i, j \in DOMAIN s : i < j => e[i] < e[j]

\* The lists that Only goes through.
Keeps(s, S, n, f) ==
  f = [k \in 0..n |->
         IF k = 0 THEN <<>>
         ELSE IF s[k] \in S THEN Append(f[k - 1], s[k]) ELSE f[k - 1]]

\* There are such lists.
LEMMA KeepsExists ==
  ASSUME NEW s, NEW S, NEW m \in Nat
  PROVE  \E f : Keeps(s, S, m, f)
<1> DEFINE T == {n \in Nat : ~\E f : Keeps(s, S, n, f)}
<1> SUFFICES ASSUME T # {} PROVE FALSE
  OBVIOUS
<1>1. PICK n \in T : \A y \in T : n <= y
  BY Least
<1>2. n # 0
  <2>1. Keeps(s, S, 0, [k \in 0..0 |-> <<>>])
    BY DEF Keeps
  <2> QED
    BY <2>1
<1>3. n - 1 \in Nat /\ n - 1 \notin T
  BY <1>1, <1>2
<1>4. PICK f : Keeps(s, S, n - 1, f)
  BY <1>3
<1> DEFINE V(k, l) == IF s[k] \in S THEN Append(l, s[k]) ELSE l
           g == [k \in 0..n |-> IF k = n THEN V(n, f[n - 1]) ELSE f[k]]
<1>5. Keeps(s, S, n, g)
  <2>1. \A k \in 0..n - 1 : f[k] = IF k = 0 THEN <<>> ELSE V(k, f[k - 1])
    BY <1>3, <1>4 DEF Keeps
  <2>0. g = [k \in 0..n |-> IF k = n THEN V(n, f[n - 1]) ELSE f[k]]
    OBVIOUS
  <2>2. ASSUME NEW k \in 0..n PROVE g[k] = IF k = 0 THEN <<>> ELSE V(k, g[k - 1])
    <3> HIDE DEF V, g
    <3>1. CASE k = n
      <4>1. n - 1 \in 0..n /\ n - 1 # n
        BY <1>3
      <4>2. g[n - 1] = f[n - 1] /\ g[n] = V(n, f[n - 1])
        BY <4>1, <1>3, <2>0
      <4> QED
        BY <3>1, <4>2, <1>2
    <3>2. CASE k # n
      <4>1. k \in 0..n-1 /\ (k # 0 => k - 1 \in 0..n /\ k - 1 # n)
        BY <3>2, <1>3
      <4> QED
        BY <4>1, <2>0, <2>1, <3>2
    <3> QED
      BY <3>1, <3>2
  <2>3. g = [k \in 0..n |-> g[k]]
    BY DEF g
  <2>4. g = [k \in 0..n |-> IF k = 0 THEN <<>> ELSE V(k, g[k - 1])]
    <3> HIDE DEF V, g
    <3> QED
      BY <2>2, <2>3
  <2> HIDE DEF g
  <2> QED
    BY <2>4, Zenon DEF Keeps
<1> QED
  BY <1>5

\* Only keeps the members that are in S, in the order they had.
LEMMA OnlyEffect ==
  ASSUME NEW T, NEW s \in Seq(T), NEW S
  PROVE  /\ Only(s, S) \in Seq(T)
         /\ ToSet(Only(s, S)) = ToSet(s) \cap S
         /\ Sublist(Only(s, S), s)
<1> DEFINE L == Len(s)
           f == CHOOSE f : Keeps(s, S, L, f)
<1>0. L \in Nat /\ DOMAIN s = 1..L /\ \A i \in 1..L : s[i] \in T
  OBVIOUS
<1>1. Keeps(s, S, L, f)
  BY <1>0, KeepsExists, Zenon
<1>2. Only(s, S) = f[L]
  BY Zenon DEF Only, Keeps
<1> HIDE DEF f, L
<1>3. \A k \in 0..L : f[k] = IF k = 0 THEN <<>>
                             ELSE IF s[k] \in S THEN Append(f[k - 1], s[k]) ELSE f[k - 1]
  BY <1>1 DEF Keeps
<1> DEFINE E(k, l) == \E e \in [DOMAIN l -> 1..k] :
                        /\ \A i \in DOMAIN l : l[i] = s[e[i]]
                        /\ \A i, j \in DOMAIN l : i < j => e[i] < e[j]
           P(k, l) == /\ l \in Seq(T) /\ ToSet(l) = {s[i] : i \in 1..k} \cap S
                      /\ E(k, l)
           B == {k \in 0..L : ~P(k, f[k])}
<1>4. B = {}
  <2> SUFFICES ASSUME B # {} PROVE FALSE
    OBVIOUS
  <2>1. B \in SUBSET Nat
    BY <1>0
  <2>2. PICK k \in B : \A l \in B : k <= l
    <3> HIDE DEF B
    <3> QED
      BY <2>1, Least
  <2>3. k \in 0..L /\ ~P(k, f[k])
    OBVIOUS
  <2>4. k # 0
    <3> SUFFICES ASSUME k = 0 PROVE FALSE
      OBVIOUS
    <3>1. f[0] = <<>>
      BY <1>0, <1>3
    <3>2. E(0, <<>>)
      <4>1. [i \in {} |-> 0] \in [DOMAIN <<>> -> 1..0]
        OBVIOUS
      <4> QED
        BY <4>1
    <3>3. ToSet(<<>>) = {} /\ 1..0 = {}
      BY EmptyEffect
    <3>4. P(0, <<>>)
      <4> HIDE DEF E
      <4>1. <<>> \in Seq(T)
        OBVIOUS
      <4> QED
        BY <3>2, <3>3, <4>1
    <3> HIDE DEF P
    <3> QED
      BY <2>3, <3>1, <3>4
  <2>5. k - 1 \in 0..L /\ k - 1 \notin B /\ k \in 1..L /\ ~(k <= k - 1)
    <3>1. k - 1 \in 0..L /\ k \in 1..L /\ ~(k <= k - 1)
      BY <1>0, <2>3, <2>4
    <3> HIDE DEF B
    <3> QED
      BY <2>2, <3>1
  <2>6. P(k - 1, f[k - 1])
    BY <2>5
  <2> DEFINE l == f[k - 1]
  <2>7. f[k] = IF s[k] \in S THEN Append(l, s[k]) ELSE l
    BY <1>3, <2>3, <2>4
  <2> HIDE DEF l, E, B
  <2>8. l \in Seq(T) /\ ToSet(l) = {s[i] : i \in 1..k - 1} \cap S /\ E(k - 1, l)
    BY <2>6 DEF l
  <2>9. PICK e \in [DOMAIN l -> 1..k - 1] :
           /\ \A i \in DOMAIN l : l[i] = s[e[i]]
           /\ \A i, j \in DOMAIN l : i < j => e[i] < e[j]
    BY <2>8 DEF E
  <2>10. \A i \in 1..k : i \in 1..k - 1 \/ i = k
    BY <2>5
  <2>11. {s[i] : i \in 1..k} = {s[i] : i \in 1..k - 1} \cup {s[k]}
    BY <2>5, <2>10
  <2>12. CASE s[k] \notin S
    <3>1. E(k, l)
      <4>1. e \in [DOMAIN l -> 1..k]
        BY <2>9, <2>5
      <4> QED
        BY <2>9, <4>1 DEF E
    <3>2. P(k, l)
      BY <2>8, <2>11, <2>12, <3>1
    <3> HIDE DEF P
    <3> QED
      BY <2>3, <2>7, <2>12, <3>2
  <2>13. CASE s[k] \in S
    <3> DEFINE a == Append(l, s[k])
               d == [i \in 1..Len(l) + 1 |-> IF i = Len(l) + 1 THEN k ELSE e[i]]
    <3>1. s[k] \in T
      BY <1>0, <2>5
    <3>2. a \in Seq(T) /\ ToSet(a) = ToSet(l) \cup {s[k]}
      BY <2>8, <3>1, AppendEffect
    <3>3. /\ DOMAIN l = 1..Len(l) /\ DOMAIN a = 1..Len(l) + 1 /\ Len(l) \in Nat
          /\ \A i \in 1..Len(l) : a[i] = l[i]
          /\ a[Len(l) + 1] = s[k]
      BY <2>8, <3>1
    <3> HIDE DEF a
    <3>4. \A i \in 1..Len(l) + 1 : i \in 1..Len(l) \/ i = Len(l) + 1
      BY <3>3
    <3>5. d \in [DOMAIN a -> 1..k]
      BY <2>5, <2>9, <3>3, <3>4
    <3>6. \A i \in 1..Len(l) + 1 : d[i] = IF i = Len(l) + 1 THEN k ELSE e[i]
      OBVIOUS
    <3> HIDE DEF d
    <3>7. ASSUME NEW i \in DOMAIN a PROVE a[i] = s[d[i]]
      BY <2>9, <3>3, <3>4, <3>6
    <3>8. ASSUME NEW i \in DOMAIN a, NEW j \in DOMAIN a, i < j PROVE d[i] < d[j]
      <4>1. i \in 1..Len(l) /\ i # Len(l) + 1
        BY <3>3, <3>8
      <4>2. d[i] = e[i] /\ e[i] \in 1..k - 1
        BY <2>9, <3>3, <3>6, <4>1
      <4>3. CASE j = Len(l) + 1
        BY <2>5, <3>3, <3>6, <4>2, <4>3
      <4>4. CASE j \in 1..Len(l)
        <5>1. d[j] = e[j]
          BY <3>3, <3>6, <4>4
        <5> QED
          BY <2>9, <3>3, <3>8, <4>1, <4>2, <4>4, <5>1
      <4> QED
        BY <3>3, <3>4, <4>3, <4>4
    <3>9. E(k, a)
      BY <3>5, <3>7, <3>8 DEF E
    <3>10. P(k, a)
      BY <2>8, <2>11, <2>13, <3>2, <3>9
    <3> HIDE DEF P
    <3> QED
      BY <2>3, <2>7, <2>13, <3>10 DEF a
  <2> QED
    BY <2>12, <2>13
<1>5. P(L, f[L])
  <2>1. L \in 0..L
    BY <1>0
  <2> HIDE DEF P
  <2> QED
    BY <1>4, <2>1
<1>6. E(L, f[L]) => Sublist(f[L], s)
  BY <1>0 DEF Sublist
<1>7. ToSet(s) = {s[i] : i \in 1..L}
  BY <1>0 DEF ToSet
<1> HIDE DEF E
<1> QED
  BY <1>2, <1>5, <1>6, <1>7

\* A list without its last element.
LEMMA FrontSublist ==
  ASSUME NEW T, NEW s \in Seq(T), s # <<>>
  PROVE  Sublist(Front(s), s)
<1>1. /\ Len(s) \in Nat /\ DOMAIN s = 1..Len(s) /\ DOMAIN Front(s) = 1..Len(s) - 1
      /\ \A i \in 1..Len(s) - 1 : Front(s)[i] = s[i]
  BY FrontEffect
<1> DEFINE e == [i \in 1..Len(s) - 1 |-> i]
<1>2. e \in [DOMAIN Front(s) -> DOMAIN s] /\ \A i \in DOMAIN Front(s) : e[i] = i
  BY <1>1
<1> HIDE DEF e
<1> QED
  BY <1>1, <1>2 DEF Sublist

\* A list is a sublist of itself.
LEMMA SelfSublist ==
  ASSUME NEW T, NEW s \in Seq(T)
  PROVE  Sublist(s, s)
<1> DEFINE e == [i \in DOMAIN s |-> i]
<1>1. e \in [DOMAIN s -> DOMAIN s] /\ \A i \in DOMAIN s : e[i] = i
  OBVIOUS
<1> HIDE DEF e
<1> QED
  BY <1>1 DEF Sublist

-----------------------------------------------------------------------------
\* Reach.

\* One step further.
Further(next, Q) == Q \cup UNION {next[h] : h \in Q}

\* The sets that Reach goes through.
Layers(S, next, n, f) ==
  f = [k \in 0..n |-> IF k = 0 THEN S ELSE Further(next, f[k - 1])]

\* There are such sets.
LEMMA LayersExist ==
  ASSUME NEW S, NEW next, NEW m \in Nat
  PROVE  \E f : Layers(S, next, m, f)
<1> DEFINE T == {n \in Nat : ~\E f : Layers(S, next, n, f)}
<1> SUFFICES ASSUME T # {} PROVE FALSE
  OBVIOUS
<1>1. PICK n \in T : \A y \in T : n <= y
  BY Least
<1>2. n # 0
  <2>1. Layers(S, next, 0, [k \in 0..0 |-> S])
    BY DEF Layers
  <2> QED
    BY <2>1
<1>3. n - 1 \in Nat /\ n - 1 \notin T
  BY <1>1, <1>2
<1>4. PICK f : Layers(S, next, n - 1, f)
  BY <1>3
<1> DEFINE g == [k \in 0..n |-> IF k = n THEN Further(next, f[n - 1]) ELSE f[k]]
<1>5. Layers(S, next, n, g)
  <2>1. \A k \in 0..n - 1 : f[k] = IF k = 0 THEN S ELSE Further(next, f[k - 1])
    BY <1>3, <1>4 DEF Layers
  <2>2. ASSUME NEW k \in 0..n PROVE g[k] = IF k = 0 THEN S ELSE Further(next, g[k - 1])
    <3>1. CASE k = n
      <4>1. n - 1 \in 0..n /\ n - 1 # n
        BY <1>3
      <4>2. g[n - 1] = f[n - 1] /\ g[n] = Further(next, f[n - 1])
        BY <4>1, <1>3
      <4> QED
        BY <3>1, <4>2, <1>2
    <3>2. CASE k # n
      <4>1. k \in 0..n-1 /\ (k # 0 => k - 1 \in 0..n /\ k - 1 # n)
        BY <3>2, <1>3
      <4> QED
        BY <4>1, <2>1, <3>2
    <3> QED
      BY <3>1, <3>2
  <2> HIDE DEF g
  <2>3. g = [k \in 0..n |-> g[k]]
    BY DEF g
  <2> QED
    BY <2>2, <2>3 DEF Layers
<1> QED
  BY <1>5

\* Reach gives the least set with S that next does not lead out of.
LEMMA ReachEffect ==
  ASSUME NEW S \in SUBSET Handles, NEW next \in [Handles -> SUBSET Handles]
  PROVE  /\ Reach(S, next) \in SUBSET Handles
         /\ S \subseteq Reach(S, next)
         /\ \A h \in Reach(S, next) : next[h] \subseteq Reach(S, next)
         /\ \A C \in SUBSET Handles :
              (S \subseteq C /\ \A h \in C : next[h] \subseteq C) => Reach(S, next) \subseteq C
<1> DEFINE N == Cardinality(Handles)
           f == CHOOSE f : Layers(S, next, N, f)
<1>0. N \in Nat /\ IsFiniteSet(Handles)
  BY AsioAssumption, FS_CardinalityType
<1>1. Layers(S, next, N, f)
  BY <1>0, LayersExist, Zenon
<1>2. Reach(S, next) = f[N]
  BY Zenon DEF Reach, Layers, Further
<1> HIDE DEF f, N
<1>3. \A k \in 0..N : f[k] = IF k = 0 THEN S ELSE Further(next, f[k - 1])
  BY <1>1 DEF Layers
<1> DEFINE Closed(C) == \A h \in C : next[h] \subseteq C
           P(k, Q) == /\ Q \in SUBSET Handles /\ S \subseteq Q
                      /\ \A C \in SUBSET Handles : (S \subseteq C /\ Closed(C)) => Q \subseteq C
                      /\ Closed(Q) \/ Cardinality(Q) >= k
           B == {k \in 0..N : ~P(k, f[k])}
<1>4. B = {}
  <2> SUFFICES ASSUME B # {} PROVE FALSE
    OBVIOUS
  <2>1. B \in SUBSET Nat
    BY <1>0
  <2>2. PICK k \in B : \A l \in B : k <= l
    <3> HIDE DEF B
    <3> QED
      BY <2>1, Least
  <2>3. k \in 0..N /\ ~P(k, f[k])
    OBVIOUS
  <2>4. k # 0
    <3> SUFFICES ASSUME k = 0 PROVE FALSE
      OBVIOUS
    <3>1. f[0] = S
      BY <1>0, <1>3
    <3>2. Cardinality(S) \in Nat
      BY <1>0, FS_Subset, FS_CardinalityType
    <3>3. P(0, S)
      BY <3>2
    <3> HIDE DEF P
    <3> QED
      BY <2>3, <3>1, <3>3
  <2>5. k - 1 \in 0..N /\ k - 1 \notin B /\ k \in 1..N
    <3>1. k - 1 \in 0..N /\ k \in 1..N /\ ~(k <= k - 1)
      BY <1>0, <2>3, <2>4
    <3> HIDE DEF B
    <3> QED
      BY <2>2, <3>1
  <2> DEFINE Q == f[k - 1]
             R == Further(next, Q)
  <2>6. P(k - 1, Q)
    <3> HIDE DEF P
    <3> QED
      BY <2>5
  <2>7. f[k] = R
    BY <1>3, <2>3, <2>4
  <2> HIDE DEF Q, B
  <2>8. Q \subseteq R /\ R \in SUBSET Handles /\ S \subseteq R
    BY <2>6 DEF Further
  <2>9. \A C \in SUBSET Handles : (S \subseteq C /\ Closed(C)) => R \subseteq C
    BY <2>6 DEF Further
  <2>10. Closed(R) \/ Cardinality(R) >= k
    <3>1. CASE Closed(Q)
      <4>1. R = Q
        BY <2>6, <3>1 DEF Further
      <4> HIDE DEF R
      <4> QED
        BY <3>1, <4>1
    <3>2. CASE ~Closed(Q)
      <4>1. Q # R
        BY <2>6, <3>2 DEF Further
      <4>2. IsFiniteSet(R) /\ IsFiniteSet(Q) /\ Cardinality(R) \in Nat /\ Cardinality(Q) \in Nat
        <5> HIDE DEF R
        <5> QED
          BY <1>0, <2>6, <2>8, FS_Subset, FS_CardinalityType
      <4>3. Cardinality(Q) <= Cardinality(R) /\ Cardinality(Q) # Cardinality(R)
        <5> HIDE DEF R
        <5> QED
          BY <2>8, <4>1, <4>2, FS_Subset
      <4>4. Cardinality(Q) >= k - 1
        BY <2>6, <3>2
      <4> HIDE DEF R
      <4> QED
        BY <2>5, <4>2, <4>3, <4>4
    <3> QED
      BY <3>1, <3>2
  <2> HIDE DEF R, Closed
  <2>11. P(k, R)
    BY <2>8, <2>9, <2>10
  <2> HIDE DEF P
  <2> QED
    BY <2>3, <2>7, <2>11
<1>5. P(N, f[N])
  <2>1. N \in 0..N
    BY <1>0
  <2> HIDE DEF P
  <2> QED
    BY <1>4, <2>1
<1>6. Closed(f[N])
  <2>1. CASE Cardinality(f[N]) >= N
    <3>1. IsFiniteSet(f[N]) /\ Cardinality(f[N]) \in Nat /\ Cardinality(f[N]) <= N
      BY <1>0, <1>5, FS_Subset, FS_CardinalityType DEF N
    <3>2. Cardinality(f[N]) = N
      BY <1>0, <2>1, <3>1
    <3>3. f[N] = Handles
      BY <1>0, <1>5, <3>2, FS_Subset DEF N
    <3> QED
      BY <3>3
  <2> QED
    BY <1>5, <2>1
<1> QED
  BY <1>2, <1>5, <1>6

-----------------------------------------------------------------------------
\* Circles.

\* child[h] is what h waits for: of every set of handles one does not wait for
\* another one of them.
Acyclic(child) ==
  \A S \in SUBSET Handles : S # {} => \E h \in S : child[h] \notin S

\* The handles from h down.
Below(h, child) == Reach({h}, [x \in Handles |-> {child[x]} \ {None}])

\* Below(h, child) is the least set that has h and, with a handle, its child.
LEMMA BelowEffect ==
  ASSUME NEW child \in [Handles -> Handles \cup {None}], NEW h \in Handles
  PROVE  /\ Below(h, child) \in SUBSET Handles /\ h \in Below(h, child)
         /\ \A x \in Below(h, child) : child[x] # None => child[x] \in Below(h, child)
         /\ \A C \in SUBSET Handles :
              (h \in C /\ \A x \in C : child[x] # None => child[x] \in C)
                => Below(h, child) \subseteq C
<1> DEFINE next == [x \in Handles |-> {child[x]} \ {None}]
<1>1. {h} \in SUBSET Handles /\ next \in [Handles -> SUBSET Handles]
  OBVIOUS
<1>2. \A x \in Handles : next[x] = {child[x]} \ {None}
  OBVIOUS
<1>3. Below(h, child) = Reach({h}, next)
  BY DEF Below
<1> HIDE DEF next
<1>4. /\ Reach({h}, next) \in SUBSET Handles
      /\ {h} \subseteq Reach({h}, next)
      /\ \A x \in Reach({h}, next) : next[x] \subseteq Reach({h}, next)
      /\ \A C \in SUBSET Handles :
           ({h} \subseteq C /\ \A x \in C : next[x] \subseteq C) => Reach({h}, next) \subseteq C
  BY <1>1, ReachEffect
<1> DEFINE R == Reach({h}, next)
<1> HIDE DEF R
<1> QED
  BY <1>2, <1>3, <1>4 DEF R

\* A dependency that detectCycle allows closes no circle.
LEMMA AcyclicWith ==
  ASSUME NEW child \in [Handles -> Handles \cup {None}], Acyclic(child),
         NEW f \in Handles, NEW k \in Handles, f \notin Below(k, child),
         NEW new \in [Handles -> Handles \cup {None}],
         new[f] = k, \A x \in Handles : x # f => new[x] = child[x]
  PROVE  Acyclic(new)
<1> SUFFICES ASSUME NEW S \in SUBSET Handles, S # {}, \A h \in S : new[h] \in S
             PROVE  FALSE
  BY DEF Acyclic
<1>1. f \in S
  BY DEF Acyclic
<1>2. k \in S
  BY <1>1
<1> DEFINE D == Below(k, child)
<1>3. /\ D \in SUBSET Handles /\ k \in D
      /\ \A x \in D : child[x] # None => child[x] \in D
  BY BelowEffect
<1> HIDE DEF D
<1>4. \A x \in S \cap D : child[x] \in S \cap D
  BY <1>3, AsioAssumption DEF D
<1> QED
  BY <1>2, <1>3, <1>4 DEF Acyclic

\* Nor does one that goes.
LEMMA AcyclicWithout ==
  ASSUME NEW child \in [Handles -> Handles \cup {None}], Acyclic(child),
         NEW new \in [Handles -> Handles \cup {None}],
         \A x \in Handles : new[x] = child[x] \/ new[x] = None
  PROVE  Acyclic(new)
  BY AsioAssumption DEF Acyclic

\* Nor one of a handle that nobody waits for.
LEMMA AcyclicNew ==
  ASSUME NEW child \in [Handles -> Handles \cup {None}], Acyclic(child),
         NEW f \in Handles, \A x \in Handles : child[x] # f,
         NEW new \in [Handles -> Handles \cup {None}], new[f] # f,
         \A x \in Handles : x # f => new[x] = child[x]
  PROVE  Acyclic(new)
<1> SUFFICES ASSUME NEW S \in SUBSET Handles, S # {}, \A h \in S : new[h] \in S
             PROVE  FALSE
  BY DEF Acyclic
<1>1. f \in S
  BY DEF Acyclic
<1>2. new[f] \in S \ {f}
  BY <1>1
<1>3. \A x \in S \ {f} : child[x] \in S \ {f}
  OBVIOUS
<1> QED
  BY <1>2, <1>3 DEF Acyclic

\* Without circles no handle is found on the way down from its own child.
LEMMA AcyclicMeansNoCycle ==
  ASSUME NEW child \in [Handles -> Handles \cup {None}], Acyclic(child),
         NEW h \in Handles, child[h] # None
  PROVE  h \notin Below(child[h], child)
<1> SUFFICES ASSUME h \in Below(child[h], child) PROVE FALSE
  OBVIOUS
<1> DEFINE S == {y \in Handles : h \in Below(y, child)}
<1>1. child[h] \in S
  OBVIOUS
<1>2. ASSUME NEW y \in S PROVE child[y] \in S
  <2>1. CASE y = h
    BY <1>1, <2>1
  <2>2. CASE y # h
    <3>1. h \in Below(y, child) /\ y \in Handles
      OBVIOUS
    <3>2. child[y] # None
      <4> SUFFICES ASSUME child[y] = None PROVE FALSE
        OBVIOUS
      <4>0. /\ {y} \in SUBSET Handles /\ y \in {y}
            /\ \A x \in {y} : child[x] # None => child[x] \in {y}
        BY <3>1
      <4>1. Below(y, child) \subseteq {y}
        <5> DEFINE C == {y}
        <5> HIDE DEF C
        <5>1. /\ C \in SUBSET Handles /\ y \in C
              /\ \A x \in C : child[x] # None => child[x] \in C
          BY <4>0 DEF C
        <5>2. Below(y, child) \subseteq C
          BY <3>1, <5>1, BelowEffect
        <5> QED
          BY <5>2 DEF C
      <4> QED
        BY <2>2, <3>1, <4>1
    <3> DEFINE D == Below(child[y], child)
    <3>3. /\ D \in SUBSET Handles /\ child[y] \in D
          /\ \A x \in D : child[x] # None => child[x] \in D
      BY <3>1, <3>2, BelowEffect
    <3> HIDE DEF D
    <3>4. Below(y, child) \subseteq D \cup {y}
      <4>1. /\ D \cup {y} \in SUBSET Handles /\ y \in D \cup {y}
            /\ \A x \in D \cup {y} : child[x] # None => child[x] \in D \cup {y}
        BY <3>1, <3>3
      <4> QED
        BY <3>1, <4>1, BelowEffect
    <3>5. h \in D
      BY <2>2, <3>1, <3>4
    <3> QED
      BY <3>1, <3>2, <3>5 DEF D
  <2> QED
    BY <2>1, <2>2
<1> QED
  BY <1>1, <1>2 DEF Acyclic

-----------------------------------------------------------------------------
\* The chains that are being unblocked.

Nodes == Handles \X (1..MaxChildren)

\* AwaitAlls and conditions block when they are created, and never again.
Static == AwaitAlls \cup Conditions

\* Of two nodes of static handles, x is of the one created earlier; age[h] is how
\* many were created after h ...
Earlier(age, x, y) ==
  x # y /\ ((x[1] \in Static /\ y[1] \in Static) => age[x[1]] > age[y[1]])

\* ... or both are of one AwaitAll, and x is of the child with the higher index.
Older(age, x, y) ==
  /\ x # y
  /\ (x[1] \in Static /\ y[1] \in Static) =>
       age[x[1]] > age[y[1]] \/ (x[1] = y[1] /\ x[2] > y[2])

\* A chain from its oldest node to its youngest.
Ordered(age, chain) ==
  \A m, n \in DOMAIN chain : m < n => Older(age, chain[m], chain[n])

\* So are the chains in progress, one after the other.
WellOrdered(age, chs) ==
  /\ \A k \in DOMAIN chs : chs[k] # <<>> /\ Ordered(age, chs[k])
  /\ \A k, l \in DOMAIN chs : k < l =>
       \A x \in ToSet(chs[k]), y \in ToSet(chs[l]) : Earlier(age, x, y)

\* The nodes of all chains in progress.
PendingNodes(chs) == UNION {ToSet(chs[k]) : k \in DOMAIN chs}

\* Leaving nodes out keeps a chain in order.
LEMMA SublistOrdered ==
  ASSUME NEW age, NEW s \in Seq(Nodes), NEW t \in Seq(Nodes), Sublist(s, t), Ordered(age, t)
  PROVE  Ordered(age, s)
<1>1. PICK e \in [DOMAIN s -> DOMAIN t] :
        /\ \A i \in DOMAIN s : s[i] = t[e[i]]
        /\ \A i, j \in DOMAIN s : i < j => e[i] < e[j]
  BY DEF Sublist
<1> SUFFICES ASSUME NEW m \in DOMAIN s, NEW n \in DOMAIN s, m < n
             PROVE  Older(age, s[m], s[n])
  BY DEF Ordered
<1>2. e[m] \in DOMAIN t /\ e[n] \in DOMAIN t /\ e[m] < e[n] /\ s[m] = t[e[m]] /\ s[n] = t[e[n]]
  BY <1>1
<1> QED
  BY <1>2 DEF Ordered

\* The node that is unblocked next is the youngest one.
LEMMA Unlinking ==
  ASSUME NEW age \in [Static -> Nat], NEW chs \in Seq(Seq(Nodes)), chs # <<>>, WellOrdered(age, chs)
  PROVE  /\ Last(chs) \in Seq(Nodes) /\ Last(chs) # <<>>
         /\ Last(Last(chs)) \in Nodes
         /\ Pending(Front(chs), Front(Last(chs))) \in Seq(Seq(Nodes))
         /\ WellOrdered(age, Pending(Front(chs), Front(Last(chs))))
         /\ PendingNodes(chs) =
              PendingNodes(Pending(Front(chs), Front(Last(chs)))) \cup {Last(Last(chs))}
         /\ \A x \in PendingNodes(Pending(Front(chs), Front(Last(chs)))) :
              Older(age, x, Last(Last(chs)))
<1> DEFINE n == Len(chs)
           last == Last(chs)
           node == Last(last)
           rest == Front(last)
           front == Front(chs)
<1>1. /\ n \in Nat \ {0} /\ DOMAIN chs = 1..n /\ last = chs[n] /\ last \in Seq(Nodes)
      /\ front \in Seq(Seq(Nodes)) /\ DOMAIN front = 1..n - 1
      /\ \A i \in 1..n - 1 : front[i] = chs[i]
  <2>1. /\ front \in Seq(Seq(Nodes)) /\ Len(front) = n - 1 /\ n >= 1 /\ last \in Seq(Nodes)
        /\ \A i \in 1..n - 1 : front[i] = chs[i]
    <3> HIDE DEF n, last, front
    <3> QED
      BY FrontEffect DEF n, last, front
  <2> QED
    BY <2>1 DEF Last
<1> HIDE DEF n, last, front
<1>0. n \in 1..n /\ (\A i \in 1..n - 1 : i \in 1..n /\ i < n) /\ \A i \in 1..n : i \in 1..n - 1 \/ i = n
  BY <1>1
<1>2. last # <<>> /\ Ordered(age, last)
  BY <1>0, <1>1 DEF WellOrdered
<1>3. /\ node \in Nodes /\ rest \in Seq(Nodes) /\ Len(rest) = Len(last) - 1 /\ Len(last) >= 1
      /\ \A i \in 1..Len(last) - 1 : rest[i] = last[i]
      /\ ToSet(last) = ToSet(rest) \cup {node}
  BY <1>1, <1>2, FrontEffect
<1>4. node = last[Len(last)] /\ DOMAIN last = 1..Len(last) /\ DOMAIN rest = 1..Len(last) - 1
  BY <1>1, <1>3 DEF Last
<1> HIDE DEF node, rest
<1>5. Ordered(age, rest)
  BY <1>1, <1>2, <1>3, FrontSublist, SublistOrdered DEF rest
<1>6. ASSUME NEW x \in ToSet(rest) PROVE Older(age, x, node)
  <2>1. PICK i \in 1..Len(last) - 1 : x = last[i]
    BY <1>3, <1>4 DEF ToSet
  <2>2. i \in DOMAIN last /\ Len(last) \in DOMAIN last /\ i < Len(last)
    BY <1>3, <1>4, <2>1
  <2> QED
    BY <1>2, <1>4, <2>1, <2>2 DEF Ordered
<1>7. ASSUME NEW k \in 1..n - 1, NEW x \in ToSet(chs[k]), NEW y \in ToSet(last)
      PROVE  Earlier(age, x, y)
  BY <1>0, <1>1, <1>7 DEF WellOrdered
<1>8. \A x, y : Earlier(age, x, y) => Older(age, x, y)
  BY DEF Earlier, Older
<1>9. WellOrdered(age, front)
  BY <1>0, <1>1 DEF WellOrdered
<1>10. PendingNodes(chs) = PendingNodes(front) \cup ToSet(last)
  BY <1>0, <1>1 DEF PendingNodes
<1>11. \A x \in PendingNodes(front) : \A y \in ToSet(last) : Earlier(age, x, y)
  BY <1>1, <1>7 DEF PendingNodes
<1> DEFINE after == Pending(front, rest)
<1>12. CASE rest = <<>>
  <2>1. after = front
    BY <1>12 DEF Pending
  <2>2. ToSet(rest) = {}
    BY <1>12, EmptyEffect
  <2> QED
    BY <1>1, <1>2, <1>3, <1>8, <1>9, <1>10, <1>11, <2>1, <2>2 DEF front, last, node, rest
<1>13. CASE rest # <<>>
  <2>1. after = Append(front, rest)
    BY <1>13 DEF Pending
  <2>2. /\ after \in Seq(Seq(Nodes)) /\ DOMAIN after = 1..n /\ after[n] = rest
        /\ \A i \in 1..n - 1 : after[i] = chs[i]
    <3>1. n - 1 \in Nat /\ n - 1 = Len(front) /\ (n - 1) + 1 = n
      BY <1>1
    <3> QED
      BY <1>1, <1>3, <2>1, <3>1
  <2> HIDE DEF after
  <2>5. PendingNodes(after) = PendingNodes(front) \cup ToSet(rest)
    <3>1. ASSUME NEW x \in PendingNodes(after) PROVE x \in PendingNodes(front) \cup ToSet(rest)
      <4>1. PICK k \in 1..n : x \in ToSet(after[k])
        BY <2>2 DEF PendingNodes
      <4> QED
        BY <1>0, <1>1, <2>2, <4>1 DEF PendingNodes
    <3>2. ASSUME NEW x \in PendingNodes(front) PROVE x \in PendingNodes(after)
      <4>1. PICK k \in 1..n - 1 : x \in ToSet(chs[k])
        BY <1>1 DEF PendingNodes
      <4> QED
        BY <1>0, <2>2, <4>1 DEF PendingNodes
    <3>3. ToSet(rest) \subseteq PendingNodes(after)
      BY <1>0, <2>2 DEF PendingNodes
    <3> QED
      BY <3>1, <3>2, <3>3
  <2>6. ASSUME NEW k \in 1..n PROVE after[k] # <<>> /\ Ordered(age, after[k])
    BY <1>1, <1>5, <1>13, <1>0, <2>2 DEF WellOrdered
  <2>7. ASSUME NEW k \in 1..n, NEW l \in 1..n, k < l, NEW x \in ToSet(after[k]), NEW y \in ToSet(after[l])
        PROVE  Earlier(age, x, y)
    <3>1. k \in 1..n - 1 /\ x \in ToSet(chs[k])
      BY <1>1, <2>2, <2>7
    <3>2. y \in ToSet(chs[l])
      <4>1. CASE l = n
        BY <1>1, <1>3, <2>2, <2>7, <4>1
      <4>2. CASE l \in 1..n - 1
        BY <2>2, <2>7, <4>2
      <4> QED
        BY <1>0, <4>1, <4>2
    <3> QED
      BY <1>1, <2>7, <3>1, <3>2 DEF WellOrdered
  <2>8. WellOrdered(age, after)
    BY <2>2, <2>6, <2>7 DEF WellOrdered
  <2> QED
    BY <1>1, <1>2, <1>3, <1>6, <1>8, <1>10, <1>11, <2>2, <2>5, <2>8 DEF front, last, node, rest, after
<1> QED
  BY <1>12, <1>13

\* A chain that is pushed is younger than those in progress.
LEMMA Pushing ==
  ASSUME NEW age, NEW chs \in Seq(Seq(Nodes)), WellOrdered(age, chs),
         NEW chain \in Seq(Nodes), Ordered(age, chain),
         \A x \in PendingNodes(chs), y \in ToSet(chain) : Earlier(age, x, y)
  PROVE  /\ Pending(chs, chain) \in Seq(Seq(Nodes))
         /\ WellOrdered(age, Pending(chs, chain))
         /\ PendingNodes(Pending(chs, chain)) = PendingNodes(chs) \cup ToSet(chain)
<1>1. CASE chain = <<>>
  <2>1. Pending(chs, chain) = chs /\ ToSet(chain) = {}
    BY <1>1, EmptyEffect DEF Pending
  <2> QED
    BY <2>1
<1>2. CASE chain # <<>>
  <2> DEFINE after == Append(chs, chain)
             n == Len(chs)
  <2>1. Pending(chs, chain) = after
    BY <1>2 DEF Pending
  <2>2. /\ after \in Seq(Seq(Nodes)) /\ DOMAIN after = 1..n + 1 /\ DOMAIN chs = 1..n /\ n \in Nat
        /\ after[n + 1] = chain
        /\ \A i \in 1..n : after[i] = chs[i]
    OBVIOUS
  <2> HIDE DEF after, n
  <2>3. \A i \in 1..n + 1 : i \in 1..n \/ i = n + 1
    BY <2>2
  <2>4. n + 1 \in 1..n + 1 /\ \A i \in 1..n : i \in 1..n + 1
    BY <2>2
  <2>5. PendingNodes(after) = PendingNodes(chs) \cup ToSet(chain)
    BY <2>2, <2>3, <2>4 DEF PendingNodes
  <2>6. ASSUME NEW k \in 1..n + 1 PROVE after[k] # <<>> /\ Ordered(age, after[k])
    BY <1>2, <2>2, <2>3, <2>4 DEF WellOrdered
  <2>7. ASSUME NEW k \in 1..n + 1, NEW l \in 1..n + 1, k < l,
               NEW x \in ToSet(after[k]), NEW y \in ToSet(after[l])
        PROVE  Earlier(age, x, y)
    <3>1. k \in 1..n /\ x \in ToSet(chs[k])
      BY <2>2, <2>7
    <3>2. CASE l = n + 1
      <4>1. x \in PendingNodes(chs) /\ y \in ToSet(chain)
        BY <2>2, <2>7, <3>1, <3>2 DEF PendingNodes
      <4> QED
        BY <4>1
    <3>3. CASE l \in 1..n
      BY <2>2, <2>7, <3>1, <3>3 DEF WellOrdered
    <3> QED
      BY <2>3, <3>2, <3>3
  <2>8. WellOrdered(age, after)
    BY <2>2, <2>6, <2>7 DEF WellOrdered
  <2> QED
    BY <2>1, <2>2, <2>5, <2>8
<1> QED
  BY <1>1, <1>2

\* With no chain left there is no node left.
LEMMA NothingPending ==
  ASSUME NEW age
  PROVE  <<>> \in Seq(Seq(Nodes)) /\ WellOrdered(age, <<>>) /\ PendingNodes(<<>>) = {}
<1>1. DOMAIN <<>> = {} /\ <<>> \in Seq(Seq(Nodes))
  OBVIOUS
<1>2. \A x : x \notin PendingNodes(<<>>)
  BY <1>1 DEF PendingNodes
<1> QED
  BY <1>1, <1>2 DEF WellOrdered

\* A node is added at the end of a chain ...
LEMMA OrderedAppend ==
  ASSUME NEW age, NEW s \in Seq(Nodes), NEW node \in Nodes, Ordered(age, s),
         \A x \in ToSet(s) : Older(age, x, node)
  PROVE  Ordered(age, Append(s, node))
<1> DEFINE u == Append(s, node)
           k == Len(s)
<1>1. /\ DOMAIN u = 1..k + 1 /\ k \in Nat /\ DOMAIN s = 1..k
      /\ (\A i \in 1..k : u[i] = s[i]) /\ u[k + 1] = node
  OBVIOUS
<1> HIDE DEF u, k
<1>2. \A i \in 1..k : u[i] = s[i] /\ s[i] \in ToSet(s)
  BY <1>1 DEF ToSet
<1> SUFFICES ASSUME NEW m \in 1..k + 1, NEW n \in 1..k + 1, m < n PROVE Older(age, u[m], u[n])
  BY <1>1 DEF Ordered, u
<1>3. m \in 1..k /\ (n \in 1..k \/ n = k + 1)
  BY <1>1
<1>4. CASE n \in 1..k
  BY <1>1, <1>2, <1>3, <1>4 DEF Ordered
<1>5. CASE n = k + 1
  BY <1>1, <1>2, <1>3, <1>5
<1> QED
  BY <1>3, <1>4, <1>5

\* ... or several.
LEMMA OrderedConcat ==
  ASSUME NEW age, NEW s \in Seq(Nodes), NEW t \in Seq(Nodes), Ordered(age, s), Ordered(age, t),
         \A x \in ToSet(s), y \in ToSet(t) : Older(age, x, y)
  PROVE  Ordered(age, s \o t)
<1> DEFINE u == s \o t
           k == Len(s)
           l == Len(t)
<1>1. /\ DOMAIN u = 1..k + l /\ k \in Nat /\ l \in Nat /\ DOMAIN s = 1..k /\ DOMAIN t = 1..l
      /\ \A i \in 1..k : u[i] = s[i]
      /\ \A i \in 1..l : u[k + i] = t[i]
  OBVIOUS
<1> HIDE DEF u, k, l
<1>2. \A i \in 1..k + l : i \in 1..k \/ (i - k \in 1..l /\ k + (i - k) = i)
  BY <1>1
<1>3. \A i \in 1..k : u[i] = s[i] /\ s[i] \in ToSet(s)
  BY <1>1 DEF ToSet
<1>4. \A i \in 1..k + l : i \in 1..k \/ (i - k \in 1..l /\ u[i] = t[i - k] /\ t[i - k] \in ToSet(t))
  <2> SUFFICES ASSUME NEW i \in 1..k + l, i \notin 1..k
               PROVE  i - k \in 1..l /\ u[i] = t[i - k] /\ t[i - k] \in ToSet(t)
    OBVIOUS
  <2>1. i - k \in 1..l /\ k + (i - k) = i
    BY <1>2
  <2>2. u[k + (i - k)] = t[i - k]
    BY <1>1, <2>1
  <2> QED
    BY <1>1, <2>1, <2>2 DEF ToSet
<1> SUFFICES ASSUME NEW m \in 1..k + l, NEW n \in 1..k + l, m < n PROVE Older(age, u[m], u[n])
  BY <1>1 DEF Ordered, u
<1>5. CASE m \in 1..k /\ n \in 1..k
  BY <1>1, <1>3, <1>5 DEF Ordered
<1>6. CASE m \in 1..k /\ n \notin 1..k
  BY <1>3, <1>4, <1>6
<1>7. CASE m \notin 1..k
  <2>1. n \notin 1..k
    BY <1>1, <1>7
  <2>2. /\ m - k \in 1..l /\ n - k \in 1..l /\ m - k < n - k
        /\ u[m] = t[m - k] /\ u[n] = t[n - k]
    <3>1. m - k < n - k
      BY <1>1
    <3> QED
      BY <1>4, <1>7, <2>1, <3>1
  <2> QED
    BY <1>1, <2>2 DEF Ordered
<1> QED
  BY <1>5, <1>6, <1>7
=============================================================================
