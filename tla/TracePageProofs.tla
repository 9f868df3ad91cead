--------------------------- MODULE TracePageProofs ----------------------------
(***************************************************************************)
(* The page of a trace, for every trace and every set of spans the tables  *)
(* can hold: it keeps no content (EveryPageIsClean), it cannot be made     *)
(* exactly where parents form a cycle (CyclesOnly), and what it shows is   *)
(* what TracePage promises (EveryPageIsFaithful).                          *)
(*                                                                         *)
(* The recursive functions of TracePage are CHOOSEs of a table; each is    *)
(* shown to exist, and to be the only one, before it is used.  A depth is  *)
(* counted along the parents of a span: without a cycle a chain of parents *)
(* visits no span twice, so the walk ends at a top before it runs out.     *)
(***************************************************************************)
EXTENDS TracePage, FiniteSetTheorems, NaturalsInduction, WellFoundedInduction, TLAPS

(* What the strip rule leaves, the tripwire lets pass (views.ts).           *)
LEMMA StripSatisfiesTripwire ==
    ASSUME NEW keys
    PROVE  ~Tripped(stripContentAttributes(keys))
BY DEF Tripped, stripContentAttributes, keyLooksLikeContent, ContentSegmentWords

(* The projection of no trace is refused: GET /r/:token never answers 404   *)
(* for a ContentProjectionError.                                            *)
LEMMA ProjectionNeverRefused ==
    ASSUME NEW trace, NEW rows
    PROVE  ~ProjectionRefused(trace, rows)
<1>1. ~Tripped(toPublicTrace(trace).keys)
    BY StripSatisfiesTripwire DEF toPublicTrace
<1>2. ASSUME NEW i \in DOMAIN rows
      PROVE  ~Tripped(toPublicSpans(rows)[i].keys)
    BY StripSatisfiesTripwire DEF toPublicSpans, toPublicSpan
<1> QED
    BY <1>1, <1>2 DEF ProjectionRefused

(* A page carries keys the strip rule left, and nothing else.               *)
LEMMA PageKeysAreStripped ==
    ASSUME NEW trace, NEW rows,
           PublicPage(trace, rows).status = 200,
           NEW key \in PublicPage(trace, rows).keys
    PROVE  ~keyLooksLikeContent(key)
<1> DEFINE t == toPublicTrace(trace)
           r == toPublicSpans(rows)
<1>1. PublicPage(trace, rows).keys = t.keys \cup UNION {s.keys : s \in SpanSet(r)}
    BY ProjectionNeverRefused DEF PublicPage
<1>2. CASE key \in t.keys
    BY <1>2 DEF toPublicTrace, stripContentAttributes
<1>3. CASE key \in UNION {s.keys : s \in SpanSet(r)}
    <2>1. PICK i \in DOMAIN rows : key \in toPublicSpan(rows[i]).keys
        BY <1>3 DEF SpanSet, toPublicSpans
    <2> QED
        BY <2>1 DEF toPublicSpan, stripContentAttributes
<1> QED
    BY <1>1, <1>2, <1>3

(* Every page made from a trace row and span rows is clean.                 *)
LEMMA EveryPageIsClean ==
    ASSUME NEW trace, NEW rows
    PROVE  Clean(PublicPage(trace, rows))
<1>1. PublicPage(trace, rows).status # 404
    BY ProjectionNeverRefused DEF PublicPage
<1>2. ASSUME PublicPage(trace, rows).status = 200,
             NEW key \in PublicPage(trace, rows).keys
      PROVE  /\ \A i \in DOMAIN key : key[i] \notin ContentSegmentWords
             /\ ~(key[1] = "content" /\ Len(key) > 1)
             /\ key \notin ContentAttrDenylist
    BY <1>2, PageKeysAreStripped DEF keyLooksLikeContent
<1> QED
    BY <1>1, <1>2 DEF Clean

-----------------------------------------------------------------------------
(* A set of numbers that is not empty has a least one.                      *)
LEMMA LeastNumber ==
    ASSUME NEW T, T \subseteq Nat, T # {}
    PROVE  \E x \in T : \A y \in T : x <= y
<1>1. PICK x \in T : \A y \in T : ~(<<y, x>> \in OpToRel(<, Nat))
    BY Zenon, WFMin, NatLessThanWellFounded
<1>2. ASSUME NEW y \in T PROVE x <= y
  <2>1. ~(y < x)
      BY <1>1 DEF OpToRel
  <2> QED BY <2>1
<1> QED BY <1>2

(* Induction over the numbers, stated of a set of them.                     *)
LEMMA NumbersByInduction ==
    ASSUME NEW T, 0 \in T, \A n \in Nat : n \in T => n + 1 \in T
    PROVE  Nat \subseteq T
<1> SUFFICES ASSUME Nat \ T # {} PROVE FALSE
    OBVIOUS
<1>1. PICK x \in Nat \ T : \A y \in Nat \ T : x <= y
    BY LeastNumber
<1>2. x - 1 \in Nat /\ x - 1 \notin Nat \ T
    BY <1>1
<1>3. (x - 1) + 1 \in T
    BY <1>2
<1> QED BY <1>1, <1>3

(* A finite set of whole numbers that is not empty has a least and a        *)
(* greatest element: of a larger set, the lesser of one and of the rest.    *)
LEMMA Extremes ==
    ASSUME NEW S, IsFiniteSet(S), S \subseteq Int, S # {}
    PROVE  /\ Least(S) \in S /\ \A y \in S : Least(S) <= y
           /\ Greatest(S) \in S /\ \A y \in S : Greatest(S) >= y
<1> DEFINE Both(U) == /\ \E x \in U : \A y \in U : x <= y
                      /\ \E x \in U : \A y \in U : x >= y
           T == {n \in Nat : \A U \in SUBSET S : Cardinality(U) = n + 1 => Both(U)}
<1>1. 0 \in T
  <2>1. ASSUME NEW U \in SUBSET S, Cardinality(U) = 1
        PROVE  Both(U)
    <3>1. PICK x : U = {x}
        BY <2>1, FS_Subset, FS_Singleton
    <3>2. x \in Int
        BY <3>1
    <3> QED BY <3>1, <3>2
  <2> QED BY <2>1
<1>2. ASSUME NEW n \in Nat, n \in T
      PROVE  n + 1 \in T
  <2> SUFFICES ASSUME NEW U \in SUBSET S, Cardinality(U) = (n + 1) + 1
               PROVE  Both(U)
      OBVIOUS
  <2>1. IsFiniteSet(U) /\ U # {}
    <3>1. IsFiniteSet(U)
        BY FS_Subset
    <3>2. U = {} => Cardinality(U) = 0
        BY FS_EmptySet
    <3> QED BY <3>1, <3>2
  <2>2. PICK x \in U : TRUE
      BY <2>1
  <2>3. Cardinality(U \ {x}) = n + 1 /\ U \ {x} \in SUBSET S
    <3>1. Cardinality(U \ {x}) = Cardinality(U) - 1
        BY <2>1, <2>2, FS_RemoveElement
    <3> QED BY <3>1
  <2>4. Both(U \ {x})
      BY <1>2, <2>3
  <2>5. PICK a \in U \ {x} : \A y \in U \ {x} : a <= y
      BY <2>4
  <2>6. PICK b \in U \ {x} : \A y \in U \ {x} : b >= y
      BY <2>4
  <2>7. /\ \E z \in {a, x} : z <= a /\ z <= x
        /\ \E z \in {b, x} : z >= b /\ z >= x
      BY <2>2
  <2>8. /\ \E z \in U : \A y \in U : z <= y
      BY <2>5, <2>7
  <2>9. /\ \E z \in U : \A y \in U : z >= y
      BY <2>6, <2>7
  <2> QED BY <2>8, <2>9
<1> HIDE DEF T
<1>3. Nat \subseteq T
    BY <1>1, <1>2, NumbersByInduction
<1>4. Cardinality(S) - 1 \in Nat
  <2>1. Cardinality(S) \in Nat
      BY FS_CardinalityType
  <2>2. Cardinality(S) # 0
      BY FS_EmptySet
  <2> QED BY <2>1, <2>2
<1>5. Both(S)
  <2>1. Cardinality(S) - 1 \in T /\ Cardinality(S) = (Cardinality(S) - 1) + 1
      BY <1>3, <1>4, FS_CardinalityType
  <2> QED BY <2>1 DEF T
<1> QED BY <1>5 DEF Least, Greatest

-----------------------------------------------------------------------------
(* How deep a span is.                                                      *)

(* The table that depthByParent looks depths up in: g[n][id] after at most  *)
(* n parents.                                                               *)
IdsOf(S) == {s.id : s \in S}
ParentOf(S, id) == (CHOOSE s \in S : s.id = id).parent
WalkAt(g, S, n, id) ==
    IF id \notin IdsOf(S) THEN 0
    ELSE IF ParentOf(S, id) = None THEN 0
    ELSE IF n = 0 THEN Cyclic
    ELSE LET d == g[n - 1][ParentOf(S, id)] IN IF d = Cyclic THEN Cyclic ELSE d + 1
Walked(g, S, N) ==
    g = [n \in 0 .. N |-> [id \in IdsOf(S) \cup {s.parent : s \in S} |-> WalkAt(g, S, n, id)]]

(* There is such a table.                                                   *)
LEMMA WalkExists ==
    ASSUME NEW S, NEW N \in Nat
    PROVE  \E g : Walked(g, S, N)
<1> DEFINE I == IdsOf(S) \cup {s.parent : s \in S}
           T == {m \in Nat : \E g : Walked(g, S, m)}
           F(g, m) == [n \in 0 .. m |-> [id \in I |-> WalkAt(g, S, n, id)]]
<1>1. 0 \in T
  <2>1. F(<<>>, 0) = F(F(<<>>, 0), 0)
    <3>1. ASSUME NEW g, NEW n \in 0 .. 0, NEW id PROVE WalkAt(g, S, n, id) = WalkAt(<<>>, S, n, id)
      <4>1. n = 0
          OBVIOUS
      <4> QED BY Zenon, <4>1 DEF WalkAt
    <3> QED BY Zenon, <3>1
  <2>2. Walked(F(<<>>, 0), S, 0)
      BY Zenon, <2>1 DEF Walked
  <2> QED BY <2>2
<1>2. ASSUME NEW m \in Nat, m \in T
      PROVE  m + 1 \in T
  <2>1. PICK g : Walked(g, S, m)
      BY <1>2
  <2> DEFINE h == F(g, m + 1)
  <2>2. ASSUME NEW n \in 0 .. m + 1, n # 0
        PROVE  h[n - 1] = g[n - 1]
    <3>1. n - 1 \in 0 .. m /\ n - 1 \in 0 .. m + 1
        BY <2>2
    <3>2. g = F(g, m)
        BY <2>1 DEF Walked
    <3>3. g[n - 1] = [id \in I |-> WalkAt(g, S, n - 1, id)]
        BY Zenon, <3>1, <3>2
    <3>4. h[n - 1] = [id \in I |-> WalkAt(g, S, n - 1, id)]
        BY Zenon, <3>1
    <3> QED BY <3>3, <3>4
  <2>3. ASSUME NEW n \in 0 .. m + 1
        PROVE  h[n] = [id \in I |-> WalkAt(h, S, n, id)]
    <3>1. h[n] = [id \in I |-> WalkAt(g, S, n, id)]
        OBVIOUS
    <3> HIDE DEF h, I
    <3>2. ASSUME NEW id PROVE WalkAt(g, S, n, id) = WalkAt(h, S, n, id)
        BY Zenon, <2>2 DEF WalkAt
    <3> QED BY Zenon, <3>1, <3>2
  <2>4. h = [n \in 0 .. m + 1 |-> h[n]]
      OBVIOUS
  <2> HIDE DEF h
  <2>5. Walked(h, S, m + 1)
      BY Zenon, <2>3, <2>4 DEF Walked
  <2> QED BY <2>5
<1> HIDE DEF T
<1>3. Nat \subseteq T
    BY <1>1, <1>2, NumbersByInduction
<1> QED BY <1>3 DEF T

(* What depthByParent looks up is its last line.                            *)
LEMMA DepthIsWalked ==
    ASSUME NEW S, Cardinality(S) \in Nat
    PROVE  \E g : /\ Walked(g, S, Cardinality(S))
                  /\ depthByParent(S) = [id \in IdsOf(S) |-> g[Cardinality(S)][id]]
<1> DEFINE f == CHOOSE g : Walked(g, S, Cardinality(S))
<1>1. Walked(f, S, Cardinality(S))
    BY WalkExists
<1>2. depthByParent(S) = [id \in IdsOf(S) |-> f[Cardinality(S)][id]]
    BY Zenon DEF depthByParent, Walked, WalkAt, IdsOf, ParentOf
<1> QED BY <1>1, <1>2

(* Span rows with ids of their own.                                         *)
Keyed(S) == IsFiniteSet(S) /\ None \notin IdsOf(S) /\ \A s, t \in S : s.id = t.id => s = t

(* What a line of the table says of the spans, given the line before.       *)
LEMMA WalkSays ==
    ASSUME NEW S, Keyed(S), NEW N \in Nat, NEW g, Walked(g, S, N), NEW n \in 0 .. N, NEW s \in S
    PROVE  /\ s.parent = None => g[n][s.id] = 0
           /\ s.parent # None /\ n = 0 => g[n][s.id] = Cyclic
           /\ s.parent # None /\ n # 0 /\ s.parent \notin IdsOf(S) => g[n][s.id] = 1
           /\ \A t \in S : n # 0 /\ s.parent = t.id =>
                g[n][s.id] = IF g[n - 1][t.id] = Cyclic THEN Cyclic ELSE g[n - 1][t.id] + 1
<1> DEFINE I == IdsOf(S) \cup {t.parent : t \in S}
<1>1. s.id \in IdsOf(S) /\ s.parent \in I /\ s.id \in I
    BY DEF IdsOf
<1>2. ParentOf(S, s.id) = s.parent
  <2>1. (CHOOSE t \in S : t.id = s.id) = s
      BY DEF Keyed
  <2> QED BY <2>1 DEF ParentOf
<1>3. g[n] = [id \in I |-> WalkAt(g, S, n, id)]
    BY Zenon DEF Walked
<1>4. g[n][s.id] = WalkAt(g, S, n, s.id)
    BY Zenon, <1>1, <1>3
<1>5. ASSUME s.parent \notin IdsOf(S), n # 0
      PROVE  g[n - 1][s.parent] = 0
  <2>1. n - 1 \in 0 .. N
      BY <1>5
  <2>2. g[n - 1] = [id \in I |-> WalkAt(g, S, n - 1, id)]
      BY Zenon, <2>1 DEF Walked
  <2>3. g[n - 1][s.parent] = WalkAt(g, S, n - 1, s.parent)
      BY Zenon, <1>1, <2>2
  <2> QED BY Zenon, <1>5, <2>3 DEF WalkAt
<1>6. ASSUME NEW t \in S, s.parent = t.id
      PROVE  s.parent # None
    BY <1>6 DEF Keyed, IdsOf
<1> HIDE DEF I
<1>7. s.parent = None => g[n][s.id] = 0
    BY Zenon, <1>1, <1>2, <1>4 DEF WalkAt
<1>8. s.parent # None /\ n = 0 => g[n][s.id] = Cyclic
    BY Zenon, <1>1, <1>2, <1>4 DEF WalkAt
<1>9. s.parent # None /\ n # 0 =>
        g[n][s.id] = IF g[n - 1][s.parent] = Cyclic THEN Cyclic ELSE g[n - 1][s.parent] + 1
    BY Zenon, <1>1, <1>2, <1>4 DEF WalkAt
<1>10. s.parent # None /\ n # 0 /\ s.parent \notin IdsOf(S) => g[n][s.id] = 1
    BY <1>5, <1>9 DEF Cyclic
<1> QED BY Zenon, <1>6, <1>7, <1>8, <1>9, <1>10

(* A depth is at most the number of parents looked at.                      *)
LEMMA WalkRange ==
    ASSUME NEW S, Keyed(S), NEW N \in Nat, NEW g, Walked(g, S, N), NEW n \in 0 .. N, NEW s \in S
    PROVE  g[n][s.id] = Cyclic \/ g[n][s.id] \in 0 .. n
<1> DEFINE Good(m) == \A t \in S : g[m][t.id] = Cyclic \/ g[m][t.id] \in 0 .. m
           T == {m \in Nat : m <= N => Good(m)}
<1>1. 0 \in T
  <2>1. \A t \in S : g[0][t.id] = Cyclic \/ g[0][t.id] = 0
      BY WalkSays, 0 \in 0 .. N
  <2> QED BY <2>1
<1>2. ASSUME NEW m \in Nat, m \in T
      PROVE  m + 1 \in T
  <2> SUFFICES ASSUME m + 1 <= N, NEW t \in S
               PROVE  g[m + 1][t.id] = Cyclic \/ g[m + 1][t.id] \in 0 .. m + 1
      OBVIOUS
  <2>1. m + 1 \in 0 .. N /\ m + 1 # 0 /\ (m + 1) - 1 = m /\ Good(m)
      BY <1>2
  <2>2. /\ t.parent = None => g[m + 1][t.id] = 0
        /\ t.parent # None /\ t.parent \notin IdsOf(S) => g[m + 1][t.id] = 1
        /\ \A u \in S : t.parent = u.id =>
             g[m + 1][t.id] = IF g[m][u.id] = Cyclic THEN Cyclic ELSE g[m][u.id] + 1
      BY <2>1, WalkSays
  <2>3. CASE t.parent \in IdsOf(S)
    <3>1. PICK u \in S : t.parent = u.id
        BY <2>3 DEF IdsOf
    <3>2. g[m][u.id] = Cyclic \/ g[m][u.id] \in 0 .. m
        BY <2>1
    <3> QED BY <2>2, <3>1, <3>2
  <2>4. CASE t.parent \notin IdsOf(S)
      BY <2>2, <2>4
  <2> QED BY <2>3, <2>4
<1> HIDE DEF T
<1>3. n \in T
    BY <1>1, <1>2, NumbersByInduction
<1> QED BY <1>3 DEF T

(* A depth that is known stays as it is.                                    *)
LEMMA WalkStays ==
    ASSUME NEW S, Keyed(S), NEW N \in Nat, NEW g, Walked(g, S, N), NEW n \in Nat, n + 1 <= N,
           NEW s \in S, g[n][s.id] # Cyclic
    PROVE  g[n + 1][s.id] = g[n][s.id]
<1> DEFINE Good(m) == \A t \in S : g[m][t.id] # Cyclic => g[m + 1][t.id] = g[m][t.id]
           T == {m \in Nat : m + 1 <= N => Good(m)}
<1>1. 0 \in T
  <2> SUFFICES ASSUME 0 + 1 <= N, NEW t \in S, g[0][t.id] # Cyclic
               PROVE  g[0 + 1][t.id] = g[0][t.id]
      OBVIOUS
  <2>1. 0 \in 0 .. N /\ 0 + 1 \in 0 .. N
      OBVIOUS
  <2>2. t.parent = None /\ g[0][t.id] = 0
      BY <2>1, WalkSays
  <2> QED BY <2>1, <2>2, WalkSays
<1>2. ASSUME NEW m \in Nat, m \in T
      PROVE  m + 1 \in T
  <2> SUFFICES ASSUME (m + 1) + 1 <= N, NEW t \in S, g[m + 1][t.id] # Cyclic
               PROVE  g[(m + 1) + 1][t.id] = g[m + 1][t.id]
      OBVIOUS
  <2>1. /\ m + 1 \in 0 .. N /\ m + 1 # 0 /\ (m + 1) - 1 = m /\ Good(m)
        /\ (m + 1) + 1 \in 0 .. N /\ (m + 1) + 1 # 0 /\ ((m + 1) + 1) - 1 = m + 1
      BY <1>2
  <2>2. /\ t.parent = None => g[m + 1][t.id] = 0
        /\ t.parent # None /\ t.parent \notin IdsOf(S) => g[m + 1][t.id] = 1
        /\ \A u \in S : t.parent = u.id =>
             g[m + 1][t.id] = IF g[m][u.id] = Cyclic THEN Cyclic ELSE g[m][u.id] + 1
      BY <2>1, WalkSays
  <2>3. /\ t.parent = None => g[(m + 1) + 1][t.id] = 0
        /\ t.parent # None /\ t.parent \notin IdsOf(S) => g[(m + 1) + 1][t.id] = 1
        /\ \A u \in S : t.parent = u.id =>
             g[(m + 1) + 1][t.id] = IF g[m + 1][u.id] = Cyclic THEN Cyclic ELSE g[m + 1][u.id] + 1
      BY <2>1, WalkSays
  <2>4. CASE t.parent \in IdsOf(S)
    <3>1. PICK u \in S : t.parent = u.id
        BY <2>4 DEF IdsOf
    <3>2. g[m][u.id] # Cyclic
        BY <2>2, <3>1
    <3>3. g[m + 1][u.id] = g[m][u.id]
        BY <2>1, <3>2
    <3> QED BY <2>2, <2>3, <3>1, <3>2, <3>3
  <2>5. CASE t.parent \notin IdsOf(S)
      BY <2>2, <2>3, <2>5
  <2> QED BY <2>4, <2>5
<1> HIDE DEF T
<1>3. n \in T
    BY <1>1, <1>2, NumbersByInduction
<1> QED BY <1>3 DEF T

(* What depths mean: none without a parent, one under a parent that is not  *)
(* there, and one more than that of the parent that is.                     *)
Depths(d, S) ==
    \A s \in S :
      /\ d[s.id] \in 0 .. Cardinality(S)
      /\ s.parent = None => d[s.id] = 0
      /\ s.parent # None /\ s.parent \notin IdsOf(S) => d[s.id] = 1
      /\ \A t \in S : s.parent = t.id => d[s.id] = d[t.id] + 1

(* Depths that are all known are right.                                     *)
LEMMA KnownDepths ==
    ASSUME NEW S, Keyed(S), \A s \in S : depthByParent(S)[s.id] # Cyclic
    PROVE  Depths(depthByParent(S), S)
<1> DEFINE N == Cardinality(S)
           d == depthByParent(S)
<1>1. N \in Nat
    BY FS_CardinalityType DEF Keyed
<1>2. PICK g : Walked(g, S, N) /\ d = [id \in IdsOf(S) |-> g[N][id]]
    BY <1>1, DepthIsWalked
<1>3. \A s \in S : d[s.id] = g[N][s.id]
    BY <1>2 DEF IdsOf
<1> HIDE DEF d
<1>a. \A s \in S : d[s.id] # Cyclic
    BY DEF d
<1> SUFFICES ASSUME NEW s \in S
             PROVE  /\ d[s.id] \in 0 .. N
                    /\ s.parent = None => d[s.id] = 0
                    /\ s.parent # None /\ s.parent \notin IdsOf(S) => d[s.id] = 1
                    /\ \A t \in S : s.parent = t.id => d[s.id] = d[t.id] + 1
    BY Zenon DEF Depths, d
<1>4. N \in 0 .. N /\ N # 0
  <2>1. N # 0
      BY FS_EmptySet DEF Keyed
  <2> QED BY <1>1, <2>1
<1> HIDE DEF N
<1>5. d[s.id] \in 0 .. N
  <2>1. g[N][s.id] = Cyclic \/ g[N][s.id] \in 0 .. N
      BY <1>1, <1>2, <1>4, WalkRange
  <2> QED BY <1>a, <1>3, <2>1
<1>6. /\ s.parent = None => d[s.id] = 0
      /\ s.parent # None /\ s.parent \notin IdsOf(S) => d[s.id] = 1
    BY <1>1, <1>2, <1>3, <1>4, WalkSays
<1>7. ASSUME NEW t \in S, s.parent = t.id
      PROVE  d[s.id] = d[t.id] + 1
  <2>1. g[N][s.id] = IF g[N - 1][t.id] = Cyclic THEN Cyclic ELSE g[N - 1][t.id] + 1
      BY <1>1, <1>2, <1>4, <1>7, WalkSays
  <2>2. g[N - 1][t.id] # Cyclic /\ g[N][s.id] = g[N - 1][t.id] + 1
      BY <1>a, <1>3, <2>1
  <2>3. N - 1 \in Nat /\ (N - 1) + 1 = N /\ (N - 1) + 1 <= N
      BY <1>1, <1>4
  <2>4. g[N][t.id] = g[N - 1][t.id]
    <3> DEFINE n == N - 1
    <3>1. n \in Nat /\ n + 1 = N /\ n + 1 <= N /\ g[n][t.id] # Cyclic
        BY <2>2, <2>3
    <3> HIDE DEF n
    <3>2. g[n + 1][t.id] = g[n][t.id]
        BY <1>1, <1>2, <3>1, WalkStays
    <3>3. g[N][t.id] = g[n][t.id]
        BY Zenon, <3>1, <3>2
    <3> QED BY Zenon, <3>3 DEF n
  <2> QED BY <1>3, <2>2, <2>4
<1> QED BY Zenon, <1>5, <1>6, <1>7

(* Depths that mean this leave no room for a cycle: going up it, they would *)
(* fall forever.                                                            *)
LEMMA DepthsNoCycle ==
    ASSUME NEW S, NEW d, Depths(d, S)
    PROVE  ~HasCycle(S)
<1> SUFFICES ASSUME NEW C \in SUBSET S, C # {}, \A s \in C : \E t \in C : s.parent = t.id
             PROVE  FALSE
    BY DEF HasCycle
<1> DEFINE T == {d[s.id] : s \in C}
<1>1. T \subseteq Nat /\ T # {}
    BY DEF Depths
<1>2. PICK x \in T : \A y \in T : x <= y
    BY <1>1, LeastNumber
<1>3. PICK s \in C : x = d[s.id]
    BY <1>2
<1>4. PICK t \in C : s.parent = t.id
    OBVIOUS
<1>5. d[s.id] = d[t.id] + 1 /\ d[t.id] \in Nat /\ d[t.id] \in T
    BY <1>4 DEF Depths
<1>6. x <= d[t.id]
    BY <1>2, <1>5
<1> HIDE DEF T
<1> QED BY <1>3, <1>5, <1>6

(* Where a depth stays unknown there is a cycle: without one, each further  *)
(* line of the table knows one more.                                        *)
LEMMA NoCycleNoCyclic ==
    ASSUME NEW S, Keyed(S), ~HasCycle(S), NEW x \in S
    PROVE  depthByParent(S)[x.id] # Cyclic
<1> DEFINE N == Cardinality(S)
<1>1. N \in Nat
    BY FS_CardinalityType DEF Keyed
<1>2. PICK g : /\ Walked(g, S, N)
               /\ depthByParent(S) = [id \in IdsOf(S) |-> g[N][id]]
    BY <1>1, DepthIsWalked
<1> DEFINE Bad(n) == {s \in S : g[n][s.id] = Cyclic}
           Few(n) == IsFiniteSet(Bad(n)) /\ Cardinality(Bad(n)) <= N - n
           T == {n \in Nat : n <= N => Few(n)}
<1>3. \A n : Bad(n) \in SUBSET S /\ IsFiniteSet(Bad(n)) /\ Cardinality(Bad(n)) \in Nat
  <2> SUFFICES ASSUME NEW n
               PROVE  Bad(n) \in SUBSET S /\ IsFiniteSet(Bad(n)) /\ Cardinality(Bad(n)) \in Nat
      OBVIOUS
  <2>1. Bad(n) \in SUBSET S
      OBVIOUS
  <2> HIDE DEF Bad
  <2> QED BY <2>1, FS_Subset, FS_CardinalityType DEF Keyed
<1>4. 0 \in T
  <2>1. Cardinality(Bad(0)) <= N
    <3>1. Bad(0) \in SUBSET S
        BY <1>3
    <3> HIDE DEF Bad
    <3> QED BY <3>1, FS_Subset DEF Keyed
  <2> HIDE DEF Bad, N
  <2> QED BY <1>1, <1>3, <2>1
<1>5. ASSUME NEW n \in Nat, n \in T
      PROVE  n + 1 \in T
  <2> SUFFICES ASSUME n + 1 <= N
               PROVE  Few(n + 1)
      OBVIOUS
  <2>1. /\ n + 1 \in 0 .. N /\ n \in 0 .. N /\ n + 1 # 0 /\ (n + 1) - 1 = n
        /\ Cardinality(Bad(n)) <= N - n
      BY <1>1, <1>5
  <2> HIDE DEF N
  <2>2. ASSUME NEW s \in Bad(n + 1)
        PROVE  s \in Bad(n) /\ \E t \in Bad(n) : s.parent = t.id
    <3>1. s \in S /\ g[n + 1][s.id] = Cyclic
        OBVIOUS
    <3>2. g[n][s.id] = Cyclic
        BY <1>1, <1>2, <3>1, WalkStays
    <3>3. /\ s.parent = None => g[n + 1][s.id] = 0
          /\ s.parent # None /\ s.parent \notin IdsOf(S) => g[n + 1][s.id] = 1
          /\ \A u \in S : s.parent = u.id =>
               g[n + 1][s.id] = IF g[n][u.id] = Cyclic THEN Cyclic ELSE g[n][u.id] + 1
        BY <1>1, <1>2, <2>1, <3>1, WalkSays
    <3>4. PICK u \in S : s.parent = u.id
        BY <3>1, <3>3 DEF IdsOf, Cyclic
    <3>5. g[n][u.id] = Cyclic
      <4>1. g[n][u.id] = Cyclic \/ g[n][u.id] \in 0 .. n
          BY <1>1, <1>2, <2>1, WalkRange
      <4> QED BY <3>1, <3>3, <3>4, <4>1 DEF Cyclic
    <3> QED BY <3>1, <3>2, <3>4, <3>5
  <2>3. CASE Bad(n + 1) = Bad(n)
    <3> DEFINE C == Bad(n + 1)
    <3>1. C \in SUBSET S /\ \A s \in C : \E t \in C : s.parent = t.id
        BY <2>2, <2>3
    <3> HIDE DEF C
    <3>2. C = {}
        BY <3>1 DEF HasCycle
    <3>3. IsFiniteSet(C) /\ Cardinality(C) = 0
        BY <3>2, FS_EmptySet
    <3>4. Cardinality(C) <= N - (n + 1)
        BY <1>1, <3>3
    <3> QED BY <3>3, <3>4 DEF C
  <2>4. CASE Bad(n + 1) # Bad(n)
    <3>1. Bad(n + 1) \in SUBSET Bad(n)
        BY <2>2
    <3>2. IsFiniteSet(Bad(n)) /\ Cardinality(Bad(n)) \in Nat /\ Cardinality(Bad(n + 1)) \in Nat
        BY <1>3
    <3> HIDE DEF Bad
    <3>3. /\ IsFiniteSet(Bad(n + 1)) /\ Cardinality(Bad(n + 1)) <= Cardinality(Bad(n))
          /\ Cardinality(Bad(n + 1)) # Cardinality(Bad(n))
        BY <2>4, <3>1, <3>2, FS_Subset
    <3> QED BY <1>1, <2>1, <3>2, <3>3
  <2> QED BY <2>3, <2>4
<1>6. N \in T
  <2> HIDE DEF T
  <2> QED BY <1>1, <1>4, <1>5, NumbersByInduction
<1>7. Bad(N) = {}
  <2> HIDE DEF Bad, N
  <2>1. Cardinality(Bad(N)) = 0
      BY <1>1, <1>3, <1>6
  <2> QED BY <1>3, <2>1, FS_EmptySet
<1>8. depthByParent(S)[x.id] = g[N][x.id]
    BY <1>2 DEF IdsOf
<1> QED BY <1>7, <1>8

(* The walk along the parents ends for every span exactly where there is   *)
(* no cycle of them (depthByParent, metrics.ts).                            *)
THEOREM CyclesOnly ==
    ASSUME NEW S, Keyed(S)
    PROVE  HasCycle(S) <=> \E s \in S : depthByParent(S)[s.id] = Cyclic
  BY NoCycleNoCyclic, KnownDepths, DepthsNoCycle

-----------------------------------------------------------------------------
(* The spans above a span.                                                  *)

(* Each step up a chain of parents takes one off the depth.                 *)
LEMMA ChainRises ==
    ASSUME NEW S, NEW d, Depths(d, S), NEW n \in Nat, NEW chain \in [1 .. n + 1 -> S],
           \A i \in 1 .. n : chain[i].parent = chain[i + 1].id
    PROVE  d[chain[1].id] = d[chain[n + 1].id] + n
<1> DEFINE T == {m \in Nat : m <= n => d[chain[1].id] = d[chain[m + 1].id] + m}
<1>1. \A i \in 1 .. n + 1 : chain[i] \in S /\ d[chain[i].id] \in Nat
    BY DEF Depths
<1>2. 0 \in T
    BY <1>1
<1>3. ASSUME NEW m \in Nat, m \in T
      PROVE  m + 1 \in T
  <2> SUFFICES ASSUME m + 1 <= n
               PROVE  d[chain[1].id] = d[chain[(m + 1) + 1].id] + (m + 1)
      OBVIOUS
  <2>1. m + 1 \in 1 .. n /\ m + 1 \in 1 .. n + 1 /\ (m + 1) + 1 \in 1 .. n + 1
      OBVIOUS
  <2>2. d[chain[m + 1].id] = d[chain[(m + 1) + 1].id] + 1
      BY <1>1, <2>1 DEF Depths
  <2>3. d[chain[1].id] = d[chain[m + 1].id] + m
      BY <1>3
  <2> DEFINE a == d[chain[1].id]
             b == d[chain[m + 1].id]
             c == d[chain[(m + 1) + 1].id]
  <2>4. a = b + m /\ b = c + 1 /\ c \in Nat
      BY <1>1, <2>1, <2>2, <2>3
  <2> HIDE DEF a, b, c
  <2>5. a = c + (m + 1)
      BY <2>4
  <2> QED BY <2>5 DEF a, c
<1> HIDE DEF T
<1>4. n \in T
    BY <1>2, <1>3, NumbersByInduction
<1> QED BY <1>4 DEF T

(* No span is above one whose parent is not there.                          *)
LEMMA NoAncestors ==
    ASSUME NEW S, NEW s \in S, s.parent \notin IdsOf(S)
    PROVE  Ancestors(S, s) = {}
<1> SUFFICES ASSUME NEW a \in Ancestors(S, s) PROVE FALSE
    OBVIOUS
<1>1. PICK n \in 1 .. Cardinality(S) :
        \E chain \in [1 .. n + 1 -> S] :
          chain[1] = s /\ chain[n + 1] = a /\ \A i \in 1 .. n : chain[i].parent = chain[i + 1].id
    BY DEF Ancestors
<1>2. PICK chain \in [1 .. n + 1 -> S] :
        chain[1] = s /\ chain[n + 1] = a /\ \A i \in 1 .. n : chain[i].parent = chain[i + 1].id
    BY <1>1
<1>3. 1 \in 1 .. n /\ chain[1 + 1] \in S /\ s.parent = chain[1 + 1].id
    BY <1>2
<1> QED BY <1>3 DEF IdsOf

(* Above a span are its parent and the spans above that, which it is not.   *)
LEMMA AncestorsOfChild ==
    ASSUME NEW S, Keyed(S), NEW d, Depths(d, S), NEW s \in S, NEW t \in S, s.parent = t.id
    PROVE  Ancestors(S, s) = {t} \cup Ancestors(S, t) /\ t \notin Ancestors(S, t)
<1> DEFINE Chained(x, a, n, chain) ==
             /\ chain[1] = x /\ chain[n + 1] = a
             /\ \A i \in 1 .. n : chain[i].parent = chain[i + 1].id
<1>1. \A x, a : a \in Ancestors(S, x) <=>
        /\ a \in S
        /\ \E n \in 1 .. Cardinality(S) : \E chain \in [1 .. n + 1 -> S] : Chained(x, a, n, chain)
    BY Zenon DEF Ancestors
<1>2. Cardinality(S) \in Nat /\ \A x \in S : d[x.id] \in 0 .. Cardinality(S)
    BY FS_CardinalityType DEF Keyed, Depths
<1>3. d[s.id] = d[t.id] + 1
    BY DEF Depths
<1>4. ASSUME NEW a \in S, NEW n \in 1 .. Cardinality(S), NEW chain \in [1 .. n + 1 -> S],
             Chained(t, a, n, chain)
      PROVE  d[t.id] = d[a.id] + n
  <2>1. d[chain[1].id] = d[chain[n + 1].id] + n
      BY <1>4, ChainRises
  <2> QED BY <1>4, <2>1
<1>5. t \notin Ancestors(S, t)
  <2> SUFFICES ASSUME t \in Ancestors(S, t) PROVE FALSE
      OBVIOUS
  <2>1. PICK n \in 1 .. Cardinality(S) : \E chain \in [1 .. n + 1 -> S] : Chained(t, t, n, chain)
      BY <1>1
  <2>2. d[t.id] = d[t.id] + n
      BY <1>4, <2>1
  <2> QED BY <1>2, <2>2
<1>6. ASSUME NEW a \in Ancestors(S, s)
      PROVE  a \in {t} \cup Ancestors(S, t)
  <2>1. PICK n \in 1 .. Cardinality(S) : \E chain \in [1 .. n + 1 -> S] : Chained(s, a, n, chain)
      BY <1>1, <1>6
  <2>2. PICK chain \in [1 .. n + 1 -> S] : Chained(s, a, n, chain)
      BY <2>1
  <2>3. 1 \in 1 .. n /\ chain[1 + 1] \in S /\ chain[1 + 1].id = t.id
      BY <2>2
  <2>4. chain[2] = t
      BY <2>3 DEF Keyed
  <2>5. CASE n = 1
      BY <2>2, <2>4, <2>5
  <2>6. CASE n # 1
    <3> DEFINE rest == [i \in 1 .. n |-> chain[i + 1]]
               m == n - 1
    <3>1. m \in 1 .. Cardinality(S) /\ m + 1 = n
        BY <1>2, <2>6
    <3>2. rest \in [1 .. m + 1 -> S]
        BY <3>1
    <3>3. rest[1] = t /\ rest[m + 1] = a
        BY <2>2, <2>4, <3>1
    <3>4. ASSUME NEW i \in 1 .. m
          PROVE  rest[i].parent = rest[i + 1].id
      <4>1. i + 1 \in 1 .. n /\ i \in 1 .. n
          BY <3>1
      <4> QED BY <2>2, <4>1
    <3> HIDE DEF rest, m
    <3>5. Chained(t, a, m, rest)
        BY <3>3, <3>4
    <3>6. a \in S
        BY <1>1, <1>6
    <3> HIDE DEF Chained
    <3> QED BY Zenon, <1>1, <3>1, <3>2, <3>5, <3>6
  <2> QED BY <2>5, <2>6
<1>7. t \in Ancestors(S, s)
  <2> DEFINE pair == [i \in 1 .. 1 + 1 |-> IF i = 1 THEN s ELSE t]
  <2>1. 1 \in 1 .. Cardinality(S)
      BY <1>2, <1>3
  <2>2. pair \in [1 .. 1 + 1 -> S] /\ Chained(s, t, 1, pair)
      OBVIOUS
  <2> HIDE DEF Chained, pair
  <2> QED BY Zenon, <1>1, <2>1, <2>2
<1>8. ASSUME NEW a \in Ancestors(S, t)
      PROVE  a \in Ancestors(S, s)
  <2>1. PICK n \in 1 .. Cardinality(S) : \E chain \in [1 .. n + 1 -> S] : Chained(t, a, n, chain)
      BY <1>1, <1>8
  <2>2. PICK chain \in [1 .. n + 1 -> S] : Chained(t, a, n, chain)
      BY <2>1
  <2>3. a \in S
      BY <1>1, <1>8
  <2>4. d[t.id] = d[a.id] + n
      BY <1>4, <2>2, <2>3
  <2> DEFINE m == n + 1
             more == [i \in 1 .. m + 1 |-> IF i = 1 THEN s ELSE chain[i - 1]]
  <2>5. m \in 1 .. Cardinality(S)
      BY <1>2, <1>3, <2>3, <2>4
  <2>6. more \in [1 .. m + 1 -> S]
    <3> SUFFICES ASSUME NEW i \in 1 .. m + 1, i # 1 PROVE chain[i - 1] \in S
        OBVIOUS
    <3> QED OBVIOUS
  <2>7. more[1] = s /\ more[m + 1] = a
      BY <2>2
  <2>8. ASSUME NEW i \in 1 .. m
        PROVE  more[i].parent = more[i + 1].id
    <3>1. CASE i = 1
        BY <2>2, <3>1
    <3>2. CASE i # 1
      <4>1. i - 1 \in 1 .. n /\ (i - 1) + 1 = i /\ (i + 1) - 1 = i /\ i + 1 \in 1 .. m + 1
            /\ i + 1 # 1 /\ i \in 1 .. m + 1
          BY <3>2
      <4>2. more[i] = chain[i - 1] /\ more[i + 1] = chain[i]
          BY <3>2, <4>1
      <4> QED BY <2>2, <4>1, <4>2
    <3> QED BY <3>1, <3>2
  <2> HIDE DEF m, more
  <2>9. Chained(s, a, m, more)
      BY <2>7, <2>8
  <2> HIDE DEF Chained
  <2> QED BY Zenon, <1>1, <2>3, <2>5, <2>6, <2>9
<1> QED BY <1>5, <1>6, <1>7, <1>8

(* The topmost of a span and those above it.                                *)
Tops(S, s) == {a \in Ancestors(S, s) \cup {s} : ~\E b \in S : a.parent = b.id}

(* What a depth counts: the spans above, and one for a parent of the        *)
(* topmost that is not there.                                               *)
Counts(d, S, s) ==
    /\ IsFiniteSet(Ancestors(S, s))
    /\ \E x : /\ Tops(S, s) = {x}
              /\ d[s.id] = Cardinality(Ancestors(S, s)) + IF x.parent = None THEN 0 ELSE 1

(* Depths count them.                                                       *)
LEMMA DepthsCount ==
    ASSUME NEW S, Keyed(S), NEW d, Depths(d, S), NEW s \in S
    PROVE  Counts(d, S, s)
<1> DEFINE T == {n \in Nat : \A t \in S : d[t.id] = n => Counts(d, S, t)}
<1>1. ASSUME NEW t \in S, t.parent \notin IdsOf(S)
      PROVE  Counts(d, S, t)
  <2>1. Ancestors(S, t) = {}
      BY <1>1, NoAncestors
  <2>2. Tops(S, t) = {t}
      BY <1>1, <2>1 DEF Tops, IdsOf
  <2>3. d[t.id] = IF t.parent = None THEN 0 ELSE 1
      BY <1>1 DEF Depths
  <2>4. IsFiniteSet(Ancestors(S, t)) /\ Cardinality(Ancestors(S, t)) = 0
      BY <2>1, FS_EmptySet
  <2>5. d[t.id] = Cardinality(Ancestors(S, t)) + IF t.parent = None THEN 0 ELSE 1
      BY <2>3, <2>4
  <2> QED BY Zenon, <2>2, <2>4, <2>5 DEF Counts
<1>2. 0 \in T
  <2> SUFFICES ASSUME NEW t \in S, d[t.id] = 0 PROVE Counts(d, S, t)
      OBVIOUS
  <2>1. ASSUME NEW u \in S, t.parent = u.id PROVE FALSE
      BY <2>1 DEF Depths
  <2> QED BY <1>1, <2>1 DEF IdsOf
<1>3. ASSUME NEW n \in Nat, n \in T
      PROVE  n + 1 \in T
  <2> SUFFICES ASSUME NEW t \in S, d[t.id] = n + 1, t.parent \in IdsOf(S)
               PROVE  Counts(d, S, t)
      BY <1>1
  <2>1. PICK u \in S : t.parent = u.id
      BY DEF IdsOf
  <2>2. d[t.id] = d[u.id] + 1 /\ d[u.id] \in Nat
      BY <2>1 DEF Depths
  <2>3. Counts(d, S, u)
      BY <1>3, <2>2
  <2>4. Ancestors(S, t) = {u} \cup Ancestors(S, u) /\ u \notin Ancestors(S, u)
      BY <2>1, AncestorsOfChild
  <2>5. Tops(S, t) = Tops(S, u)
      BY <2>1, <2>4 DEF Tops
  <2>6. PICK x : /\ Tops(S, u) = {x}
                 /\ d[u.id] = Cardinality(Ancestors(S, u)) + IF x.parent = None THEN 0 ELSE 1
      BY <2>3 DEF Counts
  <2>7. /\ IsFiniteSet(Ancestors(S, t)) /\ Cardinality(Ancestors(S, u)) \in Nat
        /\ Cardinality(Ancestors(S, t)) = Cardinality(Ancestors(S, u)) + 1
    <3>1. IsFiniteSet(Ancestors(S, u))
        BY <2>3 DEF Counts
    <3>2. Ancestors(S, t) = Ancestors(S, u) \cup {u}
        BY <2>4
    <3> QED BY <2>4, <3>1, <3>2, FS_AddElement, FS_CardinalityType
  <2> DEFINE e == IF x.parent = None THEN 0 ELSE 1
  <2>8. e \in Nat
      OBVIOUS
  <2> HIDE DEF e
  <2>9. d[t.id] = Cardinality(Ancestors(S, t)) + e
    <3>1. d[u.id] = Cardinality(Ancestors(S, u)) + e
        BY Zenon, <2>6 DEF e
    <3> QED BY <2>2, <2>7, <2>8, <3>1
  <2> QED BY Zenon, <2>5, <2>6, <2>7, <2>9 DEF Counts, e
<1> HIDE DEF T
<1>4. d[s.id] \in Nat /\ Nat \subseteq T
  <2>1. d[s.id] \in Nat
      BY FS_CardinalityType DEF Depths, Keyed
  <2>2. Nat \subseteq T
      BY <1>2, <1>3, NumbersByInduction
  <2> QED BY <2>1, <2>2
<1> QED BY <1>4 DEF T

-----------------------------------------------------------------------------
(* The rows in the order of time.                                           *)

(* Rows that tables hold have ids of their own, none of them None.          *)
LEMMA StorableKeyed ==
    ASSUME NEW trace, NEW S, Storable(trace, S)
    PROVE  Keyed(S)
  BY RankAssumption DEF Storable, Keyed, IdsOf

(* What an order of pairs of numbers is, for three of them.                 *)
Lexical(x, i, y, j, z, k) ==
    /\ ~(x < x \/ (x = x /\ i < i))
    /\ i # j => (x < y \/ (x = y /\ i < j)) \/ (y < x \/ (y = x /\ j < i))
    /\ (x < y \/ (x = y /\ i < j)) /\ (y < z \/ (y = z /\ j < k)) => x < z \/ (x = z /\ i < k)

(* Pairs of numbers are ordered by the first of them, then by the second.   *)
LEMMA PairsOrdered ==
    ASSUME NEW x \in Int, NEW y \in Int, NEW z \in Int, NEW i \in Int, NEW j \in Int, NEW k \in Int
    PROVE  Lexical(x, i, y, j, z, k)
  BY DEF Lexical

(* Starts, and ids where they are equal, order the rows.                    *)
LEMMA EarlierOrders ==
    ASSUME NEW trace, NEW S, Storable(trace, S), NEW a \in S, NEW b \in S, NEW c \in S
    PROVE  /\ ~Earlier(a, a)
           /\ a # b => Earlier(a, b) \/ Earlier(b, a)
           /\ Earlier(a, b) /\ Earlier(b, c) => Earlier(a, c)
<1>1. /\ a.start \in Int /\ b.start \in Int /\ c.start \in Int
      /\ IdRank[a.id] \in Int /\ IdRank[b.id] \in Int /\ IdRank[c.id] \in Int
    BY RankAssumption DEF Storable
<1>2. a # b => IdRank[a.id] # IdRank[b.id]
    BY RankAssumption DEF Storable
<1> DEFINE sa == a.start
           sb == b.start
           sc == c.start
           ra == IdRank[a.id]
           rb == IdRank[b.id]
           rc == IdRank[c.id]
<1>3. /\ sa \in Int /\ sb \in Int /\ sc \in Int /\ ra \in Int /\ rb \in Int /\ rc \in Int
      /\ a # b => ra # rb
      /\ Earlier(a, a) <=> sa < sa \/ (sa = sa /\ ra < ra)
      /\ Earlier(a, b) <=> sa < sb \/ (sa = sb /\ ra < rb)
      /\ Earlier(b, a) <=> sb < sa \/ (sb = sa /\ rb < ra)
      /\ Earlier(b, c) <=> sb < sc \/ (sb = sc /\ rb < rc)
      /\ Earlier(a, c) <=> sa < sc \/ (sa = sc /\ ra < rc)
    BY Zenon, <1>1, <1>2 DEF Earlier
<1> HIDE DEF sa, sb, sc, ra, rb, rc
<1>4. Lexical(sa, ra, sb, rb, sc, rc)
    BY <1>3, PairsOrdered
<1> QED BY Zenon, <1>3, <1>4 DEF Lexical

(* A sequence of all rows, each before the next.                            *)
InOrder(q, S) ==
    /\ q \in [1 .. Cardinality(S) -> S]
    /\ \A i, j \in 1 .. Cardinality(S) : i < j => Earlier(q[i], q[j])

(* It holds each row once.                                                  *)
LEMMA InOrderHolds ==
    ASSUME NEW trace, NEW S, Storable(trace, S), NEW q, InOrder(q, S)
    PROVE  /\ SpanSet(q) = S
           /\ \A i, j \in 1 .. Cardinality(S) : q[i] = q[j] => i = j
<1> DEFINE n == Cardinality(S)
<1>1. n \in Nat /\ IsFiniteSet(S)
    BY FS_CardinalityType DEF Storable
<1>2. IsFiniteSet(1 .. n) /\ Cardinality(1 .. n) = n
    BY <1>1, FS_Interval
<1>3. ASSUME NEW i \in 1 .. n, NEW j \in 1 .. n, q[i] = q[j]
      PROVE  i = j
  <2>1. ~Earlier(q[i], q[j]) /\ ~Earlier(q[j], q[i]) /\ q[i] \in S
    <3>1. q[i] \in S
        BY DEF InOrder
    <3> QED BY <1>3, <3>1, EarlierOrders
  <2> QED BY <1>1, <2>1 DEF InOrder
<1> HIDE DEF n
<1>4. q \in Injection(1 .. n, S)
    BY <1>3 DEF Injection, IsInjective, InOrder, n
<1>5. q \in Surjection(1 .. n, S)
    BY <1>1, <1>2, <1>4, FS_Injection DEF n
<1>6. SpanSet(q) = S
    BY <1>5 DEF Surjection, SpanSet
<1> QED BY <1>3, <1>6 DEF n

(* There is one: a row's place is the number of rows before it.             *)
LEMMA OrderedInOrder ==
    ASSUME NEW trace, NEW S, Storable(trace, S)
    PROVE  InOrder(Ordered(S), S)
<1> DEFINE n == Cardinality(S)
           Before(x) == {t \in S : Earlier(t, x)}
           rank == [x \in S |-> Cardinality(Before(x)) + 1]
<1>1. n \in Nat /\ IsFiniteSet(S)
    BY FS_CardinalityType DEF Storable
<1>2. ASSUME NEW x \in S
      PROVE  /\ IsFiniteSet(Before(x)) /\ Cardinality(Before(x)) \in Nat
             /\ Cardinality(Before(x)) < n
  <2>1. Before(x) \in SUBSET S /\ x \notin Before(x)
      BY EarlierOrders
  <2> HIDE DEF Before
  <2> QED BY <1>1, <2>1, FS_Subset, FS_CardinalityType
<1>3. ASSUME NEW x \in S, NEW y \in S, Earlier(x, y)
      PROVE  rank[x] < rank[y]
  <2>1. Before(x) \in SUBSET Before(y)
      BY <1>3, EarlierOrders
  <2>2. x \in Before(y) /\ x \notin Before(x)
      BY <1>3, EarlierOrders
  <2> HIDE DEF Before
  <2>3. /\ Cardinality(Before(x)) <= Cardinality(Before(y))
        /\ Cardinality(Before(x)) # Cardinality(Before(y))
      BY <1>2, <2>1, <2>2, FS_Subset
  <2> QED BY <1>2, <2>3
<1>4. rank \in [S -> 1 .. n]
  <2> HIDE DEF Before, n
  <2> QED BY <1>1, <1>2
<1> HIDE DEF rank
<1>5. ASSUME NEW x \in S, NEW y \in S, rank[x] = rank[y]
      PROVE  x = y
  <2>1. rank[x] \in Nat
      BY <1>4
  <2> QED BY <1>3, <1>5, <2>1, EarlierOrders
<1>6. rank \in Injection(S, 1 .. n)
    BY <1>4, <1>5 DEF Injection, IsInjective
<1>7. IsFiniteSet(1 .. n) /\ Cardinality(1 .. n) = n
    BY <1>1, FS_Interval
<1>8. rank \in Surjection(S, 1 .. n)
    BY <1>6, <1>7, FS_Injection
<1> DEFINE q == [i \in 1 .. n |-> CHOOSE x \in S : rank[x] = i]
<1>9. \A i \in 1 .. n : q[i] \in S /\ rank[q[i]] = i
    BY <1>8 DEF Surjection
<1>10. q \in [1 .. n -> S] /\ DOMAIN q = 1 .. n
    BY <1>9
<1> HIDE DEF q
<1>11. ASSUME NEW i \in 1 .. n, NEW j \in 1 .. n, i < j
       PROVE  Earlier(q[i], q[j])
  <2>1. ~Earlier(q[j], q[i])
      BY <1>1, <1>3, <1>9, <1>11
  <2>2. q[i] # q[j]
      BY <1>1, <1>9, <1>11
  <2> QED BY <1>9, <2>1, <2>2, EarlierOrders
<1>12. \E p \in [1 .. n -> S] : \A i, j \in DOMAIN p : i < j => Earlier(p[i], p[j])
    BY <1>10, <1>11
<1>13. /\ Ordered(S) \in [1 .. n -> S]
       /\ \A i, j \in DOMAIN Ordered(S) : i < j => Earlier(Ordered(S)[i], Ordered(S)[j])
    BY Zenon, <1>12 DEF Ordered
<1>14. DOMAIN Ordered(S) = 1 .. n
    BY <1>13
<1> QED BY Zenon, <1>13, <1>14 DEF InOrder

(* And only one.                                                            *)
LEMMA InOrderOnce ==
    ASSUME NEW trace, NEW S, Storable(trace, S), NEW f, InOrder(f, S), NEW h, InOrder(h, S)
    PROVE  f = h
<1> DEFINE n == Cardinality(S)
           T == {m \in Nat : \A i \in 1 .. n : i <= m => f[i] = h[i]}
<1>1. n \in Nat
    BY FS_CardinalityType DEF Storable
<1>2. /\ \A i, j \in 1 .. n : (f[i] = f[j] => i = j) /\ (h[i] = h[j] => i = j)
      /\ \A i, j \in 1 .. n : i < j => Earlier(f[i], f[j]) /\ Earlier(h[i], h[j])
      /\ \A i \in 1 .. n : f[i] \in S /\ h[i] \in S
    BY InOrderHolds DEF InOrder
<1>3. \A x \in S : \E i \in 1 .. n : f[i] = x
  <2>1. SpanSet(f) = S /\ DOMAIN f = 1 .. n
      BY InOrderHolds DEF InOrder
  <2> QED BY <2>1 DEF SpanSet
<1>4. \A x \in S : \E i \in 1 .. n : h[i] = x
  <2>1. SpanSet(h) = S /\ DOMAIN h = 1 .. n
      BY InOrderHolds DEF InOrder
  <2> QED BY <2>1 DEF SpanSet
<1> HIDE DEF n
<1>5. 0 \in T
    BY <1>1
<1>6. ASSUME NEW m \in Nat, m \in T
      PROVE  m + 1 \in T
  <2> SUFFICES ASSUME m + 1 \in 1 .. n
               PROVE  f[m + 1] = h[m + 1]
      BY <1>1, <1>6
  <2> DEFINE i == m + 1
  <2>1. i \in 1 .. n /\ i \in Nat /\ \A j \in 1 .. n : j < i => f[j] = h[j]
      BY <1>1, <1>6
  <2> HIDE DEF i
  <2>2. PICK k \in 1 .. n : h[k] = f[i]
      BY <1>2, <1>4, <2>1
  <2>3. PICK l \in 1 .. n : f[l] = h[i]
      BY <1>2, <1>3, <2>1
  <2>4. k >= i /\ l >= i
      BY <1>1, <1>2, <2>1, <2>2, <2>3
  <2>5. k = i \/ l = i \/ (i < k /\ i < l)
      BY <1>1, <2>1, <2>4
  <2>6. ASSUME i < k, i < l
        PROVE  FALSE
    <3>1. Earlier(h[i], h[k]) /\ Earlier(f[i], f[l])
        BY <1>2, <2>1, <2>6
    <3>2. Earlier(h[i], f[i]) /\ Earlier(f[i], h[i]) /\ f[i] \in S /\ h[i] \in S
        BY <1>2, <2>1, <2>2, <2>3, <3>1
    <3> QED BY <3>2, EarlierOrders
  <2>7. f[i] = h[i]
      BY <2>2, <2>3, <2>5, <2>6
  <2> QED BY <2>7 DEF i
<1> HIDE DEF T
<1>7. n \in T
    BY <1>1, <1>5, <1>6, NumbersByInduction
<1>8. \A i \in 1 .. n : f[i] = h[i]
    BY <1>1, <1>7 DEF T
<1>9. f \in [1 .. n -> S] /\ h \in [1 .. n -> S]
    BY DEF InOrder, n
<1>10. f = [i \in 1 .. n |-> f[i]] /\ h = [i \in 1 .. n |-> h[i]]
    BY <1>9
<1>11. [i \in 1 .. n |-> f[i]] = [i \in 1 .. n |-> h[i]]
    BY <1>8
<1> QED BY Zenon, <1>10, <1>11

-----------------------------------------------------------------------------
(* The axis.                                                                *)

(* Ticks from 0 to total that rise, and are not many.                       *)
TicksRise(ticks, total) ==
    /\ Len(ticks) \in Nat \ {0} /\ ticks[1] = 0 /\ ticks[Len(ticks)] = total
    /\ \A i \in 1 .. Len(ticks) - 1 : ticks[i] < ticks[i + 1]
    /\ total <= Minute => Len(ticks) <= 8

(* How often a step fits.                                                   *)
LEMMA StepsThatFit ==
    ASSUME NEW total \in Nat \ {0}, NEW step \in Nat \ {0}
    PROVE  /\ total \div step \in Nat
           /\ (total \div step) * step <= total
           /\ total <= 6 * step => total \div step <= 6
<1> DEFINE q == total \div step
           r == total % step
<1>1. q \in Nat /\ r \in 0 .. step - 1 /\ total = step * q + r
    OBVIOUS
<1> HIDE DEF q, r
<1>2. q * step <= total
    BY <1>1
<1>3. ASSUME total <= 6 * step, q >= 7 PROVE FALSE
  <2>1. (q - 7) * step >= 0
      BY <1>1, <1>3
  <2>2. step * q = (q - 7) * step + 7 * step
      BY <1>1
  <2> QED BY <1>1, <1>3, <2>1, <2>2
<1>4. total <= 6 * step => q <= 6
    BY <1>1, <1>3
<1> QED BY <1>1, <1>2, <1>4 DEF q

(* Each multiple of the step is above the one before it.                    *)
LEMMA MultiplesRise ==
    ASSUME NEW step \in Nat \ {0}, NEW i \in Nat
    PROVE  i * step \in Nat /\ i * step < (i + 1) * step
  OBVIOUS

(* Numbers that rise from 0 to at most total.                               *)
RiseBelow(ticks, n, total) ==
    /\ n \in Nat \ {0} /\ ticks \in Seq(Nat) /\ Len(ticks) = n
    /\ ticks[1] = 0 /\ ticks[n] <= total
    /\ \A i \in 1 .. n - 1 : ticks[i] < ticks[i + 1]
    /\ total <= Minute => n <= 7

(* They rise to total with it.                                              *)
LEMMA EndedTicksRise ==
    ASSUME NEW total \in Nat \ {0}, NEW ticks, NEW n, RiseBelow(ticks, n, total),
           NEW ended, ended = IF ticks[Len(ticks)] = total THEN ticks ELSE Append(ticks, total)
    PROVE  TicksRise(ended, total)
<1> USE DEF RiseBelow
<1>1. CASE ticks[n] = total
  <2>1. TicksRise(ticks, total)
      BY <1>1 DEF TicksRise
  <2> QED BY <1>1, <2>1
<1>2. CASE ticks[n] # total
  <2> DEFINE more == Append(ticks, total)
  <2>1. /\ Len(more) = n + 1 /\ more[n + 1] = total /\ n + 1 \in Nat \ {0}
        /\ \A i \in 1 .. n : more[i] = ticks[i]
      OBVIOUS
  <2> HIDE DEF more
  <2>2. ASSUME NEW i \in 1 .. (n + 1) - 1
        PROVE  more[i] < more[i + 1]
    <3>1. CASE i = n
      <4>1. more[i] = ticks[n] /\ more[i + 1] = total /\ ticks[n] \in Nat
          BY <2>1, <3>1
      <4> QED BY <1>2, <4>1
    <3>2. CASE i # n
      <4>1. i \in 1 .. n - 1 /\ i \in 1 .. n /\ i + 1 \in 1 .. n
          BY <3>2
      <4>2. more[i] = ticks[i] /\ more[i + 1] = ticks[i + 1]
          BY <2>1, <4>1
      <4>3. ticks[i] < ticks[i + 1]
          BY <4>1
      <4> QED BY <4>2, <4>3
    <3> QED BY <3>1, <3>2
  <2>3. more[1] = 0 /\ (total <= Minute => n + 1 <= 8)
    <3>1. more[1] = ticks[1]
        BY <2>1
    <3> QED BY <3>1
  <2>4. TicksRise(more, total)
      BY <2>1, <2>2, <2>3 DEF TicksRise
  <2> QED BY <1>2, <2>4 DEF more
<1> QED BY <1>1, <1>2

(* The multiples of a step up to total.                                     *)
Multiples(total, step) == [i \in 1 .. (total \div step) + 1 |-> (i - 1) * step]

(* The multiples of a step that fits rise so.                               *)
LEMMA StepTicksRise ==
    ASSUME NEW total \in Nat \ {0}, NEW step \in Nat \ {0}, total <= Minute => total <= 6 * step
    PROVE  RiseBelow(Multiples(total, step), (total \div step) + 1, total)
<1> DEFINE q == total \div step
           n == q + 1
           ticks == Multiples(total, step)
<1>1. q \in Nat /\ q * step <= total /\ (total <= Minute => q <= 6)
    BY StepsThatFit
<1> HIDE DEF q
<1>2. n \in Nat \ {0} /\ n - 1 = q /\ ticks = [i \in 1 .. n |-> (i - 1) * step]
    BY <1>1 DEF q, Multiples
<1> HIDE DEF n, ticks
<1>3. ASSUME NEW i \in 1 .. n
      PROVE  ticks[i] = (i - 1) * step /\ ticks[i] \in Nat
  <2>1. i - 1 \in Nat
      BY <1>2
  <2>2. (i - 1) * step \in Nat
      BY <2>1, MultiplesRise
  <2>3. ticks[i] = (i - 1) * step
      BY <1>2
  <2> QED BY <2>2, <2>3
<1>4. ticks \in Seq(Nat) /\ Len(ticks) = n
  <2>1. DOMAIN ticks = 1 .. n /\ ticks \in [1 .. n -> Nat]
      BY <1>2, <1>3
  <2> QED BY <1>2, <2>1
<1>5. ticks[1] = 0 /\ ticks[n] <= total
  <2>1. ticks[1] = (1 - 1) * step /\ ticks[n] = (n - 1) * step
      BY <1>2, <1>3
  <2>2. (1 - 1) * step = 0 /\ (n - 1) * step <= total
      BY <1>1, <1>2
  <2> QED BY <2>1, <2>2
<1>6. ASSUME NEW i \in 1 .. n - 1
      PROVE  ticks[i] < ticks[i + 1]
  <2>1. ticks[i] = (i - 1) * step /\ ticks[i + 1] = ((i + 1) - 1) * step /\ i - 1 \in Nat
    <3>1. i \in 1 .. n /\ i + 1 \in 1 .. n /\ i - 1 \in Nat
        BY <1>2
    <3> QED BY <1>3, <3>1
  <2>2. (i - 1) * step < ((i - 1) + 1) * step
      BY <2>1, MultiplesRise
  <2>3. (i - 1) + 1 = (i + 1) - 1
      OBVIOUS
  <2> QED BY <2>1, <2>2, <2>3
<1>7. total <= Minute => n <= 7
    BY <1>1, <1>2
<1>8. RiseBelow(ticks, n, total)
    BY <1>2, <1>4, <1>5, <1>6, <1>7 DEF RiseBelow
<1> QED BY <1>8 DEF ticks, n, q

(* So do the ticks of every axis, for the step that is chosen fits.         *)
LEMMA EveryAxisRises ==
    ASSUME NEW total \in Nat \ {0}
    PROVE  TicksRise(chooseTicks(total), total)
<1> DEFINE fit  == {c \in TickSteps : total <= 6 * c}
           step == IF fit = {} THEN 10000 ELSE Least(fit)
           ticks == Multiples(total, step)
<1>1. TickSteps \subseteq Nat \ {0} /\ 10000 \in TickSteps
    BY DEF TickSteps
<1>2. fit # {} => Least(fit) \in fit
  <2>1. fit \subseteq TickSteps
      OBVIOUS
  <2> HIDE DEF fit
  <2>2. fit # {} => \E x \in fit : \A y \in fit : x <= y
    <3>1. fit \subseteq Nat
        BY <1>1, <2>1
    <3> QED BY Zenon, <3>1, LeastNumber
  <2> QED BY <2>2 DEF Least
<1>3. /\ step \in Nat \ {0}
      /\ total <= Minute => total <= 6 * step
  <2>1. CASE fit = {}
      BY <1>1, <2>1 DEF Minute
  <2>2. CASE fit # {}
    <3>1. step \in fit
        BY <1>2, <2>2
    <3> HIDE DEF step
    <3> QED BY <1>1, <3>1
  <2> QED BY <2>1, <2>2
<1>4. chooseTicks(total) = IF ticks[Len(ticks)] = total THEN ticks ELSE Append(ticks, total)
    BY DEF chooseTicks, Multiples
<1> HIDE DEF step, fit
<1>5. RiseBelow(ticks, (total \div step) + 1, total)
    BY <1>3, StepTicksRise
<1> HIDE DEF ticks
<1> QED BY <1>4, <1>5, EndedTicksRise

-----------------------------------------------------------------------------
(* From the rows to the page.                                               *)

(* Rows as they are read hold each stored span once.                        *)
LEMMA RowsHoldSpans ==
    ASSUME NEW trace, NEW S, Storable(trace, S), NEW rows \in RowOrders(S)
    PROVE  SpanSet(rows) = S /\ Len(rows) = Cardinality(S) /\ DOMAIN rows = 1 .. Cardinality(S)
<1> DEFINE n == Cardinality(S)
<1>1. n \in Nat /\ IsFiniteSet(S)
    BY FS_CardinalityType DEF Storable
<1>2. IsFiniteSet(1 .. n) /\ Cardinality(1 .. n) = n
    BY <1>1, FS_Interval
<1>3. rows \in [1 .. n -> S] /\ \A i, j \in 1 .. n : i < j => rows[i] # rows[j]
    BY DEF RowOrders
<1> HIDE DEF n
<1>4. rows \in Injection(1 .. n, S)
  <2>1. ASSUME NEW i \in 1 .. n, NEW j \in 1 .. n, rows[i] = rows[j]
        PROVE  i = j
      BY <1>1, <1>3, <2>1
  <2> QED BY <1>3, <2>1 DEF Injection, IsInjective
<1>5. rows \in Surjection(1 .. n, S)
    BY <1>1, <1>2, <1>4, FS_Injection DEF n
<1>6. SpanSet(rows) = S
    BY <1>5 DEF Surjection, SpanSet
<1>7. Len(rows) = n /\ DOMAIN rows = 1 .. n
    BY <1>1, <1>3
<1> QED BY <1>6, <1>7 DEF n

(* What the projection keeps of a span.                                     *)
SamePlace(p, s) ==
    /\ p.id = s.id /\ p.parent = s.parent /\ p.name = s.name /\ p.turn = s.turn
    /\ p.start = s.start /\ p.end = s.end /\ p.dur = s.dur

(* The projection keeps it of every span.                                   *)
LEMMA PublicSpanSame ==
    ASSUME NEW s
    PROVE  SamePlace(toPublicSpan(s), s)
  BY DEF SamePlace, toPublicSpan

(* Public spans P of the spans S.                                           *)
Projected(P, S) == P = {toPublicSpan(s) : s \in S}

(* They are as many, and as storable.                                       *)
LEMMA ProjectedStorable ==
    ASSUME NEW trace, NEW S, Storable(trace, S), NEW P, Projected(P, S)
    PROVE  /\ Storable(toPublicTrace(trace), P)
           /\ Cardinality(P) = Cardinality(S) /\ IdsOf(P) = IdsOf(S)
<1> DEFINE f == [s \in S |-> toPublicSpan(s)]
<1>1. \A s \in S : SamePlace(f[s], s) /\ f[s] \in P
    BY PublicSpanSame DEF Projected
<1>2. \A p \in P : \E s \in S : f[s] = p
    BY DEF Projected
<1>3. f \in [S -> P]
    BY DEF Projected
<1> HIDE DEF f
<1>4. f \in Surjection(S, P) /\ f \in Injection(S, P)
  <2>1. ASSUME NEW a \in S, NEW b \in S, f[a] = f[b]
        PROVE  a = b
    <3>1. a.id = b.id
        BY <1>1, <2>1 DEF SamePlace
    <3> QED BY <3>1 DEF Storable
  <2> QED BY <1>2, <1>3, <2>1 DEF Surjection, Injection, IsInjective
<1>5. IsFiniteSet(S)
    BY DEF Storable
<1>6. IsFiniteSet(P) /\ Cardinality(P) = Cardinality(S)
    BY <1>4, <1>5, FS_Surjection
<1>7. ASSUME NEW p \in P
      PROVE  p.id \in DOMAIN IdRank /\ p.start \in Int /\ p.end \in Int /\ p.dur \in Int
  <2>1. PICK s \in S : f[s] = p
      BY <1>2
  <2> QED BY <1>1, <2>1 DEF SamePlace, Storable
<1>8. ASSUME NEW p \in P, NEW r \in P, p.id = r.id
      PROVE  p = r
  <2>1. PICK s \in S : f[s] = p
      BY <1>2
  <2>2. PICK t \in S : f[t] = r
      BY <1>2
  <2>3. s.id = t.id
      BY <1>1, <1>8, <2>1, <2>2 DEF SamePlace
  <2> QED BY <2>1, <2>2, <2>3 DEF Storable
<1>9. toPublicTrace(trace).start \in Int
    BY DEF toPublicTrace, Storable
<1>10. IdsOf(P) = IdsOf(S)
  <2>1. ASSUME NEW p \in P PROVE p.id \in IdsOf(S)
      BY <1>1, <1>2 DEF SamePlace, IdsOf
  <2>2. ASSUME NEW s \in S PROVE s.id \in IdsOf(P)
      BY <1>1 DEF SamePlace, IdsOf
  <2> QED BY <2>1, <2>2 DEF IdsOf
<1> QED BY <1>6, <1>7, <1>8, <1>9, <1>10 DEF Storable

(* A cycle of the one is a cycle of the other, and depths are the same.     *)
LEMMA ProjectedDepths ==
    ASSUME NEW trace, NEW S, Storable(trace, S), NEW P, Projected(P, S), ~HasCycle(S)
    PROVE  Depths(depthByParent(P), S)
<1> DEFINE d == depthByParent(P)
<1>1. /\ Keyed(P) /\ Keyed(S)
      /\ Cardinality(P) = Cardinality(S) /\ IdsOf(P) = IdsOf(S)
  <2>1. Storable(toPublicTrace(trace), P) /\ Cardinality(P) = Cardinality(S) /\ IdsOf(P) = IdsOf(S)
      BY ProjectedStorable
  <2> QED BY <2>1, StorableKeyed
<1>2. \A s \in S : \E p \in P : SamePlace(p, s)
    BY PublicSpanSame DEF Projected
<1>3. \A p \in P : \E s \in S : SamePlace(p, s)
    BY PublicSpanSame DEF Projected
<1>4. ~HasCycle(P)
  <2> SUFFICES ASSUME NEW C \in SUBSET P, C # {}, \A p \in C : \E r \in C : p.parent = r.id
               PROVE  HasCycle(S)
      BY DEF HasCycle
  <2> DEFINE B == {s \in S : \E p \in C : SamePlace(p, s)}
  <2>1. B \in SUBSET S /\ B # {}
      BY <1>3
  <2>2. ASSUME NEW s \in B PROVE \E t \in B : s.parent = t.id
    <3>1. PICK p \in C : SamePlace(p, s)
        OBVIOUS
    <3>2. PICK r \in C : p.parent = r.id
        OBVIOUS
    <3>3. PICK t \in S : SamePlace(r, t)
        BY <1>3
    <3>4. t \in B
        BY <3>3
    <3> QED BY <3>1, <3>2, <3>3, <3>4 DEF SamePlace
  <2> HIDE DEF B
  <2> QED BY <2>1, <2>2 DEF HasCycle
<1>5. Depths(d, P)
    BY <1>1, <1>4, KnownDepths, CyclesOnly
<1> HIDE DEF d
<1>6. ASSUME NEW s \in S
      PROVE  /\ d[s.id] \in 0 .. Cardinality(S)
             /\ s.parent = None => d[s.id] = 0
             /\ s.parent # None /\ s.parent \notin IdsOf(S) => d[s.id] = 1
             /\ \A t \in S : s.parent = t.id => d[s.id] = d[t.id] + 1
  <2>1. PICK p \in P : SamePlace(p, s)
      BY <1>2
  <2>2. /\ d[s.id] \in 0 .. Cardinality(S)
        /\ s.parent = None => d[s.id] = 0
        /\ s.parent # None /\ s.parent \notin IdsOf(S) => d[s.id] = 1
      BY <1>1, <1>5, <2>1 DEF Depths, SamePlace
  <2>3. ASSUME NEW t \in S, s.parent = t.id
        PROVE  d[s.id] = d[t.id] + 1
    <3>1. PICK r \in P : SamePlace(r, t)
        BY <1>2
    <3> QED BY <1>5, <2>1, <2>3, <3>1 DEF Depths, SamePlace
  <2> QED BY <2>2, <2>3
<1> QED BY <1>6 DEF Depths, d

(* A function takes finitely many values on a finite set.                   *)
LEMMA ValuesFinite ==
    ASSUME NEW S, IsFiniteSet(S), NEW f, DOMAIN f = S, f = [s \in S |-> f[s]]
    PROVE  IsFiniteSet({f[s] : s \in S})
<1>1. f \in Surjection(S, {f[s] : s \in S})
    BY DEF Surjection
<1> QED BY <1>1, FS_Surjection

(* Where the axis begins, and how long it is.                               *)
Origin(trace, S) == Least({trace.start} \cup {s.start : s \in S})
Total(trace, S) == Greatest({1, Greatest({s.end : s \in S}) - Origin(trace, S)})

(* No span begins before the axis, or ends after it.                        *)
LEMMA AxisHolds ==
    ASSUME NEW trace, NEW S, Storable(trace, S), S # {}
    PROVE  /\ Origin(trace, S) \in Int /\ Total(trace, S) \in Nat \ {0}
           /\ \A s \in S : /\ s.start >= Origin(trace, S)
                           /\ s.end - Origin(trace, S) <= Total(trace, S)
<1> DEFINE starts == {trace.start} \cup {s.start : s \in S}
           ends == {s.end : s \in S}
           origin == Least(starts)
           last == Greatest(ends)
           both == {1, last - origin}
<1>1. IsFiniteSet(starts) /\ IsFiniteSet(ends)
  <2> DEFINE f == [s \in S |-> s.start]
             h == [s \in S |-> s.end]
  <2>4. IsFiniteSet({f[s] : s \in S}) /\ IsFiniteSet({h[s] : s \in S})
    <3>1. /\ IsFiniteSet(S) /\ DOMAIN f = S /\ f = [s \in S |-> f[s]]
          /\ DOMAIN h = S /\ h = [s \in S |-> h[s]]
        BY DEF Storable
    <3> HIDE DEF f, h
    <3> QED BY <3>1, ValuesFinite
  <2>5. {f[s] : s \in S} = {s.start : s \in S} /\ {h[s] : s \in S} = ends
      OBVIOUS
  <2>1. IsFiniteSet({s.start : s \in S}) /\ IsFiniteSet(ends)
      BY <2>4, <2>5
  <2>2. IsFiniteSet({s.start : s \in S} \cup {trace.start})
      BY <2>1, FS_AddElement
  <2>3. starts = {s.start : s \in S} \cup {trace.start}
      OBVIOUS
  <2> QED BY <2>1, <2>2, <2>3
<1>2. /\ starts \subseteq Int /\ starts # {} /\ ends \subseteq Int /\ ends # {}
      /\ \A s \in S : s.start \in starts /\ s.end \in ends
    BY DEF Storable
<1> HIDE DEF starts, ends
<1>3. /\ origin \in Int /\ \A y \in starts : origin <= y
      /\ last \in Int /\ \A y \in ends : last >= y
    BY <1>1, <1>2, Extremes
<1> HIDE DEF origin, last
<1>4. IsFiniteSet(both) /\ both \subseteq Int /\ both # {}
  <2>1. both = {1} \cup {last - origin} /\ IsFiniteSet({1})
      BY FS_Singleton
  <2> QED BY <1>3, <2>1, FS_AddElement
<1>5. Greatest(both) \in Int /\ Greatest(both) >= 1 /\ Greatest(both) >= last - origin
  <2>1. 1 \in both /\ last - origin \in both
      OBVIOUS
  <2> HIDE DEF both
  <2> QED BY <1>4, <2>1, Extremes
<1> DEFINE total == Greatest(both)
<1>6. total \in Int /\ total >= 1 /\ total >= last - origin
    BY <1>5
<1>7. Origin(trace, S) = origin /\ Total(trace, S) = total
    BY Zenon DEF Origin, Total, origin, last, starts, ends
<1> HIDE DEF both, total
<1>8. ASSUME NEW s \in S
      PROVE  s.start >= origin /\ s.end - origin <= total
  <2>1. s.start \in Int /\ s.end \in Int /\ origin <= s.start /\ last >= s.end
      BY <1>2, <1>3
  <2> QED BY <1>3, <1>6, <2>1
<1> QED BY <1>3, <1>6, <1>7, <1>8

(* What a row of the waterfall says of its span.                            *)
RowSays(r, s, trace, S) ==
    /\ r.id = s.id /\ r.name = s.name /\ r.depth = depthByParent(S)[s.id]
    /\ r.turn = IF Cardinality({x \in S : x.name = s.name}) > 1 THEN s.turn ELSE None
    /\ r.offset = 200 * (s.start - Origin(trace, S))
    /\ r.width = Greatest({Total(trace, S), 200 * s.dur})

(* What a waterfall says of its spans.                                      *)
WaterfallSays(w, trace, S) ==
    /\ Len(w.rows) = Cardinality(S) /\ DOMAIN w.rows = 1 .. Cardinality(S)
    /\ w.totalMs = Total(trace, S) /\ w.ticks = chooseTicks(Total(trace, S))
    /\ \A i \in 1 .. Cardinality(S) : RowSays(w.rows[i], Ordered(S)[i], trace, S)

(* computeWaterfall says it.                                                *)
LEMMA WaterfallFields ==
    ASSUME NEW trace, NEW rows, rows # <<>>, Storable(trace, SpanSet(rows))
    PROVE  WaterfallSays(computeWaterfall(trace, rows), trace, SpanSet(rows))
<1> DEFINE S      == SpanSet(rows)
           origin == Origin(trace, S)
           total  == Total(trace, S)
           n      == Cardinality(S)
           q      == Ordered(S)
           Row(s) == [id |-> s.id, name |-> s.name, depth |-> depthByParent(S)[s.id],
                      turn |-> IF Cardinality({x \in S : x.name = s.name}) > 1 THEN s.turn
                               ELSE None,
                      offset |-> 200 * (s.start - origin),
                      width |-> Greatest({total, 200 * s.dur})]
           list   == [i \in DOMAIN q |-> Row(q[i])]
           ticks  == chooseTicks(total)
           w      == computeWaterfall(trace, rows)
<1>1. w = [rows |-> list, totalMs |-> total, ticks |-> ticks]
    BY Zenon DEF computeWaterfall, Origin, Total
<1> HIDE DEF S
<1>s. Storable(trace, S)
    BY DEF S
<1>2. DOMAIN q = 1 .. n /\ n \in Nat
  <2>1. InOrder(q, S)
      BY <1>s, OrderedInOrder
  <2> QED BY <1>s, <2>1, FS_CardinalityType DEF InOrder, Storable
<1>3. ASSUME NEW s
      PROVE  RowSays(Row(s), s, trace, S)
  <2> DEFINE depth == depthByParent(S)[s.id]
             turn  == IF Cardinality({x \in S : x.name = s.name}) > 1 THEN s.turn ELSE None
             offset == 200 * (s.start - origin)
             width == Greatest({total, 200 * s.dur})
             r == Row(s)
  <2>1. r = [id |-> s.id, name |-> s.name, depth |-> depth, turn |-> turn, offset |-> offset,
             width |-> width]
      BY Zenon
  <2> HIDE DEF depth, turn, offset, width, r
  <2>2. /\ r.id = s.id /\ r.name = s.name /\ r.depth = depth /\ r.turn = turn
        /\ r.offset = offset /\ r.width = width
      BY <2>1
  <2>3. RowSays(r, s, trace, S)
      BY Zenon, <2>2 DEF RowSays, depth, turn, offset, width
  <2> QED BY Zenon, <2>3 DEF r
<1> HIDE DEF Row, w, total, ticks, q, n
<1>4. DOMAIN list = 1 .. n /\ Len(list) = n /\ \A i \in 1 .. n : list[i] = Row(q[i])
    BY <1>2
<1> HIDE DEF list
<1>5. w.rows = list /\ w.totalMs = total /\ w.ticks = ticks
    BY <1>1
<1>6. \A i \in 1 .. n : RowSays(list[i], q[i], trace, S)
    BY Zenon, <1>3, <1>4
<1> QED BY Zenon, <1>4, <1>5, <1>6 DEF WaterfallSays, w, total, ticks, q, n, S

(* What a page is made of, and when there is none.                          *)
PageSays(page, trace, rows) ==
    IF \E s \in SpanSet(rows) : depthByParent(SpanSet(rows))[s.id] = Cyclic THEN page.status = 500
    ELSE /\ page.status = 200
         /\ page.hero = computeMetrics(toPublicTrace(trace), toPublicSpans(rows))
         /\ page.card = deriveCardMetrics(toPublicTrace(trace), toPublicSpans(rows))
         /\ page.waterfall = computeWaterfall(toPublicTrace(trace), toPublicSpans(rows))

(* PublicPage is.                                                           *)
LEMMA PageFields ==
    ASSUME NEW trace, NEW rows
    PROVE  PageSays(PublicPage(trace, rows), trace, rows)
<1> DEFINE t == toPublicTrace(trace)
           r == toPublicSpans(rows)
           hero == computeMetrics(t, r)
           card == deriveCardMetrics(t, r)
           title == composeVerdict(hero.modelName, hero.deviceModel)
           w == computeWaterfall(t, r)
           keys == t.keys \cup UNION {s.keys : s \in SpanSet(r)}
           page == PublicPage(trace, rows)
<1>1. CASE \E s \in SpanSet(rows) : depthByParent(SpanSet(rows))[s.id] = Cyclic
  <2>1. page = [status |-> 500]
      BY <1>1, ProjectionNeverRefused DEF PublicPage
  <2> HIDE DEF page
  <2>2. page.status = 500
      BY <2>1
  <2> QED BY Zenon, <1>1, <2>2 DEF PageSays, page
<1>2. CASE ~\E s \in SpanSet(rows) : depthByParent(SpanSet(rows))[s.id] = Cyclic
  <2>1. page = [status |-> 200, hero |-> hero, card |-> card, title |-> title,
                waterfall |-> w, keys |-> keys]
      BY Zenon, <1>2, ProjectionNeverRefused DEF PublicPage
  <2> HIDE DEF page, hero, card, title, w, keys
  <2>2. page.status = 200 /\ page.hero = hero /\ page.card = card /\ page.waterfall = w
      BY <2>1
  <2> QED BY Zenon, <1>2, <2>2 DEF PageSays, page, hero, card, w
<1> QED BY <1>1, <1>2

(* The card has the page's numbers.                                         *)
LEMMA CardAgrees ==
    ASSUME NEW t, NEW r, NEW hero, hero = computeMetrics(t, r),
           NEW card, card = deriveCardMetrics(t, r)
    PROVE  /\ card.totalMs = hero.totalMs
           /\ card.spanCount = hero.spanCount /\ card.status = hero.status
<1> DEFINE total == TotalMs(t, r)
           count == Len(r)
           status == StatusOf(r)
<1>1. hero.totalMs = total /\ hero.spanCount = count /\ hero.status = status
    BY DEF computeMetrics
<1>2. card.totalMs = total /\ card.spanCount = count /\ card.status = status
    BY DEF deriveCardMetrics
<1> QED BY <1>1, <1>2

(* Two spans of one name are more than one.                                 *)
LEMMA TwoAreMany ==
    ASSUME NEW S, IsFiniteSet(S), NEW a \in S, NEW b \in S, a # b
    PROVE  Cardinality(S) > 1
<1>1. IsFiniteSet({a}) /\ Cardinality({a}) = 1
    BY FS_Singleton
<1>2. {a} \in SUBSET S /\ {a} # S
    OBVIOUS
<1>3. Cardinality({a}) <= Cardinality(S) /\ Cardinality({a}) # Cardinality(S)
    BY <1>2, FS_Subset
<1> QED BY <1>1, <1>3, FS_CardinalityType

(* A row is as wide as its span is long, or has the least width.            *)
LEMMA RowFits ==
    ASSUME NEW start \in Int, NEW end \in Int, NEW dur \in Int, NEW origin \in Int,
           NEW total \in Nat \ {0}, start >= origin, end - origin <= total, dur <= end - start,
           NEW width, width = Greatest({total, 200 * dur})
    PROVE  \/ 200 * (start - origin) + width <= 200 * total
           \/ width = total
<1> DEFINE both == {total, 200 * dur}
<1>1. IsFiniteSet(both) /\ both # {} /\ both \subseteq Int
  <2>1. both = {total} \cup {200 * dur} /\ IsFiniteSet({total})
      BY FS_Singleton
  <2> QED BY <2>1, FS_AddElement
<1>2. width = Greatest(both)
    OBVIOUS
<1>3. width \in both
  <2> HIDE DEF both
  <2> QED BY <1>1, <1>2, Extremes
<1>4. width = total \/ width = 200 * dur
    BY <1>3
<1> QED BY <1>4

(* The span that a row is about.                                            *)
LEMMA RowOfSpan ==
    ASSUME NEW trace, NEW S, Storable(trace, S), NEW P, Projected(P, S),
           NEW i \in 1 .. Cardinality(P)
    PROVE  \E s \in S : /\ SamePlace(Ordered(P)[i], s)
                       /\ \A x \in S : x.id = Ordered(P)[i].id <=> x = s
<1>1. Ordered(P)[i] \in P
  <2>1. Storable(toPublicTrace(trace), P)
      BY ProjectedStorable
  <2> QED BY <2>1, OrderedInOrder DEF InOrder
<1>2. PICK s \in S : SamePlace(Ordered(P)[i], s)
    BY <1>1, PublicSpanSame DEF Projected
<1> QED BY <1>2 DEF SamePlace, Storable

(* What a page shows of the rows of a trace.                                *)
Shows(w, S) ==
    LET of(i)  == CHOOSE s \in S : s.id = w.rows[i].id
        top(s) == CHOOSE a \in Ancestors(S, s) \cup {s} : ~\E b \in S : a.parent = b.id
    IN  /\ Len(w.rows) = Cardinality(S) /\ {w.rows[i].id : i \in DOMAIN w.rows} = {s.id : s \in S}
        /\ \A i, j \in DOMAIN w.rows : i < j => of(i).start <= of(j).start
        /\ \A i, j \in DOMAIN w.rows :
             i # j /\ w.rows[i].name = w.rows[j].name => w.rows[i].turn = of(i).turn
        /\ \A i \in DOMAIN w.rows : LET s == of(i) IN
             /\ w.rows[i].depth = Cardinality(Ancestors(S, s))
                                    + IF top(s).parent = None THEN 0 ELSE 1
             /\ w.rows[i].offset >= 0
             /\ s.dur <= s.end - s.start =>
                  \/ w.rows[i].offset + w.rows[i].width <= 200 * w.totalMs
                  \/ w.rows[i].width = w.totalMs

(* A waterfall shows them as it promises.                                   *)
LEMMA WaterfallShows ==
    ASSUME NEW trace, NEW S, Storable(trace, S), ~HasCycle(S), S # {}, NEW P, Projected(P, S),
           NEW w, WaterfallSays(w, toPublicTrace(trace), P)
    PROVE  Shows(w, S)
<1> DEFINE n == Cardinality(S)
           q == Ordered(P)
           t == toPublicTrace(trace)
           of(i) == CHOOSE s \in S : s.id = w.rows[i].id
           top(s) == CHOOSE a \in Ancestors(S, s) \cup {s} : ~\E b \in S : a.parent = b.id
           d == depthByParent(P)
<1>1. Storable(t, P) /\ Cardinality(P) = n /\ InOrder(q, P) /\ IsFiniteSet(P) /\ Keyed(S)
  <2>1. Storable(t, P) /\ Cardinality(P) = n
      BY ProjectedStorable
  <2> QED BY <2>1, OrderedInOrder, StorableKeyed DEF Storable
<1>2. /\ Len(w.rows) = n /\ DOMAIN w.rows = 1 .. n
      /\ w.totalMs = Total(t, P)
      /\ \A i \in 1 .. n : RowSays(w.rows[i], q[i], t, P)
    BY <1>1 DEF WaterfallSays
<1>3. ASSUME NEW i \in 1 .. n
      PROVE  of(i) \in S /\ SamePlace(q[i], of(i)) /\ q[i] \in P /\ w.rows[i].id = q[i].id
  <2>1. PICK s \in S : SamePlace(q[i], s) /\ \A x \in S : x.id = q[i].id <=> x = s
      BY <1>1, RowOfSpan
  <2>2. w.rows[i].id = q[i].id
      BY <1>2 DEF RowSays
  <2>3. of(i) = s
      BY <2>1, <2>2
  <2>4. q[i] \in P
      BY <1>1 DEF InOrder
  <2> HIDE DEF of
  <2> QED BY <2>1, <2>2, <2>3, <2>4
<1> HIDE DEF of, n, q, t
<1>4. {w.rows[i].id : i \in DOMAIN w.rows} = {s.id : s \in S}
  <2>1. SpanSet(q) = P /\ DOMAIN q = 1 .. n
      BY <1>1, InOrderHolds DEF InOrder
  <2>2. ASSUME NEW s \in S
        PROVE  \E i \in 1 .. n : w.rows[i].id = s.id
    <3>1. toPublicSpan(s) \in P /\ SamePlace(toPublicSpan(s), s)
        BY PublicSpanSame DEF Projected
    <3>2. PICK i \in 1 .. n : q[i] = toPublicSpan(s)
        BY <2>1, <3>1 DEF SpanSet
    <3> QED BY <1>3, <3>1, <3>2 DEF SamePlace
  <2>3. ASSUME NEW i \in 1 .. n
        PROVE  \E s \in S : w.rows[i].id = s.id
      BY <1>3 DEF SamePlace
  <2> DEFINE ids == {w.rows[i].id : i \in DOMAIN w.rows}
  <2>4. ids \subseteq {s.id : s \in S}
      BY <1>2, <2>3
  <2>5. ASSUME NEW s \in S
        PROVE  s.id \in ids
      BY <1>2, <2>2
  <2> QED BY <2>4, <2>5
<1>5. ASSUME NEW i \in 1 .. n, NEW j \in 1 .. n, i < j
      PROVE  of(i).start <= of(j).start
  <2>1. Earlier(q[i], q[j])
      BY <1>1, <1>5 DEF InOrder
  <2>2. /\ of(i).start = q[i].start /\ of(j).start = q[j].start
        /\ q[i].start \in Int /\ q[j].start \in Int
      BY <1>1, <1>3 DEF SamePlace, Storable
  <2> QED BY <2>1, <2>2 DEF Earlier
<1>6. ASSUME NEW i \in 1 .. n, NEW j \in 1 .. n, i # j, w.rows[i].name = w.rows[j].name
      PROVE  w.rows[i].turn = of(i).turn
  <2> DEFINE same == {x \in P : x.name = q[i].name}
  <2>1. q[i] # q[j]
      BY <1>1, <1>6, InOrderHolds
  <2>2. w.rows[i].name = q[i].name /\ w.rows[j].name = q[j].name
      BY <1>2 DEF RowSays
  <2>3. IsFiniteSet(same) /\ q[i] \in same /\ q[j] \in same
    <3>1. same \in SUBSET P /\ q[i] \in same /\ q[j] \in same
        BY <1>3, <1>6, <2>2
    <3> HIDE DEF same
    <3> QED BY <1>1, <3>1, FS_Subset
  <2>4. w.rows[i].turn = IF Cardinality(same) > 1 THEN q[i].turn ELSE None
      BY <1>2 DEF RowSays
  <2> HIDE DEF same
  <2>5. Cardinality(same) > 1
      BY <2>1, <2>3, TwoAreMany
  <2> QED BY <1>3, <2>4, <2>5 DEF SamePlace
<1>7. ASSUME NEW i \in 1 .. n
      PROVE  w.rows[i].depth = Cardinality(Ancestors(S, of(i)))
                                 + IF top(of(i)).parent = None THEN 0 ELSE 1
  <2>1. w.rows[i].depth = d[q[i].id] /\ q[i].id = of(i).id
      BY <1>2, <1>3 DEF RowSays, SamePlace
  <2>2. Counts(d, S, of(i))
      BY <1>1, <1>3, ProjectedDepths, DepthsCount
  <2>3. PICK x : /\ Tops(S, of(i)) = {x}
                 /\ d[of(i).id] = Cardinality(Ancestors(S, of(i)))
                                     + IF x.parent = None THEN 0 ELSE 1
      BY <2>2 DEF Counts
  <2>4. top(of(i)) = x
      BY <2>3 DEF Tops
  <2> HIDE DEF top, d
  <2> QED BY <2>1, <2>3, <2>4
<1>8. ASSUME NEW i \in 1 .. n
      PROVE  /\ w.rows[i].offset >= 0
             /\ of(i).dur <= of(i).end - of(i).start =>
                  \/ w.rows[i].offset + w.rows[i].width <= 200 * w.totalMs
                  \/ w.rows[i].width = w.totalMs
  <2> DEFINE origin == Origin(t, P)
             total == Total(t, P)
             start == q[i].start
             end == q[i].end
             dur == q[i].dur
             offset == w.rows[i].offset
             width == w.rows[i].width
  <2>1. q[i] \in P
      BY <1>3
  <2>2. start \in Int /\ end \in Int /\ dur \in Int
      BY <1>1, <2>1 DEF Storable
  <2>3. origin \in Int /\ total \in Nat \ {0} /\ start >= origin /\ end - origin <= total
      BY <1>1, <2>1, AxisHolds
  <2>4. offset = 200 * (start - origin) /\ width = Greatest({total, 200 * dur}) /\ w.totalMs = total
      BY Zenon, <1>2 DEF RowSays
  <2>5. of(i).start = start /\ of(i).end = end /\ of(i).dur = dur
      BY <1>3 DEF SamePlace
  <2> HIDE DEF origin, total, start, end, dur, offset, width
  <2>6. offset >= 0
      BY <2>2, <2>3, <2>4
  <2>7. ASSUME dur <= end - start
        PROVE  200 * (start - origin) + width <= 200 * total \/ width = total
    <3>1. width = Greatest({total, 200 * dur})
        BY <2>4
    <3> QED BY <2>2, <2>3, <2>7, <3>1, RowFits
  <2> QED BY Zenon, <2>4, <2>5, <2>6, <2>7 DEF offset, width
<1>9. /\ Len(w.rows) = Cardinality(S)
      /\ \A i, j \in DOMAIN w.rows : i < j => of(i).start <= of(j).start
      /\ \A i, j \in DOMAIN w.rows :
           i # j /\ w.rows[i].name = w.rows[j].name => w.rows[i].turn = of(i).turn
    BY Zenon, <1>2, <1>5, <1>6 DEF n
<1>10. \A i \in DOMAIN w.rows :
         /\ w.rows[i].depth = Cardinality(Ancestors(S, of(i)))
                                + IF top(of(i)).parent = None THEN 0 ELSE 1
         /\ w.rows[i].offset >= 0
         /\ of(i).dur <= of(i).end - of(i).start =>
              \/ w.rows[i].offset + w.rows[i].width <= 200 * w.totalMs
              \/ w.rows[i].width = w.totalMs
    BY Zenon, <1>2, <1>7, <1>8
<1> QED BY Zenon, <1>4, <1>9, <1>10 DEF Shows, of

(* Together with its numbers, that is what a page promises.                 *)
LEMMA FaithfulParts ==
    ASSUME NEW trace, NEW rows, NEW page, page.status = 200, ~HasCycle(SpanSet(rows)),
           Len(page.waterfall.rows) = Len(rows),
           Shows(page.waterfall, SpanSet(rows)),
           TicksRise(page.waterfall.ticks, page.waterfall.totalMs),
           page.card.totalMs = page.hero.totalMs,
           page.card.spanCount = page.hero.spanCount, page.card.status = page.hero.status
    PROVE  Faithful(trace, rows, page)
<1> DEFINE S == SpanSet(rows)
        w == page.waterfall
        of(i) == CHOOSE s \in S : s.id = w.rows[i].id
        top(s) == CHOOSE a \in Ancestors(S, s) \cup {s} : ~\E b \in S : a.parent = b.id
<1>1. {w.rows[i].id : i \in DOMAIN w.rows} = {s.id : s \in S}
  BY Zenon DEF Shows
<1>2. \A i, j \in DOMAIN w.rows : i < j => of(i).start <= of(j).start
  BY Zenon DEF Shows
<1>3. \A i, j \in DOMAIN w.rows :
                  i # j /\ w.rows[i].name = w.rows[j].name => w.rows[i].turn = of(i).turn
  BY Zenon DEF Shows
<1>4. \A i \in DOMAIN w.rows : 
                  /\ w.rows[i].depth = Cardinality(Ancestors(S, of(i)))
                                         + IF top(of(i)).parent = None THEN 0 ELSE 1
                  /\ w.rows[i].offset >= 0
                  /\ of(i).dur <= of(i).end - of(i).start =>
                       \/ w.rows[i].offset + w.rows[i].width <= 200 * w.totalMs
                       \/ w.rows[i].width = w.totalMs
  BY Zenon DEF Shows
<1>5. /\ w.ticks[1] = 0 /\ w.ticks[Len(w.ticks)] = w.totalMs
      /\ \A i \in 1 .. Len(w.ticks) - 1 : w.ticks[i] < w.ticks[i + 1]
      /\ w.totalMs <= Minute => Len(w.ticks) <= 8
  BY Zenon DEF TicksRise
<1> QED BY Zenon, <1>1, <1>2, <1>3, <1>4, <1>5 DEF Faithful

(* The page of a trace is faithful to it, for any number of spans of any    *)
(* shape, ties, open ends and cycles included, in whatever order the rows   *)
(* are read: every span once, in the order of time, indented by the spans   *)
(* above it, inside an axis whose ticks rise to its end; and there is no    *)
(* page exactly where parents name each other in a circle (views.ts,        *)
(* metrics.ts, og.ts).                                                      *)
THEOREM EveryPageIsFaithful ==
    ASSUME NEW trace, NEW S, Storable(trace, S), NEW rows \in RowOrders(S)
    PROVE  Faithful(trace, rows, PublicPage(trace, rows))
<1> DEFINE page == PublicPage(trace, rows)
           t == toPublicTrace(trace)
           r == toPublicSpans(rows)
           P == SpanSet(r)
           w == page.waterfall
<1>1. SpanSet(rows) = S /\ Len(rows) = Cardinality(S) /\ DOMAIN rows = 1 .. Cardinality(S)
    BY RowsHoldSpans
<1>2. Keyed(S)
    BY StorableKeyed
<1>3. PageSays(page, trace, rows)
    BY PageFields
<1>4. CASE HasCycle(S)
  <2>1. \E s \in S : depthByParent(S)[s.id] = Cyclic
      BY <1>2, <1>4, CyclesOnly
  <2>2. page.status = 500
      BY <1>1, <1>3, <2>1 DEF PageSays
  <2> QED BY <1>1, <1>4, <2>2 DEF Faithful
<1>5. CASE ~HasCycle(S)
  <2>1. ~\E s \in S : depthByParent(S)[s.id] = Cyclic
      BY <1>2, <1>5, CyclesOnly
  <2>2. /\ page.status = 200 /\ page.hero = computeMetrics(t, r)
        /\ page.card = deriveCardMetrics(t, r) /\ w = computeWaterfall(t, r)
      BY Zenon, <1>1, <1>3, <2>1 DEF PageSays
  <2>3. /\ page.card.totalMs = page.hero.totalMs
        /\ page.card.spanCount = page.hero.spanCount /\ page.card.status = page.hero.status
      BY <2>2, CardAgrees
  <2>4. ASSUME S = {}
        PROVE  Shows(w, S) /\ TicksRise(w.ticks, w.totalMs)
    <3>1. rows = <<>> /\ r = <<>> /\ Len(rows) = 0
      <4>1. Cardinality(S) = 0
          BY <2>4, FS_EmptySet
      <4>2. DOMAIN rows = {} /\ rows \in [1 .. 0 -> S]
          BY <1>1, <4>1 DEF RowOrders
      <4> QED BY <1>1, <4>1, <4>2 DEF toPublicSpans
    <3>2. w = [rows |-> <<>>, totalMs |-> 0, ticks |-> <<0>>]
        BY <2>2, <3>1 DEF computeWaterfall
    <3> HIDE DEF w
    <3>3. w.rows = <<>> /\ w.totalMs = 0 /\ w.ticks = <<0>>
        BY <3>2
    <3>4. Len(w.rows) = 0 /\ DOMAIN w.rows = {} /\ Cardinality(S) = 0
        BY <1>1, <3>1, <3>3
    <3>5. Shows(w, S)
        BY <2>4, <3>4 DEF Shows
    <3>6. Len(w.ticks) = 1 /\ w.ticks[1] = 0 /\ 1 .. Len(w.ticks) - 1 = {}
        BY <3>3
    <3>7. TicksRise(w.ticks, w.totalMs)
        BY <3>3, <3>6 DEF TicksRise
    <3> QED BY <3>5, <3>7
  <2>5. ASSUME S # {}
        PROVE  Shows(w, S) /\ TicksRise(w.ticks, w.totalMs)
    <3>1. Projected(P, S) /\ r # <<>>
        BY <1>1, <2>5 DEF toPublicSpans, SpanSet, Projected
    <3>2. Storable(t, P)
        BY <3>1, ProjectedStorable
    <3>3. WaterfallSays(w, t, P)
        BY Zenon, <2>2, <3>1, <3>2, WaterfallFields
    <3>4. Shows(w, S)
        BY <1>5, <2>5, <3>1, <3>3, WaterfallShows
    <3>5. TicksRise(w.ticks, w.totalMs)
      <4>1. Total(t, P) \in Nat \ {0}
        <5>1. P # {}
            BY <2>5, <3>1 DEF Projected
        <5> QED BY <3>2, <5>1, AxisHolds
      <4>2. w.totalMs = Total(t, P) /\ w.ticks = chooseTicks(Total(t, P))
          BY <3>3 DEF WaterfallSays
      <4> QED BY Zenon, <4>1, <4>2, EveryAxisRises
    <3> QED BY <3>4, <3>5
  <2>6. /\ Shows(w, SpanSet(rows)) /\ ~HasCycle(SpanSet(rows))
        /\ TicksRise(w.ticks, w.totalMs)
      BY Zenon, <1>1, <1>5, <2>4, <2>5
  <2>7. Len(w.rows) = Len(rows)
      BY Zenon, <1>1, <2>6 DEF Shows
  <2>8. Faithful(trace, rows, page)
    <3> HIDE DEF page
    <3> QED BY Zenon, <2>2, <2>3, <2>6, <2>7, FaithfulParts
  <2> QED BY <2>8
<1> QED BY <1>4, <1>5
=============================================================================
