--------------------------- MODULE AlgorithmProofs ---------------------------
(***************************************************************************)
(* Theorems about DagAlgorithms, for every graph with finitely many        *)
(* vertices, and every order in which the rows of a Go map are read.  They *)
(* rest on lemmas about Reachability.  Where one would argue by induction, a*)
(* least counterexample is taken: least numbers and smallest sets exist.   *)
(***************************************************************************)
EXTENDS DagAlgorithms, FunctionTheorems, SequenceTheorems, FiniteSetTheorems, TLAPS

-----------------------------------------------------------------------------
(* What a graph reaches.                                                   *)

LEMMA LeastNat ==
  ASSUME NEW N \in SUBSET Nat, N # {}
  PROVE  \E n \in N : \A m \in N : n <= m
<1>1. PICK n \in N : \A m \in N : ~(<<m, n>> \in OpToRel(<, Nat))
  BY NatLessThanWellFounded, WFMin
<1>2. \A m \in N : ~(m < n) BY <1>1 DEF OpToRel
<1> QED BY <1>2

LEMMA SmallestSet ==
  ASSUME NEW U, IsFiniteSet(U), NEW F \in SUBSET SUBSET U, F # {}
  PROVE  \E V \in F : \A W \in F : W \subseteq V => W = V
<1>1. F \subseteq FiniteSubsetsOf(U) BY FS_Subset DEF FiniteSubsetsOf
<1>2. PICK V \in F : \A W \in F : ~(<<W, V>> \in StrictSubsetOrdering(U))
  BY <1>1, FS_StrictSubsetOrderingWellFounded, WFMin
<1> QED BY <1>2 DEF StrictSubsetOrdering

-----------------------------------------------------------------------------
\* What is reachable contains the start and is closed under the edges,
LEMMA ReachableIsClosed ==
  ASSUME NEW rows \in [Ids -> SUBSET Ids], NEW from \in SUBSET Ids
  PROVE  /\ Reachable(rows, from) \subseteq Ids
         /\ from \subseteq Reachable(rows, from)
         /\ Closed(rows, Reachable(rows, from))
<1>1. Reachable(rows, from) \subseteq Ids /\ from \subseteq Reachable(rows, from) BY DEF Reachable
<1>2. ASSUME NEW v \in Reachable(rows, from), NEW w \in rows[v] PROVE w \in Reachable(rows, from)
  <2>1. w \in Ids BY <1>1
  <2>2. ASSUME NEW set \in SUBSET Ids, from \subseteq set, Closed(rows, set) PROVE w \in set
    <3>1. v \in set BY <2>2 DEF Reachable
    <3> QED BY <3>1, <2>2 DEF Closed
  <2> QED BY <2>1, <2>2 DEF Reachable
<1> QED BY <1>1, <1>2 DEF Closed

\* and there is no smaller set like that.
LEMMA ReachableIsLeast ==
  ASSUME NEW rows, NEW from, NEW set \in SUBSET Ids, from \subseteq set, Closed(rows, set)
  PROVE  Reachable(rows, from) \subseteq set
BY DEF Reachable

\* From what is reachable nothing more is reached.
LEMMA ReachableAgain ==
  ASSUME NEW rows \in [Ids -> SUBSET Ids], NEW from \in SUBSET Ids,
         NEW on \in SUBSET Reachable(rows, from)
  PROVE  Reachable(rows, on) \subseteq Reachable(rows, from)
BY ReachableIsClosed, ReachableIsLeast

Reaches(rows, v, w) == w \in Reachable(rows, {v})

LEMMA ReachesItself ==
  ASSUME NEW rows \in [Ids -> SUBSET Ids], NEW v \in Ids
  PROVE  Reaches(rows, v, v)
BY ReachableIsClosed DEF Reaches

LEMMA ReachesRow ==
  ASSUME NEW rows \in [Ids -> SUBSET Ids], NEW v \in Ids, NEW w \in rows[v]
  PROVE  w \in Ids /\ Reaches(rows, v, w)
<1>1. v \in Reachable(rows, {v}) /\ Closed(rows, Reachable(rows, {v})) BY ReachableIsClosed
<1> QED BY <1>1 DEF Closed, Reaches

LEMMA ReachesOn ==
  ASSUME NEW rows \in [Ids -> SUBSET Ids], NEW u \in Ids, NEW v \in Ids, NEW w,
         Reaches(rows, u, v), Reaches(rows, v, w)
  PROVE  w \in Ids /\ Reaches(rows, u, w)
<1>1. {v} \in SUBSET Reachable(rows, {u}) BY DEF Reaches
<1>2. Reachable(rows, {v}) \subseteq Reachable(rows, {u}) BY <1>1, ReachableAgain
<1> QED BY <1>2, ReachableIsClosed DEF Reaches

\* A vertex reaches itself and what its row reaches.
LEMMA ReachableOfRow ==
  ASSUME NEW rows \in [Ids -> SUBSET Ids], NEW v \in Ids
  PROVE  Reachable(rows, {v}) = {v} \cup Reachable(rows, rows[v])
<1> DEFINE all == Reachable(rows, {v})
           later == Reachable(rows, rows[v])
<1>1. /\ later \in SUBSET Ids /\ rows[v] \subseteq later /\ Closed(rows, later)
      /\ all \in SUBSET Ids /\ v \in all /\ Closed(rows, all)
  BY ReachableIsClosed
<1>2. later \subseteq all
  <2>1. rows[v] \in SUBSET Reachable(rows, {v}) BY <1>1 DEF Closed
  <2> QED BY <2>1, ReachableAgain
<1>3. Closed(rows, {v} \cup later) /\ {v} \cup later \in SUBSET Ids BY <1>1 DEF Closed
<1>4. all \subseteq {v} \cup later BY <1>3, ReachableIsLeast
<1> QED BY <1>1, <1>2, <1>4

\* What a set reaches, one of its vertices reaches.
LEMMA ReachableFromOne ==
  ASSUME NEW rows \in [Ids -> SUBSET Ids], NEW from \in SUBSET Ids,
         NEW w \in Reachable(rows, from)
  PROVE  \E v \in from : Reaches(rows, v, w)
<1> DEFINE all == {x \in Ids : \E v \in from : Reaches(rows, v, x)}
<1>1. from \subseteq all BY ReachesItself
<1>2. ASSUME NEW x \in all, NEW y \in rows[x] PROVE y \in all
  <2>1. PICK v \in from : Reaches(rows, v, x) OBVIOUS
  <2>2. y \in Ids /\ Reaches(rows, x, y) BY ReachesRow
  <2> QED BY <2>1, <2>2, ReachesOn
<1>3. Closed(rows, all) BY <1>2 DEF Closed
<1> QED BY <1>1, <1>3, ReachableIsLeast

\* A vertex that another one reaches has an edge from a vertex on the way.
LEMMA ReachedThroughRow ==
  ASSUME NEW rows \in [Ids -> SUBSET Ids], NEW u \in Ids, NEW v \in Ids,
         Reaches(rows, u, v), u # v
  PROVE  \E p \in Ids : Reaches(rows, u, p) /\ v \in rows[p]
<1> SUFFICES ASSUME \A p \in Ids : Reaches(rows, u, p) => v \notin rows[p] PROVE FALSE
  OBVIOUS
<1> DEFINE others == Reachable(rows, {u}) \ {v}
<1>1. /\ Reachable(rows, {u}) \in SUBSET Ids /\ u \in Reachable(rows, {u})
      /\ Closed(rows, Reachable(rows, {u}))
  BY ReachableIsClosed
<1>2. Closed(rows, others) BY <1>1 DEF Closed, Reaches
<1>3. Reachable(rows, {u}) \subseteq others BY ZenonT(40), <1>1, <1>2, ReachableIsLeast
<1> QED BY <1>3 DEF Reaches

-----------------------------------------------------------------------------
\* Among the vertices of a finite graph without cycles, one has no edge from
\* another: one that is reached from as few of them as can be.
LEMMA AcyclicHasSources ==
  ASSUME IsFiniteSet(Ids), NEW rows \in [Ids -> SUBSET Ids], Acyclic(rows),
         NEW U \in SUBSET Ids, U # {}
  PROVE  \E v \in U : \A p \in U : v \notin rows[p]
<1> DEFINE up(v) == {w \in U : Reaches(rows, w, v)}
           F == {up(v) : v \in U}
<1>1. F \in SUBSET SUBSET U /\ F # {} OBVIOUS
<1>2. IsFiniteSet(U) BY FS_Subset
<1>3. PICK V \in F : \A W \in F : W \subseteq V => W = V
  <2> HIDE DEF F
  <2> QED BY <1>1, <1>2, SmallestSet
<1>4. PICK v \in U : V = up(v) OBVIOUS
<1>5. ASSUME NEW p \in U, v \in rows[p] PROVE FALSE
  <2>1. Reaches(rows, p, v) BY <1>5, ReachesRow
  <2>2. up(p) \subseteq up(v) BY <2>1, ReachesOn
  <2>3. up(p) = up(v) BY <2>2, <1>3, <1>4
  <2>4. Reaches(rows, v, p) BY <2>3, ReachesItself
  <2>5. /\ rows[p] \in SUBSET Ids /\ {v} \in SUBSET Reachable(rows, rows[p])
    BY <1>5, ReachableIsClosed
  <2>6. p \in Reachable(rows, rows[p]) BY <2>4, <2>5, ReachableAgain DEF Reaches
  <2> QED BY <2>6 DEF Acyclic
<1> QED BY <1>5

\* If among any vertices one has no edge from another, there is no cycle: the
\* vertices of a cycle each have one.
LEMMA SourcesMeanAcyclic ==
  ASSUME NEW rows \in [Ids -> SUBSET Ids],
         \A U \in SUBSET Ids : U # {} => \E v \in U : \A p \in U : v \notin rows[p]
  PROVE  Acyclic(rows)
<1> SUFFICES ASSUME NEW v \in Ids, v \in Reachable(rows, rows[v]) PROVE FALSE BY DEF Acyclic
<1> DEFINE U == {w \in Ids : Reaches(rows, v, w) /\ Reaches(rows, w, v)}
<1>1. v \in U BY ReachesItself
<1>2. PICK x \in U : \A p \in U : x \notin rows[p] BY <1>1
<1>3. CASE x = v
  <2>1. PICK y \in rows[v] : Reaches(rows, y, v) BY ReachableFromOne
  <2>2. y \in Ids /\ Reaches(rows, v, y) BY ReachesRow
  <2>3. y # v BY <1>1, <1>2, <1>3
  <2>4. PICK p \in Ids : Reaches(rows, y, p) /\ v \in rows[p]
    BY <2>1, <2>2, <2>3, ReachedThroughRow
  <2>5. Reaches(rows, v, p) /\ Reaches(rows, p, v) BY <2>2, <2>4, ReachesOn, ReachesRow
  <2> QED BY <2>4, <2>5, <1>2, <1>3
<1>4. CASE x # v
  <2>1. PICK p \in Ids : Reaches(rows, v, p) /\ x \in rows[p] BY <1>4, ReachedThroughRow
  <2>2. Reaches(rows, p, v) BY <2>1, ReachesOn, ReachesRow
  <2> QED BY <2>1, <2>2, <1>2
<1> QED BY <1>3, <1>4

RootsOf(rows, V) == {v \in V : \A p \in Ids : v \notin rows[p]}

\* A vertex that reaches all others is the only one without an edge to it,
LEMMA AllReachedFromRoot ==
  ASSUME IsFiniteSet(Ids), NEW rows \in [Ids -> SUBSET Ids], Acyclic(rows),
         NEW V \in SUBSET Ids, \A v, w \in Ids : w \in rows[v] => v \in V /\ w \in V,
         NEW r \in V, Reachable(rows, {r}) = V
  PROVE  RootsOf(rows, V) = {r}
<1>1. PICK x \in V : \A p \in V : x \notin rows[p] BY AcyclicHasSources
<1>2. x \in RootsOf(rows, V) BY <1>1 DEF RootsOf
<1>3. ASSUME NEW y \in RootsOf(rows, V), y # r PROVE FALSE
  <2>1. y \in Ids /\ Reaches(rows, r, y) BY DEF RootsOf, Reaches
  <2> QED BY <2>1, <1>3, ReachedThroughRow DEF RootsOf
<1> QED BY <1>2, <1>3

\* and the only vertex without an edge to it reaches all others: among those
\* it does not reach there would be another one.
LEMMA RootReachesAll ==
  ASSUME IsFiniteSet(Ids), NEW rows \in [Ids -> SUBSET Ids], Acyclic(rows),
         NEW V \in SUBSET Ids, \A v, w \in Ids : w \in rows[v] => v \in V /\ w \in V,
         NEW r, RootsOf(rows, V) = {r}
  PROVE  r \in V /\ Reachable(rows, {r}) = V
<1>1. r \in V BY DEF RootsOf
<1> DEFINE reach == Reachable(rows, {r})
<1>2. reach \subseteq V
  <2>1. Closed(rows, V) BY DEF Closed
  <2> QED BY <1>1, <2>1, ReachableIsLeast
<1>3. r \in reach /\ Closed(rows, reach) BY <1>1, ReachableIsClosed
<1>4. ASSUME V \ reach # {} PROVE FALSE
  <2>1. PICK v \in V \ reach : \A p \in V \ reach : v \notin rows[p] BY <1>4, AcyclicHasSources
  <2>2. v \in RootsOf(rows, V)
    <3> SUFFICES ASSUME NEW p \in Ids, v \in rows[p] PROVE FALSE BY DEF RootsOf
    <3>1. p \in reach BY <2>1
    <3> QED BY <3>1, <1>3, <2>1 DEF Closed
  <2> QED BY <2>1, <2>2, <1>3
<1> QED BY <1>1, <1>2, <1>4

\* With fewer edges less is reached, and no cycle appears.
LEMMA FewerEdgesReachLess ==
  ASSUME NEW rows \in [Ids -> SUBSET Ids], NEW fewer \in [Ids -> SUBSET Ids],
         \A v \in Ids : fewer[v] \subseteq rows[v],
         NEW from \in SUBSET Ids, NEW more \in SUBSET Ids, from \subseteq more
  PROVE  Reachable(fewer, from) \subseteq Reachable(rows, more)
<1>1. /\ Reachable(rows, more) \in SUBSET Ids /\ more \subseteq Reachable(rows, more)
      /\ Closed(rows, Reachable(rows, more))
  BY ReachableIsClosed
<1>2. Closed(fewer, Reachable(rows, more)) BY <1>1 DEF Closed
<1> QED BY <1>1, <1>2, ReachableIsLeast

LEMMA FewerEdgesStayAcyclic ==
  ASSUME NEW rows \in [Ids -> SUBSET Ids], NEW fewer \in [Ids -> SUBSET Ids],
         \A v \in Ids : fewer[v] \subseteq rows[v], Acyclic(rows)
  PROVE  Acyclic(fewer)
<1> SUFFICES ASSUME NEW v \in Ids PROVE v \notin Reachable(fewer, fewer[v]) BY DEF Acyclic
<1>1. fewer[v] \in SUBSET Ids /\ rows[v] \in SUBSET Ids /\ fewer[v] \subseteq rows[v] OBVIOUS
<1>2. Reachable(fewer, fewer[v]) \subseteq Reachable(rows, rows[v]) BY <1>1, FewerEdgesReachLess
<1> QED BY <1>2 DEF Acyclic

\* fewer is rows without the edges from u to the targets of w.
LosesShared(rows, fewer, u, w) ==
  \A v \in Ids : fewer[v] = IF v = u THEN rows[v] \ rows[w] ELSE rows[v]

\* An edge is not needed when its target is also the target of another vertex
\* that u reaches: without the edges from u to the targets of w, everything is
\* reached as before.  The way from u to w does not begin with such an edge,
\* as w would reach itself, and does not come back to u.
LEMMA SharedEdgesAreNotNeeded ==
  ASSUME NEW rows \in [Ids -> SUBSET Ids], NEW fewer \in [Ids -> SUBSET Ids], Acyclic(rows),
         NEW u \in Ids, NEW w \in Ids, w # u, Reaches(rows, u, w),
         LosesShared(rows, fewer, u, w)
  PROVE  \A v \in Ids : Reachable(fewer, {v}) = Reachable(rows, {v})
<1>1. \A v \in Ids : fewer[v] \subseteq rows[v] BY DEF LosesShared
<1>2. /\ rows[u] \in SUBSET Ids /\ rows[w] \in SUBSET Ids
      /\ fewer[u] = rows[u] \ rows[w] /\ fewer[w] = rows[w]
  BY DEF LosesShared
<1>3. PICK s \in rows[u] : Reaches(rows, s, w)
  <2>1. Reachable(rows, {u}) = {u} \cup Reachable(rows, rows[u]) BY ReachableOfRow
  <2>2. w \in Reachable(rows, rows[u]) BY <2>1 DEF Reaches
  <2> QED BY <1>2, <2>2, ReachableFromOne
<1>4. s \in Ids BY <1>2
<1>5. s \notin rows[w]
  <2> SUFFICES ASSUME s \in rows[w] PROVE FALSE OBVIOUS
  <2>1. {s} \in SUBSET Reachable(rows, rows[w]) BY <1>2, ReachableIsClosed
  <2>2. Reachable(rows, {s}) \subseteq Reachable(rows, rows[w]) BY <1>2, <2>1, ReachableAgain
  <2> QED BY <1>3, <2>2 DEF Acyclic, Reaches
<1>6. u \notin Reachable(rows, {s})
  <2>1. {s} \in SUBSET Reachable(rows, rows[u]) BY <1>2, ReachableIsClosed
  <2>2. Reachable(rows, {s}) \subseteq Reachable(rows, rows[u]) BY <1>2, <2>1, ReachableAgain
  <2> QED BY <2>2 DEF Acyclic
<1>7. Reaches(fewer, s, w)
  <2> DEFINE reach == Reachable(fewer, {s})
  <2>1. reach \in SUBSET Ids /\ {s} \subseteq reach /\ Closed(fewer, reach)
    BY <1>4, ReachableIsClosed
  <2>2. reach \subseteq Reachable(rows, {s}) BY <1>1, <1>4, FewerEdgesReachLess
  <2>3. u \notin reach BY <2>2, <1>6
  <2> HIDE DEF reach
  <2>4. Closed(rows, reach) BY <2>1, <2>3 DEF Closed, LosesShared
  <2>5. Reachable(rows, {s}) \subseteq reach BY <2>1, <2>4, ReachableIsLeast
  <2> QED BY <2>5, <1>3 DEF Reaches, reach
<1>8. rows[u] \subseteq Reachable(fewer, {u})
  <2>1. s \in fewer[u] BY <1>2, <1>3, <1>5
  <2>2. Reaches(fewer, u, s) BY <2>1, ReachesRow
  <2>3. Reaches(fewer, u, w) BY <2>2, <1>4, <1>7, ReachesOn
  <2>4. /\ u \in Reachable(fewer, {u}) /\ Closed(fewer, Reachable(fewer, {u})) BY ReachableIsClosed
  <2>5. fewer[u] \subseteq Reachable(fewer, {u}) /\ fewer[w] \subseteq Reachable(fewer, {u})
    BY <2>3, <2>4 DEF Closed, Reaches
  <2> QED BY <1>2, <2>5
<1> SUFFICES ASSUME NEW v \in Ids PROVE Reachable(fewer, {v}) = Reachable(rows, {v}) OBVIOUS
<1>9. Reachable(fewer, {v}) \subseteq Reachable(rows, {v}) BY <1>1, FewerEdgesReachLess
<1> DEFINE reach == Reachable(fewer, {v})
<1>10. reach \in SUBSET Ids /\ {v} \subseteq reach /\ Closed(fewer, reach) BY ReachableIsClosed
<1>11. ASSUME NEW x \in reach PROVE rows[x] \subseteq reach
  <2>1. CASE x = u
    <3>1. {u} \in SUBSET reach BY <2>1
    <3>2. Reachable(fewer, {u}) \subseteq reach BY <3>1, ReachableAgain
    <3> QED BY <1>8, <2>1, <3>2
  <2>2. CASE x # u BY <2>2, <1>10 DEF Closed, LosesShared
  <2> QED BY <2>1, <2>2
<1>12. Closed(rows, reach) BY <1>11 DEF Closed
<1>13. Reachable(rows, {v}) \subseteq reach BY <1>10, <1>12, ReachableIsLeast
<1> QED BY <1>9, <1>13

-----------------------------------------------------------------------------
\* The way a ball grows, and a function that grows like that: what is reached in
\* at most k steps.
OneMore(rows, set) == set \cup UNION {rows[v] : v \in set}
Grown(rows, from, f, k) == IF k = 0 THEN from ELSE OneMore(rows, f[k-1])

Path(rows, from, s, k) ==
  /\ s \in [0 .. k -> Ids] /\ s[0] \in from
  /\ \A i \in 1 .. k : s[i] = s[i-1] \/ s[i] \in rows[s[i-1]]

OnPaths(rows, from, k) == {v \in Ids : \E s : Path(rows, from, s, k) /\ s[k] = v}

LEMMA PathsGrow ==
  ASSUME NEW rows \in [Ids -> SUBSET Ids], NEW from \in SUBSET Ids, NEW k \in Nat
  PROVE  /\ OnPaths(rows, from, 0) = from
         /\ OnPaths(rows, from, k + 1) = OneMore(rows, OnPaths(rows, from, k))
<1>1. OnPaths(rows, from, 0) = from
  <2>1. ASSUME NEW v \in from PROVE v \in OnPaths(rows, from, 0)
    <3> DEFINE s == [i \in 0 .. 0 |-> v]
    <3>1. s[0] = v /\ Path(rows, from, s, 0) BY DEF Path
    <3> HIDE DEF s
    <3> QED BY <3>1 DEF OnPaths
  <2>2. ASSUME NEW v \in OnPaths(rows, from, 0) PROVE v \in from BY DEF OnPaths, Path
  <2> QED BY <2>1, <2>2
<1>2. ASSUME NEW v \in OnPaths(rows, from, k), NEW w \in Ids, w = v \/ w \in rows[v]
      PROVE  w \in OnPaths(rows, from, k + 1)
  <2>1. PICK s : Path(rows, from, s, k) /\ s[k] = v BY DEF OnPaths
  <2> DEFINE t == [i \in 0 .. k + 1 |-> IF i = k + 1 THEN w ELSE s[i]]
  <2>2. s \in [0 .. k -> Ids] /\ s[0] \in from BY <2>1 DEF Path
  <2>3. t \in [0 .. k + 1 -> Ids] BY <2>2
  <2>4. t[k+1] = w /\ \A i \in 0 .. k : t[i] = s[i] OBVIOUS
  <2> HIDE DEF t
  <2>5. t[0] \in from BY <2>2, <2>4
  <2>6. ASSUME NEW i \in 1 .. k + 1 PROVE t[i] = t[i-1] \/ t[i] \in rows[t[i-1]]
    <3>1. CASE i = k + 1
      <4>1. i - 1 = k /\ t[k] = v BY <3>1, <2>1, <2>4
      <4> QED BY <4>1, <3>1, <2>4, <1>2
    <3>2. CASE i # k + 1
      <4>1. i \in 1 .. k /\ i \in 0 .. k /\ i - 1 \in 0 .. k BY <3>2
      <4> QED BY <4>1, <2>1, <2>4 DEF Path
    <3> QED BY <3>1, <3>2
  <2>7. Path(rows, from, t, k + 1) BY <2>3, <2>5, <2>6 DEF Path
  <2> QED BY <2>4, <2>7 DEF OnPaths
<1>3. ASSUME NEW w \in OnPaths(rows, from, k + 1)
      PROVE  \E v \in OnPaths(rows, from, k) : w = v \/ w \in rows[v]
  <2>1. PICK s : Path(rows, from, s, k + 1) /\ s[k+1] = w BY DEF OnPaths
  <2> DEFINE t == [i \in 0 .. k |-> s[i]]
  <2>2. s \in [0 .. k + 1 -> Ids] /\ s[0] \in from
        /\ \A i \in 1 .. k + 1 : s[i] = s[i-1] \/ s[i] \in rows[s[i-1]]
    BY <2>1 DEF Path
  <2>3. t \in [0 .. k -> Ids] /\ \A i \in 0 .. k : t[i] = s[i] BY <2>2
  <2> HIDE DEF t
  <2>4. ASSUME NEW i \in 1 .. k PROVE t[i] = t[i-1] \/ t[i] \in rows[t[i-1]]
    <3>1. i \in 1 .. k + 1 /\ t[i] = s[i] /\ t[i-1] = s[i-1] BY <2>3
    <3> QED BY <3>1, <2>2
  <2>5. Path(rows, from, t, k) BY <2>2, <2>3, <2>4 DEF Path
  <2>6. t[k] \in Ids /\ t[k] = s[k] BY <2>3
  <2>7. t[k] \in OnPaths(rows, from, k) BY <2>5, <2>6 DEF OnPaths
  <2>8. k + 1 \in 1 .. k + 1 /\ k + 1 - 1 = k OBVIOUS
  <2>9. w = t[k] \/ w \in rows[t[k]] BY <2>1, <2>2, <2>6, <2>8
  <2> QED BY <2>7, <2>9
<1>4. OnPaths(rows, from, k) \subseteq Ids BY DEF OnPaths
<1>5. UNION {rows[v] : v \in OnPaths(rows, from, k)} \subseteq Ids BY <1>4
<1>6. OnPaths(rows, from, k + 1)
        \subseteq OnPaths(rows, from, k) \cup UNION {rows[v] : v \in OnPaths(rows, from, k)}
  BY <1>3
<1>7. OnPaths(rows, from, k) \subseteq OnPaths(rows, from, k + 1) BY <1>2, <1>4
<1>8. UNION {rows[v] : v \in OnPaths(rows, from, k)} \subseteq OnPaths(rows, from, k + 1)
  <2> SUFFICES ASSUME NEW v \in OnPaths(rows, from, k), NEW w \in rows[v]
               PROVE  w \in OnPaths(rows, from, k + 1)
    OBVIOUS
  <2>1. w \in Ids BY <1>4
  <2> QED BY <2>1, <1>2
<1> QED BY <1>1, <1>6, <1>7, <1>8 DEF OneMore

\* So Ball is what it reads as: the set to begin with, and in each step what one
\* more edge leads to.
LEMMA BallGrows ==
  ASSUME NEW rows \in [Ids -> SUBSET Ids], NEW from \in SUBSET Ids
  PROVE  /\ Ball(rows, from, 0) = from
         /\ \A k \in Nat : Ball(rows, from, k + 1) = OneMore(rows, Ball(rows, from, k))
<1> DEFINE IsBall(f) == f = [k \in Nat |-> Grown(rows, from, f, k)]
           h == [k \in Nat |-> OnPaths(rows, from, k)]
           ball == CHOOSE f : IsBall(f)
<1>1. IsBall(h)
  <2>1. ASSUME NEW k \in Nat PROVE OnPaths(rows, from, k) = Grown(rows, from, h, k)
    <3>1. CASE k = 0 BY <3>1, PathsGrow DEF Grown
    <3>2. CASE k # 0
      <4>1. k - 1 \in Nat /\ k - 1 + 1 = k /\ h[k-1] = OnPaths(rows, from, k - 1) BY <3>2
      <4>2. OnPaths(rows, from, k - 1 + 1) = OneMore(rows, OnPaths(rows, from, k - 1))
        BY <4>1, PathsGrow
      <4> HIDE DEF h
      <4> QED BY <4>1, <4>2, <3>2 DEF Grown
    <3> QED BY <3>1, <3>2
  <2> QED BY <2>1
<1>2. IsBall(ball) BY <1>1
<1>3. \A n \in Nat : Ball(rows, from, n) = ball[n] BY DEF Ball, Grown, OneMore
<1> HIDE DEF ball
<1>4. ball[0] = from BY <1>2 DEF Grown
<1>5. ASSUME NEW k \in Nat PROVE ball[k+1] = OneMore(rows, ball[k])
  <2>1. k + 1 \in Nat /\ k + 1 # 0 /\ k + 1 - 1 = k OBVIOUS
  <2>2. ball[k+1] = Grown(rows, from, ball, k + 1) BY <1>2, <2>1
  <2> QED BY <2>1, <2>2 DEF Grown
<1> QED BY <1>3, <1>4, <1>5

-----------------------------------------------------------------------------
(* From here on, the ids are finitely many.                                *)

USE AlgorithmAssumption DEF AlgorithmAssumption

-----------------------------------------------------------------------------
(* The graph an algorithm runs on.                                         *)

\* The rows stay within the vertices, and one direction is the converse of
\* the other.
GraphInv ==
  /\ g.vertices \subseteq Ids
  /\ g.downEdges \in [Ids -> SUBSET Ids] /\ g.upEdges \in [Ids -> SUBSET Ids]
  /\ \A v, w \in Ids :
       /\ w \in g.downEdges[v] <=> v \in g.upEdges[w]
       /\ w \in g.downEdges[v] => v \in g.vertices /\ w \in g.vertices

LEMMA InitGraph == Init => GraphInv
<1> SUFFICES ASSUME NEW vertices \in VertexSets, NEW pairs \in SUBSET (vertices \X vertices),
                    g = Built(vertices, pairs)
             PROVE  GraphInv
  BY DEF Init, kSubset
<1>1. /\ g.vertices = vertices
      /\ g.downEdges = [v \in Ids |-> {w \in Ids : <<v, w>> \in pairs}]
      /\ g.upEdges = [v \in Ids |-> {w \in Ids : <<w, v>> \in pairs}]
  BY DEF Built
<1> QED BY <1>1 DEF GraphInv

\* A call other than a reduction leaves the graph alone.
LEMMA GraphStays ==
  ASSUME reduction.result = "none", [Next]_vars
  PROVE  UNCHANGED <<g, reduction>>
BY DEF Next, Step, S!Step, T!Step, ReduceStep, NextVertex, Prune, WalkOn, VertexDone, Reduced,
       Reducing, vars

-----------------------------------------------------------------------------
(* The walks.                                                              *)

Entries == [vertex : Ids, depth : Nat]
VerticesOf(s) == {s[i].vertex : i \in DOMAIN s}

LEMMA VerticesOfConcat ==
  ASSUME NEW s \in Seq(Entries), NEW t \in Seq(Entries)
  PROVE  s \o t \in Seq(Entries) /\ VerticesOf(s \o t) = VerticesOf(s) \cup VerticesOf(t)
<1>1. /\ s \o t \in Seq(Entries) /\ Len(s \o t) = Len(s) + Len(t)
      /\ \A i \in 1 .. Len(s) + Len(t) : (s \o t)[i] = IF i <= Len(s) THEN s[i] ELSE t[i - Len(s)]
  BY ConcatProperties
<1>2. Len(s) \in Nat /\ Len(t) \in Nat BY LenProperties
<1>3. DOMAIN s = 1 .. Len(s) /\ DOMAIN t = 1 .. Len(t) /\ DOMAIN (s \o t) = 1 .. Len(s) + Len(t)
  BY <1>1, LenProperties
<1>4. ASSUME NEW i \in DOMAIN t PROVE t[i].vertex \in VerticesOf(s \o t)
  <2>1. Len(s) + i \in 1 .. Len(s) + Len(t) /\ ~(Len(s) + i <= Len(s)) /\ Len(s) + i - Len(s) = i
    BY <1>2, <1>3
  <2>2. (s \o t)[Len(s) + i] = t[i] BY <1>1, <2>1
  <2> QED BY <2>1, <2>2, <1>3 DEF VerticesOf
<1>5. ASSUME NEW i \in DOMAIN s PROVE s[i].vertex \in VerticesOf(s \o t)
  <2>1. i \in 1 .. Len(s) + Len(t) /\ (s \o t)[i] = s[i] BY <1>1, <1>2, <1>3
  <2> QED BY <2>1, <1>3 DEF VerticesOf
<1>6. ASSUME NEW i \in DOMAIN (s \o t)
      PROVE  (s \o t)[i].vertex \in VerticesOf(s) \cup VerticesOf(t)
  <2>1. CASE i <= Len(s)
    <3>1. i \in DOMAIN s /\ (s \o t)[i] = s[i] BY <2>1, <1>1, <1>2, <1>3
    <3> QED BY <3>1 DEF VerticesOf
  <2>2. CASE ~(i <= Len(s))
    <3>1. i - Len(s) \in DOMAIN t /\ (s \o t)[i] = t[i - Len(s)] BY <2>2, <1>1, <1>2, <1>3
    <3> QED BY <3>1 DEF VerticesOf
  <2> QED BY <2>1, <2>2
<1>7. VerticesOf(s \o t) \subseteq VerticesOf(s) \cup VerticesOf(t) BY <1>6 DEF VerticesOf
<1>8. VerticesOf(s) \cup VerticesOf(t) \subseteq VerticesOf(s \o t)
  <2>1. VerticesOf(s) \subseteq VerticesOf(s \o t) BY <1>5 DEF VerticesOf
  <2>2. VerticesOf(t) \subseteq VerticesOf(s \o t) BY <1>4 DEF VerticesOf
  <2> QED BY <2>1, <2>2
<1> QED BY <1>1, <1>7, <1>8

LEMMA VerticesOfAppend ==
  ASSUME NEW s \in Seq(Entries), NEW e \in Entries
  PROVE  /\ Append(s, e) \in Seq(Entries)
         /\ VerticesOf(Append(s, e)) = VerticesOf(s) \cup {e.vertex}
<1>1. /\ Append(s, e) \in Seq(Entries) /\ Len(Append(s, e)) = Len(s) + 1
      /\ \A i \in 1 .. Len(s) : Append(s, e)[i] = s[i]
      /\ Append(s, e)[Len(s) + 1] = e /\ Len(s) \in Nat
  BY AppendProperties, LenProperties
<1>2. DOMAIN Append(s, e) = 1 .. Len(s) + 1 /\ DOMAIN s = 1 .. Len(s) BY <1>1, LenProperties
<1>3. DOMAIN Append(s, e) = DOMAIN s \cup {Len(s) + 1} BY <1>1, <1>2
<1>4. \A i \in DOMAIN s : Append(s, e)[i] = s[i] BY <1>1, <1>2
<1> QED BY <1>1, <1>3, <1>4 DEF VerticesOf

\* The order a row joins the frontier in loses no vertex of it.
LEMMA AtDepthIsWhole ==
  ASSUME NEW R \in SUBSET Ids, NEW d \in Nat, NEW next \in AtDepth(d, R)
  PROVE  next \in Seq(Entries) /\ VerticesOf(next) = R
<1> DEFINE n == Cardinality(R)
<1>1. IsFiniteSet(R) /\ n \in Nat BY FS_Subset, FS_CardinalityType
<1> PICK s \in SetToSeqs(R) : next = [i \in DOMAIN s |-> [vertex |-> s[i], depth |-> d]]
  BY DEF AtDepth
<1>2. s \in [1 .. n -> R] /\ \A i, j \in 1 .. n : i # j => s[i] # s[j] BY DEF SetToSeqs
<1>3. s \in Injection(1 .. n, R) BY <1>2 DEF Injection, IsInjective
<1>4. Cardinality(1 .. n) = n
  <2> HIDE DEF n
  <2>1. n \in Int /\ 1 \in Int BY <1>1
  <2>2. Cardinality(1 .. n) = IF 1 > n THEN 0 ELSE n - 1 + 1 BY <2>1, FS_Interval, Zenon
  <2> QED BY <2>2, <1>1
<1>5. s \in Surjection(1 .. n, R) BY <1>1, <1>3, <1>4, FS_Injection
<1>6. \A v \in R : \E i \in 1 .. n : s[i] = v BY <1>5 DEF Surjection
<1>7. next = [i \in 1 .. n |-> [vertex |-> s[i], depth |-> d]] BY <1>2
<1> HIDE DEF n
<1>8. next \in Seq(Entries) BY <1>1, <1>2, <1>7, IsASeq DEF Entries
<1> QED BY <1>2, <1>6, <1>7, <1>8 DEF VerticesOf

\* A call that looks at the end or at the head of its frontier keeps the rest.
LEMMA CurrentAndRest ==
  ASSUME walk.frontier \in Seq(Entries), walk.frontier # <<>>
  PROVE  /\ Current \in Entries /\ Rest \in Seq(Entries)
         /\ VerticesOf(walk.frontier) = VerticesOf(Rest) \cup {Current.vertex}
<1> DEFINE f == walk.frontier
<1>1. Len(f) \in Nat \ {0} BY EmptySeq
<1>2. DOMAIN f = 1 .. Len(f) /\ \A i \in 1 .. Len(f) : f[i] \in Entries BY LenProperties, ElementOfSeq
<1>3. CASE walk.kind = "depthFirst"
  <2>1. Current = f[Len(f)] /\ Rest = SubSeq(f, 1, Len(f) - 1) BY <1>3 DEF Current, Rest, Last, Front
  <2>2. /\ SubSeq(f, 1, Len(f) - 1) \in Seq(Entries)
        /\ Len(SubSeq(f, 1, Len(f) - 1)) = Len(f) - 1
        /\ \A i \in 1 .. Len(f) - 1 : SubSeq(f, 1, Len(f) - 1)[i] = f[i]
    BY <1>1, <1>2
  <2>3. DOMAIN Rest = 1 .. Len(f) - 1 /\ 1 .. Len(f) = 1 .. Len(f) - 1 \cup {Len(f)}
    BY <1>1, <2>1, <2>2, LenProperties
  <2> HIDE DEF f
  <2> QED BY <1>1, <1>2, <2>1, <2>2, <2>3 DEF VerticesOf, f
<1>4. CASE walk.kind # "depthFirst"
  <2>1. Current = Head(f) /\ Rest = Tail(f) BY <1>4 DEF Current, Rest
  <2>2. /\ Head(f) \in Entries /\ Tail(f) \in Seq(Entries) /\ Len(Tail(f)) = Len(f) - 1
        /\ \A i \in 1 .. Len(Tail(f)) : Tail(f)[i] = f[i + 1]
        /\ Head(f) = f[1]
    BY HeadTailProperties
  <2>3. DOMAIN Tail(f) = 1 .. Len(f) - 1 BY <2>2, LenProperties
  <2>4. \A i \in 1 .. Len(f) : i = 1 \/ (i - 1 \in 1 .. Len(f) - 1 /\ Tail(f)[i - 1] = f[i])
    BY <1>1, <2>2
  <2>5. \A i \in 1 .. Len(f) - 1 : i + 1 \in 1 .. Len(f) /\ Tail(f)[i] = f[i + 1] BY <1>1, <2>2
  <2>6. 1 \in 1 .. Len(f) BY <1>1
  <2>7. \A i \in DOMAIN f : f[i].vertex \in VerticesOf(Tail(f)) \cup {f[1].vertex}
    BY <1>2, <2>3, <2>4 DEF VerticesOf
  <2>8. VerticesOf(Tail(f)) \subseteq VerticesOf(f) BY <1>2, <2>3, <2>5 DEF VerticesOf
  <2>9. f[1].vertex \in VerticesOf(f) BY <1>2, <2>6 DEF VerticesOf
  <2>10. VerticesOf(f) \subseteq VerticesOf(Tail(f)) \cup {f[1].vertex} BY <2>7 DEF VerticesOf
  <2> QED BY <2>1, <2>2, <2>8, <2>9, <2>10
<1> QED BY <1>3, <1>4

\* A call of a walk and what it has found: all of it is reachable, and what was
\* visited, with what is on the frontier, holds the start and is closed.
WalkType ==
  walk \in [kind : Kinds, order : Orders, start : SUBSET Ids, frontier : Seq(Entries),
            visited : Seq(Entries), result : {"walking", "ok", "failed"}]

Found == VerticesOf(walk.visited) \cup VerticesOf(walk.frontier)

LEMMA FoundNext == Found' = VerticesOf(walk'.visited) \cup VerticesOf(walk'.frontier)
BY DEF Found, VerticesOf

VisitedOnce ==
  \A i, j \in DOMAIN walk.visited : walk.visited[i].vertex = walk.visited[j].vertex => i = j

WalkInv ==
  walk.result # "none" =>
    /\ WalkType
    /\ VisitedOnce
    /\ Found \subseteq Reachable(Rows(walk.order, g), walk.start)
    /\ walk.result # "failed" =>
         /\ walk.start \subseteq Found
         /\ \A v \in VerticesOf(walk.visited) : Rows(walk.order, g)[v] \subseteq Found
    /\ walk.result = "ok" => walk.frontier = <<>>

LEMMA RowsType == ASSUME GraphInv, NEW order PROVE Rows(order, g) \in [Ids -> SUBSET Ids]
BY DEF GraphInv, Rows

LEMMA CallsFindTheirStart ==
  ASSUME GraphInv, NEW kind \in Kinds, NEW order \in Orders, NEW start \in SUBSET Ids,
         walk \in Calls(kind, order, start)
  PROVE  WalkInv
<1> PICK f \in AtDepth(0, start) :
      walk = [kind |-> kind, order |-> order, start |-> start, frontier |-> f,
              visited |-> <<>>, result |-> "walking"]
  BY DEF Calls
<1>1. f \in Seq(Entries) /\ VerticesOf(f) = start BY AtDepthIsWhole
<1>2. VerticesOf(<<>>) = {} /\ <<>> \in Seq(Entries) BY DEF VerticesOf
<1>3. Rows(order, g) \in [Ids -> SUBSET Ids] BY RowsType
<1>4. start \subseteq Reachable(Rows(order, g), start) BY <1>3, ReachableIsClosed
<1>5. /\ walk.kind = kind /\ walk.order = order /\ walk.start = start /\ walk.frontier = f
      /\ walk.visited = <<>> /\ walk.result = "walking"
  OBVIOUS
<1> QED BY <1>1, <1>2, <1>4, <1>5 DEF WalkInv, WalkType, Found, VisitedOnce

\* A visit adds the vertex to what was visited and its row to what was found.
LEMMA VisitAdds ==
  ASSUME GraphInv', WalkType, Visit
  PROVE  /\ WalkType'
         /\ walk'.order = walk.order /\ walk'.start = walk.start /\ walk'.result = "walking"
         /\ Current.vertex \in Ids /\ Current.vertex \in Found
         /\ VerticesOf(walk'.visited) = VerticesOf(walk.visited) \cup {Current.vertex}
         /\ Found' = Found \cup Rows(walk.order, g')[Current.vertex]
         /\ VisitedOnce => VisitedOnce'
<1> DEFINE rows == Rows(walk.order, g')
<1>1. walk.result = "walking" /\ walk.frontier # <<>> /\ Current.vertex \notin Seen(walk)
  BY DEF Visit, Walking
<1>2. /\ Current \in Entries /\ Rest \in Seq(Entries)
      /\ VerticesOf(walk.frontier) = VerticesOf(Rest) \cup {Current.vertex}
  BY <1>1, CurrentAndRest DEF WalkType
<1>3. rows[Current.vertex] \in SUBSET Ids /\ Current.depth + 1 \in Nat
  BY <1>2 DEF Entries, GraphInv, Rows
<1> PICK next \in AtDepth(Current.depth + 1, rows[Current.vertex]) :
      walk' = [walk EXCEPT !.frontier = Rest \o next, !.visited = Append(@, Current)]
  BY DEF Visit
<1>4. next \in Seq(Entries) /\ VerticesOf(next) = rows[Current.vertex] BY <1>3, AtDepthIsWhole
<1>5. /\ Rest \o next \in Seq(Entries)
      /\ VerticesOf(Rest \o next) = VerticesOf(Rest) \cup rows[Current.vertex]
  BY <1>2, <1>4, VerticesOfConcat
<1>6. /\ Append(walk.visited, Current) \in Seq(Entries)
      /\ VerticesOf(Append(walk.visited, Current)) = VerticesOf(walk.visited) \cup {Current.vertex}
  BY <1>2, VerticesOfAppend DEF WalkType
<1>7. /\ walk'.frontier = Rest \o next /\ walk'.visited = Append(walk.visited, Current)
      /\ walk'.order = walk.order /\ walk'.start = walk.start /\ walk'.result = "walking"
  <2>1. walk' = [walk EXCEPT !.frontier = Rest \o next, !.visited = Append(walk.visited, Current)]
    OBVIOUS
  <2>2. walk'.frontier = Rest \o next BY <2>1 DEF WalkType
  <2> QED BY <2>1, <2>2, <1>1 DEF WalkType
<1>8. Found' = Found \cup rows[Current.vertex]
  <2>1. Found' = VerticesOf(Append(walk.visited, Current)) \cup VerticesOf(Rest \o next)
    BY <1>7, FoundNext
  <2> QED BY <2>1, <1>2, <1>5, <1>6 DEF Found
<1>9. WalkType' BY <1>5, <1>6 DEF WalkType
<1>10. ASSUME VisitedOnce PROVE VisitedOnce'
  <2>1. /\ DOMAIN walk'.visited = 1 .. Len(walk.visited) + 1 /\ DOMAIN walk.visited = 1 .. Len(walk.visited)
        /\ \A i \in 1 .. Len(walk.visited) : walk'.visited[i] = walk.visited[i]
        /\ walk'.visited[Len(walk.visited) + 1] = Current
        /\ Len(walk.visited) \in Nat
    BY <1>2, <1>7, AppendProperties, LenProperties DEF WalkType
  <2>2. \A i \in 1 .. Len(walk.visited) : walk.visited[i].vertex # Current.vertex
    BY <1>1, <2>1 DEF Seen
  <2>3. \A i \in DOMAIN walk'.visited : i \in 1 .. Len(walk.visited) \/ i = Len(walk.visited) + 1
    BY <2>1
  <2> QED BY <1>10, <2>1, <2>2, <2>3 DEF VisitedOnce
<1>11. Current.vertex \in Ids /\ Current.vertex \in Found BY <1>2 DEF Entries, Found
<1> QED BY <1>6, <1>7, <1>8, <1>9, <1>10, <1>11

LEMMA VisitKeeps ==
  ASSUME GraphInv, WalkInv, UNCHANGED g, Visit
  PROVE  WalkInv'
<1> DEFINE v == Current.vertex
           rows == Rows(walk.order, g)
           reach == Reachable(rows, walk.start)
<1>1. WalkType /\ walk.result = "walking" BY DEF Visit, Walking, WalkInv
<1>2. GraphInv' BY DEF GraphInv
<1>3. /\ WalkType' /\ VisitedOnce'
      /\ walk'.order = walk.order /\ walk'.start = walk.start /\ walk'.result = "walking"
      /\ v \in Found /\ Found' = Found \cup rows[v]
      /\ VerticesOf(walk'.visited) = VerticesOf(walk.visited) \cup {v}
  BY <1>1, <1>2, VisitAdds DEF WalkInv, Rows
<1>4. rows \in [Ids -> SUBSET Ids] BY RowsType
<1>5. Found' \subseteq reach
  <2>1. Closed(rows, reach) BY <1>1, <1>4, ReachableIsClosed DEF WalkType
  <2>2. v \in reach /\ Found \subseteq reach BY <1>1, <1>3 DEF WalkInv
  <2> QED BY <2>1, <2>2, <1>3 DEF Closed
<1>6. walk.start \subseteq Found' BY <1>1, <1>3 DEF WalkInv
<1>7. \A w \in VerticesOf(walk'.visited) : rows[w] \subseteq Found' BY <1>1, <1>3 DEF WalkInv
<1>8. Rows(walk'.order, g') = rows BY <1>3 DEF Rows
<1> QED BY <1>3, <1>5, <1>6, <1>7, <1>8 DEF WalkInv

LEMMA SkipKeeps ==
  ASSUME WalkInv, UNCHANGED g, Skip
  PROVE  WalkInv'
<1>1. WalkType /\ walk.result = "walking" /\ walk.frontier # <<>> /\ Current.vertex \in Seen(walk)
  BY DEF Skip, Walking, WalkInv
<1>2. /\ Rest \in Seq(Entries)
      /\ VerticesOf(walk.frontier) = VerticesOf(Rest) \cup {Current.vertex}
  BY <1>1, CurrentAndRest DEF WalkType
<1>3. walk' = [walk EXCEPT !.frontier = Rest] BY DEF Skip
<1>4. /\ walk'.frontier = Rest /\ walk'.visited = walk.visited
      /\ walk'.kind = walk.kind /\ walk'.order = walk.order /\ walk'.start = walk.start
      /\ walk'.result = walk.result
  BY <1>1, <1>3 DEF WalkType
<1>5. Found' = Found
  <2>1. Current.vertex \in VerticesOf(walk.visited) BY <1>1 DEF VerticesOf, Seen
  <2> QED BY <2>1, <1>2, <1>4, FoundNext DEF Found
<1>6. Rows(walk'.order, g') = Rows(walk.order, g) BY <1>4 DEF Rows
<1>7. WalkType' BY <1>1, <1>2, <1>3 DEF WalkType
<1> QED BY <1>1, <1>4, <1>5, <1>6, <1>7 DEF WalkInv, VisitedOnce

LEMMA CallbackFailsKeeps ==
  ASSUME WalkInv, UNCHANGED g, CallbackFails
  PROVE  WalkInv'
<1>1. WalkType /\ walk.result = "walking" /\ walk.frontier # <<>> /\ Current.vertex \notin Seen(walk)
  BY DEF CallbackFails, Walking, WalkInv
<1>2. /\ Current \in Entries
      /\ VerticesOf(walk.frontier) = VerticesOf(Rest) \cup {Current.vertex}
  BY <1>1, CurrentAndRest DEF WalkType
<1>3. /\ Append(walk.visited, Current) \in Seq(Entries)
      /\ VerticesOf(Append(walk.visited, Current)) = VerticesOf(walk.visited) \cup {Current.vertex}
  BY <1>1, <1>2, VerticesOfAppend DEF WalkType
<1>4. walk' = [walk EXCEPT !.visited = Append(walk.visited, Current), !.result = "failed"]
  BY DEF CallbackFails
<1>5. /\ walk'.frontier = walk.frontier /\ walk'.visited = Append(walk.visited, Current)
      /\ walk'.kind = walk.kind /\ walk'.order = walk.order /\ walk'.start = walk.start
      /\ walk'.result = "failed"
  <2>1. walk'.result = "failed" BY <1>1, <1>4 DEF WalkType
  <2>2. walk'.visited = Append(walk.visited, Current) BY <1>1, <1>4 DEF WalkType
  <2> QED BY <2>1, <2>2, <1>1, <1>4 DEF WalkType
<1>6. Found' = Found BY <1>2, <1>3, <1>5, FoundNext DEF Found
<1>7. VisitedOnce'
  <2>1. /\ DOMAIN walk'.visited = 1 .. Len(walk.visited) + 1 /\ DOMAIN walk.visited = 1 .. Len(walk.visited)
        /\ \A i \in 1 .. Len(walk.visited) : walk'.visited[i] = walk.visited[i]
        /\ walk'.visited[Len(walk.visited) + 1] = Current
        /\ Len(walk.visited) \in Nat
    BY <1>1, <1>2, <1>5, AppendProperties, LenProperties DEF WalkType
  <2>2. \A i \in 1 .. Len(walk.visited) : walk.visited[i].vertex # Current.vertex
    BY <1>1, <2>1 DEF Seen
  <2>3. \A i \in DOMAIN walk'.visited : i \in 1 .. Len(walk.visited) \/ i = Len(walk.visited) + 1
    BY <2>1
  <2> QED BY <2>1, <2>2, <2>3, <1>1 DEF VisitedOnce, WalkInv
<1>8. Rows(walk'.order, g') = Rows(walk.order, g) BY <1>5 DEF Rows
<1>9. WalkType' BY <1>1, <1>3, <1>4 DEF WalkType
<1> QED BY <1>1, <1>5, <1>6, <1>7, <1>8, <1>9 DEF WalkInv

LEMMA FinishKeeps ==
  ASSUME WalkInv, UNCHANGED g, Finish
  PROVE  WalkInv'
<1>1. WalkType /\ walk.result = "walking" /\ walk.frontier = <<>> BY DEF Finish, Walking, WalkInv
<1>2. walk' = [walk EXCEPT !.result = "ok"] BY DEF Finish
<1>3. /\ walk'.frontier = walk.frontier /\ walk'.visited = walk.visited
      /\ walk'.kind = walk.kind /\ walk'.order = walk.order /\ walk'.start = walk.start
      /\ walk'.result \in {"ok", "walking"}
  BY <1>1, <1>2 DEF WalkType
<1>4. Found' = Found BY <1>3, FoundNext DEF Found
<1>5. Rows(walk'.order, g') = Rows(walk.order, g) BY <1>3 DEF Rows
<1>6. WalkType' BY <1>1, <1>2 DEF WalkType
<1> QED BY <1>1, <1>3, <1>4, <1>5, <1>6 DEF WalkInv, VisitedOnce

LEMMA WalkStutters ==
  ASSUME GraphInv, WalkInv, UNCHANGED <<g, walk>>
  PROVE  GraphInv' /\ WalkInv'
<1>1. g' = g /\ walk' = walk OBVIOUS
<1>2. Found' = Found BY <1>1, FoundNext DEF Found
<1>3. GraphInv' BY <1>1 DEF GraphInv
<1>4. WalkInv' BY <1>1, <1>2 DEF WalkInv, WalkType, VerticesOf, VisitedOnce, Rows
<1> QED BY <1>3, <1>4

LEMMA InitWalk == Init => WalkInv
<1> SUFFICES ASSUME Init PROVE WalkInv OBVIOUS
<1>1. GraphInv BY InitGraph
<1>2. CASE CallWalk
  <2> PICK v \in g.vertices : \/ Ancestors(v) \/ Descendents(v)
                              \/ BreadthFirstWalk({v}) \/ ReverseBreadthFirstWalk({v})
    BY <1>2 DEF CallWalk
  <2>1. v \in Ids BY <1>1 DEF GraphInv
  <2>2. g.downEdges[v] \in SUBSET Ids /\ g.upEdges[v] \in SUBSET Ids /\ {v} \in SUBSET Ids
    BY <1>1, <2>1 DEF GraphInv
  <2>3. {"depthFirst", "breadthFirst"} = Kinds /\ {"downOrder", "upOrder"} = Orders
    BY DEF Kinds, Orders
  <2>4. WalkInv
    BY <1>1, <2>2, <2>3, CallsFindTheirStart
    DEF Ancestors, Descendents, BreadthFirstWalk, ReverseBreadthFirstWalk
  <2> QED BY <2>4
<1>3. CASE walk = NoWalk BY <1>3 DEF WalkInv, NoWalk
<1> QED BY <1>2, <1>3 DEF Init, CallReduction, CallStronglyConnected, CallTopologicalOrder

LEMMA StepKeeps ==
  ASSUME GraphInv, WalkInv, Step
  PROVE  WalkInv'
BY VisitKeeps, SkipKeeps, CallbackFailsKeeps, FinishKeeps DEF Step

\* What was found is exact: it is closed, and no closed set is smaller.
LEMMA FoundIsExact ==
  ASSUME GraphInv, WalkInv
  PROVE  WalkIsExact
<1> SUFFICES ASSUME walk.result # "none" PROVE WalkIsExact BY DEF WalkIsExact
<1> DEFINE rows == Rows(walk.order, g)
<1>1. WalkType /\ VisitedOnce /\ Found \subseteq Reachable(rows, walk.start) BY DEF WalkInv
<1>2. Seen(walk) = VerticesOf(walk.visited) BY DEF Seen, VerticesOf
<1>3. ASSUME walk.result = "ok" PROVE Reachable(rows, walk.start) \subseteq Seen(walk)
  <2>1. VerticesOf(walk.frontier) = {} BY <1>3 DEF WalkInv, VerticesOf
  <2>2. Found = Seen(walk) BY <1>2, <2>1 DEF Found
  <2>3. walk.start \subseteq Seen(walk) /\ Closed(rows, Seen(walk))
    BY <1>2, <1>3, <2>2 DEF WalkInv, Closed
  <2>4. Reachable(rows, walk.start) \subseteq Ids BY DEF Reachable
  <2>5. Seen(walk) \in SUBSET Ids BY <1>1, <2>2, <2>4
  <2> QED BY <2>3, <2>5, ReachableIsLeast
<1> QED BY <1>1, <1>2, <1>3 DEF WalkIsExact, VisitedOnce, Found

-----------------------------------------------------------------------------
(* The sorts.                                                              *)

Frames == [vertex : Ids, next : SUBSET Ids]
Sorts ==
  [order : T!Orders, roots : SUBSET Ids, frames : Seq(Frames), tmp : SUBSET Ids,
   sorted : Seq(Ids), result : {"sorting", "sorted", "panicked"}]

SortedOK(rows, order) ==
  /\ IsInjective(order) /\ ToSet(order) \subseteq g.vertices
  /\ \A j \in DOMAIN order : rows[order[j]] \subseteq {order[i] : i \in 1 .. j-1}

\* Between the calls that have not returned: each was made for a target of the
\* one before, which has sorted or still has to look at its other targets, all
\* but U.  A vertex is sorted, being visited or left to try, or it is in U.
FramesOK(t, U) ==
  LET n == Len(t.frames)
      at(k) == t.frames[k].vertex
  IN  /\ t.tmp = {at(k) : k \in 1 .. n} /\ t.tmp \cap ToSet(t.sorted) = {}
      /\ t.tmp \subseteq g.vertices /\ t.roots \subseteq g.vertices
      /\ \A k, l \in 1 .. n : at(k) = at(l) => k = l
      /\ \A k \in 1 .. n :
           /\ t.frames[k].next \subseteq T!Before(t)[at(k)]
           /\ T!Before(t)[at(k)] \subseteq
                ToSet(t.sorted) \cup t.frames[k].next \cup (IF k < n THEN {at(k+1)} ELSE U)
      /\ \A k, l \in 1 .. n : k < l => at(l) \in Reachable(T!Before(t), T!Before(t)[at(k)])
      /\ g.vertices \subseteq ToSet(t.sorted) \cup t.tmp \cup t.roots \cup U

SortOK(t, U) ==
  /\ t \in Sorts
  /\ SortedOK(T!Before(t), t.sorted)
  /\ t.result = "sorting" => FramesOK(t, U)
  /\ t.result = "sorted" => ToSet(t.sorted) = g.vertices
  /\ t.result = "panicked" => ~Acyclic(T!Before(t))

SortInv == topo.result # "none" => SortOK(topo, {})

LEMMA SortOKNext ==
  ASSUME UNCHANGED g, SortOK(topo', {})
  PROVE  SortOK(topo, {})'
BY DEF SortOK, SortedOK, FramesOK, T!Before, Sorts

LEMMA BeforeType ==
  ASSUME GraphInv, NEW t
  PROVE  /\ T!Before(t) \in [Ids -> SUBSET Ids]
         /\ \A v \in Ids : T!Before(t)[v] \subseteq g.vertices
BY DEF GraphInv, T!Before

LEMMA InitSort == ASSUME Init, GraphInv PROVE SortInv
<1>1. CASE topo = T!NoSort BY <1>1 DEF SortInv, T!NoSort
<1>2. CASE CallTopologicalOrder
  <2> PICK order \in T!Orders : topo = T!NewSort(order) BY <1>2 DEF CallTopologicalOrder
  <2>1. topo = [order |-> order, roots |-> g.vertices, frames |-> <<>>, tmp |-> {},
                sorted |-> <<>>, result |-> "sorting"]
    BY DEF T!NewSort
  <2>2. topo \in Sorts BY <2>1 DEF GraphInv, Sorts
  <2>3. DOMAIN topo.sorted = {} /\ Len(topo.frames) = 0 BY <2>1
  <2>4. 1 .. 0 = {} OBVIOUS
  <2>5. SortedOK(T!Before(topo), topo.sorted) BY <2>3 DEF SortedOK, IsInjective, ToSet
  <2>6. FramesOK(topo, {}) BY <2>1, <2>3, <2>4 DEF FramesOK
  <2> QED BY <2>1, <2>2, <2>5, <2>6 DEF SortInv, SortOK
<1> QED BY <1>1, <1>2 DEF Init, CallWalk, CallReduction, CallStronglyConnected

\* A call of visit, for a root or for a target of the innermost call.
LEMMA VisitedKeeps ==
  ASSUME GraphInv, NEW t, NEW u \in g.vertices, t.sorted = topo.sorted,
         t.result = "sorting", SortOK(t, {u}),
         t.frames # <<>> => u \in T!Before(t)[t.frames[Len(t.frames)].vertex]
  PROVE  SortOK(T!Visited(t, u), {})
<1> DEFINE n == Len(t.frames)
           rows == T!Before(t)
           r == T!Visited(t, u)
<1>1. /\ t \in Sorts /\ SortedOK(rows, t.sorted) /\ FramesOK(t, {u}) /\ t.frames \in Seq(Frames)
      /\ n \in Nat /\ u \in Ids
  BY LenProperties DEF SortOK, Sorts, GraphInv
<1>2. rows \in [Ids -> SUBSET Ids] BY BeforeType
<1>3. T!Perm = ToSet(t.sorted) BY DEF T!Perm, ToSet, T!ToSet
<1>4. CASE u \in T!Perm
  <2>1. r = t BY <1>4 DEF T!Visited
  <2>2. FramesOK(t, {}) BY <1>1, <1>3, <1>4 DEF FramesOK
  <2> QED BY <2>1, <2>2 DEF SortOK
<1>5. CASE u \notin T!Perm /\ u \in t.tmp
  <2>1. r = [t EXCEPT !.result = "panicked"] BY <1>5 DEF T!Visited
  <2>2. PICK k \in 1 .. n : u = t.frames[k].vertex BY <1>1, <1>5 DEF FramesOK
  <2>3. n \in 1 .. n /\ t.frames # <<>> BY <1>1, <2>2
  <2>4. u \in rows[t.frames[n].vertex] BY <2>3
  <2>5. rows[u] \in SUBSET Ids BY <1>1, <1>2
  <2>6. u \in Reachable(rows, rows[u])
    <3>1. CASE k = n BY <3>1, <1>2, <2>2, <2>4, <2>5, ReachableIsClosed
    <3>2. CASE k # n
      <4>1. k < n BY <3>2, <1>1
      <4>2. t.frames[n].vertex \in Reachable(rows, rows[u])
        BY <1>1, <2>2, <2>3, <4>1 DEF FramesOK
      <4>3. Closed(rows, Reachable(rows, rows[u])) BY <1>2, <2>5, ReachableIsClosed
      <4> QED BY <2>4, <4>2, <4>3 DEF Closed
    <3> QED BY <3>1, <3>2
  <2>7. ~Acyclic(rows) BY <1>1, <2>6 DEF Acyclic
  <2>8. r \in Sorts /\ r.result = "panicked" /\ r.sorted = t.sorted /\ r.order = t.order
    BY <1>1, <2>1 DEF Sorts
  <2>9. T!Before(r) = rows BY <2>8 DEF T!Before
  <2> QED BY <1>1, <2>7, <2>8, <2>9 DEF SortOK
<1>6. CASE u \notin T!Perm /\ u \notin t.tmp
  <2> DEFINE new == [vertex |-> u, next |-> rows[u]]
  <2>1. r = [t EXCEPT !.tmp = t.tmp \cup {u}, !.frames = Append(t.frames, new)]
    BY <1>6 DEF T!Visited
  <2>2. new \in Frames /\ new.vertex = u /\ new.next = rows[u] BY <1>1, <1>2 DEF Frames
  <2> HIDE DEF new
  <2>3. /\ Append(t.frames, new) \in Seq(Frames) /\ Len(Append(t.frames, new)) = n + 1
        /\ \A k \in 1 .. n : Append(t.frames, new)[k] = t.frames[k]
        /\ Append(t.frames, new)[n + 1] = new
    BY <1>1, <2>2, AppendProperties
  <2>4. /\ r \in Sorts /\ r.frames = Append(t.frames, new) /\ r.tmp = t.tmp \cup {u}
        /\ r.sorted = t.sorted /\ r.order = t.order /\ r.roots = t.roots /\ r.result = "sorting"
    <3> DEFINE fr == Append(t.frames, new)
               tm == t.tmp \cup {u}
    <3>1. t \in Sorts /\ fr \in Seq(Frames) /\ tm \in SUBSET Ids /\ r = [t EXCEPT !.tmp = tm, !.frames = fr]
      BY <1>1, <2>1, <2>3 DEF Sorts
    <3> HIDE DEF fr, tm, r
    <3>2. r \in Sorts BY <3>1 DEF Sorts
    <3>3. r.frames = fr /\ r.tmp = tm BY <3>1 DEF Sorts
    <3>4. r.sorted = t.sorted /\ r.order = t.order /\ r.roots = t.roots /\ r.result = t.result
      BY <3>1 DEF Sorts
    <3> QED BY <3>2, <3>3, <3>4 DEF fr, tm
  <2>5. T!Before(r) = rows BY <2>4 DEF T!Before
  <2>6. SortedOK(T!Before(r), r.sorted) BY <1>1, <2>4, <2>5
  <2>7. FramesOK(r, {})
    <3> DEFINE at(k) == r.frames[k].vertex
    <3>1. /\ Len(r.frames) = n + 1 /\ 1 .. n + 1 = 1 .. n \cup {n + 1}
          /\ \A k \in 1 .. n : r.frames[k] = t.frames[k]
          /\ at(n+1) = u /\ r.frames[n+1].next = rows[u]
      BY <1>1, <2>2, <2>3, <2>4
    <3>2. r.tmp = {at(k) : k \in 1 .. n + 1} BY <1>1, <2>4, <3>1 DEF FramesOK
    <3>3. r.tmp \cap ToSet(r.sorted) = {} /\ r.tmp \subseteq g.vertices /\ r.roots \subseteq g.vertices
      BY <1>1, <1>3, <1>6, <2>4 DEF FramesOK
    <3>4. \A k \in 1 .. n : at(k) \in t.tmp BY <1>1, <3>1 DEF FramesOK
    <3>5. ASSUME NEW k \in 1 .. n + 1, NEW l \in 1 .. n + 1, at(k) = at(l) PROVE k = l
      <4>1. CASE k \in 1 .. n /\ l \in 1 .. n BY <4>1, <3>5, <3>1, <1>1 DEF FramesOK
      <4>2. k \in 1 .. n => at(k) # at(n+1) BY <1>6, <3>1, <3>4
      <4>3. l \in 1 .. n => at(l) # at(n+1) BY <1>6, <3>1, <3>4
      <4> QED BY <4>1, <4>2, <4>3, <3>5, <3>1
    <3>6. ASSUME NEW k \in 1 .. n + 1
          PROVE  /\ r.frames[k].next \subseteq rows[at(k)]
                 /\ rows[at(k)] \subseteq
                      ToSet(r.sorted) \cup r.frames[k].next \cup (IF k < n + 1 THEN {at(k+1)} ELSE {})
      <4>1. CASE k = n + 1 BY <4>1, <3>1
      <4>2. CASE k \in 1 .. n
        <5>1. /\ r.frames[k].next \subseteq rows[at(k)]
              /\ rows[at(k)] \subseteq ToSet(t.sorted) \cup t.frames[k].next
                   \cup (IF k < n THEN {t.frames[k+1].vertex} ELSE {u})
          BY <4>2, <1>1, <3>1 DEF FramesOK
        <5>2. (IF k < n THEN {t.frames[k+1].vertex} ELSE {u}) = {at(k+1)}
          <6>1. CASE k < n
            <7>1. k + 1 \in 1 .. n BY <6>1, <4>2, <1>1
            <7> QED BY <6>1, <7>1, <3>1
          <6>2. CASE ~(k < n)
            <7>1. k = n BY <6>2, <4>2, <1>1
            <7> QED BY <6>2, <7>1, <3>1
          <6> QED BY <6>1, <6>2
        <5>3. k < n + 1 BY <4>2, <1>1
        <5> QED BY <4>2, <5>1, <5>2, <5>3, <2>4, <3>1
      <4> QED BY <4>1, <4>2, <3>1
    <3>7. ASSUME NEW k \in 1 .. n + 1, NEW l \in 1 .. n + 1, k < l
          PROVE  at(l) \in Reachable(rows, rows[at(k)])
      <4>1. k \in 1 .. n /\ k # l BY <3>7, <1>1
      <4>2. CASE l \in 1 .. n BY <4>1, <4>2, <3>7, <1>1, <3>1 DEF FramesOK
      <4>3. CASE l = n + 1
        <5>1. n \in 1 .. n /\ t.frames # <<>> BY <4>1, <1>1
        <5>2. u \in rows[at(n)] BY <5>1, <3>1
        <5>3. at(k) \in Ids BY <4>1, <3>4, <1>1 DEF Sorts
        <5>4. rows[at(k)] \in SUBSET Ids BY <5>3, <1>2
        <5>5. CASE k = n BY <5>5, <5>2, <5>4, <4>3, <3>1, <1>2, ReachableIsClosed
        <5>6. CASE k # n
          <6>1. k < n BY <5>6, <4>1, <1>1
          <6>2. at(n) \in Reachable(rows, rows[at(k)]) BY <6>1, <4>1, <5>1, <1>1, <3>1 DEF FramesOK
          <6>3. Closed(rows, Reachable(rows, rows[at(k)])) BY <5>4, <1>2, ReachableIsClosed
          <6> QED BY <6>2, <6>3, <5>2, <4>3, <3>1 DEF Closed
        <5> QED BY <5>5, <5>6
      <4> QED BY <4>2, <4>3, <1>1
    <3>8. g.vertices \subseteq ToSet(r.sorted) \cup r.tmp \cup r.roots
      BY <1>1, <2>4 DEF FramesOK
    <3> QED BY <2>5, <3>1, <3>2, <3>3, <3>5, <3>6, <3>7, <3>8 DEF FramesOK
  <2>8. SortOK(r, {}) BY <2>4, <2>6, <2>7 DEF SortOK
  <2> QED BY <2>8 DEF r
<1> QED BY <1>4, <1>5, <1>6

LEMMA VisitRootKeeps ==
  ASSUME GraphInv, SortInv, UNCHANGED g, NEW v \in Ids, T!VisitRoot(v)
  PROVE  SortOK(topo, {})'
<1> DEFINE rest == topo.roots \ {v}
           t == [topo EXCEPT !.roots = rest]
<1>1. /\ topo \in Sorts /\ SortedOK(T!Before(topo), topo.sorted) /\ FramesOK(topo, {})
      /\ topo.result = "sorting" /\ topo.frames = <<>> /\ v \in topo.roots
  BY DEF T!VisitRoot, T!Sorting, SortInv, SortOK
<1>2. rest \in SUBSET Ids /\ rest \subseteq topo.roots /\ topo.roots \subseteq rest \cup {v}
  BY <1>1 DEF Sorts
<1>3. topo' = T!Visited(t, v) BY DEF T!VisitRoot
<1> HIDE DEF rest
<1>4. t \in Sorts /\ t.roots = rest BY <1>1, <1>2 DEF Sorts
<1>5. /\ t.sorted = topo.sorted /\ t.frames = <<>> /\ t.tmp = topo.tmp /\ t.order = topo.order
      /\ t.result = "sorting"
  BY <1>1 DEF Sorts
<1> HIDE DEF t
<1>6. T!Before(t) = T!Before(topo) BY <1>5 DEF T!Before
<1>7. Len(t.frames) = 0 /\ Len(topo.frames) = 0 /\ 1 .. 0 = {} BY <1>1, <1>5
<1>8. FramesOK(t, {v}) BY <1>1, <1>2, <1>4, <1>5, <1>7 DEF FramesOK
<1>9. SortOK(t, {v}) BY <1>1, <1>4, <1>5, <1>6, <1>8 DEF SortOK
<1>10. v \in g.vertices BY <1>1 DEF FramesOK
<1>11. SortOK(T!Visited(t, v), {}) BY <1>5, <1>9, <1>10, VisitedKeeps
<1> QED BY <1>3, <1>11, SortOKNext

LEMMA VisitNextKeeps ==
  ASSUME GraphInv, SortInv, UNCHANGED g, NEW u \in Ids, T!VisitNext(u)
  PROVE  SortOK(topo, {})'
<1> DEFINE n == Len(topo.frames)
           rows == T!Before(topo)
           at(k) == topo.frames[k].vertex
           frame == [topo.frames[n] EXCEPT !.next = topo.frames[n].next \ {u}]
           rest == [topo.frames EXCEPT ![n] = frame]
           t == [topo EXCEPT !.frames = rest]
<1>1. /\ topo \in Sorts /\ SortedOK(rows, topo.sorted) /\ FramesOK(topo, {})
      /\ topo.result = "sorting" /\ topo.frames # <<>> /\ u \in T!Frame.next
      /\ topo.frames \in Seq(Frames)
  BY DEF T!VisitNext, T!Sorting, SortInv, SortOK, Sorts
<1>2. n \in Nat \ {0} /\ DOMAIN topo.frames = 1 .. n /\ n \in 1 .. n
  BY <1>1, EmptySeq, LenProperties
<1>3. T!Frame = topo.frames[n] /\ topo.frames[n] \in Frames
  BY <1>1, <1>2, ElementOfSeq DEF T!Frame, T!Last, Last
<1>4. topo' = T!Visited(t, u) BY <1>1 DEF T!VisitNext
<1>5. frame \in Frames /\ frame.vertex = at(n) /\ frame.next = topo.frames[n].next \ {u}
  BY <1>3 DEF Frames
<1> HIDE DEF frame
<1>6. /\ rest \in Seq(Frames) /\ Len(rest) = n /\ rest[n] = frame
      /\ \A k \in 1 .. n : k # n => rest[k] = topo.frames[k]
  <2>1. n \in 1 .. Len(topo.frames) BY <1>2
  <2>2. rest \in Seq(Frames) /\ Len(rest) = n
    <3> HIDE DEF n
    <3> QED BY <1>1, <1>5, <2>1, ExceptSeq DEF n
  <2> QED BY <2>2, <1>2
<1> HIDE DEF rest
<1>7. t \in Sorts /\ t.frames = rest BY <1>1, <1>6 DEF Sorts
<1>8. /\ t.sorted = topo.sorted /\ t.roots = topo.roots /\ t.tmp = topo.tmp
      /\ t.order = topo.order /\ t.result = "sorting"
  BY <1>1 DEF Sorts
<1> HIDE DEF t
<1>9. T!Before(t) = rows BY <1>8 DEF T!Before
<1>10. /\ Len(t.frames) = n
       /\ \A k \in 1 .. n : t.frames[k].vertex = at(k)
       /\ \A k \in 1 .. n : k # n => t.frames[k].next = topo.frames[k].next
       /\ t.frames[n].next = topo.frames[n].next \ {u}
  BY <1>5, <1>6, <1>7
<1>11. at(n) \in Ids BY <1>3 DEF Frames
<1>12. u \in rows[at(n)] /\ u \in g.vertices
  <2>1. u \in topo.frames[n].next BY <1>1, <1>3
  <2>2. u \in rows[at(n)] BY <1>1, <1>2, <2>1 DEF FramesOK
  <2> QED BY <2>2, <1>11, BeforeType
<1>13. FramesOK(t, {u})
  <2>1. t.tmp = {t.frames[k].vertex : k \in 1 .. n} BY <1>1, <1>8, <1>10 DEF FramesOK
  <2>2. /\ t.tmp \cap ToSet(t.sorted) = {} /\ t.tmp \subseteq g.vertices /\ t.roots \subseteq g.vertices
        /\ g.vertices \subseteq ToSet(t.sorted) \cup t.tmp \cup t.roots \cup {u}
    BY <1>1, <1>8 DEF FramesOK
  <2>3. \A k, l \in 1 .. n : t.frames[k].vertex = t.frames[l].vertex => k = l
    BY <1>1, <1>10 DEF FramesOK
  <2>4. ASSUME NEW k \in 1 .. n
        PROVE  /\ t.frames[k].next \subseteq rows[t.frames[k].vertex]
               /\ rows[t.frames[k].vertex] \subseteq
                    ToSet(t.sorted) \cup t.frames[k].next
                      \cup (IF k < n THEN {t.frames[k+1].vertex} ELSE {u})
    <3>1. /\ topo.frames[k].next \subseteq rows[at(k)]
          /\ rows[at(k)] \subseteq
               ToSet(topo.sorted) \cup topo.frames[k].next \cup (IF k < n THEN {at(k+1)} ELSE {})
      BY <1>1 DEF FramesOK
    <3>2. CASE k = n
      <4>1. ~(k < n) BY <3>2, <1>2
      <4> QED BY <4>1, <3>1, <3>2, <1>8, <1>10
    <3>3. CASE k # n
      <4>1. k < n /\ k + 1 \in 1 .. n BY <3>3, <1>2
      <4> QED BY <4>1, <3>1, <3>3, <1>8, <1>10
    <3> QED BY <3>2, <3>3
  <2>5. \A k, l \in 1 .. n : k < l =>
          t.frames[l].vertex \in Reachable(rows, rows[t.frames[k].vertex])
    BY <1>1, <1>10 DEF FramesOK
  <2> QED BY <1>9, <1>10, <2>1, <2>2, <2>3, <2>4, <2>5 DEF FramesOK
<1>14. SortOK(t, {u}) BY <1>1, <1>7, <1>8, <1>9, <1>13 DEF SortOK
<1>15. SortOK(T!Visited(t, u), {})
  BY <1>2, <1>8, <1>9, <1>10, <1>12, <1>14, VisitedKeeps
<1> QED BY <1>4, <1>15, SortOKNext

\* The innermost call puts its vertex at the end of the order.
LEMMA SortedOneMore ==
  ASSUME NEW rows, NEW order \in Seq(Ids), SortedOK(rows, order),
         NEW v \in g.vertices, v \in Ids, v \notin ToSet(order), rows[v] \subseteq ToSet(order)
  PROVE  /\ Append(order, v) \in Seq(Ids) /\ ToSet(Append(order, v)) = ToSet(order) \cup {v}
         /\ SortedOK(rows, Append(order, v))
<1> DEFINE n == Len(order)
           more == Append(order, v)
<1>1. /\ more \in Seq(Ids) /\ Len(more) = n + 1 /\ more[n + 1] = v /\ n \in Nat
      /\ \A i \in 1 .. n : more[i] = order[i]
  BY AppendProperties, LenProperties
<1>2. DOMAIN order = 1 .. n /\ DOMAIN more = 1 .. n + 1 /\ 1 .. n + 1 = 1 .. n \cup {n + 1}
  BY <1>1, LenProperties
<1> HIDE DEF more, n
<1>3. ToSet(more) = ToSet(order) \cup {v} BY <1>1, <1>2 DEF ToSet
<1>4. \A i \in 1 .. n : more[i] # v BY <1>1, <1>2 DEF ToSet
<1>5. \A i, j \in 1 .. n : order[i] = order[j] => i = j BY <1>2 DEF SortedOK, IsInjective
<1>6. IsInjective(more)
  <2>1. \A i, j \in DOMAIN more : more[i] = more[j] => i = j BY <1>1, <1>2, <1>4, <1>5
  <2> QED BY <2>1 DEF IsInjective
<1>7. ASSUME NEW j \in DOMAIN more PROVE rows[more[j]] \subseteq {more[i] : i \in 1 .. j-1}
  <2>1. CASE j \in 1 .. n
    <3>1. \A i \in 1 .. j-1 : i \in 1 .. n /\ more[i] = order[i] BY <2>1, <1>1
    <3>2. rows[order[j]] \subseteq {order[i] : i \in 1 .. j-1} BY <2>1, <1>2 DEF SortedOK
    <3> QED BY <2>1, <3>1, <3>2, <1>1
  <2>2. CASE j = n + 1
    <3>1. j - 1 = n BY <2>2, <1>1
    <3>2. ToSet(order) = {more[i] : i \in 1 .. n} BY <1>1, <1>2 DEF ToSet
    <3> QED BY <2>2, <3>1, <3>2, <1>1
  <2> QED BY <2>1, <2>2, <1>2
<1>8. ToSet(more) \subseteq g.vertices BY <1>3 DEF SortedOK
<1> QED BY <1>1, <1>3, <1>6, <1>7, <1>8 DEF SortedOK, more

LEMMA SortedKeeps ==
  ASSUME GraphInv, SortInv, UNCHANGED g, T!Sorted
  PROVE  SortOK(topo, {})'
<1> DEFINE n == Len(topo.frames)
           rows == T!Before(topo)
           at(k) == topo.frames[k].vertex
           v == at(n)
           less == SubSeq(topo.frames, 1, n - 1)
           tmp == topo.tmp \ {v}
           order == Append(topo.sorted, v)
           t == [topo EXCEPT !.frames = less, !.tmp = tmp, !.sorted = order]
<1>1. /\ topo \in Sorts /\ SortedOK(rows, topo.sorted) /\ FramesOK(topo, {})
      /\ topo.result = "sorting" /\ topo.frames # <<>> /\ T!Frame.next = {}
      /\ topo.frames \in Seq(Frames) /\ topo.sorted \in Seq(Ids)
  BY DEF T!Sorted, T!Sorting, SortInv, SortOK, Sorts
<1>2. n \in Nat \ {0} /\ DOMAIN topo.frames = 1 .. n /\ n \in 1 .. n
  BY <1>1, EmptySeq, LenProperties
<1>3. T!Frame = topo.frames[n] /\ topo.frames[n] \in Frames /\ v \in Ids
  <2>1. T!Frame = topo.frames[n] /\ topo.frames[n] \in Frames
    BY <1>1, <1>2, ElementOfSeq DEF T!Frame, T!Last, Last
  <2> QED BY <2>1 DEF Frames
<1>4. topo' = t BY <1>1, <1>3 DEF T!Sorted, T!Front, Front
<1>5. v \in topo.tmp /\ v \in g.vertices /\ v \notin ToSet(topo.sorted) BY <1>1, <1>2 DEF FramesOK
<1>6. rows[v] \subseteq ToSet(topo.sorted)
  <2>1. topo.frames[n].next = {} /\ ~(n < n) BY <1>1, <1>2, <1>3
  <2> QED BY <2>1, <1>1, <1>2 DEF FramesOK
<1>7. /\ order \in Seq(Ids) /\ ToSet(order) = ToSet(topo.sorted) \cup {v}
      /\ SortedOK(rows, order)
  BY <1>1, <1>3, <1>5, <1>6, SortedOneMore
<1>8. /\ less \in Seq(Frames) /\ Len(less) = n - 1
      /\ \A k \in 1 .. n - 1 : less[k] = topo.frames[k]
  BY <1>1, <1>2
<1>9. tmp \in SUBSET Ids BY <1>1 DEF Sorts
<1> HIDE DEF less, tmp, order
<1>10. t \in Sorts BY <1>1, <1>7, <1>8, <1>9 DEF Sorts
<1>11. t.frames = less /\ t.tmp = tmp /\ t.sorted = order
  <2>1. t.sorted = order BY <1>1 DEF Sorts
  <2>2. t.tmp = tmp BY <1>1 DEF Sorts
  <2>3. t.frames = less BY <1>1 DEF Sorts
  <2> QED BY <2>1, <2>2, <2>3
<1>12. t.order = topo.order /\ t.roots = topo.roots /\ t.result = "sorting" BY <1>1 DEF Sorts
<1> HIDE DEF t
<1>13. T!Before(t) = rows BY <1>12 DEF T!Before
<1>14. FramesOK(t, {})
  <2>1. /\ Len(t.frames) = n - 1 /\ 1 .. n = 1 .. n - 1 \cup {n} /\ n \notin 1 .. n - 1
        /\ \A k \in 1 .. n - 1 : t.frames[k] = topo.frames[k]
    BY <1>2, <1>8, <1>11
  <2>2. \A k, l \in 1 .. n : at(k) = at(l) => k = l BY <1>1 DEF FramesOK
  <2>3. t.tmp = {t.frames[k].vertex : k \in 1 .. n - 1}
    <3>1. topo.tmp = {at(k) : k \in 1 .. n} BY <1>1 DEF FramesOK
    <3>2. \A k \in 1 .. n - 1 : at(k) # v BY <1>2, <2>1, <2>2
    <3>3. tmp = {at(k) : k \in 1 .. n - 1} BY <2>1, <3>1, <3>2 DEF tmp
    <3> QED BY <3>3, <2>1, <1>11
  <2>4. /\ t.tmp \cap ToSet(t.sorted) = {} /\ t.tmp \subseteq g.vertices /\ t.roots \subseteq g.vertices
        /\ g.vertices \subseteq ToSet(t.sorted) \cup t.tmp \cup t.roots \cup {}
    BY <1>1, <1>7, <1>11, <1>12 DEF FramesOK, tmp
  <2>5. \A k, l \in 1 .. n - 1 : t.frames[k].vertex = t.frames[l].vertex => k = l
    BY <2>1, <2>2
  <2>6. ASSUME NEW k \in 1 .. n - 1
        PROVE  /\ t.frames[k].next \subseteq rows[t.frames[k].vertex]
               /\ rows[t.frames[k].vertex] \subseteq
                    ToSet(t.sorted) \cup t.frames[k].next
                      \cup (IF k < n - 1 THEN {t.frames[k+1].vertex} ELSE {})
    <3>1. /\ topo.frames[k].next \subseteq rows[at(k)]
          /\ rows[at(k)] \subseteq ToSet(topo.sorted) \cup topo.frames[k].next \cup {at(k+1)}
      <4>1. k \in 1 .. n /\ k < n BY <1>2
      <4> QED BY <4>1, <1>1 DEF FramesOK
    <3>2. CASE k < n - 1
      <4>1. k + 1 \in 1 .. n - 1 BY <3>2, <1>2
      <4> QED BY <4>1, <3>1, <3>2, <2>1, <1>7, <1>11
    <3>3. CASE ~(k < n - 1)
      <4>1. k + 1 = n BY <3>3, <1>2
      <4> QED BY <4>1, <3>1, <3>3, <2>1, <1>7, <1>11
    <3> QED BY <3>2, <3>3
  <2>7. \A k, l \in 1 .. n - 1 : k < l =>
          t.frames[l].vertex \in Reachable(rows, rows[t.frames[k].vertex])
    BY <1>1, <2>1 DEF FramesOK
  <2> QED BY <1>13, <2>1, <2>3, <2>4, <2>5, <2>6, <2>7 DEF FramesOK
<1>15. SortOK(t, {}) BY <1>7, <1>10, <1>11, <1>12, <1>13, <1>14 DEF SortOK
<1> QED BY <1>4, <1>15, SortOKNext

LEMMA SortFinishKeeps ==
  ASSUME GraphInv, SortInv, UNCHANGED g, T!Finish
  PROVE  SortOK(topo, {})'
<1> DEFINE t == [topo EXCEPT !.result = "sorted"]
<1>1. /\ topo \in Sorts /\ SortedOK(T!Before(topo), topo.sorted) /\ FramesOK(topo, {})
      /\ topo.frames = <<>> /\ topo.roots = {}
  BY DEF T!Finish, T!Sorting, SortInv, SortOK
<1>2. topo' = t BY DEF T!Finish
<1>3. /\ t \in Sorts /\ t.sorted = topo.sorted /\ t.order = topo.order /\ t.result = "sorted"
  BY <1>1 DEF Sorts
<1>4. T!Before(t) = T!Before(topo) BY <1>3 DEF T!Before
<1>5. Len(topo.frames) = 0 /\ 1 .. 0 = {} BY <1>1
<1>6. topo.tmp = {} BY <1>1, <1>5 DEF FramesOK
<1>7. ToSet(topo.sorted) = g.vertices BY <1>1, <1>6 DEF FramesOK, SortedOK
<1> HIDE DEF t
<1>8. SortOK(t, {}) BY <1>1, <1>3, <1>4, <1>7 DEF SortOK
<1> QED BY <1>2, <1>8, SortOKNext

LEMMA SortKeeps ==
  ASSUME GraphInv, SortInv, T!Step
  PROVE  SortInv'
<1>1. SortOK(topo, {})'
  BY VisitRootKeeps, VisitNextKeeps, SortedKeeps, SortFinishKeeps DEF T!Step
<1> QED BY <1>1 DEF SortInv

-----------------------------------------------------------------------------
(* Cycles.                                                                 *)

\* No row of a complete order has a cycle: what comes before a vertex in the
\* order is closed, and does not hold the vertex.
LEMMA OrderedIsAcyclic ==
  ASSUME NEW rows \in [Ids -> SUBSET Ids], NEW order \in Seq(Ids), SortedOK(rows, order),
         \A v \in Ids : v \notin ToSet(order) => rows[v] = {}
  PROVE  Acyclic(rows)
<1> SUFFICES ASSUME NEW v \in Ids PROVE v \notin Reachable(rows, rows[v]) BY DEF Acyclic
<1>1. CASE v \notin ToSet(order)
  <2>1. rows[v] \subseteq {} /\ Closed(rows, {}) /\ {} \in SUBSET Ids BY <1>1 DEF Closed
  <2> QED BY <2>1 DEF Reachable
<1>2. CASE v \in ToSet(order)
  <2>1. DOMAIN order = 1 .. Len(order) /\ Len(order) \in Nat BY LenProperties
  <2> PICK j \in 1 .. Len(order) : v = order[j] BY <1>2, <2>1 DEF ToSet
  <2> DEFINE before == {order[i] : i \in 1 .. j-1}
  <2>2. \A i \in 1 .. j-1 : i \in 1 .. Len(order) /\ i # j BY <2>1
  <2>3. before \in SUBSET Ids BY <2>2, ElementOfSeq
  <2>4. rows[v] \subseteq before BY <2>1 DEF SortedOK
  <2>5. v \notin before BY <2>1, <2>2 DEF SortedOK, IsInjective
  <2>6. Closed(rows, before)
    <3> SUFFICES ASSUME NEW i \in 1 .. j-1 PROVE rows[order[i]] \subseteq before BY DEF Closed
    <3>1. rows[order[i]] \subseteq {order[k] : k \in 1 .. i-1} BY <2>1, <2>2 DEF SortedOK
    <3>2. \A k \in 1 .. i-1 : k \in 1 .. j-1 BY <2>1
    <3> QED BY <3>1, <3>2
  <2> QED BY <2>3, <2>4, <2>5, <2>6 DEF Reachable
<1> QED BY <1>1, <1>2

\* A graph has a cycle in one direction when it has one in the other: the
\* vertices from which v is reached are closed under the reversed edges.
LEMMA AcyclicReversed ==
  ASSUME NEW rows \in [Ids -> SUBSET Ids], NEW back \in [Ids -> SUBSET Ids],
         \A v, w \in Ids : w \in rows[v] <=> v \in back[w],
         Acyclic(rows)
  PROVE  Acyclic(back)
<1> SUFFICES ASSUME NEW v \in Ids, v \in Reachable(back, back[v]) PROVE FALSE BY DEF Acyclic
<1> DEFINE to == {x \in Ids : v \in Reachable(rows, rows[x])}
<1>1. ASSUME NEW x \in back[v] PROVE x \in to
  <2>1. x \in Ids /\ v \in rows[x] OBVIOUS
  <2>2. v \in Reachable(rows, rows[x]) BY <2>1, ReachableIsClosed
  <2> QED BY <2>1, <2>2
<1>2. ASSUME NEW x \in to, NEW y \in back[x] PROVE y \in to
  <2>1. y \in Ids /\ x \in rows[y] /\ rows[x] \in SUBSET Ids /\ rows[y] \in SUBSET Ids OBVIOUS
  <2>2. /\ rows[y] \subseteq Reachable(rows, rows[y]) /\ Reachable(rows, rows[y]) \in SUBSET Ids
        /\ Closed(rows, Reachable(rows, rows[y]))
    BY <2>1, ReachableIsClosed
  <2>3. rows[x] \subseteq Reachable(rows, rows[y]) BY <2>1, <2>2 DEF Closed
  <2>4. Reachable(rows, rows[x]) \subseteq Reachable(rows, rows[y])
    BY <2>2, <2>3, ReachableIsLeast
  <2> QED BY <2>1, <2>4
<1>3. back[v] \subseteq to /\ Closed(back, to) /\ to \in SUBSET Ids BY <1>1, <1>2 DEF Closed
<1>4. v \in to BY <1>3 DEF Reachable
<1> QED BY <1>4 DEF Acyclic

LEMMA CyclesOfDown ==
  ASSUME GraphInv, NEW t
  PROVE  Acyclic(T!Before(t)) <=> Acyclic(g.downEdges)
BY AcyclicReversed DEF GraphInv, T!Before

LEMMA SortIsTopological ==
  ASSUME GraphInv, SortInv
  PROVE  T!OrderIsTopological
<1> SUFFICES ASSUME topo.result # "none" PROVE T!OrderIsTopological BY DEF T!OrderIsTopological
<1> DEFINE rows == T!Before(topo)
<1>1. SortOK(topo, {}) BY DEF SortInv
<1>2. topo.sorted \in Seq(Ids) /\ SortedOK(rows, topo.sorted) BY <1>1 DEF SortOK, Sorts
<1>3. T!Perm = ToSet(topo.sorted) BY DEF T!Perm, ToSet, T!ToSet
<1>4. ASSUME topo.result = "sorted" PROVE T!Perm = g.vertices /\ Acyclic(g.downEdges)
  <2>1. T!Perm = g.vertices BY <1>1, <1>3, <1>4 DEF SortOK
  <2>2. rows \in [Ids -> SUBSET Ids] BY BeforeType
  <2>3. \A v \in Ids : v \notin ToSet(topo.sorted) => rows[v] = {}
    BY <1>3, <2>1 DEF GraphInv, T!Before
  <2>4. Acyclic(rows) BY <1>2, <2>2, <2>3, OrderedIsAcyclic
  <2> QED BY <2>1, <2>4, CyclesOfDown
<1>5. ASSUME topo.result = "panicked" PROVE ~Acyclic(g.downEdges)
  BY <1>1, <1>5, CyclesOfDown DEF SortOK
<1>6. T!IsInjective(topo.sorted) BY <1>2 DEF SortedOK, IsInjective, T!IsInjective
<1>7. \A j \in DOMAIN topo.sorted :
        rows[topo.sorted[j]] \subseteq {topo.sorted[i] : i \in 1 .. j-1}
  BY <1>2 DEF SortedOK
<1>8. T!Acyclic(g.downEdges) <=> Acyclic(g.downEdges)
  BY DEF T!Acyclic, Acyclic, T!Reachable, Reachable, T!Closed, Closed
<1> QED BY <1>4, <1>5, <1>6, <1>7, <1>8 DEF T!OrderIsTopological

-----------------------------------------------------------------------------
(* The components.                                                         *)

CallFrames == [vertex : Ids, minIdx : Nat, targets : SUBSET Ids]
Searches ==
  [VertexIndex : [Ids -> Nat], NextIndex : Nat, Stack : Seq(Ids), SCC : Seq(Seq(Ids)),
   frames : Seq(CallFrames), roots : SUBSET Ids, result : {"searching", "found"}]

Indexed(s) == {v \in Ids : s.VertexIndex[v] # 0}
Parts(scs) == UNION {ToSet(scs[i]) : i \in DOMAIN scs}
Popped(s) == Parts(s.SCC)

\* Vertices get their indices in the order they are met; each is on the stack,
\* in that order, or in a component.  The others are left to try, all but U.
IndexOK(s, U) ==
  LET idx == s.VertexIndex
  IN  /\ \A v \in Ids : idx[v] < s.NextIndex
      /\ \A v, w \in Indexed(s) : idx[v] = idx[w] => v = w
      /\ Indexed(s) = ToSet(s.Stack) \cup Popped(s) /\ ToSet(s.Stack) \cap Popped(s) = {}
      /\ \A i, j \in DOMAIN s.Stack : i < j => idx[s.Stack[i]] < idx[s.Stack[j]]
      /\ Indexed(s) \cup s.roots \subseteq g.vertices /\ g.vertices \subseteq s.roots \cup Indexed(s) \cup U

\* The calls that have not returned: their vertices are on the stack, in order,
\* and reach all that is above them; the minimum of each is the index of a vertex
\* on the stack that it reaches.
CallsOK(s) ==
  LET idx == s.VertexIndex
      fr == s.frames
  IN  /\ \A k \in DOMAIN fr :
           /\ fr[k].vertex \in ToSet(s.Stack) /\ fr[k].targets \subseteq g.downEdges[fr[k].vertex]
           /\ fr[k].minIdx <= idx[fr[k].vertex]
           /\ \E x \in ToSet(s.Stack) :
                idx[x] = fr[k].minIdx /\ Reaches(g.downEdges, fr[k].vertex, x)
      /\ \A j, k \in DOMAIN fr : j < k => idx[fr[j].vertex] < idx[fr[k].vertex]
      /\ \A k \in DOMAIN fr, w \in ToSet(s.Stack) :
           idx[fr[k].vertex] <= idx[w] => Reaches(g.downEdges, fr[k].vertex, w)

\* A vertex on the stack reaches one below it whose call goes on.  Its targets
\* have an index, all but those its call still has to look at and U; and if it is
\* above the vertex of a call, then that call or a later one knows of the index of
\* each target that is on the stack.
StackOK(s, U) ==
  LET idx == s.VertexIndex
      fr == s.frames
      left(w, t) == \E j \in DOMAIN fr : w = fr[j].vertex /\ t \in fr[j].targets
  IN  /\ \A w \in ToSet(s.Stack) :
           \E k \in DOMAIN fr : idx[fr[k].vertex] <= idx[w] /\ Reaches(g.downEdges, w, fr[k].vertex)
      /\ \A w \in ToSet(s.Stack) : \A t \in g.downEdges[w] : t \in Indexed(s) \cup U \/ left(w, t)
      /\ \A w, t \in ToSet(s.Stack), k \in DOMAIN fr :
           t \in g.downEdges[w] /\ idx[fr[k].vertex] <= idx[w] =>
             left(w, t) \/ \E j \in DOMAIN fr : k <= j /\ fr[j].minIdx <= idx[t]

\* What was popped is closed, and each component is right.
PartsOK(scs) ==
  /\ Closed(g.downEdges, Parts(scs))
  /\ \A i \in DOMAIN scs :
       /\ IsInjective(scs[i])
       /\ \A v \in ToSet(scs[i]) : ToSet(scs[i]) = Component(g.downEdges, v)
       /\ Reachable(g.downEdges, ToSet(scs[i])) \subseteq UNION {ToSet(scs[j]) : j \in 1 .. i}
  /\ \A i, j \in DOMAIN scs : i # j => ToSet(scs[i]) \cap ToSet(scs[j]) = {}

SearchOK(s, U) ==
  /\ s \in Searches
  /\ IndexOK(s, U) /\ CallsOK(s) /\ StackOK(s, U) /\ PartsOK(s.SCC)
  /\ s.result = "found" => g.vertices = Popped(s)

LEMMA SearchOKNext ==
  ASSUME UNCHANGED g, SearchOK(scc', {})
  PROVE  SearchOK(scc, {})'
<1> DEFINE t == scc'
<1>1. /\ t \in Searches /\ IndexOK(t, {}) /\ CallsOK(t) /\ StackOK(t, {}) /\ PartsOK(t.SCC)
      /\ t.result = "found" => g.vertices = Popped(t)
  BY DEF SearchOK
<1>2. IndexOK(scc, {})' BY <1>1 DEF IndexOK, Indexed, Popped
<1>3. CallsOK(scc)' BY <1>1 DEF CallsOK
<1>4. StackOK(scc, {})' BY <1>1 DEF StackOK, Indexed
<1>5. PartsOK(scc.SCC)' BY <1>1 DEF PartsOK, Popped
<1>6. (scc \in Searches)' BY <1>1 DEF Searches, CallFrames
<1>7. (scc.result = "found" => g.vertices = Popped(scc))' BY <1>1 DEF Popped
<1> QED BY <1>2, <1>3, <1>4, <1>5, <1>6, <1>7 DEF SearchOK

\* A stack that holds vertices in the order of their indices is cut at one of them.
Ascends(stack, idx) == \A i, j \in DOMAIN stack : i < j => idx[stack[i]] < idx[stack[j]]

LEMMA StackIsCut ==
  ASSUME NEW stack \in Seq(Ids), NEW idx \in [Ids -> Nat], NEW v \in ToSet(stack),
         Ascends(stack, idx)
  PROVE  /\ S!From(stack, v) \in Seq(Ids) /\ S!Below(stack, v) \in Seq(Ids)
         /\ ToSet(S!From(stack, v)) = {w \in ToSet(stack) : idx[v] <= idx[w]}
         /\ ToSet(S!Below(stack, v)) = {w \in ToSet(stack) : idx[w] < idx[v]}
         /\ IsInjective(S!From(stack, v))
         /\ Ascends(S!Below(stack, v), idx)
<1> DEFINE n == Len(stack)
           at == CHOOSE k \in DOMAIN stack : stack[k] = v
           high == S!From(stack, v)
           low == S!Below(stack, v)
<1>1. n \in Nat /\ DOMAIN stack = 1 .. n /\ \A i \in 1 .. n : stack[i] \in Ids
  BY LenProperties, ElementOfSeq
<1>2. at \in 1 .. n /\ stack[at] = v BY <1>1 DEF ToSet
<1>3. high = SubSeq(stack, at, n) BY DEF S!From
<1> HIDE DEF at, n
<1>4. /\ high \in Seq(Ids) /\ Len(high) = n - at + 1
      /\ \A i \in 1 .. n - at + 1 : high[i] = stack[at + i - 1]
  BY <1>1, <1>2, <1>3, SubSeqProperties DEF n
<1>5. low = SubSeq(stack, 1, at - 1) BY <1>1, <1>2, <1>4 DEF S!Below, n
<1>6. low \in Seq(Ids) /\ Len(low) = at - 1 /\ \A i \in 1 .. at - 1 : low[i] = stack[i]
  BY <1>1, <1>2, <1>5, SubSeqProperties DEF n
<1>7. DOMAIN high = 1 .. n - at + 1 /\ DOMAIN low = 1 .. at - 1 BY <1>4, <1>6, LenProperties
<1> HIDE DEF high, low
<1>8. \A i, j \in 1 .. n : i < j => idx[stack[i]] < idx[stack[j]] BY <1>1 DEF Ascends
<1>9. \A i \in 1 .. n : /\ i < at => idx[stack[i]] < idx[v]
                        /\ at <= i => idx[v] <= idx[stack[i]]
                        /\ idx[stack[i]] \in Nat /\ idx[v] \in Nat
  <2>1. \A i \in 1 .. n : i < at \/ i = at \/ at < i BY <1>1, <1>2
  <2>2. \A i \in 1 .. n : idx[stack[i]] \in Nat /\ idx[v] \in Nat BY <1>1, <1>2
  <2> QED BY <1>1, <1>2, <1>8, <2>1, <2>2
<1>10. ToSet(high) = {w \in ToSet(stack) : idx[v] <= idx[w]}
  <2>1. ASSUME NEW i \in 1 .. n - at + 1
        PROVE  high[i] \in ToSet(stack) /\ idx[v] <= idx[high[i]]
    <3>1. at + i - 1 \in 1 .. n /\ at <= at + i - 1 BY <1>1, <1>2
    <3> QED BY <1>1, <1>4, <1>9, <3>1 DEF ToSet
  <2>2. ASSUME NEW i \in 1 .. n, idx[v] <= idx[stack[i]]
        PROVE  \E j \in 1 .. n - at + 1 : high[j] = stack[i]
    <3>1. at <= i BY <1>1, <1>2, <1>9, <2>2
    <3>2. i - at + 1 \in 1 .. n - at + 1 /\ at + (i - at + 1) - 1 = i BY <1>1, <1>2, <3>1
    <3> QED BY <1>4, <3>2
  <2> QED BY ZenonT(40), <1>1, <1>7, <2>1, <2>2 DEF ToSet
<1>11. ToSet(low) = {w \in ToSet(stack) : idx[w] < idx[v]}
  <2>1. ASSUME NEW i \in 1 .. at - 1
        PROVE  low[i] \in ToSet(stack) /\ idx[low[i]] < idx[v]
    <3>1. i \in 1 .. n /\ i < at BY <1>1, <1>2
    <3> QED BY <1>1, <1>6, <1>9, <3>1 DEF ToSet
  <2>2. ASSUME NEW i \in 1 .. n, idx[stack[i]] < idx[v]
        PROVE  i \in 1 .. at - 1
    BY <1>1, <1>2, <1>9, <2>2
  <2> QED BY <1>1, <1>6, <1>7, <2>1, <2>2 DEF ToSet
<1>12. IsInjective(high)
  <2> SUFFICES ASSUME NEW i \in 1 .. n - at + 1, NEW j \in 1 .. n - at + 1, i < j, high[i] = high[j]
               PROVE  FALSE
    BY <1>1, <1>2, <1>7 DEF IsInjective
  <2>1. at + i - 1 \in 1 .. n /\ at + j - 1 \in 1 .. n /\ at + i - 1 < at + j - 1 BY <1>1, <1>2
  <2>2. idx[high[i]] < idx[high[j]] /\ idx[high[i]] \in Nat BY <1>4, <1>8, <1>9, <2>1
  <2> QED BY <2>2
<1>13. Ascends(low, idx)
  <2>1. \A i, j \in 1 .. at - 1 : i < j => idx[low[i]] < idx[low[j]]
    BY SMTT(30), <1>1, <1>2, <1>6, <1>8
  <2> QED BY <1>7, <2>1 DEF Ascends
<1> QED BY <1>4, <1>6, <1>10, <1>11, <1>12, <1>13 DEF high, low

\* A vertex that is met goes on the stack, above all others, and its call begins.
LEMMA EnteredKeeps ==
  ASSUME GraphInv, NEW s, NEW v \in g.vertices, NEW U \in SUBSET {v}, SearchOK(s, U),
         s.result = "searching", s.VertexIndex[v] = 0,
         \/ s.frames = <<>>
         \/ s.frames # <<>> /\ v \in g.downEdges[s.frames[Len(s.frames)].vertex]
  PROVE  SearchOK(S!Entered(s, v), {})
<1> DEFINE n == Len(s.frames)
           idx == s.VertexIndex
           new == [vertex |-> v, minIdx |-> s.NextIndex, targets |-> g.downEdges[v]]
           t == S!Entered(s, v)
           on == ToSet(s.Stack)
<1>1. s \in Searches /\ IndexOK(s, U) /\ CallsOK(s) /\ StackOK(s, U) /\ PartsOK(s.SCC) BY DEF SearchOK
<1>2. v \in Ids BY DEF GraphInv
<1> DEFINE index == [s.VertexIndex EXCEPT ![v] = s.NextIndex]
           stack == Append(s.Stack, v)
           calls == Append(s.frames, new)
           next == s.NextIndex + 1
<1>3. t = [s EXCEPT !.VertexIndex = index, !.NextIndex = next, !.Stack = stack, !.frames = calls]
  BY DEF S!Entered
<1>4. /\ s.NextIndex \in Nat /\ idx \in [Ids -> Nat] /\ s.Stack \in Seq(Ids)
      /\ s.frames \in Seq(CallFrames)
  BY <1>1 DEF Searches
<1>5. new \in CallFrames /\ new.vertex = v /\ new.minIdx = s.NextIndex /\ new.targets = g.downEdges[v]
  BY <1>2, <1>4 DEF CallFrames, GraphInv
<1>6. calls \in Seq(CallFrames) /\ stack \in Seq(Ids) /\ index \in [Ids -> Nat] /\ next \in Nat
  BY <1>2, <1>4, <1>5, AppendProperties
<1> HIDE DEF t, index, stack, calls, next
<1>7. /\ t \in Searches
      /\ t.VertexIndex = index /\ t.NextIndex = next /\ t.Stack = stack /\ t.frames = calls
      /\ t.SCC = s.SCC /\ t.roots = s.roots /\ t.result = "searching"
  BY <1>1, <1>3, <1>6 DEF Searches
<1> USE DEF index, stack, calls, next
<1> HIDE DEF new
<1>8. /\ n \in Nat /\ DOMAIN s.frames = 1 .. n /\ DOMAIN t.frames = DOMAIN s.frames \cup {n + 1}
      /\ \A k \in DOMAIN s.frames : t.frames[k] = s.frames[k] /\ k <= n /\ k \in Nat
      /\ t.frames[n + 1] = new /\ n + 1 \notin DOMAIN s.frames
      /\ \A k \in DOMAIN s.frames : s.frames[k] \in CallFrames
  <2>1. n \in Nat /\ DOMAIN s.frames = 1 .. n BY <1>4, LenProperties
  <2>2. /\ Len(t.frames) = n + 1 /\ t.frames \in Seq(CallFrames)
        /\ \A k \in 1 .. n : t.frames[k] = s.frames[k]
        /\ t.frames[n + 1] = new
    BY <1>4, <1>5, <1>7, AppendProperties
  <2>3. DOMAIN t.frames = 1 .. n + 1 BY <2>2, LenProperties
  <2>4. \A k \in 1 .. n : s.frames[k] \in CallFrames BY <1>4, ElementOfSeq
  <2> HIDE DEF n
  <2> QED BY <2>1, <2>2, <2>3, <2>4
<1>9. /\ ToSet(t.Stack) = on \cup {v} /\ on \subseteq Ids
      /\ \A i, j \in DOMAIN t.Stack :
           i < j => i \in DOMAIN s.Stack /\ t.Stack[i] = s.Stack[i]
                    /\ \/ j \in DOMAIN s.Stack /\ t.Stack[j] = s.Stack[j]
                       \/ t.Stack[j] = v
  <2> DEFINE m == Len(s.Stack)
  <2>1. m \in Nat /\ DOMAIN s.Stack = 1 .. m /\ \A i \in 1 .. m : s.Stack[i] \in Ids
    BY <1>4, LenProperties, ElementOfSeq
  <2>2. /\ Len(t.Stack) = m + 1 /\ t.Stack \in Seq(Ids)
        /\ \A k \in 1 .. m : t.Stack[k] = s.Stack[k]
        /\ t.Stack[m + 1] = v
    BY <1>2, <1>4, <1>7, AppendProperties
  <2>3. DOMAIN t.Stack = 1 .. m + 1 BY <2>2, LenProperties
  <2> HIDE DEF m
  <2>4. \A k \in 1 .. m + 1 : k \in 1 .. m \/ k = m + 1 BY <2>1
  <2>5. m + 1 \in 1 .. m + 1 /\ 1 .. m \subseteq 1 .. m + 1 BY <2>1
  <2>6. ToSet(t.Stack) = on \cup {v} /\ on \subseteq Ids
    BY <2>1, <2>2, <2>3, <2>4, <2>5 DEF ToSet
  <2>7. \A i, j \in 1 .. m + 1 : i < j => i \in 1 .. m BY <2>1
  <2> QED BY <2>1, <2>2, <2>3, <2>4, <2>6, <2>7
<1>10. Popped(t) = Popped(s) BY <1>7 DEF Popped
<1>11. /\ Indexed(t) = Indexed(s) \cup {v} /\ v \notin Indexed(s) /\ t.VertexIndex[v] = s.NextIndex
       /\ \A w \in Indexed(s) : t.VertexIndex[w] = idx[w]
       /\ \A w \in Ids : idx[w] < s.NextIndex /\ idx[w] \in Nat
       /\ \A w \in Ids : t.VertexIndex[w] \in Nat
       /\ \A w \in Ids \ {v} : t.VertexIndex[w] = idx[w]
  BY <1>1, <1>2, <1>4, <1>7 DEF Indexed, IndexOK
<1>12. /\ Indexed(s) = on \cup Popped(s) /\ on \cap Popped(s) = {}
       /\ v \notin on /\ v \notin Popped(s) /\ Indexed(s) \subseteq Ids
       /\ \A w \in on : t.VertexIndex[w] = idx[w] /\ idx[w] < s.NextIndex /\ idx[w] \in Nat
  BY <1>1, <1>11 DEF IndexOK, Indexed
<1>13. IndexOK(t, {})
  <2>1. ASSUME NEW w \in Ids PROVE t.VertexIndex[w] < t.NextIndex
    <3>1. t.VertexIndex[w] = idx[w] \/ t.VertexIndex[w] = s.NextIndex BY <1>11
    <3>2. idx[w] < s.NextIndex /\ idx[w] \in Nat BY <1>11
    <3> QED BY <1>4, <1>7, <3>1, <3>2
  <2>2. \A w, x \in Indexed(t) : t.VertexIndex[w] = t.VertexIndex[x] => w = x
    <3>1. \A w, x \in Indexed(s) : t.VertexIndex[w] = t.VertexIndex[x] => w = x
      BY <1>1, <1>11 DEF IndexOK
    <3>2. ASSUME NEW w \in Indexed(s) PROVE t.VertexIndex[w] # t.VertexIndex[v]
      <4>1. t.VertexIndex[w] = idx[w] /\ idx[w] < s.NextIndex /\ idx[w] \in Nat BY <1>11, <1>12
      <4> QED BY <1>4, <1>11, <4>1
    <3> QED BY <1>11, <3>1, <3>2
  <2>3. Indexed(t) = ToSet(t.Stack) \cup Popped(t) /\ ToSet(t.Stack) \cap Popped(t) = {}
    BY <1>9, <1>10, <1>11, <1>12
  <2>4. \A i, j \in DOMAIN t.Stack : i < j => t.VertexIndex[t.Stack[i]] < t.VertexIndex[t.Stack[j]]
    <3> SUFFICES ASSUME NEW i \in DOMAIN t.Stack, NEW j \in DOMAIN t.Stack, i < j
                 PROVE  t.VertexIndex[t.Stack[i]] < t.VertexIndex[t.Stack[j]]
      OBVIOUS
    <3>1. i \in DOMAIN s.Stack /\ t.Stack[i] = s.Stack[i] /\ s.Stack[i] \in on BY <1>9 DEF ToSet
    <3>2. CASE t.Stack[j] = v BY <1>11, <1>12, <3>1, <3>2
    <3>3. CASE j \in DOMAIN s.Stack /\ t.Stack[j] = s.Stack[j]
      <4>1. s.Stack[j] \in on BY <3>3 DEF ToSet
      <4> QED BY <1>1, <1>12, <3>1, <3>3, <4>1 DEF IndexOK
    <3> QED BY <1>9, <3>2, <3>3
  <2>5. Indexed(t) \cup t.roots \subseteq g.vertices /\ g.vertices \subseteq t.roots \cup Indexed(t)
    BY <1>1, <1>7, <1>11 DEF IndexOK
  <2> QED BY <2>1, <2>2, <2>3, <2>4, <2>5 DEF IndexOK
<1>14. g.downEdges \in [Ids -> SUBSET Ids] BY DEF GraphInv
<1>15. \A k \in DOMAIN s.frames : s.frames[k].vertex \in on BY <1>1 DEF CallsOK
<1>16. \A k \in DOMAIN s.frames : Reaches(g.downEdges, s.frames[k].vertex, v)
  <2> SUFFICES ASSUME NEW k \in DOMAIN s.frames PROVE Reaches(g.downEdges, s.frames[k].vertex, v)
    OBVIOUS
  <2>1. n \in DOMAIN s.frames /\ s.frames # <<>> BY <1>8
  <2> DEFINE a == s.frames[k].vertex
             z == s.frames[n].vertex
  <2>2. a \in on /\ z \in on /\ v \in g.downEdges[z] BY <1>15, <2>1
  <2>3. Reaches(g.downEdges, z, v) BY <1>9, <1>14, <2>2, ReachesRow
  <2>4. idx[a] <= idx[z]
    <3>1. k = n \/ k < n BY <1>8
    <3>2. k < n => idx[a] < idx[z] BY <1>1, <2>1 DEF CallsOK
    <3> QED BY <1>12, <2>2, <3>1, <3>2
  <2>5. Reaches(g.downEdges, a, z) BY <1>1, <2>2, <2>4 DEF CallsOK
  <2> QED BY <1>9, <1>14, <2>2, <2>3, <2>5, ReachesOn
<1>17. CallsOK(t)
  <2>1. ASSUME NEW k \in DOMAIN t.frames
        PROVE  /\ t.frames[k].vertex \in ToSet(t.Stack)
               /\ t.frames[k].targets \subseteq g.downEdges[t.frames[k].vertex]
               /\ t.frames[k].minIdx <= t.VertexIndex[t.frames[k].vertex]
               /\ \E x \in ToSet(t.Stack) :
                    t.VertexIndex[x] = t.frames[k].minIdx /\ Reaches(g.downEdges, t.frames[k].vertex, x)
    <3>1. CASE k = n + 1
      <4>1. t.frames[k].vertex = v /\ t.frames[k].minIdx = s.NextIndex /\ t.frames[k].targets = g.downEdges[v]
        BY <1>5, <1>8, <3>1
      <4>2. Reaches(g.downEdges, v, v) BY <1>2, <1>14, ReachesItself
      <4> QED BY <1>4, <1>9, <1>11, <4>1, <4>2
    <3>2. CASE k \in DOMAIN s.frames
      <4>1. t.frames[k] = s.frames[k] /\ s.frames[k].vertex \in on BY <1>8, <1>15, <3>2
      <4>2. /\ s.frames[k].targets \subseteq g.downEdges[s.frames[k].vertex]
            /\ s.frames[k].minIdx <= idx[s.frames[k].vertex]
            /\ \E x \in on : idx[x] = s.frames[k].minIdx /\ Reaches(g.downEdges, s.frames[k].vertex, x)
        BY <1>1, <3>2 DEF CallsOK
      <4> QED BY <1>9, <1>12, <4>1, <4>2
    <3> QED BY <1>8, <3>1, <3>2
  <2>2. ASSUME NEW j \in DOMAIN t.frames, NEW k \in DOMAIN t.frames, j < k
        PROVE  t.VertexIndex[t.frames[j].vertex] < t.VertexIndex[t.frames[k].vertex]
    <3>1. j \in DOMAIN s.frames BY <1>8, <2>2
    <3>2. t.frames[j] = s.frames[j] /\ s.frames[j].vertex \in on BY <1>8, <1>15, <3>1
    <3>3. CASE k = n + 1 BY <1>5, <1>8, <1>11, <1>12, <3>2, <3>3
    <3>4. CASE k \in DOMAIN s.frames
      <4>1. t.frames[k] = s.frames[k] /\ s.frames[k].vertex \in on BY <1>8, <1>15, <3>4
      <4>2. idx[s.frames[j].vertex] < idx[s.frames[k].vertex] BY <1>1, <2>2, <3>1, <3>4 DEF CallsOK
      <4> QED BY <1>12, <3>2, <4>1, <4>2
    <3> QED BY <1>8, <3>3, <3>4
  <2>3. ASSUME NEW k \in DOMAIN t.frames, NEW w \in ToSet(t.Stack),
               t.VertexIndex[t.frames[k].vertex] <= t.VertexIndex[w]
        PROVE  Reaches(g.downEdges, t.frames[k].vertex, w)
    <3>1. CASE k = n + 1
      <4>1. t.frames[k].vertex = v BY <1>5, <1>8, <3>1
      <4>2. w = v BY <1>4, <1>9, <1>11, <1>12, <2>3, <4>1
      <4> QED BY <1>2, <1>14, <4>1, <4>2, ReachesItself
    <3>2. CASE k \in DOMAIN s.frames
      <4>1. t.frames[k] = s.frames[k] /\ s.frames[k].vertex \in on BY <1>8, <1>15, <3>2
      <4>2. CASE w = v BY <1>16, <3>2, <4>1, <4>2
      <4>3. CASE w \in on
        <5>1. idx[s.frames[k].vertex] <= idx[w] BY <1>12, <2>3, <4>1, <4>3
        <5> QED BY <1>1, <3>2, <4>1, <4>3, <5>1 DEF CallsOK
      <4> QED BY <1>9, <4>2, <4>3
    <3> QED BY <1>8, <3>1, <3>2
  <2> QED BY <2>1, <2>2, <2>3 DEF CallsOK
<1>18. StackOK(t, {})
  <2> DEFINE left(w, x) == \E j \in DOMAIN t.frames : w = t.frames[j].vertex /\ x \in t.frames[j].targets
  <2>1. ASSUME NEW w \in ToSet(t.Stack)
        PROVE  \E k \in DOMAIN t.frames : /\ t.VertexIndex[t.frames[k].vertex] <= t.VertexIndex[w]
                                          /\ Reaches(g.downEdges, w, t.frames[k].vertex)
    <3>1. CASE w = v
      <4>1. t.frames[n+1].vertex = v /\ n + 1 \in DOMAIN t.frames BY <1>5, <1>8
      <4>2. Reaches(g.downEdges, v, v) BY <1>2, <1>14, ReachesItself
      <4> QED BY <1>4, <1>11, <3>1, <4>1, <4>2
    <3>2. CASE w \in on
      <4>1. PICK k \in DOMAIN s.frames : /\ idx[s.frames[k].vertex] <= idx[w]
                                         /\ Reaches(g.downEdges, w, s.frames[k].vertex)
        BY <1>1, <3>2 DEF StackOK
      <4>2. k \in DOMAIN t.frames /\ t.frames[k] = s.frames[k] /\ s.frames[k].vertex \in on
        BY <1>8, <1>15
      <4>3. t.VertexIndex[t.frames[k].vertex] <= t.VertexIndex[w] BY <1>12, <3>2, <4>1, <4>2
      <4> QED BY <4>1, <4>2, <4>3
    <3> QED BY <1>9, <3>1, <3>2
  <2>2. ASSUME NEW w \in ToSet(t.Stack), NEW x \in g.downEdges[w]
        PROVE  x \in Indexed(t) \/ left(w, x)
    <3>1. CASE w = v
      <4>1. t.frames[n+1].vertex = v /\ t.frames[n+1].targets = g.downEdges[v] /\ n + 1 \in DOMAIN t.frames
        BY <1>5, <1>8
      <4> QED BY <3>1, <4>1
    <3>2. CASE w \in on
      <4>1. \/ x \in Indexed(s) \cup U
            \/ \E j \in DOMAIN s.frames : w = s.frames[j].vertex /\ x \in s.frames[j].targets
        BY <1>1, <3>2 DEF StackOK
      <4> QED BY <1>8, <1>11, <4>1
    <3> QED BY <1>9, <3>1, <3>2
  <2>3. ASSUME NEW w \in ToSet(t.Stack), NEW x \in ToSet(t.Stack), NEW k \in DOMAIN t.frames,
               x \in g.downEdges[w], t.VertexIndex[t.frames[k].vertex] <= t.VertexIndex[w]
        PROVE  left(w, x) \/ \E j \in DOMAIN t.frames : k <= j /\ t.frames[j].minIdx <= t.VertexIndex[x]
    <3>1. CASE w = v
      <4>1. t.frames[n+1].vertex = v /\ t.frames[n+1].targets = g.downEdges[v] /\ n + 1 \in DOMAIN t.frames
        BY <1>5, <1>8
      <4> QED BY <2>3, <3>1, <4>1
    <3>2. CASE w \in on
      <4>1. k \in DOMAIN s.frames
        <5>1. k = n + 1 => t.frames[k].vertex = v BY <1>5, <1>8
        <5>2. t.VertexIndex[w] < t.VertexIndex[v] BY <1>11, <1>12, <3>2
        <5> QED BY <1>4, <1>8, <1>11, <1>12, <2>3, <3>2, <5>1, <5>2
      <4>2. t.frames[k] = s.frames[k] /\ s.frames[k].vertex \in on /\ k \in DOMAIN t.frames /\ k <= k
        BY <1>8, <1>15, <4>1
      <4>3. CASE x = v
        <5>1. s.frames[k].minIdx <= idx[s.frames[k].vertex] /\ s.frames[k].minIdx \in Nat
          BY <1>1, <1>8, <4>1 DEF CallsOK, CallFrames
        <5>2. t.frames[k].minIdx <= t.VertexIndex[x] BY <1>4, <1>11, <1>12, <4>2, <4>3, <5>1
        <5> QED BY <4>2, <5>2
      <4>4. CASE x \in on
        <5>1. idx[s.frames[k].vertex] <= idx[w] BY <1>12, <2>3, <3>2, <4>2
        <5>2. \/ \E j \in DOMAIN s.frames : w = s.frames[j].vertex /\ x \in s.frames[j].targets
              \/ \E j \in DOMAIN s.frames : k <= j /\ s.frames[j].minIdx <= idx[x]
          BY <1>1, <2>3, <3>2, <4>1, <4>4, <5>1 DEF StackOK
        <5> QED BY <1>8, <1>12, <4>4, <5>2
      <4> QED BY <1>9, <4>3, <4>4
    <3> QED BY <1>9, <3>1, <3>2
  <2> QED BY <2>1, <2>2, <2>3 DEF StackOK
<1>19. PartsOK(t.SCC) BY <1>1, <1>7
<1>20. SearchOK(t, {})
  <2>1. t \in Searches /\ t.result # "found" BY <1>7
  <2> QED BY <1>13, <1>17, <1>18, <1>19, <2>1 DEF SearchOK
<1> QED BY <1>20 DEF t

\* A call has looked at a target: it knows of its index if it is on the stack.
LEMMA LoweredKeeps ==
  ASSUME GraphInv, NEW s, SearchOK(s, {}), s.result = "searching", s.frames # <<>>,
         NEW x \in s.frames[Len(s.frames)].targets, NEW m,
         \/ x \in ToSet(s.Stack) /\ m = s.VertexIndex[x]
         \/ x \notin ToSet(s.Stack) /\ m = s.frames[Len(s.frames)].minIdx
  PROVE  LET t == S!Lowered(s, x, m)
         IN  /\ SearchOK(t, {x} \ Indexed(s)) /\ t.result = "searching"
             /\ t.VertexIndex = s.VertexIndex /\ t.frames # <<>> /\ Len(t.frames) = Len(s.frames)
             /\ t.frames[Len(t.frames)].vertex = s.frames[Len(s.frames)].vertex
             /\ x \in g.downEdges[s.frames[Len(s.frames)].vertex]
<1> DEFINE n == Len(s.frames)
           idx == s.VertexIndex
           frame == s.frames[n]
           t == S!Lowered(s, x, m)
           on == ToSet(s.Stack)
           U == {x} \ Indexed(s)
<1>1. s \in Searches /\ IndexOK(s, {}) /\ CallsOK(s) /\ StackOK(s, {}) /\ PartsOK(s.SCC) BY DEF SearchOK
<1>2. /\ idx \in [Ids -> Nat] /\ s.Stack \in Seq(Ids) /\ s.frames \in Seq(CallFrames)
  BY <1>1 DEF Searches
<1>3. /\ n \in Nat \ {0} /\ DOMAIN s.frames = 1 .. n /\ n \in 1 .. n
      /\ \A k \in 1 .. n : s.frames[k] \in CallFrames
  BY <1>2, EmptySeq, LenProperties, ElementOfSeq
<1>4. /\ frame \in CallFrames /\ frame.vertex \in Ids /\ frame.minIdx \in Nat /\ frame.targets \in SUBSET Ids
      /\ frame.vertex \in on /\ x \in g.downEdges[frame.vertex] /\ x \in Ids
  BY <1>1, <1>3 DEF CallsOK, CallFrames
<1>5. on \subseteq Ids BY <1>2, LenProperties, ElementOfSeq DEF ToSet
<1>6. m \in Nat /\ (x \in on => m = idx[x]) /\ (x \notin on => m = frame.minIdx)
  BY <1>2, <1>4, <1>5
<1> DEFINE min == S!Smaller(frame.minIdx, m)
           rest == frame.targets \ {x}
           low == [frame EXCEPT !.targets = rest, !.minIdx = min]
           calls == [s.frames EXCEPT ![n] = low]
<1>7. /\ low \in CallFrames /\ low.vertex = frame.vertex /\ low.targets = frame.targets \ {x}
      /\ low.minIdx = S!Smaller(frame.minIdx, m)
  <2>1. min \in Nat /\ rest \in SUBSET Ids BY <1>4, <1>6 DEF S!Smaller
  <2> HIDE DEF min, rest, frame
  <2>2. low \in CallFrames /\ low.vertex = frame.vertex /\ low.targets = rest /\ low.minIdx = min
    BY <1>4, <2>1 DEF CallFrames
  <2> QED BY <2>2 DEF min, rest
<1>8. t = [s EXCEPT !.frames = calls]
  <2>1. t = [s EXCEPT !.frames[n].targets = @ \ {x}, !.frames[n].minIdx = S!Smaller(@, m)]
    BY DEF S!Lowered
  <2> QED BY <1>1, <1>3, <1>4, <2>1 DEF Searches, CallFrames
<1>9. calls \in Seq(CallFrames) /\ Len(calls) = n
  <2> HIDE DEF low, n
  <2> QED BY <1>2, <1>3, <1>7, ExceptSeq DEF n
<1>10. /\ t \in Searches /\ t.frames = calls /\ t.VertexIndex = idx /\ t.NextIndex = s.NextIndex
       /\ t.Stack = s.Stack /\ t.SCC = s.SCC /\ t.roots = s.roots /\ t.result = "searching"
  <2> HIDE DEF calls, t
  <2> QED BY <1>1, <1>8, <1>9 DEF Searches
<1> HIDE DEF t
<1>11. /\ DOMAIN t.frames = 1 .. n /\ Len(t.frames) = n /\ t.frames # <<>>
       /\ \A k \in 1 .. n : k # n => t.frames[k] = s.frames[k]
       /\ t.frames[n].vertex = frame.vertex /\ t.frames[n].targets = frame.targets \ {x}
       /\ t.frames[n].minIdx = S!Smaller(frame.minIdx, m)
  <2> HIDE DEF low
  <2>1. DOMAIN calls = 1 .. n /\ calls[n] = low /\ \A k \in 1 .. n : k # n => calls[k] = s.frames[k]
    BY <1>3
  <2> QED BY <1>3, <1>7, <1>9, <1>10, <2>1
<1>12. /\ t.frames[n].minIdx \in Nat /\ t.frames[n].minIdx <= frame.minIdx
       /\ t.frames[n].minIdx <= m
       /\ t.frames[n].minIdx = frame.minIdx \/ t.frames[n].minIdx = m
  BY <1>4, <1>6, <1>11 DEF S!Smaller
<1>13. Indexed(t) = Indexed(s) /\ Popped(t) = Popped(s) BY <1>10 DEF Indexed, Popped
<1>14. IndexOK(t, U) BY <1>1, <1>10, <1>13 DEF IndexOK
<1>15. \A k \in 1 .. n : /\ t.frames[k].vertex = s.frames[k].vertex
                         /\ t.frames[k].targets \subseteq s.frames[k].targets
                         /\ t.frames[k].minIdx <= s.frames[k].minIdx
  <2>1. \A k \in 1 .. n : s.frames[k].minIdx \in Nat BY <1>3 DEF CallFrames
  <2> QED BY <1>11, <1>12, <2>1
<1>16. CallsOK(t)
  <2>1. ASSUME NEW k \in 1 .. n
        PROVE  \E y \in on : idx[y] = t.frames[k].minIdx /\ Reaches(g.downEdges, t.frames[k].vertex, y)
    <3>1. PICK y \in on : idx[y] = s.frames[k].minIdx /\ Reaches(g.downEdges, s.frames[k].vertex, y)
      BY <1>1, <1>3 DEF CallsOK
    <3>2. CASE t.frames[k].minIdx = s.frames[k].minIdx BY <1>15, <3>1, <3>2
    <3>3. CASE t.frames[k].minIdx # s.frames[k].minIdx
      <4>1. k = n /\ t.frames[n].minIdx = m /\ m # frame.minIdx BY <1>11, <1>12, <3>3
      <4>2. x \in on /\ m = idx[x] BY <1>6, <4>1
      <4>3. Reaches(g.downEdges, frame.vertex, x) BY <1>4, ReachesRow DEF GraphInv
      <4> QED BY <1>11, <4>1, <4>2, <4>3
    <3> QED BY <3>2, <3>3
  <2>2. ASSUME NEW k \in 1 .. n
        PROVE  /\ t.frames[k].vertex \in on /\ t.frames[k].targets \subseteq g.downEdges[t.frames[k].vertex]
               /\ t.frames[k].minIdx <= idx[t.frames[k].vertex]
    <3>1. /\ s.frames[k].vertex \in on /\ s.frames[k].targets \subseteq g.downEdges[s.frames[k].vertex]
          /\ s.frames[k].minIdx <= idx[s.frames[k].vertex]
      BY <1>1, <1>3 DEF CallsOK
    <3>2. s.frames[k].minIdx \in Nat /\ t.frames[k].minIdx \in Nat /\ idx[s.frames[k].vertex] \in Nat
      BY <1>2, <1>3, <1>5, <1>11, <1>12, <3>1 DEF CallFrames
    <3> QED BY <1>15, <3>1, <3>2
  <2>3. \A j, k \in 1 .. n : j < k => idx[t.frames[j].vertex] < idx[t.frames[k].vertex]
    BY <1>1, <1>3, <1>15 DEF CallsOK
  <2>4. \A k \in 1 .. n, w \in on :
          idx[t.frames[k].vertex] <= idx[w] => Reaches(g.downEdges, t.frames[k].vertex, w)
    BY <1>1, <1>3, <1>15 DEF CallsOK
  <2> QED BY <1>10, <1>11, <2>1, <2>2, <2>3, <2>4 DEF CallsOK
<1>17. StackOK(t, U)
  <2> DEFINE left(w, y) == \E j \in 1 .. n : w = t.frames[j].vertex /\ y \in t.frames[j].targets
             leftBefore(w, y) == \E j \in 1 .. n : w = s.frames[j].vertex /\ y \in s.frames[j].targets
  <2>1. ASSUME NEW w, NEW y, leftBefore(w, y)
        PROVE  left(w, y) \/ (w = frame.vertex /\ y = x)
    <3>1. PICK j \in 1 .. n : w = s.frames[j].vertex /\ y \in s.frames[j].targets BY <2>1
    <3>2. CASE j = n BY <1>3, <1>11, <3>1, <3>2
    <3>3. CASE j # n BY <1>11, <3>1, <3>3
    <3> QED BY <3>2, <3>3
  <2>2. \A w \in on : \E k \in 1 .. n : idx[t.frames[k].vertex] <= idx[w] /\ Reaches(g.downEdges, w, t.frames[k].vertex)
    BY <1>1, <1>3, <1>15 DEF StackOK
  <2>3. ASSUME NEW w \in on, NEW y \in g.downEdges[w] PROVE y \in Indexed(s) \cup U \/ left(w, y)
    <3>1. y \in Indexed(s) \/ leftBefore(w, y) BY <1>1, <1>3 DEF StackOK
    <3> HIDE DEF left, leftBefore
    <3> QED BY <2>1, <3>1
  <2>4. ASSUME NEW w \in on, NEW y \in on, NEW k \in 1 .. n, y \in g.downEdges[w],
               idx[t.frames[k].vertex] <= idx[w]
        PROVE  left(w, y) \/ \E j \in 1 .. n : k <= j /\ t.frames[j].minIdx <= idx[y]
    <3>1. leftBefore(w, y) \/ \E j \in 1 .. n : k <= j /\ s.frames[j].minIdx <= idx[y]
      BY <1>1, <1>3, <1>15, <2>4 DEF StackOK
    <3>2. ASSUME NEW j \in 1 .. n, k <= j, s.frames[j].minIdx <= idx[y]
          PROVE  k <= j /\ t.frames[j].minIdx <= idx[y]
      <4>1. /\ idx[y] \in Nat /\ s.frames[j].minIdx \in Nat /\ t.frames[j].minIdx \in Nat
            /\ t.frames[j].minIdx <= s.frames[j].minIdx
        BY <1>2, <1>3, <1>5, <1>11, <1>12, <1>15 DEF CallFrames
      <4> QED BY <3>2, <4>1
    <3>3. ASSUME w = frame.vertex, y = x PROVE k <= n /\ t.frames[n].minIdx <= idx[y] /\ n \in 1 .. n
      BY <1>3, <1>6, <1>12, <2>4, <3>3
    <3>4. CASE leftBefore(w, y)
      <4> HIDE DEF left, leftBefore
      <4> QED BY <2>1, <3>3, <3>4
    <3> HIDE DEF left, leftBefore
    <3> QED BY <3>1, <3>2, <3>4
  <2> QED BY <1>10, <1>11, <1>13, <2>2, <2>3, <2>4 DEF StackOK
<1>18. PartsOK(t.SCC) BY <1>1, <1>10
<1>19. SearchOK(t, U)
  <2>1. t \in Searches /\ t.result # "found" BY <1>10
  <2> QED BY <1>14, <1>16, <1>17, <1>18, <2>1 DEF SearchOK
<1> QED BY <1>4, <1>10, <1>11, <1>19 DEF t

\* The calls that remain when the last one returns: the one before it takes the
\* smaller of the two minimums.
Callers(frames) ==
  LET callers == Front(frames)
  IN  [i \in DOMAIN callers |->
         IF i = Len(callers)
         THEN [callers[i] EXCEPT !.minIdx = S!Smaller(@, Last(frames).minIdx)]
         ELSE callers[i]]

LEMMA CallersLeft ==
  ASSUME NEW frames \in Seq(CallFrames), frames # <<>>
  PROVE  LET n == Len(frames)
             left == Callers(frames)
         IN  /\ n \in Nat \ {0} /\ DOMAIN frames = 1 .. n
             /\ \A k \in 1 .. n : /\ frames[k].vertex \in Ids /\ frames[k].minIdx \in Nat
                                  /\ frames[k].targets \in SUBSET Ids
             /\ left \in Seq(CallFrames) /\ DOMAIN left = 1 .. n - 1
             /\ \A k \in 1 .. n - 1 :
                  /\ left[k].vertex = frames[k].vertex /\ left[k].targets = frames[k].targets
                  /\ left[k].minIdx \in Nat /\ left[k].minIdx <= frames[k].minIdx
                  /\ k # n - 1 => left[k].minIdx = frames[k].minIdx
                  /\ k = n - 1 => left[k].minIdx = S!Smaller(frames[k].minIdx, frames[n].minIdx)
<1> DEFINE n == Len(frames)
           m == frames[n].minIdx
           callers == Front(frames)
           left == Callers(frames)
<1>1. n \in Nat \ {0} /\ DOMAIN frames = 1 .. n /\ \A k \in 1 .. n : frames[k] \in CallFrames
  BY EmptySeq, LenProperties, ElementOfSeq
<1>2. m \in Nat
  <2> HIDE DEF n
  <2> QED BY <1>1 DEF CallFrames
<1>3. callers = SubSeq(frames, 1, n - 1) /\ Last(frames) = frames[n] BY DEF Front, Last
<1>4. /\ callers \in Seq(CallFrames) /\ Len(callers) = n - 1
      /\ \A k \in 1 .. n - 1 : callers[k] = frames[k]
  <2>1. 1 \in 1 .. n + 1 /\ n - 1 \in 0 .. n BY <1>1
  <2>2. /\ SubSeq(frames, 1, n - 1) \in Seq(CallFrames) /\ Len(SubSeq(frames, 1, n - 1)) = n - 1
        /\ \A k \in 1 .. n - 1 : SubSeq(frames, 1, n - 1)[k] = frames[k]
    BY <1>1, <2>1, SubSeqProperties
  <2> HIDE DEF n, callers
  <2> QED BY <1>3, <2>2
<1>5. DOMAIN callers = 1 .. n - 1 BY <1>4, LenProperties
<1>6. \A k \in 1 .. n : /\ frames[k].vertex \in Ids /\ frames[k].minIdx \in Nat
                        /\ frames[k].targets \in SUBSET Ids
  BY <1>1 DEF CallFrames
<1>7. left = [i \in DOMAIN callers |->
                IF i = Len(callers)
                THEN [callers[i] EXCEPT !.minIdx = S!Smaller(callers[i].minIdx, Last(frames).minIdx)]
                ELSE callers[i]]
  BY DEF Callers
<1> HIDE DEF left, callers, m, n
<1>8. left = [i \in 1 .. n - 1 |->
                IF i = n - 1 THEN [frames[i] EXCEPT !.minIdx = S!Smaller(frames[i].minIdx, m)]
                ELSE frames[i]]
  BY <1>3, <1>4, <1>5, <1>7 DEF m
<1>9. ASSUME NEW k \in 1 .. n - 1
      PROVE  /\ left[k] \in CallFrames
             /\ left[k].vertex = frames[k].vertex /\ left[k].targets = frames[k].targets
             /\ left[k].minIdx \in Nat /\ left[k].minIdx <= frames[k].minIdx
             /\ k # n - 1 => left[k].minIdx = frames[k].minIdx
             /\ k = n - 1 => left[k].minIdx = S!Smaller(frames[k].minIdx, m)
  <2>1. k \in 1 .. n /\ frames[k] \in CallFrames /\ frames[k].minIdx \in Nat BY <1>1, <1>6
  <2>2. CASE k # n - 1
    <3>1. left[k] = frames[k] BY <1>8, <2>2
    <3> QED BY <2>1, <2>2, <3>1
  <2>3. CASE k = n - 1
    <3> DEFINE min == S!Smaller(frames[k].minIdx, m)
               frame == frames[k]
               new == [frame EXCEPT !.minIdx = min]
    <3>1. min \in Nat /\ min <= frame.minIdx BY <1>2, <2>1 DEF S!Smaller
    <3>2. left[k] = new BY <1>8, <2>3
    <3> HIDE DEF min, frame
    <3>3. /\ new \in CallFrames /\ new.vertex = frame.vertex /\ new.targets = frame.targets
          /\ new.minIdx = min
      BY <2>1, <3>1 DEF CallFrames, frame
    <3> HIDE DEF new
    <3> QED BY <2>3, <3>1, <3>2, <3>3 DEF frame, min
  <2> QED BY <2>2, <2>3
<1>10. left \in Seq(CallFrames)
  <2>1. n - 1 \in Nat BY <1>1
  <2>2. left \in [1 .. n - 1 -> CallFrames]
    <3>1. DOMAIN left = 1 .. n - 1 /\ left = [i \in 1 .. n - 1 |-> left[i]] BY <1>8
    <3> QED BY <1>9, <3>1
  <2> QED BY <2>1, <2>2, IsASeq
<1>11. DOMAIN left = 1 .. n - 1 BY <1>8
<1> QED BY <1>1, <1>6, <1>9, <1>10, <1>11 DEF left, m, n

\* A component that is closed but for what was popped before it.
LEMMA PartsGrow ==
  ASSUME NEW scs \in Seq(Seq(Ids)), PartsOK(scs), NEW c \in Seq(Ids), IsInjective(c),
         \A v \in ToSet(c) : ToSet(c) = Component(g.downEdges, v),
         Closed(g.downEdges, ToSet(c) \cup Parts(scs)), ToSet(c) \cap Parts(scs) = {},
         Reachable(g.downEdges, ToSet(c)) \subseteq ToSet(c) \cup Parts(scs)
  PROVE  /\ Append(scs, c) \in Seq(Seq(Ids))
         /\ PartsOK(Append(scs, c)) /\ Parts(Append(scs, c)) = Parts(scs) \cup ToSet(c)
<1> DEFINE n == Len(scs)
           all == Append(scs, c)
           to(i) == UNION {ToSet(all[j]) : j \in 1 .. i}
<1>1. /\ n \in Nat /\ DOMAIN scs = 1 .. n
      /\ all \in Seq(Seq(Ids)) /\ Len(all) = n + 1 /\ all[n + 1] = c
      /\ \A i \in 1 .. n : all[i] = scs[i]
  BY AppendProperties, LenProperties
<1>2. DOMAIN all = 1 .. n + 1 BY <1>1, LenProperties
<1> HIDE DEF n, all
<1>3. /\ \A i \in 1 .. n + 1 : i \in 1 .. n \/ i = n + 1
      /\ n + 1 \in 1 .. n + 1 /\ 1 .. n \subseteq 1 .. n + 1 /\ n + 1 \notin 1 .. n
  BY <1>1
<1>4. Parts(all) = Parts(scs) \cup ToSet(c)
  <2>1. ASSUME NEW i \in 1 .. n + 1 PROVE ToSet(all[i]) \subseteq Parts(scs) \cup ToSet(c)
    <3>1. CASE i \in 1 .. n BY <1>1, <3>1 DEF Parts
    <3>2. CASE i = n + 1 BY <1>1, <3>2
    <3> QED BY <1>3, <3>1, <3>2
  <2>2. ToSet(c) \subseteq Parts(all) BY <1>1, <1>2, <1>3 DEF Parts
  <2>3. \A i \in 1 .. n : ToSet(scs[i]) \subseteq Parts(all) BY <1>1, <1>2, <1>3 DEF Parts
  <2>4. Parts(all) \subseteq Parts(scs) \cup ToSet(c) BY <1>2, <2>1 DEF Parts
  <2>5. Parts(scs) \subseteq Parts(all) BY <1>1, <2>3 DEF Parts
  <2> QED BY <2>2, <2>4, <2>5
<1>5. ASSUME NEW i \in 1 .. n + 1
      PROVE  /\ IsInjective(all[i])
             /\ \A v \in ToSet(all[i]) : ToSet(all[i]) = Component(g.downEdges, v)
             /\ Reachable(g.downEdges, ToSet(all[i])) \subseteq to(i)
  <2>1. CASE i \in 1 .. n
    <3>1. all[i] = scs[i] /\ i \in DOMAIN scs BY <1>1, <2>1
    <3>2. \A j \in 1 .. i : all[j] = scs[j] BY <1>1, <2>1
    <3>3. to(i) = UNION {ToSet(scs[j]) : j \in 1 .. i} BY <3>2
    <3> HIDE DEF to
    <3> QED BY <3>1, <3>3, Zenon DEF PartsOK
  <2>2. CASE i = n + 1
    <3>1. all[i] = c BY <1>1, <2>2
    <3>2. to(i) = Parts(all) BY <1>2, <2>2 DEF Parts
    <3> HIDE DEF to
    <3> QED BY <1>4, <3>1, <3>2
  <2> QED BY <1>3, <2>1, <2>2
<1>6. ASSUME NEW i \in 1 .. n + 1, NEW j \in 1 .. n + 1, i # j
      PROVE  ToSet(all[i]) \cap ToSet(all[j]) = {}
  <2>1. ASSUME NEW k \in 1 .. n PROVE ToSet(all[k]) \cap ToSet(c) = {}
    <3>1. ToSet(all[k]) \subseteq Parts(scs) BY <1>1 DEF Parts
    <3> QED BY <3>1
  <2>2. CASE i \in 1 .. n /\ j \in 1 .. n
    <3>1. \A a, b \in DOMAIN scs : a # b => ToSet(scs[a]) \cap ToSet(scs[b]) = {} BY DEF PartsOK
    <3> QED BY <1>1, <1>6, <2>2, <3>1
  <2>3. CASE i = n + 1 BY <1>1, <1>3, <1>6, <2>1, <2>3
  <2>4. CASE j = n + 1 BY <1>1, <1>3, <1>6, <2>1, <2>4
  <2> QED BY <1>3, <2>2, <2>3, <2>4
<1>7. Closed(g.downEdges, Parts(all)) 
  <2>1. Parts(all) = ToSet(c) \cup Parts(scs) BY <1>4
  <2> QED BY <2>1
<1>8. PartsOK(all) BY <1>2, <1>5, <1>6, <1>7, Zenon DEF PartsOK
<1> QED BY <1>1, <1>4, <1>8 DEF all

\* What both returns rest on: the last call has looked at all its targets.
LEMMA LastCall ==
  ASSUME GraphInv, NEW s, SearchOK(s, {}), s.frames # <<>>, s.frames[Len(s.frames)].targets = {}
  PROVE  LET n == Len(s.frames)
             idx == s.VertexIndex
             v == s.frames[n].vertex
             on == ToSet(s.Stack)
             left(w, x) == \E j \in 1 .. n - 1 : w = s.frames[j].vertex /\ x \in s.frames[j].targets
         IN  /\ on \in SUBSET Ids /\ v \in on /\ idx \in [Ids -> Nat]
             /\ \A k \in 1 .. n - 1 : s.frames[k].vertex \in on /\ idx[s.frames[k].vertex] < idx[v]
             /\ \A w \in on : idx[v] <= idx[w] =>
                  Reaches(g.downEdges, v, w) /\ \A x \in g.downEdges[w] : x \in Indexed(s)
             /\ \A w \in on : Reaches(g.downEdges, w, v) \/
                  \E k \in 1 .. n - 1 : /\ idx[s.frames[k].vertex] <= idx[w]
                                        /\ Reaches(g.downEdges, w, s.frames[k].vertex)
             /\ \A w \in on : \A x \in g.downEdges[w] : x \in Indexed(s) \/ left(w, x)
             /\ \A w, x \in on, k \in 1 .. n :
                  x \in g.downEdges[w] /\ idx[s.frames[k].vertex] <= idx[w] =>
                    left(w, x) \/ \E j \in 1 .. n : k <= j /\ s.frames[j].minIdx <= idx[x]
<1> DEFINE n == Len(s.frames)
           idx == s.VertexIndex
           v == s.frames[n].vertex
           on == ToSet(s.Stack)
           left(w, x) == \E j \in 1 .. n - 1 : w = s.frames[j].vertex /\ x \in s.frames[j].targets
           before(w, x) == \E j \in 1 .. n : w = s.frames[j].vertex /\ x \in s.frames[j].targets
<1>1. s \in Searches /\ IndexOK(s, {}) /\ CallsOK(s) /\ StackOK(s, {}) BY DEF SearchOK
<1>2. idx \in [Ids -> Nat] /\ s.Stack \in Seq(Ids) /\ s.frames \in Seq(CallFrames) BY <1>1 DEF Searches
<1>3. n \in Nat \ {0} /\ DOMAIN s.frames = 1 .. n /\ n \in 1 .. n /\ s.frames[n].targets = {}
  BY <1>2, EmptySeq, LenProperties
<1>4. on \in SUBSET Ids BY <1>2, LenProperties, ElementOfSeq DEF ToSet
<1>5. \A k \in 1 .. n : s.frames[k].vertex \in on BY <1>1, <1>3 DEF CallsOK
<1>6. \A k \in 1 .. n - 1 : k \in 1 .. n /\ k < n BY <1>3
<1>7. \A k \in 1 .. n - 1 : s.frames[k].vertex \in on /\ idx[s.frames[k].vertex] < idx[v]
  BY <1>1, <1>3, <1>5, <1>6 DEF CallsOK
<1>8. ASSUME NEW w, NEW x, before(w, x) PROVE left(w, x)
  <2>1. \A j \in 1 .. n : j \in 1 .. n - 1 \/ j = n BY <1>3
  <2> HIDE DEF n
  <2> QED BY <1>3, <1>8, <2>1
<1>9. ASSUME NEW w \in on, idx[v] <= idx[w]
      PROVE  Reaches(g.downEdges, v, w) /\ \A x \in g.downEdges[w] : x \in Indexed(s)
  <2>1. Reaches(g.downEdges, v, w) BY <1>1, <1>3, <1>9 DEF CallsOK
  <2>2. ASSUME NEW x, left(w, x) PROVE FALSE
    <3>1. PICK j \in 1 .. n - 1 : w = s.frames[j].vertex BY <2>2
    <3>2. idx[w] < idx[v] /\ idx[w] \in Nat /\ idx[v] \in Nat BY <1>2, <1>3, <1>4, <1>5, <1>7, <3>1
    <3> QED BY <1>9, <3>2
  <2>3. \A x \in g.downEdges[w] : x \in Indexed(s) \/ before(w, x) BY <1>1, <1>3 DEF StackOK
  <2> HIDE DEF left, before
  <2> QED BY <1>8, <2>1, <2>2, <2>3
<1>10. ASSUME NEW w \in on
       PROVE  Reaches(g.downEdges, w, v) \/
                \E k \in 1 .. n - 1 : /\ idx[s.frames[k].vertex] <= idx[w]
                                      /\ Reaches(g.downEdges, w, s.frames[k].vertex)
  <2>1. PICK k \in 1 .. n : /\ idx[s.frames[k].vertex] <= idx[w]
                            /\ Reaches(g.downEdges, w, s.frames[k].vertex)
    BY <1>1, <1>3 DEF StackOK
  <2>2. k = n \/ k \in 1 .. n - 1 BY <1>3
  <2> QED BY <2>1, <2>2
<1>11. \A w \in on : \A x \in g.downEdges[w] : x \in Indexed(s) \/ before(w, x)
  BY <1>1, <1>3 DEF StackOK
<1>12. \A w, x \in on, k \in 1 .. n :
         x \in g.downEdges[w] /\ idx[s.frames[k].vertex] <= idx[w] =>
           before(w, x) \/ \E j \in 1 .. n : k <= j /\ s.frames[j].minIdx <= idx[x]
  BY <1>1, <1>3 DEF StackOK
<1>13. /\ \A w \in on : \A x \in g.downEdges[w] : x \in Indexed(s) \/ left(w, x)
       /\ \A w, x \in on, k \in 1 .. n :
            x \in g.downEdges[w] /\ idx[s.frames[k].vertex] <= idx[w] =>
              left(w, x) \/ \E j \in 1 .. n : k <= j /\ s.frames[j].minIdx <= idx[x]
  <2> HIDE DEF left, before
  <2> QED BY <1>8, <1>11, <1>12
<1> QED BY <1>2, <1>3, <1>4, <1>5, <1>7, <1>9, <1>10, <1>13

\* A call that reaches a vertex below its own on the stack pops nothing.
LEMMA ReturnKeeps ==
  ASSUME GraphInv, NEW s, SearchOK(s, {}), s.result = "searching", s.frames # <<>>,
         s.frames[Len(s.frames)].targets = {},
         s.VertexIndex[s.frames[Len(s.frames)].vertex] # s.frames[Len(s.frames)].minIdx
  PROVE  SearchOK([s EXCEPT !.frames = Callers(s.frames)], {})
<1> DEFINE n == Len(s.frames)
           idx == s.VertexIndex
           v == s.frames[n].vertex
           m == s.frames[n].minIdx
           on == ToSet(s.Stack)
           R == g.downEdges
           calls == Callers(s.frames)
           t == [s EXCEPT !.frames = calls]
           left(w, x) == \E j \in 1 .. n - 1 : w = s.frames[j].vertex /\ x \in s.frames[j].targets
<1>1. s \in Searches /\ IndexOK(s, {}) /\ CallsOK(s) /\ StackOK(s, {}) /\ PartsOK(s.SCC) BY DEF SearchOK
<1>2. s.frames \in Seq(CallFrames) BY <1>1 DEF Searches
<1>3. /\ n \in Nat \ {0} /\ DOMAIN s.frames = 1 .. n
      /\ \A k \in 1 .. n : s.frames[k].vertex \in Ids /\ s.frames[k].minIdx \in Nat
      /\ calls \in Seq(CallFrames) /\ DOMAIN calls = 1 .. n - 1
      /\ \A k \in 1 .. n - 1 :
           /\ calls[k].vertex = s.frames[k].vertex /\ calls[k].targets = s.frames[k].targets
           /\ calls[k].minIdx \in Nat /\ calls[k].minIdx <= s.frames[k].minIdx
           /\ k # n - 1 => calls[k].minIdx = s.frames[k].minIdx
           /\ k = n - 1 => calls[k].minIdx = S!Smaller(s.frames[k].minIdx, s.frames[n].minIdx)
  BY <1>2, CallersLeft
<1>4. /\ on \in SUBSET Ids /\ v \in on /\ idx \in [Ids -> Nat]
      /\ \A k \in 1 .. n - 1 : s.frames[k].vertex \in on /\ idx[s.frames[k].vertex] < idx[v]
      /\ \A w \in on : idx[v] <= idx[w] => Reaches(R, v, w)
      /\ \A w \in on : Reaches(R, w, v) \/
           \E k \in 1 .. n - 1 : idx[s.frames[k].vertex] <= idx[w] /\ Reaches(R, w, s.frames[k].vertex)
      /\ \A w \in on : \A x \in R[w] : x \in Indexed(s) \/ left(w, x)
      /\ \A w, x \in on, k \in 1 .. n :
           x \in R[w] /\ idx[s.frames[k].vertex] <= idx[w] =>
             left(w, x) \/ \E j \in 1 .. n : k <= j /\ s.frames[j].minIdx <= idx[x]
  BY LastCall
<1>5. R \in [Ids -> SUBSET Ids] BY DEF GraphInv
<1> HIDE DEF calls, t
<1>6. /\ t \in Searches /\ t.frames = calls /\ t.VertexIndex = idx /\ t.NextIndex = s.NextIndex
      /\ t.Stack = s.Stack /\ t.SCC = s.SCC /\ t.roots = s.roots /\ t.result = "searching"
  BY <1>1, <1>3 DEF Searches, t
<1>7. n \in 1 .. n /\ \A k \in 1 .. n - 1 : k \in 1 .. n /\ k < n BY <1>3
<1>8. PICK low \in on : idx[low] = m /\ Reaches(R, v, low) BY <1>1, <1>3, <1>7 DEF CallsOK
<1>9. m < idx[v] /\ m \in Nat /\ idx[v] \in Nat
  <2>1. m <= idx[v] BY <1>1, <1>3, <1>7 DEF CallsOK
  <2>2. m # idx[v] OBVIOUS
  <2> QED BY <1>3, <1>4, <1>7, <2>1, <2>2
<1>10. PICK below \in 1 .. n - 1 : /\ idx[s.frames[below].vertex] <= m
                                   /\ Reaches(R, low, s.frames[below].vertex)
  <2>1. PICK k \in 1 .. n : idx[s.frames[k].vertex] <= idx[low] /\ Reaches(R, low, s.frames[k].vertex)
    BY <1>1, <1>3 DEF StackOK
  <2>2. k # n BY <1>8, <1>9, <2>1
  <2>3. k \in 1 .. n - 1 BY <1>3, <2>2
  <2> QED BY <1>8, <2>1, <2>3
<1>11. n - 1 \in 1 .. n - 1 /\ \A k \in 1 .. n - 1 : k <= n - 1 BY <1>3, <1>10
<1>12. IndexOK(t, {}) BY <1>1, <1>6 DEF IndexOK, Indexed, Popped
<1>13. /\ calls[n - 1].minIdx = s.frames[n - 1].minIdx \/ calls[n - 1].minIdx = m
       /\ calls[n - 1].minIdx <= m /\ calls[n - 1].minIdx \in Nat
  BY <1>3, <1>7, <1>11 DEF S!Smaller
<1>14. CallsOK(t)
  <2>1. ASSUME NEW k \in 1 .. n - 1
        PROVE  \E x \in on : idx[x] = calls[k].minIdx /\ Reaches(R, calls[k].vertex, x)
    <3>1. PICK x \in on : idx[x] = s.frames[k].minIdx /\ Reaches(R, s.frames[k].vertex, x)
      BY <1>1, <1>3, <1>7 DEF CallsOK
    <3>2. CASE calls[k].minIdx = s.frames[k].minIdx BY <1>3, <3>1, <3>2
    <3>3. CASE calls[k].minIdx # s.frames[k].minIdx
      <4>1. k = n - 1 /\ calls[k].minIdx = m BY <1>3, <1>13, <3>3
      <4>2. idx[s.frames[k].vertex] <= idx[v] BY <1>3, <1>4, <1>7
      <4>3. Reaches(R, s.frames[k].vertex, v) BY <1>1, <1>3, <1>4, <1>7, <4>2 DEF CallsOK
      <4>4. Reaches(R, s.frames[k].vertex, low) BY <1>3, <1>4, <1>5, <1>7, <1>8, <4>3, ReachesOn
      <4> QED BY <1>3, <1>8, <4>1, <4>4
    <3> QED BY <3>2, <3>3
  <2>2. ASSUME NEW k \in 1 .. n - 1
        PROVE  /\ calls[k].vertex \in on /\ calls[k].targets \subseteq R[calls[k].vertex]
               /\ calls[k].minIdx <= idx[calls[k].vertex]
    <3>1. /\ s.frames[k].targets \subseteq R[s.frames[k].vertex]
          /\ s.frames[k].minIdx <= idx[s.frames[k].vertex]
      BY <1>1, <1>3, <1>7 DEF CallsOK
    <3>2. s.frames[k].minIdx \in Nat /\ idx[s.frames[k].vertex] \in Nat /\ s.frames[k].vertex \in on
      BY <1>3, <1>4, <1>7
    <3> QED BY SMTT(30), <1>3, <3>1, <3>2
  <2>3. \A j, k \in 1 .. n - 1 : j < k => idx[calls[j].vertex] < idx[calls[k].vertex]
    BY <1>1, <1>3, <1>7 DEF CallsOK
  <2>4. \A k \in 1 .. n - 1, w \in on : idx[calls[k].vertex] <= idx[w] => Reaches(R, calls[k].vertex, w)
    BY <1>1, <1>3, <1>7 DEF CallsOK
  <2> QED BY <1>3, <1>6, <2>1, <2>2, <2>3, <2>4 DEF CallsOK
<1>15. StackOK(t, {})
  <2> DEFINE leftNow(w, x) == \E j \in 1 .. n - 1 : w = calls[j].vertex /\ x \in calls[j].targets
  <2>1. \A w, x : left(w, x) => leftNow(w, x) BY <1>3
  <2>2. ASSUME NEW w \in on
        PROVE  \E k \in 1 .. n - 1 : idx[calls[k].vertex] <= idx[w] /\ Reaches(R, w, calls[k].vertex)
    <3>1. CASE \E k \in 1 .. n - 1 : /\ idx[s.frames[k].vertex] <= idx[w]
                                     /\ Reaches(R, w, s.frames[k].vertex)
      BY <1>3, <3>1
    <3>2. CASE \A k \in 1 .. n - 1 : ~(/\ idx[s.frames[k].vertex] <= idx[w]
                                       /\ Reaches(R, w, s.frames[k].vertex))
      <4>1. Reaches(R, w, v) BY <1>4, <3>2
      <4>2. idx[v] <= idx[w]
        <5>1. PICK k \in 1 .. n : idx[s.frames[k].vertex] <= idx[w] /\ Reaches(R, w, s.frames[k].vertex)
          BY <1>1, <1>3 DEF StackOK
        <5>2. k = n BY <1>3, <3>2, <5>1
        <5> QED BY <5>1, <5>2
      <4>3. idx[s.frames[below].vertex] \in Nat /\ idx[w] \in Nat BY <1>4
      <4>4. idx[s.frames[below].vertex] <= idx[w] BY <1>9, <1>10, <4>2, <4>3
      <4>5. Reaches(R, v, s.frames[below].vertex) BY <1>4, <1>5, <1>8, <1>10, ReachesOn
      <4>6. Reaches(R, w, s.frames[below].vertex) BY <1>4, <1>5, <4>1, <4>5, ReachesOn
      <4> QED BY <3>2, <4>4, <4>6
    <3> QED BY <3>1, <3>2
  <2>3. \A w \in on : \A x \in R[w] : x \in Indexed(t) \cup {} \/ leftNow(w, x)
    <3>1. Indexed(t) = Indexed(s) BY <1>6 DEF Indexed
    <3> HIDE DEF left, leftNow
    <3> QED BY <1>4, <2>1, <3>1
  <2>4. ASSUME NEW w \in on, NEW x \in on, NEW k \in 1 .. n - 1, x \in R[w],
               idx[calls[k].vertex] <= idx[w]
        PROVE  leftNow(w, x) \/ \E j \in 1 .. n - 1 : k <= j /\ calls[j].minIdx <= idx[x]
    <3>1. left(w, x) \/ \E j \in 1 .. n : k <= j /\ s.frames[j].minIdx <= idx[x]
      BY <1>3, <1>4, <1>7, <2>4
    <3>2. CASE left(w, x) BY <2>1, <3>2
    <3>3. CASE \E j \in 1 .. n : k <= j /\ s.frames[j].minIdx <= idx[x]
      <4> PICK j \in 1 .. n : k <= j /\ s.frames[j].minIdx <= idx[x] BY <3>3
      <4>1. idx[x] \in Nat /\ s.frames[j].minIdx \in Nat BY <1>3, <1>4
      <4>2. CASE j = n
        <5>1. calls[n - 1].minIdx <= idx[x] BY <1>9, <1>13, <4>1, <4>2
        <5> QED BY <1>11, <5>1
      <4>3. CASE j # n
        <5>1. j \in 1 .. n - 1 BY <1>3, <4>3
        <5>2. calls[j].minIdx <= idx[x] BY <1>3, <4>1, <5>1
        <5> QED BY <5>1, <5>2
      <4> QED BY <4>2, <4>3
    <3> QED BY <3>1, <3>2, <3>3
  <2> QED BY ZenonT(40), <1>3, <1>6, <2>2, <2>3, <2>4 DEF StackOK
<1>16. SearchOK(t, {}) 
  <2>1. t \in Searches /\ t.result # "found" /\ PartsOK(t.SCC) BY <1>1, <1>6
  <2> QED BY <1>12, <1>14, <1>15, <2>1 DEF SearchOK
<1> QED BY <1>16 DEF t, calls

\* A call that reaches no vertex below its own pops what is above it: a component.
LEMMA PopKeeps ==
  ASSUME GraphInv, NEW s, SearchOK(s, {}), s.result = "searching", s.frames # <<>>,
         s.frames[Len(s.frames)].targets = {},
         s.VertexIndex[s.frames[Len(s.frames)].vertex] = s.frames[Len(s.frames)].minIdx
  PROVE  LET v == s.frames[Len(s.frames)].vertex
         IN  SearchOK([s EXCEPT !.SCC = Append(s.SCC, S!From(s.Stack, v)),
                                !.Stack = S!Below(s.Stack, v),
                                !.frames = Callers(s.frames)], {})
<1> DEFINE n == Len(s.frames)
           idx == s.VertexIndex
           v == s.frames[n].vertex
           m == s.frames[n].minIdx
           on == ToSet(s.Stack)
           R == g.downEdges
           part == S!From(s.Stack, v)
           low == S!Below(s.Stack, v)
           all == Append(s.SCC, part)
           C == ToSet(part)
           calls == Callers(s.frames)
           t == [s EXCEPT !.SCC = all, !.Stack = low, !.frames = calls]
           left(w, x) == \E j \in 1 .. n - 1 : w = s.frames[j].vertex /\ x \in s.frames[j].targets
<1>1. s \in Searches /\ IndexOK(s, {}) /\ CallsOK(s) /\ StackOK(s, {}) /\ PartsOK(s.SCC) BY DEF SearchOK
<1>2. s.frames \in Seq(CallFrames) /\ s.Stack \in Seq(Ids) /\ s.SCC \in Seq(Seq(Ids))
  BY <1>1 DEF Searches
<1>3. /\ n \in Nat \ {0} /\ DOMAIN s.frames = 1 .. n
      /\ \A k \in 1 .. n : s.frames[k].vertex \in Ids /\ s.frames[k].minIdx \in Nat
      /\ calls \in Seq(CallFrames) /\ DOMAIN calls = 1 .. n - 1
      /\ \A k \in 1 .. n - 1 :
           /\ calls[k].vertex = s.frames[k].vertex /\ calls[k].targets = s.frames[k].targets
           /\ calls[k].minIdx \in Nat /\ calls[k].minIdx <= s.frames[k].minIdx
           /\ k # n - 1 => calls[k].minIdx = s.frames[k].minIdx
           /\ k = n - 1 => calls[k].minIdx = S!Smaller(s.frames[k].minIdx, s.frames[n].minIdx)
  BY <1>2, CallersLeft
<1>4. /\ on \in SUBSET Ids /\ v \in on /\ idx \in [Ids -> Nat]
      /\ \A k \in 1 .. n - 1 : s.frames[k].vertex \in on /\ idx[s.frames[k].vertex] < idx[v]
      /\ \A w \in on : idx[v] <= idx[w] =>
           Reaches(R, v, w) /\ \A x \in R[w] : x \in Indexed(s)
      /\ \A w \in on : Reaches(R, w, v) \/
           \E k \in 1 .. n - 1 : idx[s.frames[k].vertex] <= idx[w] /\ Reaches(R, w, s.frames[k].vertex)
      /\ \A w \in on : \A x \in R[w] : x \in Indexed(s) \/ left(w, x)
      /\ \A w, x \in on, k \in 1 .. n :
           x \in R[w] /\ idx[s.frames[k].vertex] <= idx[w] =>
             left(w, x) \/ \E j \in 1 .. n : k <= j /\ s.frames[j].minIdx <= idx[x]
  BY LastCall
<1>5. R \in [Ids -> SUBSET Ids] BY DEF GraphInv
<1>6. /\ part \in Seq(Ids) /\ low \in Seq(Ids) /\ IsInjective(part)
      /\ C = {w \in on : idx[v] <= idx[w]} /\ ToSet(low) = {w \in on : idx[w] < idx[v]}
      /\ \A i, j \in DOMAIN low : i < j => idx[low[i]] < idx[low[j]]
  <2>1. Ascends(s.Stack, idx) BY <1>1 DEF IndexOK, Ascends
  <2>2. /\ part \in Seq(Ids) /\ low \in Seq(Ids) /\ IsInjective(part)
        /\ C = {w \in on : idx[v] <= idx[w]} /\ ToSet(low) = {w \in on : idx[w] < idx[v]}
        /\ Ascends(low, idx)
    BY <1>2, <1>4, <2>1, StackIsCut, Zenon
  <2> QED BY <2>2 DEF Ascends
<1>7. n \in 1 .. n /\ \A k \in 1 .. n - 1 : k \in 1 .. n /\ k < n BY <1>3
<1>8. m = idx[v] /\ \A w \in on : idx[w] \in Nat BY <1>4
<1> HIDE DEF part, low
<1>9. \A w \in C : Reaches(R, v, w) /\ Reaches(R, w, v)
  <2> SUFFICES ASSUME NEW w \in C PROVE Reaches(R, v, w) /\ Reaches(R, w, v) OBVIOUS
  <2>1. w \in on /\ Reaches(R, v, w) BY <1>4, <1>6
  <2>2. PICK k \in 1 .. n : Reaches(R, w, s.frames[k].vertex) BY <1>1, <1>3, <2>1 DEF StackOK
  <2>3. Reaches(R, s.frames[k].vertex, v)
    <3>1. idx[s.frames[k].vertex] <= idx[v]
      <4>1. k = n \/ k \in 1 .. n - 1 BY <1>3
      <4>2. ASSUME k \in 1 .. n - 1 PROVE idx[s.frames[k].vertex] <= idx[v] BY <1>4, <1>8, <4>2
      <4>3. idx[v] <= idx[v] BY <1>4, <1>8
      <4> QED BY <4>1, <4>2, <4>3
    <3> QED BY <1>1, <1>3, <1>4, <3>1 DEF CallsOK
  <2>4. Reaches(R, w, v) BY ZenonT(40), <1>3, <1>4, <1>5, <2>1, <2>2, <2>3, ReachesOn
  <2> QED BY <2>1, <2>4
<1>10. /\ Indexed(s) = on \cup Parts(s.SCC) /\ on \cap Parts(s.SCC) = {} /\ Closed(R, Parts(s.SCC))
       /\ Parts(s.SCC) \subseteq Ids
  BY <1>1 DEF IndexOK, Popped, PartsOK, Indexed
<1>11. Closed(R, C \cup Parts(s.SCC))
  <2>1. ASSUME NEW w \in C, NEW x \in R[w] PROVE x \in C \cup Parts(s.SCC)
    <3>1. w \in on /\ idx[v] <= idx[w] BY <1>6
    <3>2. x \in on \cup Parts(s.SCC) BY <1>4, <1>10, <3>1
    <3>3. ASSUME x \in on PROVE idx[v] <= idx[x]
      <4>1. ~left(w, x) BY <1>4, <1>8, <3>1
      <4>2. \E j \in 1 .. n : n <= j /\ s.frames[j].minIdx <= idx[x]
        <5> HIDE DEF left
        <5> QED BY <1>4, <1>7, <3>1, <3>3, <4>1
      <4>3. PICK j \in 1 .. n : n <= j /\ s.frames[j].minIdx <= idx[x] BY <4>2
      <4>4. j = n BY <1>3, <4>3
      <4> QED BY <1>8, <4>3, <4>4
    <3> QED BY <1>6, <3>2, <3>3
  <2> QED BY <1>10, <2>1 DEF Closed
<1>12. C \in SUBSET Ids /\ C \subseteq on /\ C \cap Parts(s.SCC) = {} BY <1>4, <1>6, <1>10
<1> HIDE DEF C
<1>13. Reachable(R, C) \subseteq C \cup Parts(s.SCC)
  <2>1. C \cup Parts(s.SCC) \in SUBSET Ids /\ C \subseteq C \cup Parts(s.SCC) BY <1>10, <1>12
  <2> QED BY <1>11, <2>1, ReachableIsLeast
<1>14. ASSUME NEW x \in C PROVE C = Component(R, x)
  <2>1. \A w \in C : Reaches(R, x, w) /\ Reaches(R, w, x)
    <3> SUFFICES ASSUME NEW w \in C PROVE Reaches(R, x, w) /\ Reaches(R, w, x) OBVIOUS
    <3>1. v \in Ids /\ w \in Ids /\ x \in Ids BY <1>4, <1>12
    <3>2. Reaches(R, x, w) BY <1>5, <1>9, <3>1, ReachesOn
    <3>3. Reaches(R, w, x) BY <1>5, <1>9, <3>1, ReachesOn
    <3> QED BY <3>2, <3>3
  <2>2. C \subseteq Component(R, x) BY <2>1 DEF Component, Reaches
  <2>3. ASSUME NEW w \in Reachable(R, {x}), x \in Reachable(R, {w}) PROVE w \in C
    <3>1. Reachable(R, {x}) \subseteq C \cup Parts(s.SCC)
      <4>1. C \cup Parts(s.SCC) \in SUBSET Ids /\ {x} \subseteq C \cup Parts(s.SCC) BY <1>10, <1>12
      <4> QED BY <1>11, <4>1, ReachableIsLeast
    <3>2. ASSUME w \in Parts(s.SCC) PROVE FALSE
      <4>1. Parts(s.SCC) \in SUBSET Ids /\ {w} \subseteq Parts(s.SCC) BY <1>10, <3>2
      <4>2. Reachable(R, {w}) \subseteq Parts(s.SCC) BY <1>10, <4>1, ReachableIsLeast
      <4> QED BY <1>12, <2>3, <4>2
    <3> QED BY <3>1, <3>2
  <2>4. Component(R, x) \subseteq C BY <2>3 DEF Component
  <2> QED BY <2>2, <2>4
<1>15. all \in Seq(Seq(Ids)) /\ PartsOK(all) /\ Parts(all) = Parts(s.SCC) \cup C
  BY <1>1, <1>2, <1>6, <1>11, <1>12, <1>13, <1>14, PartsGrow DEF C
<1> HIDE DEF calls, t, all
<1>16. /\ t \in Searches /\ t.frames = calls /\ t.VertexIndex = idx /\ t.NextIndex = s.NextIndex
       /\ t.Stack = low /\ t.SCC = all /\ t.roots = s.roots /\ t.result = "searching"
  BY <1>1, <1>3, <1>6, <1>15 DEF Searches, t
<1>17. on = ToSet(low) \cup C /\ ToSet(low) \cap C = {} /\ ToSet(low) \subseteq on
       /\ \A w \in ToSet(low) : idx[w] < idx[v] /\ w # v
  <2>1. \A w \in on : idx[w] < idx[v] \/ idx[v] <= idx[w] BY <1>4, <1>8
  <2>2. \A w \in on : ~(idx[w] < idx[v] /\ idx[v] <= idx[w]) BY <1>4, <1>8
  <2>3. ToSet(low) \cap C = {} BY <1>6, <2>2 DEF C
  <2> QED BY <1>6, <1>8, <2>1, <2>3 DEF C
<1>18. IndexOK(t, {})
  <2>1. Indexed(t) = Indexed(s) /\ Popped(t) = Parts(s.SCC) \cup C
    BY <1>15, <1>16 DEF Indexed, Popped
  <2>2. /\ \A w \in Ids : idx[w] < t.NextIndex
        /\ \A w, x \in Indexed(t) : idx[w] = idx[x] => w = x
        /\ Indexed(t) \cup t.roots \subseteq g.vertices /\ g.vertices \subseteq t.roots \cup Indexed(t)
    BY <1>1, <1>16, <2>1 DEF IndexOK
  <2>3. Indexed(t) = ToSet(low) \cup Popped(t) /\ ToSet(low) \cap Popped(t) = {}
    BY <1>10, <1>17, <2>1
  <2> QED BY <1>6, <1>16, <2>2, <2>3 DEF IndexOK
<1>19. \A k \in 1 .. n - 1 : /\ calls[k].minIdx = s.frames[k].minIdx
                             /\ s.frames[k].minIdx <= idx[s.frames[k].vertex]
                             /\ s.frames[k].vertex \in ToSet(low) /\ idx[s.frames[k].vertex] \in Nat
  <2> SUFFICES ASSUME NEW k \in 1 .. n - 1
               PROVE  /\ calls[k].minIdx = s.frames[k].minIdx
                      /\ s.frames[k].minIdx <= idx[s.frames[k].vertex]
                      /\ s.frames[k].vertex \in ToSet(low) /\ idx[s.frames[k].vertex] \in Nat
    OBVIOUS
  <2>1. s.frames[k].minIdx <= idx[s.frames[k].vertex] BY <1>1, <1>3, <1>7 DEF CallsOK
  <2>2. s.frames[k].vertex \in ToSet(low) /\ idx[s.frames[k].vertex] \in Nat BY <1>4, <1>6, <1>8
  <2>3. idx[s.frames[k].vertex] < idx[v] /\ idx[v] \in Nat /\ s.frames[k].minIdx \in Nat
    BY <1>3, <1>4, <1>7, <1>8
  <2>4. k = n - 1 => calls[k].minIdx = s.frames[k].minIdx
    BY <1>3, <1>8, <2>1, <2>2, <2>3 DEF S!Smaller
  <2> QED BY <1>3, <2>1, <2>2, <2>4
<1>20. CallsOK(t)
  <2>1. ASSUME NEW k \in 1 .. n - 1
        PROVE  \E x \in ToSet(low) : idx[x] = calls[k].minIdx /\ Reaches(R, calls[k].vertex, x)
    <3>1. PICK x \in on : idx[x] = s.frames[k].minIdx /\ Reaches(R, s.frames[k].vertex, x)
      BY <1>1, <1>3, <1>7 DEF CallsOK
    <3>2. idx[x] < idx[v] BY SMTT(30), <1>3, <1>4, <1>7, <1>8, <1>19, <3>1
    <3> QED BY <1>3, <1>6, <1>19, <3>1, <3>2
  <2>2. ASSUME NEW k \in 1 .. n - 1
        PROVE  /\ calls[k].vertex \in ToSet(low) /\ calls[k].targets \subseteq R[calls[k].vertex]
               /\ calls[k].minIdx <= idx[calls[k].vertex]
    <3>1. s.frames[k].targets \subseteq R[s.frames[k].vertex] BY <1>1, <1>3, <1>7 DEF CallsOK
    <3> QED BY <1>3, <1>19, <3>1
  <2>3. \A j, k \in 1 .. n - 1 : j < k => idx[calls[j].vertex] < idx[calls[k].vertex]
    BY <1>1, <1>3, <1>7 DEF CallsOK
  <2>4. \A k \in 1 .. n - 1, w \in ToSet(low) :
          idx[calls[k].vertex] <= idx[w] => Reaches(R, calls[k].vertex, w)
    BY <1>1, <1>3, <1>7, <1>17 DEF CallsOK
  <2> QED BY <1>3, <1>16, <2>1, <2>2, <2>3, <2>4 DEF CallsOK
<1>21. StackOK(t, {})
  <2> DEFINE leftNow(w, x) == \E j \in 1 .. n - 1 : w = calls[j].vertex /\ x \in calls[j].targets
  <2>1. \A w, x : left(w, x) => leftNow(w, x) BY <1>3
  <2>2. ASSUME NEW w \in ToSet(low)
        PROVE  \E k \in 1 .. n - 1 : idx[calls[k].vertex] <= idx[w] /\ Reaches(R, w, calls[k].vertex)
    <3>1. PICK k \in 1 .. n : idx[s.frames[k].vertex] <= idx[w] /\ Reaches(R, w, s.frames[k].vertex)
      BY <1>1, <1>3, <1>17 DEF StackOK
    <3>2. k # n
      <4>1. idx[w] < idx[v] /\ idx[w] \in Nat /\ idx[v] \in Nat BY <1>4, <1>8, <1>17
      <4> QED BY <3>1, <4>1
    <3>3. k \in 1 .. n - 1 BY <1>3, <3>2
    <3> QED BY <1>3, <3>1, <3>3
  <2>3. \A w \in ToSet(low) : \A x \in R[w] : x \in Indexed(t) \cup {} \/ leftNow(w, x)
    <3>1. Indexed(t) = Indexed(s) BY <1>16 DEF Indexed
    <3> HIDE DEF left, leftNow
    <3> QED BY <1>4, <1>17, <2>1, <3>1
  <2>4. ASSUME NEW w \in ToSet(low), NEW x \in ToSet(low), NEW k \in 1 .. n - 1, x \in R[w],
               idx[calls[k].vertex] <= idx[w]
        PROVE  leftNow(w, x) \/ \E j \in 1 .. n - 1 : k <= j /\ calls[j].minIdx <= idx[x]
    <3>1. left(w, x) \/ \E j \in 1 .. n : k <= j /\ s.frames[j].minIdx <= idx[x]
      BY <1>3, <1>4, <1>7, <1>17, <2>4
    <3>2. CASE left(w, x) BY <2>1, <3>2
    <3>3. CASE \E j \in 1 .. n : k <= j /\ s.frames[j].minIdx <= idx[x]
      <4> PICK j \in 1 .. n : k <= j /\ s.frames[j].minIdx <= idx[x] BY <3>3
      <4>1. j # n
        <5>1. idx[x] < idx[v] /\ idx[x] \in Nat /\ idx[v] \in Nat BY <1>4, <1>8, <1>17
        <5> QED BY <1>8, <5>1
      <4>2. j \in 1 .. n - 1 BY <1>3, <4>1
      <4> QED BY <1>19, <4>2
    <3> QED BY <3>1, <3>2, <3>3
  <2> QED BY <1>3, <1>16, <2>2, <2>3, <2>4 DEF StackOK
<1>22. SearchOK(t, {})
  <2>1. t \in Searches /\ t.result # "found" /\ PartsOK(t.SCC) BY <1>15, <1>16
  <2> QED BY <1>18, <1>20, <1>21, <2>1 DEF SearchOK
<1> QED BY <1>22 DEF t, calls, all, part, low

SearchInv == scc.result # "none" => SearchOK(scc, {})

LEMMA InitSearch == ASSUME Init, GraphInv PROVE SearchInv
<1>1. CASE scc = S!NoSearch BY <1>1 DEF SearchInv, S!NoSearch
<1>2. CASE CallStronglyConnected
  <2>1. scc = [VertexIndex |-> [v \in Ids |-> 0], NextIndex |-> 1, Stack |-> <<>>, SCC |-> <<>>,
               frames |-> <<>>, roots |-> g.vertices, result |-> "searching"]
    BY <1>2 DEF CallStronglyConnected, S!NewSearch
  <2>2. scc \in Searches BY <2>1 DEF GraphInv, Searches
  <2>3. /\ scc.VertexIndex = [v \in Ids |-> 0] /\ scc.NextIndex = 1 /\ scc.Stack = <<>>
        /\ scc.SCC = <<>> /\ scc.frames = <<>> /\ scc.roots = g.vertices /\ scc.result = "searching"
    BY <2>1
  <2>4. DOMAIN scc.Stack = {} /\ DOMAIN scc.SCC = {} /\ DOMAIN scc.frames = {} BY <2>3
  <2>5. Indexed(scc) = {} /\ ToSet(scc.Stack) = {} /\ Popped(scc) = {}
    BY <2>3, <2>4 DEF Indexed, ToSet, Popped, Parts
  <2>6. IndexOK(scc, {}) BY <2>3, <2>4, <2>5 DEF IndexOK
  <2>7. CallsOK(scc) BY <2>4 DEF CallsOK
  <2>8. StackOK(scc, {}) BY <2>5 DEF StackOK
  <2>9. PartsOK(scc.SCC) BY <2>4, <2>5 DEF PartsOK, Popped, Closed
  <2> QED BY <2>2, <2>3, <2>6, <2>7, <2>8, <2>9 DEF SearchOK, SearchInv
<1> QED BY <1>1, <1>2 DEF Init, CallWalk, CallReduction, CallTopologicalOrder

LEMMA TryRootKeeps ==
  ASSUME GraphInv, SearchInv, UNCHANGED g, NEW v \in Ids, S!TryRoot(v)
  PROVE  SearchInv'
<1> DEFINE left == scc.roots \ {v}
           rest == [scc EXCEPT !.roots = left]
           U == {v} \ Indexed(scc)
<1>1. /\ SearchOK(scc, {}) /\ scc.result = "searching" /\ scc.frames = <<>> /\ v \in scc.roots
      /\ scc' = IF scc.VertexIndex[v] = 0 THEN S!Entered(rest, v) ELSE rest
  BY DEF S!TryRoot, S!Searching, SearchInv
<1>2. scc \in Searches /\ IndexOK(scc, {}) /\ CallsOK(scc) /\ StackOK(scc, {}) /\ PartsOK(scc.SCC)
  BY <1>1 DEF SearchOK
<1>3. left \in SUBSET Ids BY <1>2 DEF Searches
<1> HIDE DEF rest, left
<1>4. /\ rest \in Searches /\ rest.roots = left /\ rest.VertexIndex = scc.VertexIndex
      /\ rest.NextIndex = scc.NextIndex /\ rest.Stack = scc.Stack /\ rest.SCC = scc.SCC
      /\ rest.frames = scc.frames /\ rest.result = "searching"
  BY <1>1, <1>2, <1>3 DEF Searches, rest
<1>5. Indexed(rest) = Indexed(scc) /\ Popped(rest) = Popped(scc) BY <1>4 DEF Indexed, Popped
<1>6. IndexOK(rest, U)
  <2>1. /\ Indexed(rest) \cup rest.roots \subseteq g.vertices
        /\ g.vertices \subseteq rest.roots \cup Indexed(rest) \cup U
    BY <1>2, <1>4, <1>5 DEF IndexOK, left
  <2> QED BY <1>2, <1>4, <1>5, <2>1 DEF IndexOK
<1>7. CallsOK(rest) BY <1>2, <1>4 DEF CallsOK
<1>8. StackOK(rest, U) BY <1>2, <1>4, <1>5 DEF StackOK
<1>9. SearchOK(rest, U) BY <1>2, <1>4, <1>6, <1>7, <1>8 DEF SearchOK
<1>10. v \in g.vertices BY <1>1, <1>2 DEF IndexOK
<1>11. CASE scc.VertexIndex[v] = 0
  <2>1. U \in SUBSET {v} OBVIOUS
  <2>2. rest.VertexIndex[v] = 0 /\ rest.frames = <<>> BY <1>1, <1>4, <1>11
  <2>3. SearchOK(scc', {})
    <3> HIDE DEF U
    <3>1. SearchOK(S!Entered(rest, v), {}) BY <1>4, <1>9, <1>10, <2>1, <2>2, EnteredKeeps
    <3> QED BY <1>1, <1>11, <3>1
  <2> QED BY <2>3, SearchOKNext DEF SearchInv
<1>12. CASE scc.VertexIndex[v] # 0
  <2>1. U = {} BY <1>12 DEF Indexed
  <2>2. SearchOK(scc', {}) BY <1>1, <1>9, <1>12, <2>1
  <2> QED BY <2>2, SearchOKNext DEF SearchInv
<1> QED BY <1>11, <1>12

LEMMA LookAtKeeps ==
  ASSUME GraphInv, SearchInv, UNCHANGED g, NEW x \in Ids, S!LookAt(x)
  PROVE  SearchInv'
<1> DEFINE n == Len(scc.frames)
           m == scc.frames[n].minIdx
           U == {x} \ Indexed(scc)
           Low(k) == S!Lowered(scc, x, k)
<1>1. /\ SearchOK(scc, {}) /\ scc.result = "searching" /\ scc.frames # <<>>
      /\ S!Frame = scc.frames[n] /\ x \in scc.frames[n].targets
  BY DEF S!LookAt, S!Searching, S!Frame, S!Last, Last, SearchInv
<1>2. scc' = IF scc.VertexIndex[x] = 0 THEN S!Entered(Low(m), x)
             ELSE Low(IF x \in ToSet(scc.Stack) THEN scc.VertexIndex[x] ELSE m)
  BY <1>1 DEF S!LookAt, S!InStack, S!ToSet, ToSet
<1>3. scc \in Searches /\ IndexOK(scc, {}) BY <1>1 DEF SearchOK
<1>4. CASE scc.VertexIndex[x] = 0
  <2> DEFINE t == Low(m)
  <2>1. x \notin ToSet(scc.Stack) BY <1>3, <1>4 DEF IndexOK, Indexed
  <2>2. /\ SearchOK(t, U) /\ t.result = "searching" /\ t.VertexIndex = scc.VertexIndex
        /\ t.frames # <<>> /\ Len(t.frames) = n
        /\ t.frames[Len(t.frames)].vertex = scc.frames[n].vertex
        /\ x \in g.downEdges[scc.frames[n].vertex]
    BY <1>1, <2>1, LoweredKeeps
  <2>3. U \in SUBSET {x} OBVIOUS
  <2>4. x \in g.vertices
    <3>1. x \in g.downEdges[scc.frames[n].vertex] BY <2>2
    <3>2. scc.frames \in Seq(CallFrames) BY <1>3 DEF Searches
    <3>3. scc.frames[n].vertex \in Ids BY <1>1, <3>2, CallersLeft
    <3> QED BY <3>1, <3>3 DEF GraphInv
  <2>5. SearchOK(scc', {})
    <3>1. SearchOK(S!Entered(t, x), {})
      <4> HIDE DEF U, t
      <4> QED BY <1>4, <2>2, <2>3, <2>4, EnteredKeeps
    <3> QED BY <1>2, <1>4, <3>1
  <2> QED BY <2>5, SearchOKNext DEF SearchInv
<1>5. CASE scc.VertexIndex[x] # 0
  <2>1. U = {} BY <1>5 DEF Indexed
  <2> DEFINE k == IF x \in ToSet(scc.Stack) THEN scc.VertexIndex[x] ELSE m
  <2>2. \/ x \in ToSet(scc.Stack) /\ k = scc.VertexIndex[x]
        \/ x \notin ToSet(scc.Stack) /\ k = m
    OBVIOUS
  <2>3. SearchOK(Low(k), U)
    <3> HIDE DEF k
    <3> QED BY <1>1, <2>2, LoweredKeeps
  <2>4. SearchOK(scc', {}) BY <1>2, <1>5, <2>1, <2>3
  <2> QED BY <2>4, SearchOKNext DEF SearchInv
<1> QED BY <1>4, <1>5

LEMMA SearchReturnKeeps ==
  ASSUME GraphInv, SearchInv, UNCHANGED g, S!Return
  PROVE  SearchInv'
<1> DEFINE n == Len(scc.frames)
           v == scc.frames[n].vertex
<1>1. /\ SearchOK(scc, {}) /\ scc.result = "searching" /\ scc.frames # <<>>
      /\ S!Frame = scc.frames[n] /\ scc.frames[n].targets = {}
      /\ Last(scc.frames) = scc.frames[n]
  BY DEF S!Return, S!Searching, S!Frame, S!Last, Last, SearchInv
<1>2. scc \in Searches BY <1>1 DEF SearchOK
<1>3. CASE scc.VertexIndex[v] = scc.frames[n].minIdx
  <2> DEFINE all == Append(scc.SCC, S!From(scc.Stack, v))
             low == S!Below(scc.Stack, v)
             calls == Callers(scc.frames)
             popped == [scc EXCEPT !.SCC = all, !.Stack = low]
  <2>1. scc' = [popped EXCEPT !.frames = calls] BY <1>1, <1>3 DEF S!Return, S!Frame, Callers, S!Front, Front, S!Last, Last
  <2>2. [popped EXCEPT !.frames = calls] = [scc EXCEPT !.SCC = all, !.Stack = low, !.frames = calls]
    <3> HIDE DEF all, low, calls
    <3> QED BY <1>2 DEF Searches
  <2>3. SearchOK(scc', {}) BY <1>1, <1>3, <2>1, <2>2, PopKeeps
  <2> QED BY <2>3, SearchOKNext DEF SearchInv
<1>4. CASE scc.VertexIndex[v] # scc.frames[n].minIdx
  <2>1. scc' = [scc EXCEPT !.frames = Callers(scc.frames)]
    BY <1>1, <1>4 DEF S!Return, S!Frame, Callers, S!Front, Front, S!Last, Last
  <2>2. SearchOK(scc', {}) BY <1>1, <1>4, <2>1, ReturnKeeps
  <2> QED BY <2>2, SearchOKNext DEF SearchInv
<1> QED BY <1>3, <1>4

LEMMA SearchFinishKeeps ==
  ASSUME GraphInv, SearchInv, UNCHANGED g, S!Finish
  PROVE  SearchInv'
<1>1. /\ SearchOK(scc, {}) /\ scc.result = "searching" /\ scc.frames = <<>> /\ scc.roots = {}
      /\ scc' = [scc EXCEPT !.result = "found"]
  BY DEF S!Finish, S!Searching, SearchInv
<1>2. scc \in Searches /\ IndexOK(scc, {}) /\ CallsOK(scc) /\ StackOK(scc, {}) /\ PartsOK(scc.SCC)
  BY <1>1 DEF SearchOK
<1> DEFINE t == scc'
<1>3. /\ t \in Searches /\ t.roots = scc.roots /\ t.VertexIndex = scc.VertexIndex
      /\ t.NextIndex = scc.NextIndex /\ t.Stack = scc.Stack /\ t.SCC = scc.SCC
      /\ t.frames = scc.frames
  BY <1>1, <1>2 DEF Searches
<1> HIDE DEF t
<1>4. Indexed(t) = Indexed(scc) /\ Popped(t) = Popped(scc) BY <1>3 DEF Indexed, Popped
<1>5. IndexOK(t, {}) BY <1>2, <1>3, <1>4 DEF IndexOK
<1>6. CallsOK(t) BY <1>2, <1>3 DEF CallsOK
<1>7. StackOK(t, {}) BY <1>2, <1>3, <1>4 DEF StackOK
<1>8. g.vertices = Popped(t)
  <2>1. ToSet(scc.Stack) = {} BY <1>1, <1>2 DEF StackOK
  <2>2. Indexed(scc) = Popped(scc) /\ Indexed(scc) \subseteq g.vertices /\ g.vertices \subseteq Indexed(scc)
    BY <1>1, <1>2, <2>1 DEF IndexOK
  <2> QED BY <1>4, <2>2
<1>9. SearchOK(t, {}) BY <1>2, <1>3, <1>5, <1>6, <1>7, <1>8 DEF SearchOK
<1> QED BY <1>9, SearchOKNext DEF SearchInv, t

LEMMA SearchStepKeeps ==
  ASSUME GraphInv, SearchInv, S!Step
  PROVE  SearchInv'
BY TryRootKeeps, LookAtKeeps, SearchReturnKeeps, SearchFinishKeeps DEF S!Step

LEMMA SearchIsExact ==
  ASSUME SearchInv
  PROVE  ComponentsAreExact
<1> SUFFICES ASSUME scc.result # "none" PROVE ComponentsAreExact
  BY DEF ComponentsAreExact, S!ComponentsAreExact
<1>1. scc \in Searches /\ PartsOK(scc.SCC) /\ (scc.result = "found" => g.vertices = Parts(scc.SCC))
  BY DEF SearchInv, SearchOK, Popped
<1>2. Parts(scc.SCC) = UNION {ToSet(c) : c \in ToSet(scc.SCC)} BY DEF Parts, ToSet
<1>3. \A r, x : S!Component(r, x) = Component(r, x) /\ S!Reachable(r, x) = Reachable(r, x)
  BY DEF S!Component, Component, S!Reachable, Reachable, S!Closed, Closed
<1>4. \A c : S!ToSet(c) = ToSet(c) /\ S!IsInjective(c) = IsInjective(c)
  BY DEF S!ToSet, ToSet, S!IsInjective, IsInjective
<1>5. /\ \A i \in DOMAIN scc.SCC :
           /\ S!IsInjective(scc.SCC[i])
           /\ \A v \in S!ToSet(scc.SCC[i]) : S!ToSet(scc.SCC[i]) = S!Component(g.downEdges, v)
           /\ S!Reachable(g.downEdges, S!ToSet(scc.SCC[i])) \subseteq
                UNION {S!ToSet(scc.SCC[j]) : j \in 1 .. i}
      /\ \A i, j \in DOMAIN scc.SCC : i # j => S!ToSet(scc.SCC[i]) \cap S!ToSet(scc.SCC[j]) = {}
  BY <1>1, <1>3, <1>4 DEF PartsOK
<1>6. scc.result = "found" => g.vertices = UNION {S!ToSet(c) : c \in S!ToSet(scc.SCC)}
  BY <1>1, <1>2, <1>4
<1> QED BY <1>5, <1>6, Zenon DEF ComponentsAreExact, S!ComponentsAreExact

-----------------------------------------------------------------------------
(* Validate.                                                               *)

\* The set of edges joins the pairs the rows link.
EdgesInv ==
  /\ \A e \in g.edges : e.source \in Ids /\ e.target \in g.downEdges[e.source]
  /\ \A v \in Ids : \A w \in g.downEdges[v] : \E e \in g.edges : e.source = v /\ e.target = w

LEMMA InitEdges == Init => EdgesInv
<1> SUFFICES ASSUME NEW vertices \in VertexSets, NEW pairs \in SUBSET (vertices \X vertices),
                    g = Built(vertices, pairs)
             PROVE  EdgesInv
  BY DEF Init, kSubset
<1> DEFINE edge(p) == [source |-> p[1], target |-> p[2], tag |-> CHOOSE tag \in Tags : TRUE]
<1>1. /\ g.edges = {edge(p) : p \in pairs}
      /\ g.downEdges = [v \in Ids |-> {w \in Ids : <<v, w>> \in pairs}]
  BY DEF Built
<1>2. \A p : edge(p).source = p[1] /\ edge(p).target = p[2] OBVIOUS
<1>3. \A p \in pairs : p[1] \in Ids /\ p[2] \in Ids /\ p = <<p[1], p[2]>> OBVIOUS
<1> HIDE DEF edge
<1>4. ASSUME NEW e \in g.edges PROVE e.source \in Ids /\ e.target \in g.downEdges[e.source]
  <2> PICK p \in pairs : e = edge(p) BY <1>1
  <2> QED BY <1>1, <1>2, <1>3
<1>5. ASSUME NEW v \in Ids, NEW w \in g.downEdges[v]
      PROVE  \E e \in g.edges : e.source = v /\ e.target = w
  <2>1. <<v, w>> \in pairs BY <1>1
  <2>2. edge(<<v, w>>) \in g.edges BY <1>1, <2>1
  <2>3. edge(<<v, w>>).source = v /\ edge(<<v, w>>).target = w BY <1>2
  <2> QED BY <2>2, <2>3
<1> QED BY <1>4, <1>5 DEF EdgesInv

\* A graph has no cycle when no edge joins a vertex to itself and no component
\* holds two vertices,
LEMMA ValidIsAcyclic ==
  ASSUME GraphInv, EdgesInv, SearchInv, scc.result = "found", Cycles = {},
         \A e \in g.edges : e.source # e.target
  PROVE  Acyclic(g.downEdges)
<1> DEFINE R == g.downEdges
<1> SUFFICES ASSUME NEW v \in Ids, v \in Reachable(R, R[v]) PROVE FALSE BY DEF Acyclic
<1>1. R \in [Ids -> SUBSET Ids] BY DEF GraphInv
<1>2. /\ scc.SCC \in Seq(Seq(Ids)) /\ g.vertices = Parts(scc.SCC)
      /\ \A i \in DOMAIN scc.SCC : \A x \in ToSet(scc.SCC[i]) : ToSet(scc.SCC[i]) = Component(R, x)
  BY DEF SearchInv, SearchOK, Searches, Popped, PartsOK
<1>3. PICK w \in R[v] : Reaches(R, w, v) BY <1>1, ReachableFromOne
<1>4. w \in Ids /\ Reaches(R, v, w) /\ v \in g.vertices BY <1>1, <1>3, ReachesRow DEF GraphInv
<1>5. w # v
  <2>1. PICK e \in g.edges : e.source = v /\ e.target = w BY <1>3 DEF EdgesInv
  <2> QED BY <2>1
<1>6. PICK i \in DOMAIN scc.SCC : v \in ToSet(scc.SCC[i]) BY <1>2, <1>4 DEF Parts
<1>7. w \in ToSet(scc.SCC[i]) BY <1>2, <1>3, <1>4, <1>6 DEF Component, Reaches
<1> DEFINE c == scc.SCC[i]
<1>8. c \in Seq(Ids) /\ c \in ToSet(scc.SCC)
  <2>1. DOMAIN scc.SCC = 1 .. Len(scc.SCC) BY <1>2, LenProperties
  <2> QED BY <1>2, <1>6, <2>1, ElementOfSeq DEF ToSet
<1>9. Len(c) > 1
  <2>1. Len(c) \in Nat /\ DOMAIN c = 1 .. Len(c) BY <1>8, LenProperties
  <2>2. PICK a \in 1 .. Len(c), b \in 1 .. Len(c) : c[a] = v /\ c[b] = w BY <1>6, <1>7, <2>1 DEF ToSet
  <2>3. a # b BY <1>5, <2>2
  <2> QED BY <2>1, <2>3
<1> QED BY <1>8, <1>9 DEF Cycles

\* and only then.
LEMMA AcyclicIsValid ==
  ASSUME GraphInv, EdgesInv, SearchInv, Acyclic(g.downEdges)
  PROVE  /\ \A e \in g.edges : e.source # e.target
         /\ scc.result # "none" => Cycles = {}
<1> DEFINE R == g.downEdges
<1>1. R \in [Ids -> SUBSET Ids] BY DEF GraphInv
<1>2. ASSUME NEW e \in g.edges, e.source = e.target PROVE FALSE
  <2>1. e.source \in Ids /\ e.source \in R[e.source] BY <1>2 DEF EdgesInv
  <2>2. e.source \in Reachable(R, R[e.source]) BY <1>1, <2>1, ReachableIsClosed
  <2> QED BY <2>1, <2>2 DEF Acyclic
<1>3. ASSUME scc.result # "none", NEW c \in ToSet(scc.SCC), Len(c) > 1 PROVE FALSE
  <2>1. /\ scc.SCC \in Seq(Seq(Ids))
        /\ \A i \in DOMAIN scc.SCC :
             /\ IsInjective(scc.SCC[i])
             /\ \A x \in ToSet(scc.SCC[i]) : ToSet(scc.SCC[i]) = Component(R, x)
    BY <1>3 DEF SearchInv, SearchOK, Searches, PartsOK
  <2>2. PICK i \in DOMAIN scc.SCC : c = scc.SCC[i] BY DEF ToSet
  <2>3. c \in Seq(Ids) BY <2>1, <2>2, LenProperties, ElementOfSeq
  <2>4. Len(c) \in Nat /\ DOMAIN c = 1 .. Len(c) /\ 1 \in DOMAIN c /\ 2 \in DOMAIN c
    BY <1>3, <2>3, LenProperties
  <2> DEFINE x == c[1]
             y == c[2]
  <2>5. x \in ToSet(c) /\ y \in ToSet(c) /\ x # y /\ x \in Ids /\ y \in Ids
    <3>1. IsInjective(c) BY <2>1, <2>2
    <3>2. x # y BY <2>4, <3>1 DEF IsInjective
    <3>3. x \in ToSet(c) /\ y \in ToSet(c) BY <2>4 DEF ToSet
    <3>4. x \in Ids /\ y \in Ids BY <2>3, <2>4, ElementOfSeq
    <3> QED BY <3>2, <3>3, <3>4
  <2> HIDE DEF x, y
  <2>6. y \in Component(R, x) BY <2>1, <2>2, <2>5
  <2>7. y \in Reachable(R, {x}) /\ x \in Reachable(R, {y}) BY <2>5, <2>6 DEF Component
  <2>8. y \in Reachable(R, R[x]) BY <1>1, <2>5, <2>7, ReachableOfRow
  <2>9. R[x] \in SUBSET Ids /\ {y} \in SUBSET Reachable(R, R[x]) BY <1>1, <2>5, <2>8
  <2>10. x \in Reachable(R, R[x]) BY <1>1, <2>7, <2>9, ReachableAgain
  <2> QED BY <2>5, <2>10 DEF Acyclic
<1> QED BY <1>2, <1>3 DEF Cycles

\* A graph has no cycle when among any vertices one waits for none of them.
LEMMA AcyclicIsRunnable ==
  ASSUME GraphInv
  PROVE  Acyclic(g.downEdges) <=>
           \A U \in SUBSET g.vertices : U # {} => \E v \in U : g.upEdges[v] \cap U = {}
<1> DEFINE R == g.downEdges
<1>1. R \in [Ids -> SUBSET Ids] /\ g.upEdges \in [Ids -> SUBSET Ids] /\ g.vertices \subseteq Ids
  BY DEF GraphInv
<1>2. ASSUME Acyclic(R), NEW U \in SUBSET g.vertices, U # {}
      PROVE  \E v \in U : g.upEdges[v] \cap U = {}
  <2>1. PICK v \in U : \A p \in U : v \notin R[p] BY <1>1, <1>2, AcyclicHasSources
  <2>2. g.upEdges[v] \cap U = {} BY <1>1, <2>1 DEF GraphInv
  <2> QED BY <2>2
<1>3. ASSUME \A U \in SUBSET g.vertices : U # {} => \E v \in U : g.upEdges[v] \cap U = {}
      PROVE  Acyclic(R)
  <2>1. ASSUME NEW U \in SUBSET Ids, U # {} PROVE \E v \in U : \A p \in U : v \notin R[p]
    <3>1. CASE U \subseteq g.vertices
      <4>1. PICK v \in U : g.upEdges[v] \cap U = {} BY <1>3, <2>1, <3>1
      <4>2. \A p \in U : v \notin R[p] BY <4>1 DEF GraphInv
      <4> QED BY <4>2
    <3>2. CASE ~(U \subseteq g.vertices)
      <4>1. PICK v \in U : v \notin g.vertices BY <3>2
      <4>2. \A p \in U : v \notin R[p] BY <4>1 DEF GraphInv
      <4> QED BY <4>2
    <3> QED BY <3>1, <3>2
  <2> QED BY <1>1, <2>1, SourcesMeanAcyclic
<1> QED BY <1>2, <1>3

LEMMA ValidationIsExact ==
  ASSUME GraphInv, EdgesInv, SearchInv
  PROVE  ValidateIsExact
<1> SUFFICES ASSUME scc.result = "found" PROVE ValidateIsExact BY DEF ValidateIsExact
<1> DEFINE R == g.downEdges
           OneRoot == \E r \in g.vertices : Reachable(R, {r}) = g.vertices
           Runnable == \A U \in SUBSET g.vertices : U # {} => \E v \in U : g.upEdges[v] \cap U = {}
<1>1. /\ R \in [Ids -> SUBSET Ids] /\ g.vertices \in SUBSET Ids
      /\ \A v, w \in Ids : w \in R[v] => v \in g.vertices /\ w \in g.vertices
  BY DEF GraphInv
<1>2. Acyclic(R) <=> Cycles = {} /\ \A e \in g.edges : e.source # e.target
  BY ValidIsAcyclic, AcyclicIsValid
<1>3. Acyclic(R) <=> Runnable BY AcyclicIsRunnable
<1>4. Roots = RootsOf(R, g.vertices) BY DEF GraphInv, Roots, RootsOf
<1>5. Cardinality(Roots) = 1 <=> \E r : Roots = {r}
  <2>1. IsFiniteSet(Roots) BY <1>1, FS_Subset DEF Roots
  <2> QED BY <2>1, FS_Singleton, Zenon
<1>6. ASSUME Acyclic(R) PROVE Cardinality(Roots) = 1 <=> OneRoot
  <2>1. ASSUME NEW r, Roots = {r} PROVE OneRoot
    <3>1. r \in g.vertices /\ Reachable(R, {r}) = g.vertices
      BY <1>1, <1>4, <1>6, <2>1, RootReachesAll
    <3> QED BY <3>1
  <2>2. ASSUME NEW r \in g.vertices, Reachable(R, {r}) = g.vertices PROVE Roots = {r}
    BY <1>1, <1>4, <1>6, <2>2, AllReachedFromRoot
  <2> HIDE DEF R
  <2> QED BY <1>5, <2>1, <2>2
<1> HIDE DEF R
<1> QED BY <1>2, <1>3, <1>6 DEF ValidateIsExact, Valid, R

-----------------------------------------------------------------------------
(* The reductions.                                                         *)

\* The graph without the edges from u to the vertices of a set: what the callback
\* of a reduction makes by removing one edge after the other.
Cut(G, u, set) ==
  [vertices |-> G.vertices,
   edges |-> {e \in G.edges : \A t \in set : DG!EdgeId(e) # DG!JoinedId(u, t)},
   downEdges |-> [v \in Ids |-> IF v = u THEN G.downEdges[v] \ set ELSE G.downEdges[v]],
   upEdges |-> [v \in Ids |-> IF v \in set THEN G.upEdges[v] \ {u} ELSE G.upEdges[v]]]

IsGraph(G) ==
  \E vertices, edges, down, up :
    /\ down \in [Ids -> SUBSET Ids] /\ up \in [Ids -> SUBSET Ids]
    /\ G = [vertices |-> vertices, edges |-> edges, downEdges |-> down, upEdges |-> up]

LEMMA CutNothing ==
  ASSUME NEW G, IsGraph(G), NEW u \in Ids
  PROVE  Cut(G, u, {}) = G
<1> PICK vertices, edges, down, up :
      /\ down \in [Ids -> SUBSET Ids] /\ up \in [Ids -> SUBSET Ids]
      /\ G = [vertices |-> vertices, edges |-> edges, downEdges |-> down, upEdges |-> up]
  BY DEF IsGraph
<1>1. {e \in edges : \A t \in {} : DG!EdgeId(e) # DG!JoinedId(u, t)} = edges OBVIOUS
<1>2. [v \in Ids |-> IF v = u THEN down[v] \ {} ELSE down[v]] = down OBVIOUS
<1>3. [v \in Ids |-> IF v \in {} THEN up[v] \ {u} ELSE up[v]] = up OBVIOUS
<1> QED BY <1>1, <1>2, <1>3 DEF Cut

LEMMA CutOneMore ==
  ASSUME NEW G, IsGraph(G), NEW u \in Ids, NEW set \in SUBSET Ids, NEW t \in set
  PROVE  DG!Disconnected(Cut(G, u, set \ {t}), u, t) = Cut(G, u, set)
<1> DEFINE edges == {e \in G.edges : \A x \in set \ {t} : DG!EdgeId(e) # DG!JoinedId(u, x)}
           down == [v \in Ids |-> IF v = u THEN G.downEdges[v] \ (set \ {t}) ELSE G.downEdges[v]]
           up == [v \in Ids |-> IF v \in set \ {t} THEN G.upEdges[v] \ {u} ELSE G.upEdges[v]]
<1>1. DG!WithoutEdge(edges, u, t) = {e \in G.edges : \A x \in set : DG!EdgeId(e) # DG!JoinedId(u, x)}
  BY DEF DG!WithoutEdge
<1>2. [down EXCEPT ![u] = down[u] \ {t}]
        = [v \in Ids |-> IF v = u THEN G.downEdges[v] \ set ELSE G.downEdges[v]]
  OBVIOUS
<1>3. [up EXCEPT ![t] = up[t] \ {u}]
        = [v \in Ids |-> IF v \in set THEN G.upEdges[v] \ {u} ELSE G.upEdges[v]]
  OBVIOUS
<1>4. Cut(G, u, set \ {t})
        = [vertices |-> G.vertices, edges |-> edges, downEdges |-> down, upEdges |-> up]
  BY DEF Cut
<1>5. DG!Disconnected(Cut(G, u, set \ {t}), u, t)
        = [vertices |-> G.vertices, edges |-> DG!WithoutEdge(edges, u, t),
           downEdges |-> [down EXCEPT ![u] = down[u] \ {t}],
           upEdges |-> [up EXCEPT ![t] = up[t] \ {u}]]
  <2> DEFINE vertices == G.vertices
             H == Cut(G, u, set \ {t})
  <2>1. H = [vertices |-> vertices, edges |-> edges, downEdges |-> down, upEdges |-> up] BY <1>4
  <2> HIDE DEF vertices, edges, down, up, H
  <2>2. DG!Disconnected(H, u, t)
          = [vertices |-> vertices, edges |-> DG!WithoutEdge(edges, u, t),
             downEdges |-> [down EXCEPT ![u] = down[u] \ {t}],
             upEdges |-> [up EXCEPT ![t] = up[t] \ {u}]]
    <3>1. H.edges = edges /\ H.downEdges = down /\ H.upEdges = up BY <2>1
    <3>2. DG!Disconnected(H, u, t) = [H EXCEPT !.edges = DG!WithoutEdge(H.edges, u, t),
                                               !.downEdges = [H.downEdges EXCEPT ![u] = H.downEdges[u] \ {t}],
                                               !.upEdges = [H.upEdges EXCEPT ![t] = H.upEdges[t] \ {u}]]
      BY Zenon DEF DG!Disconnected
    <3> QED BY <2>1, <3>1, <3>2
  <2> QED BY <2>2 DEF vertices, H
<1> HIDE DEF edges, down, up
<1> QED BY <1>1, <1>2, <1>3, <1>5 DEF Cut

LEMMA PruneCuts ==
  ASSUME IsGraph(g), NEW u \in Ids, Prune(u)
  PROVE  g' = Cut(g, u, Shared(u, Current.vertex))
<1> DEFINE set == Shared(u, Current.vertex)
<1>0. set \in SUBSET Ids BY DEF IsGraph, Shared
<1> HIDE DEF set
<1> DEFINE step(s, f) == IF s = {} THEN g
                         ELSE DG!Disconnected(f[s \ {CHOOSE x \in s : TRUE}], u, CHOOSE x \in s : TRUE)
           IsFold(f) == f = [s \in SUBSET set |-> step(s, f)]
           h == [s \in SUBSET set |-> Cut(g, u, s)]
           iter == CHOOSE f : IsFold(f)
<1>1. IsFold(h)
  <2>1. ASSUME NEW s \in SUBSET set PROVE Cut(g, u, s) = step(s, h)
    <3>1. CASE s = {} BY <3>1, <1>0, CutNothing
    <3>2. CASE s # {}
      <4> DEFINE t == CHOOSE x \in s : TRUE
      <4>1. t \in s BY <3>2
      <4> HIDE DEF t
      <4>2. h[s \ {t}] = Cut(g, u, s \ {t}) BY <4>1
      <4>3. DG!Disconnected(h[s \ {t}], u, t) = Cut(g, u, s) BY <4>1, <4>2, <1>0, CutOneMore
      <4> HIDE DEF h
      <4> QED BY <4>3, <3>2 DEF t
    <3> QED BY <3>1, <3>2
  <2> HIDE DEF step
  <2> QED BY <2>1
<1>2. IsFold(iter) BY <1>1
<1>3. iter[set] = Cut(g, u, set)
  <2> HIDE DEF iter
  <2> DEFINE F == {s \in SUBSET set : iter[s] # Cut(g, u, s)}
  <2>1. CASE F = {} BY <2>1
  <2>2. CASE F # {}
    <3>1. IsFiniteSet(set) /\ F \in SUBSET SUBSET set BY <1>0, FS_Subset
    <3>2. PICK s \in F : \A r \in F : r \subseteq s => r = s
      <4> HIDE DEF F
      <4> QED BY <2>2, <3>1, SmallestSet
    <3>3. iter[s] = step(s, iter) BY <1>2
    <3>4. CASE s = {} BY <3>3, <3>4, <1>0, CutNothing
    <3>5. CASE s # {}
      <4> DEFINE t == CHOOSE x \in s : TRUE
      <4>1. t \in s BY <3>5
      <4>2. iter[s] = DG!Disconnected(iter[s \ {t}], u, t) BY <3>3, <3>5
      <4> HIDE DEF t
      <4>3. iter[s \ {t}] = Cut(g, u, s \ {t}) BY <4>1, <3>2
      <4>4. iter[s] = Cut(g, u, s) BY <4>1, <4>2, <4>3, <1>0, CutOneMore
      <4> QED BY <4>4
    <3> QED BY <3>4, <3>5
  <2> QED BY <2>1, <2>2
<1>4. g' = iter[set]
  BY DEF Prune, FoldSet, MapThenFoldSet, set
<1> QED BY <1>3, <1>4 DEF set

\* A reduction that was called.
ReductionOK(r) ==
  \E vs, u, before, result : /\ result # "none"
                             /\ r = [vertices |-> vs, u |-> u, before |-> before, result |-> result]

\* The rows without the one of u: what the walk for u found, it found without u.
Spared(u) == [v \in Ids |-> IF v = u THEN {} ELSE g.downEdges[v]]

WalkSpares(u) ==
  /\ walk.order = "downOrder" /\ walk.result = "walking"
  /\ Found \subseteq Reachable(Spared(u), walk.start)

\* What is left of the rows, and of the vertices to come.
ReductionTyped ==
  /\ IsGraph(g) /\ ReductionOK(reduction)
  /\ reduction.before.downEdges \in [Ids -> SUBSET Ids]
  /\ \A v \in Ids : g.downEdges[v] \subseteq reduction.before.downEdges[v]
  /\ reduction.u = {} \/ \E u \in Ids : reduction.u = {u}
  /\ \A u \in Ids : reduction.u = {u} => WalkSpares(u)
  /\ reduction.result = "reduced" => reduction.u = {} /\ reduction.vertices = {}

\* No target of u is reached from another one.
Needed(u) ==
  \A t \in g.downEdges[u] : t \notin Reachable(g.downEdges, g.downEdges[u] \ {t})

\* The walk for u: it found what u still has an edge to, and u has no edge to a
\* target of a vertex that was visited.
WalkPrunes(u) ==
  /\ g.downEdges[u] \subseteq Found
  /\ Found \subseteq Reachable(reduction.before.downEdges, reduction.before.downEdges[u])
  /\ \A v \in VerticesOf(walk.visited) : g.downEdges[u] \cap g.downEdges[v] = {}

\* On a graph without cycles.
ReductionKept ==
  /\ \A v \in Ids : Reachable(g.downEdges, {v}) = Reachable(reduction.before.downEdges, {v})
  /\ \A v \in Ids : v \in reduction.vertices \/ v \in reduction.u \/ Needed(v)
  /\ \A u \in Ids : reduction.u = {u} => WalkPrunes(u)

ReductionInv ==
  reduction.result # "none" =>
    ReductionTyped /\ (Acyclic(reduction.before.downEdges) => ReductionKept)

\* A vertex keeps being needed when only edges of others are removed.
LEMMA NeededStays ==
  ASSUME IsGraph(g), IsGraph(g'), \A v \in Ids : g'.downEdges[v] \subseteq g.downEdges[v],
         NEW u \in Ids, g'.downEdges[u] = g.downEdges[u], Needed(u)
  PROVE  Needed(u)'
<1>1. g.downEdges \in [Ids -> SUBSET Ids] /\ g'.downEdges \in [Ids -> SUBSET Ids] BY DEF IsGraph
<1> SUFFICES ASSUME NEW t \in g.downEdges[u]
             PROVE  t \notin Reachable(g'.downEdges, g'.downEdges[u] \ {t})
  BY DEF Needed
<1>2. Reachable(g'.downEdges, g'.downEdges[u] \ {t}) \subseteq Reachable(g.downEdges, g.downEdges[u] \ {t})
  <2>1. g'.downEdges[u] \ {t} \in SUBSET Ids /\ g.downEdges[u] \ {t} \in SUBSET Ids
        /\ g'.downEdges[u] \ {t} \subseteq g.downEdges[u] \ {t}
    BY <1>1
  <2> QED BY <1>1, <2>1, FewerEdgesReachLess
<1> QED BY <1>2 DEF Needed

LEMMA VerticesOfType ==
  ASSUME NEW s \in Seq(Entries)
  PROVE  VerticesOf(s) \in SUBSET Ids
<1>1. DOMAIN s = 1 .. Len(s) /\ \A i \in 1 .. Len(s) : s[i] \in Entries
  BY LenProperties, ElementOfSeq
<1> QED BY <1>1 DEF VerticesOf, Entries

\* At the end of the walk for u every edge of u is needed: what its targets reach
\* was visited, and no target of u is a target of those.
LEMMA WalkLeavesNeeded ==
  ASSUME IsGraph(g), WalkInv, NEW u \in Ids, WalkSpares(u), WalkPrunes(u), walk.frontier = <<>>
  PROVE  Needed(u)
<1> DEFINE rows == g.downEdges
           seen == VerticesOf(walk.visited)
<1>1. rows \in [Ids -> SUBSET Ids] BY DEF IsGraph
<1>2. Found = seen BY DEF Found, VerticesOf
<1>3. seen \in SUBSET Ids BY VerticesOfType DEF WalkSpares, WalkInv, WalkType
<1>4. /\ rows[u] \subseteq seen /\ Closed(rows, seen)
      /\ \A v \in seen : rows[u] \cap rows[v] = {}
  BY <1>2 DEF WalkPrunes, WalkSpares, WalkInv, Rows, Closed
<1> HIDE DEF seen
<1> SUFFICES ASSUME NEW t \in rows[u], t \in Reachable(rows, rows[u] \ {t}) PROVE FALSE BY DEF Needed
<1>5. t \in Ids /\ rows[u] \ {t} \in SUBSET Ids BY <1>1
<1> HIDE DEF rows
<1>6. PICK s \in rows[u] \ {t} : Reaches(rows, s, t) BY <1>1, <1>5, ReachableFromOne
<1>7. PICK p \in Ids : Reaches(rows, s, p) /\ t \in rows[p] BY <1>1, <1>5, <1>6, ReachedThroughRow
<1>8. Reachable(rows, {s}) \subseteq seen BY <1>3, <1>4, <1>6, ReachableIsLeast
<1>9. p \in seen BY <1>7, <1>8 DEF Reaches
<1> QED BY <1>4, <1>7, <1>9

LEMMA InitReduction == Init => ReductionInv
<1> SUFFICES ASSUME Init, reduction.result # "none" PROVE ReductionInv BY DEF ReductionInv
<1>1. GraphInv BY InitGraph
<1>2. reduction = NewReduction
  BY DEF Init, CallWalk, CallReduction, CallStronglyConnected, CallTopologicalOrder, NoReduction
<1>3. /\ reduction.vertices = g.vertices /\ reduction.u = {} /\ reduction.before = g
      /\ reduction.result = "reducing"
  BY <1>2 DEF NewReduction
<1>4. IsGraph(g)
  <2> PICK vertices, pairs : g = Built(vertices, pairs) BY DEF Init
  <2>1. /\ [v \in Ids |-> {w \in Ids : <<v, w>> \in pairs}] \in [Ids -> SUBSET Ids]
        /\ [v \in Ids |-> {w \in Ids : <<w, v>> \in pairs}] \in [Ids -> SUBSET Ids]
    OBVIOUS
  <2> QED BY <2>1, Zenon DEF Built, IsGraph
<1>5. ReductionOK(reduction) BY <1>2 DEF NewReduction, ReductionOK
<1>6. ReductionTyped BY <1>1, <1>3, <1>4, <1>5 DEF ReductionTyped, GraphInv
<1>7. ReductionKept
  <2>1. ASSUME NEW v \in Ids, v \notin g.vertices PROVE Needed(v)
    <3>1. g.downEdges[v] = {} BY <1>1, <2>1 DEF GraphInv
    <3> QED BY <3>1 DEF Needed
  <2> QED BY <1>3, <2>1 DEF ReductionKept
<1> QED BY <1>6, <1>7 DEF ReductionInv

LEMMA ReductionStaysOK ==
  ASSUME NEW vs, NEW u, NEW before, NEW result, result # "none",
         NEW r, r = [vertices |-> vs, u |-> u, before |-> before, result |-> result]
  PROVE  ReductionOK(r) /\ r.result # "none"
BY DEF ReductionOK

\* The fields of the reduction, at hand as a record.
LEMMA ReductionFields ==
  ASSUME ReductionOK(reduction)
  PROVE  /\ reduction = [vertices |-> reduction.vertices, u |-> reduction.u,
                         before |-> reduction.before, result |-> reduction.result]
         /\ reduction.result # "none"
BY DEF ReductionOK

LEMMA NextVertexKeeps ==
  ASSUME GraphInv, ReductionInv, NEW u \in Ids, NextVertex(u)
  PROVE  GraphInv' /\ WalkInv' /\ ReductionInv' /\ reduction'.result # "none"
<1> DEFINE rows == g.downEdges
           before == reduction.before.downEdges
<1>1. /\ reduction.result = "reducing" /\ reduction.u = {} /\ u \in reduction.vertices /\ g' = g
      /\ walk' \in Calls("depthFirst", "downOrder", rows[u])
  BY DEF NextVertex, Reducing
<1>2. ReductionTyped /\ ReductionOK(reduction) BY <1>1 DEF ReductionInv, ReductionTyped
<1>3. reduction' = [vertices |-> reduction.vertices \ {u}, u |-> {u},
                    before |-> reduction.before, result |-> reduction.result]
  <2>1. reduction' = [reduction EXCEPT !.vertices = reduction.vertices \ {u}, !.u = {u}]
    BY DEF NextVertex
  <2> QED BY <1>2, <2>1, ReductionFields
<1>4. /\ reduction'.vertices = reduction.vertices \ {u} /\ reduction'.u = {u}
      /\ reduction'.before = reduction.before /\ reduction'.result = "reducing"
  BY <1>1, <1>3
<1>5. /\ rows \in [Ids -> SUBSET Ids] /\ before \in [Ids -> SUBSET Ids]
      /\ rows[u] \in SUBSET Ids /\ before[u] \in SUBSET Ids /\ rows[u] \subseteq before[u]
  BY <1>2 DEF GraphInv, ReductionTyped
<1> PICK f \in AtDepth(0, rows[u]) :
      walk' = [kind |-> "depthFirst", order |-> "downOrder", start |-> rows[u],
               frontier |-> f, visited |-> <<>>, result |-> "walking"]
  BY <1>1 DEF Calls
<1>6. f \in Seq(Entries) /\ VerticesOf(f) = rows[u] BY <1>5, AtDepthIsWhole
<1>7. VerticesOf(<<>>) = {} /\ <<>> \in Seq(Entries) BY DEF VerticesOf
<1>8. /\ walk'.order = "downOrder" /\ walk'.start = rows[u] /\ walk'.frontier = f
      /\ walk'.visited = <<>> /\ walk'.result = "walking"
  OBVIOUS
<1>9. WalkType' BY <1>5, <1>6, <1>7 DEF WalkType, Kinds, Orders
<1>10. Found' = rows[u] BY <1>6, <1>7, <1>8, FoundNext
<1>11. rows[u] \subseteq Reachable(rows, rows[u]) BY <1>5, ReachableIsClosed
<1>12. WalkInv'
  <2>1. Rows(walk'.order, g') = rows BY <1>1, <1>8 DEF Rows
  <2>2. VisitedOnce' BY <1>8 DEF VisitedOnce
  <2> QED BY <1>7, <1>8, <1>9, <1>10, <1>11, <2>1, <2>2 DEF WalkInv
<1>13. GraphInv' BY <1>1 DEF GraphInv
<1>14. WalkSpares(u)'
  <2>1. [v \in Ids |-> IF v = u THEN {} ELSE rows[v]] \in [Ids -> SUBSET Ids] BY <1>5
  <2>2. Spared(u)' \in [Ids -> SUBSET Ids] BY <1>1, <2>1 DEF Spared
  <2>3. rows[u] \subseteq Reachable(Spared(u)', rows[u]) BY <1>5, <2>2, ReachableIsClosed
  <2>4. Found' \subseteq Reachable(Spared(u)', walk'.start) BY <1>8, <1>10, <2>3
  <2> QED BY <1>8, <2>4 DEF WalkSpares
<1>15. \A v \in Ids : reduction'.u = {v} => v = u BY <1>4
<1>16. ReductionTyped'
  <2>1. ReductionOK(reduction') BY <1>1, <1>3, ReductionStaysOK
  <2>2. IsGraph(g') BY <1>1, <1>2 DEF ReductionTyped
  <2> QED BY <1>1, <1>2, <1>4, <1>14, <1>15, <2>1, <2>2 DEF ReductionTyped
<1>17. ASSUME Acyclic(before) PROVE ReductionKept'
  <2>1. ReductionKept BY <1>1, <1>17 DEF ReductionInv
  <2>2. before[u] \subseteq Reachable(before, before[u]) BY <1>5, ReachableIsClosed
  <2>3. WalkPrunes(u)' BY <1>1, <1>4, <1>5, <1>7, <1>8, <1>10, <2>2 DEF WalkPrunes
  <2> QED BY <1>1, <1>4, <1>15, <2>1, <2>3 DEF ReductionKept, Needed
<1> QED BY <1>4, <1>12, <1>13, <1>16, <1>17 DEF ReductionInv

LEMMA WalkOnKeeps ==
  ASSUME GraphInv, WalkInv, ReductionInv, WalkOn
  PROVE  GraphInv' /\ WalkInv' /\ ReductionInv' /\ reduction'.result # "none"
<1>1. /\ reduction.result = "reducing" /\ reduction' = reduction /\ g' = g /\ Skip
  BY DEF WalkOn, Reducing
<1>2. GraphInv' /\ WalkInv' BY <1>1, SkipKeeps DEF GraphInv
<1>3. WalkType /\ walk.frontier # <<>> /\ Current.vertex \in Seen(walk)
  BY <1>1 DEF Skip, Walking, WalkInv
<1>4. VerticesOf(walk.frontier) = VerticesOf(Rest) \cup {Current.vertex}
  BY <1>3, CurrentAndRest DEF WalkType
<1>5. /\ walk'.frontier = Rest /\ walk'.visited = walk.visited /\ walk'.start = walk.start
      /\ walk'.order = walk.order /\ walk'.result = walk.result
  BY <1>1, <1>3 DEF WalkType, Skip
<1>6. Found' = Found
  <2>1. Current.vertex \in VerticesOf(walk.visited) BY <1>3 DEF VerticesOf, Seen
  <2> QED BY <2>1, <1>4, <1>5, FoundNext DEF Found
<1>7. ReductionTyped'
  <2>1. IsGraph(g') /\ ReductionOK(reduction') BY <1>1 DEF ReductionInv, ReductionTyped
  <2>2. \A u \in Ids : WalkSpares(u) => WalkSpares(u)' BY <1>1, <1>5, <1>6 DEF WalkSpares, Spared
  <2> QED BY <1>1, <2>1, <2>2 DEF ReductionInv, ReductionTyped
<1>8. ReductionKept => ReductionKept'
  <2>1. \A u \in Ids : WalkPrunes(u) => WalkPrunes(u)' BY <1>1, <1>5, <1>6 DEF WalkPrunes
  <2> QED BY <1>1, <2>1 DEF ReductionKept, Needed
<1> QED BY <1>1, <1>2, <1>7, <1>8 DEF ReductionInv

LEMMA VertexDoneKeeps ==
  ASSUME GraphInv, WalkInv, ReductionInv, VertexDone
  PROVE  GraphInv' /\ WalkInv' /\ ReductionInv' /\ reduction'.result # "none"
<1>1. /\ reduction.result = "reducing" /\ g' = g /\ walk.frontier = <<>> /\ reduction.u # {} /\ Finish
  BY DEF VertexDone, Reducing, Finish
<1>2. ReductionTyped /\ ReductionOK(reduction) BY <1>1 DEF ReductionInv, ReductionTyped
<1>3. reduction' = [vertices |-> reduction.vertices, u |-> {},
                    before |-> reduction.before, result |-> reduction.result]
  <2>1. reduction' = [reduction EXCEPT !.u = {}] BY DEF VertexDone
  <2> QED BY <1>2, <2>1, ReductionFields
<1>4. /\ reduction'.vertices = reduction.vertices /\ reduction'.u = {}
      /\ reduction'.before = reduction.before /\ reduction'.result = "reducing"
  BY <1>1, <1>3
<1>5. GraphInv' /\ WalkInv' BY <1>1, FinishKeeps DEF GraphInv
<1>6. ReductionTyped'
  <2>1. ReductionOK(reduction') BY <1>1, <1>3, ReductionStaysOK
  <2>2. IsGraph(g') BY <1>1, <1>2 DEF ReductionTyped
  <2> QED BY <1>1, <1>2, <1>4, <2>1, <2>2 DEF ReductionTyped
<1>7. ASSUME Acyclic(reduction.before.downEdges) PROVE ReductionKept'
  <2>1. ReductionKept BY <1>1, <1>7 DEF ReductionInv
  <2>2. PICK u \in Ids : reduction.u = {u} BY <1>1, <1>2 DEF ReductionTyped
  <2>3. Needed(u) BY <1>1, <1>2, <2>1, <2>2, WalkLeavesNeeded DEF ReductionKept, ReductionTyped
  <2>4. \A v \in Ids : v \in reduction.vertices \/ Needed(v) BY <2>1, <2>2, <2>3 DEF ReductionKept
  <2> QED BY <1>1, <1>4, <2>1, <2>4 DEF ReductionKept, Needed
<1> QED BY <1>4, <1>5, <1>6, <1>7 DEF ReductionInv

LEMMA ReducedKeeps ==
  ASSUME GraphInv, WalkInv, ReductionInv, Reduced
  PROVE  GraphInv' /\ WalkInv' /\ ReductionInv' /\ reduction'.result # "none"
<1>1. /\ reduction.result = "reducing" /\ g' = g /\ walk' = walk
      /\ reduction.u = {} /\ reduction.vertices = {}
  BY DEF Reduced, Reducing
<1>2. ReductionTyped /\ ReductionOK(reduction) BY <1>1 DEF ReductionInv, ReductionTyped
<1>3. reduction' = [vertices |-> reduction.vertices, u |-> reduction.u,
                    before |-> reduction.before, result |-> "reduced"]
  <2>1. reduction' = [reduction EXCEPT !.result = "reduced"] BY DEF Reduced
  <2> QED BY <1>2, <2>1, ReductionFields
<1>4. /\ reduction'.vertices = {} /\ reduction'.u = {} /\ reduction'.before = reduction.before
      /\ reduction'.result = "reduced"
  BY <1>1, <1>3
<1>5. GraphInv' /\ WalkInv' BY <1>1, WalkStutters
<1>6. ReductionTyped'
  <2>1. ReductionOK(reduction') BY <1>3, ReductionStaysOK
  <2>2. IsGraph(g') BY <1>1, <1>2 DEF ReductionTyped
  <2> QED BY <1>1, <1>2, <1>4, <2>1, <2>2 DEF ReductionTyped
<1>7. ASSUME Acyclic(reduction.before.downEdges) PROVE ReductionKept'
  <2>1. ReductionKept BY <1>1, <1>7 DEF ReductionInv
  <2> QED BY <1>1, <1>4, <2>1 DEF ReductionKept, Needed
<1> QED BY <1>4, <1>5, <1>6, <1>7 DEF ReductionInv

\* What the callback leaves of the rows.
LEMMA PruneLoses ==
  ASSUME GraphInv, IsGraph(g), NEW u \in Ids, Prune(u)
  PROVE  /\ g'.downEdges \in [Ids -> SUBSET Ids]
         /\ LosesShared(g.downEdges, g'.downEdges, u, Current.vertex)
         /\ \A v \in Ids : g'.downEdges[v] \subseteq g.downEdges[v]
<1> DEFINE w == Current.vertex
           rows == g.downEdges
           fewer == g'.downEdges
<1>1. g' = Cut(g, u, Shared(u, w)) BY PruneCuts
<1>2. rows \in [Ids -> SUBSET Ids] BY DEF GraphInv
<1>3. fewer = [v \in Ids |-> IF v = u THEN rows[v] \ rows[w] ELSE rows[v]]
  <2>1. fewer = [v \in Ids |-> IF v = u THEN rows[v] \ Shared(u, w) ELSE rows[v]]
    BY <1>1 DEF Cut
  <2>2. rows[u] \ Shared(u, w) = rows[u] \ rows[w] BY DEF Shared
  <2> HIDE DEF w, rows, fewer
  <2> QED BY <2>1, <2>2
<1> HIDE DEF w, rows, fewer
<1>4. /\ fewer \in [Ids -> SUBSET Ids] /\ LosesShared(rows, fewer, u, w)
      /\ \A v \in Ids : fewer[v] \subseteq rows[v]
  BY <1>2, <1>3 DEF LosesShared
<1> QED BY <1>4 DEF w, rows, fewer

\* The step that matters: the callback sees a vertex w and removes the edges from
\* u to its targets.
LEMMA PruneKeeps ==
  ASSUME GraphInv, WalkInv, ReductionInv, NEW u \in Ids, Prune(u)
  PROVE  GraphInv' /\ WalkInv' /\ ReductionInv' /\ reduction'.result # "none"
<1> DEFINE w == Current.vertex
           before == reduction.before.downEdges
           rows == g.downEdges
           fewer == g'.downEdges
           spared == Spared(u)
<1>1. reduction.result = "reducing" /\ reduction' = reduction /\ reduction.u = {u} /\ Visit
  BY DEF Prune, Reducing
<1>2. ReductionTyped /\ IsGraph(g) /\ WalkSpares(u) BY <1>1 DEF ReductionInv, ReductionTyped
<1>3. g' = Cut(g, u, Shared(u, w)) BY <1>2, PruneCuts
<1>4. rows \in [Ids -> SUBSET Ids] BY DEF GraphInv
<1>5. /\ fewer \in [Ids -> SUBSET Ids] /\ LosesShared(rows, fewer, u, w)
      /\ \A v \in Ids : fewer[v] \subseteq rows[v]
  BY <1>2, PruneLoses
<1>7. GraphInv' /\ IsGraph(g')
  <2> DEFINE shared == Shared(u, w)
             edges == {e \in g.edges : \A t \in shared : DG!EdgeId(e) # DG!JoinedId(u, t)}
             down == [v \in Ids |-> IF v = u THEN g.downEdges[v] \ shared ELSE g.downEdges[v]]
             up == [v \in Ids |-> IF v \in shared THEN g.upEdges[v] \ {u} ELSE g.upEdges[v]]
  <2>1. g' = [vertices |-> g.vertices, edges |-> edges, downEdges |-> down, upEdges |-> up]
    BY <1>3, Zenon DEF Cut
  <2>2. g.upEdges \in [Ids -> SUBSET Ids] BY DEF GraphInv
  <2> HIDE DEF shared
  <2>3. down \in [Ids -> SUBSET Ids] /\ up \in [Ids -> SUBSET Ids] BY <1>4, <2>2
  <2>4. \A v, x \in Ids : /\ x \in down[v] <=> v \in up[x]
                          /\ x \in down[v] => v \in g.vertices /\ x \in g.vertices
    BY DEF GraphInv
  <2> HIDE DEF edges, down, up
  <2>5. IsGraph(g') BY <2>1, <2>3, Zenon DEF IsGraph
  <2>6. g'.vertices = g.vertices /\ g'.downEdges = down /\ g'.upEdges = up BY <2>1
  <2> QED BY <2>3, <2>4, <2>5, <2>6 DEF GraphInv
<1>8. WalkType /\ walk.order = "downOrder" /\ walk.result = "walking"
  BY <1>2 DEF WalkSpares, WalkInv
<1>9. /\ WalkType' /\ VisitedOnce'
      /\ walk'.order = "downOrder" /\ walk'.start = walk.start /\ walk'.result = "walking"
      /\ w \in Ids /\ w \in Found /\ Found' = Found \cup fewer[w]
      /\ VerticesOf(walk'.visited) = VerticesOf(walk.visited) \cup {w}
  BY <1>1, <1>7, <1>8, VisitAdds DEF WalkInv, Rows
<1>10. /\ walk.start \in SUBSET Ids
       /\ walk.start \subseteq Found /\ \A v \in VerticesOf(walk.visited) : rows[v] \subseteq Found
  BY <1>8 DEF WalkInv, WalkType, Rows
<1>11. VerticesOf(walk.visited) \in SUBSET Ids BY <1>8, VerticesOfType DEF WalkType
\* Nothing was found by an edge from u, so nothing that was found is lost.
<1>12. /\ spared = [v \in Ids |-> IF v = u THEN {} ELSE rows[v]]
       /\ Spared(u)' = [v \in Ids |-> IF v = u THEN {} ELSE fewer[v]]
  BY DEF Spared
<1>13. /\ spared \in [Ids -> SUBSET Ids] /\ Spared(u)' = spared
       /\ \A v \in Ids : spared[v] \subseteq fewer[v]
       /\ fewer[w] \subseteq spared[w]
  <2>0. /\ \A v \in Ids : fewer[v] = IF v = u THEN rows[v] \ rows[w] ELSE rows[v]
        /\ w \in Ids
    BY <1>5, <1>9 DEF LosesShared
  <2> HIDE DEF w, rows, fewer, spared
  <2> QED BY <1>4, <1>12, <2>0
<1>14. Found' \subseteq Reachable(spared, walk.start)
  <2>1. Closed(spared, Reachable(spared, walk.start)) BY <1>10, <1>13, ReachableIsClosed
  <2>2. Found \subseteq Reachable(spared, walk.start) BY <1>2 DEF WalkSpares
  <2>3. spared[w] \subseteq Reachable(spared, walk.start) BY <1>9, <2>1, <2>2 DEF Closed
  <2> HIDE DEF w, fewer, spared
  <2> QED BY <1>9, <1>13, <2>2, <2>3
<1>15. WalkSpares(u)' BY <1>9, <1>13, <1>14 DEF WalkSpares
<1>16. WalkInv'
  <2>1. Reachable(spared, walk.start) \subseteq Reachable(fewer, walk.start)
    <3> HIDE DEF fewer, spared
    <3> QED BY <1>5, <1>10, <1>13, FewerEdgesReachLess
  <2>2. \A v \in VerticesOf(walk'.visited) : fewer[v] \subseteq Found'
    <3> HIDE DEF w, rows, fewer
    <3> QED BY <1>5, <1>9, <1>10, <1>11
  <2>3. Rows(walk'.order, g') = fewer BY <1>9 DEF Rows
  <2>4. Found' \subseteq Reachable(fewer, walk'.start) BY <1>9, <1>14, <2>1
  <2> QED BY <1>9, <1>10, <2>2, <2>3, <2>4 DEF WalkInv
<1>17. \A v \in Ids : reduction'.u = {v} => v = u BY <1>1
<1>18. ReductionTyped' BY <1>1, <1>2, <1>5, <1>7, <1>15, <1>17 DEF ReductionTyped
<1>19. ASSUME Acyclic(before) PROVE ReductionKept'
  <2>1. ReductionKept /\ WalkPrunes(u) BY <1>1, <1>19 DEF ReductionInv, ReductionKept
  <2>2. /\ before \in [Ids -> SUBSET Ids] /\ before[u] \in SUBSET Ids
        /\ \A v \in Ids : rows[v] \subseteq before[v]
    BY <1>2 DEF ReductionTyped
  <2>3. w \in Reachable(before, before[u]) BY <1>9, <2>1 DEF WalkPrunes
  <2>4. w # u BY <1>19, <2>3 DEF Acyclic
  <2>5. fewer[w] = rows[w] /\ fewer[u] = rows[u] \ rows[w] BY <1>5, <1>9, <2>4 DEF LosesShared
  <2>6. Reaches(rows, u, w)
    <3>1. Reachable(before, {u}) = {u} \cup Reachable(before, before[u]) BY <2>2, ReachableOfRow
    <3> QED BY <2>1, <2>3, <3>1 DEF Reaches, ReductionKept
  <2>7. Acyclic(rows) BY <1>4, <1>19, <2>2, FewerEdgesStayAcyclic
  <2>8. \A v \in Ids : Reachable(fewer, {v}) = Reachable(rows, {v})
    <3> HIDE DEF w, rows, fewer
    <3> QED BY <1>4, <1>5, <1>9, <2>4, <2>6, <2>7, SharedEdgesAreNotNeeded
  <2>9. ASSUME NEW v \in Ids PROVE v \in reduction.vertices \/ v \in reduction.u \/ Needed(v)'
    <3>1. CASE v = u BY <3>1, <1>1
    <3>2. CASE v # u /\ Needed(v)
      <4>1. fewer[v] = rows[v] BY <1>5, <3>2 DEF LosesShared
      <4> QED BY <1>2, <1>5, <1>7, <3>2, <4>1, NeededStays
    <3> QED BY <3>1, <3>2, <2>1 DEF ReductionKept
  <2>10. WalkPrunes(u)'
    <3>1. Found' \subseteq Reachable(before, before[u])
      <4>1. Closed(before, Reachable(before, before[u])) BY <2>2, ReachableIsClosed
      <4>2. before[w] \subseteq Reachable(before, before[u]) BY <2>3, <4>1 DEF Closed
      <4>3. Found \subseteq Reachable(before, before[u]) BY <2>1 DEF WalkPrunes
      <4>4. fewer[w] \subseteq before[w] BY <1>9, <2>2, <2>5
      <4> QED BY <1>9, <4>2, <4>3, <4>4
    <3>2. rows[u] \subseteq Found BY <2>1 DEF WalkPrunes
    <3>3. ASSUME NEW v \in VerticesOf(walk'.visited) PROVE fewer[u] \cap fewer[v] = {}
      <4>1. CASE v = w BY <4>1, <2>5
      <4>2. CASE v # w
        <5>1. v \in VerticesOf(walk.visited) /\ v \in Ids BY <1>9, <1>11, <4>2
        <5>2. rows[u] \cap rows[v] = {} BY <2>1, <5>1 DEF WalkPrunes
        <5> QED BY <1>5, <5>1, <5>2
      <4> QED BY <4>1, <4>2
    <3> QED BY <1>1, <1>9, <2>5, <3>1, <3>2, <3>3 DEF WalkPrunes
  <2> QED BY <1>1, <1>17, <2>1, <2>8, <2>9, <2>10 DEF ReductionKept
<1> QED BY <1>1, <1>7, <1>16, <1>18, <1>19 DEF ReductionInv

LEMMA ReduceStepKeeps ==
  ASSUME GraphInv, WalkInv, ReductionInv, ReduceStep
  PROVE  GraphInv' /\ WalkInv' /\ ReductionInv' /\ reduction'.result # "none"
BY NextVertexKeeps, PruneKeeps, WalkOnKeeps, VertexDoneKeeps, ReducedKeeps DEF ReduceStep

LEMMA ReductionStutters ==
  ASSUME GraphInv, WalkInv, ReductionInv, UNCHANGED <<g, walk, reduction>>
  PROVE  GraphInv' /\ WalkInv' /\ ReductionInv'
<1>1. g' = g /\ walk' = walk /\ reduction' = reduction OBVIOUS
<1>2. GraphInv' /\ WalkInv' BY <1>1, WalkStutters
<1>3. Found' = Found BY <1>1, FoundNext DEF Found
<1>4. ReductionTyped => ReductionTyped' BY <1>1, <1>3 DEF ReductionTyped, WalkSpares, Spared
<1>5. ReductionKept => ReductionKept' BY <1>1, <1>3 DEF ReductionKept, Needed, WalkPrunes
<1> QED BY <1>1, <1>2, <1>4, <1>5 DEF ReductionInv

-----------------------------------------------------------------------------
(* The order in which a walk visits the vertices.                          *)

\* How a visit changes the sequences: a vertex is added to what was visited, and it
\* is taken off the end (o = 0) or the head (o = 1) of the frontier, which its row
\* joins.
Grows(vis, vis2, e) ==
  /\ Len(vis2) = Len(vis) + 1 /\ vis2[Len(vis) + 1] = e
  /\ \A i \in 1 .. Len(vis) : vis2[i] = vis[i]

Pops(fr, fr2, o) ==
  Len(fr) - 1 <= Len(fr2) /\ \A i \in 1 .. Len(fr) - 1 : fr2[i] = fr[i + o]

Pushes(fr, fr2, row, d) ==
  /\ \A i \in Len(fr) .. Len(fr2) : fr2[i].vertex \in row /\ fr2[i].depth = d
  /\ \A v \in row : \E i \in Len(fr) .. Len(fr2) : fr2[i].vertex = v

Unseen(vis, n, v) == \A i \in 1 .. n : vis[i].vertex # v

\* A depth-first walk.  FoundAt: where the b-th vertex came from, at what depth;
\* InOrder: what was visited obeys DepthFirstOrder.
FromRow(rows, vis, a, v) == v \in rows[vis[a].vertex]

FoundAt(rows, start, vis, b, e) ==
  IF e.depth = 0 THEN e.vertex \in start
  ELSE \E a \in 1 .. b - 1 : FromRow(rows, vis, a, e.vertex) /\ e.depth = vis[a].depth + 1

InOrder(rows, start, vis) ==
  /\ \A a, b \in 1 .. Len(vis) : \A c \in rows[vis[a].vertex] :
       a < b /\ Unseen(vis, b, c) => \E d \in a .. b - 1 : FromRow(rows, vis, d, vis[b].vertex)
  /\ \A b \in 1 .. Len(vis) : FoundAt(rows, start, vis, b, vis[b])

\* p[i] is the visit that pushed the i-th entry of the frontier, 0 for the start:
\* later visits pushed higher entries, and all that is left of a row is there.
Pushed(rows, start, vis, fr, p) ==
  /\ p \in [1 .. Len(fr) -> 0 .. Len(vis)]
  /\ \A i, j \in 1 .. Len(fr) : i <= j => p[i] <= p[j]
  /\ \A i \in 1 .. Len(fr) :
       IF p[i] = 0 THEN fr[i].vertex \in start /\ fr[i].depth = 0
       ELSE FromRow(rows, vis, p[i], fr[i].vertex) /\ fr[i].depth = vis[p[i]].depth + 1
  /\ \A a \in 1 .. Len(vis) : \A c \in rows[vis[a].vertex] :
       Unseen(vis, Len(vis), c) => \E i \in 1 .. Len(fr) : p[i] = a /\ fr[i].vertex = c

\* The step that matters: what is on top was pushed by the last visit that has
\* anything left, so the next visit is in order.
LEMMA VisitedInOrder ==
  ASSUME NEW rows, NEW start, NEW vis, NEW fr, NEW vis2, NEW p,
         Len(vis) \in Nat, Len(fr) \in Nat \ {0}, \A i \in 1 .. Len(vis) : vis[i].depth \in Nat,
         InOrder(rows, start, vis), Pushed(rows, start, vis, fr, p),
         Grows(vis, vis2, fr[Len(fr)])
  PROVE  InOrder(rows, start, vis2)
<1> DEFINE n == Len(vis)
           m == Len(fr)
           e == fr[m]
<1>1. n \in Nat /\ m \in Nat /\ m \in 1 .. m /\ Len(vis2) = n + 1 BY DEF Grows
<1>2. vis2[n+1] = e /\ \A i \in 1 .. n : vis2[i] = vis[i] BY DEF Grows
<1>3. p \in [1 .. m -> 0 .. n] /\ \A i, j \in 1 .. m : i <= j => p[i] <= p[j] BY DEF Pushed
<1> HIDE DEF n, m, e
<1>4. p[m] \in 0 .. n /\ \A i \in 1 .. m : p[i] \in 0 .. n /\ p[i] <= p[m]
  <2>1. \A i \in 1 .. m : i <= m BY <1>1
  <2> QED BY <1>1, <1>3, <2>1
<1>5. ASSUME NEW a \in 1 .. n + 1, NEW b \in 1 .. n + 1, NEW c \in rows[vis2[a].vertex],
             a < b, Unseen(vis2, b, c)
      PROVE  \E d \in a .. b - 1 : FromRow(rows, vis2, d, vis2[b].vertex)
  <2>1. a \in 1 .. n /\ c \in rows[vis[a].vertex] BY <1>1, <1>2, <1>5
  <2>2. CASE b \in 1 .. n
    <3>1. Unseen(vis, b, c) BY <1>1, <1>2, <1>5, <2>2 DEF Unseen
    <3>2. PICK d \in a .. b - 1 : FromRow(rows, vis, d, vis[b].vertex)
      BY <1>5, <2>1, <2>2, <3>1 DEF InOrder, n
    <3>3. d \in 1 .. n BY <1>1, <2>1, <2>2
    <3> QED BY <1>2, <2>2, <3>2, <3>3 DEF FromRow
  <2>3. CASE b = n + 1
    <3>1. Unseen(vis, n, c) /\ e.vertex # c
      <4>1. \A i \in 1 .. n : i \in 1 .. b BY <1>1, <2>3
      <4>2. b \in 1 .. b BY <1>1, <2>3
      <4> QED BY <1>2, <1>5, <2>3, <4>1, <4>2 DEF Unseen
    <3>2. PICK i \in 1 .. m : p[i] = a /\ fr[i].vertex = c BY <2>1, <3>1 DEF Pushed, n, m
    <3>3. p[m] \in a .. n /\ p[m] # 0 BY <1>1, <1>4, <2>1, <3>2
    <3>4. FromRow(rows, vis, p[m], e.vertex) BY <1>1, <3>3 DEF Pushed, m, e
    <3>5. p[m] \in 1 .. n /\ p[m] \in a .. b - 1 BY <1>1, <2>1, <2>3, <3>3
    <3> QED BY <1>2, <2>3, <3>4, <3>5 DEF FromRow
  <2> QED BY <1>1, <2>2, <2>3
<1>6. ASSUME NEW b \in 1 .. n + 1 PROVE FoundAt(rows, start, vis2, b, vis2[b])
  <2>1. CASE b \in 1 .. n
    <3>1. FoundAt(rows, start, vis, b, vis[b]) BY <2>1 DEF InOrder, n
    <3>2. \A a \in 1 .. b - 1 : vis2[a] = vis[a] BY <1>1, <1>2, <2>1
    <3> QED BY <1>2, <2>1, <3>1, <3>2 DEF FoundAt, FromRow
  <2>2. CASE b = n + 1
    <3>1. CASE p[m] = 0
      <4>1. e.vertex \in start /\ e.depth = 0 BY <1>1, <3>1 DEF Pushed, m, e
      <4> QED BY <1>2, <2>2, <4>1 DEF FoundAt
    <3>2. CASE p[m] # 0
      <4>1. FromRow(rows, vis, p[m], e.vertex) /\ e.depth = vis[p[m]].depth + 1
        BY <1>1, <3>2 DEF Pushed, m, e
      <4>2. p[m] \in 1 .. n /\ p[m] \in 1 .. b - 1 BY <1>1, <1>4, <2>2, <3>2
      <4>3. e.depth # 0 BY <4>1, <4>2 DEF n
      <4> QED BY <1>2, <2>2, <4>1, <4>2, <4>3 DEF FoundAt, FromRow
    <3> QED BY <3>1, <3>2
  <2> QED BY <1>1, <2>1, <2>2
<1> QED BY <1>1, <1>5, <1>6 DEF InOrder

\* The row of the vertex joins the frontier, and nothing else is lost.
LEMMA PushedOn ==
  ASSUME NEW rows, NEW start, NEW vis, NEW fr, NEW vis2, NEW fr2, NEW p,
         Len(vis) \in Nat, Len(fr) \in Nat \ {0}, Len(fr2) \in Nat,
         Pushed(rows, start, vis, fr, p),
         Grows(vis, vis2, fr[Len(fr)]), Pops(fr, fr2, 0),
         Pushes(fr, fr2, rows[fr[Len(fr)].vertex], fr[Len(fr)].depth + 1)
  PROVE  \E q : Pushed(rows, start, vis2, fr2, q)
<1> DEFINE n == Len(vis)
           m == Len(fr)
           k == Len(fr2)
           e == fr[m]
           q == [i \in 1 .. k |-> IF i < m THEN p[i] ELSE n + 1]
<1>1. n \in Nat /\ m \in Nat \ {0} /\ k \in Nat /\ m - 1 <= k /\ Len(vis2) = n + 1 BY DEF Grows, Pops
<1>2. vis2[n+1] = e /\ \A i \in 1 .. n : vis2[i] = vis[i] BY DEF Grows
<1>3. \A i \in 1 .. m - 1 : fr2[i] = fr[i]
  <2>1. \A i \in 1 .. m - 1 : fr2[i] = fr[i+0] /\ i + 0 = i BY DEF Pops
  <2> QED BY <2>1
<1>4. /\ \A i \in m .. k : fr2[i].vertex \in rows[e.vertex] /\ fr2[i].depth = e.depth + 1
      /\ \A v \in rows[e.vertex] : \E i \in m .. k : fr2[i].vertex = v
  BY DEF Pushes
<1>5. \A i \in 1 .. m : p[i] \in 0 .. n BY DEF Pushed
<1>6. \A i \in 1 .. m : IF p[i] = 0 THEN fr[i].vertex \in start /\ fr[i].depth = 0
                        ELSE FromRow(rows, vis, p[i], fr[i].vertex) /\ fr[i].depth = vis[p[i]].depth + 1
  BY DEF Pushed
<1>7. \A i, j \in 1 .. m : i <= j => p[i] <= p[j] BY DEF Pushed
<1>8. \A a \in 1 .. n : \A c \in rows[vis[a].vertex] :
        Unseen(vis, n, c) => \E i \in 1 .. m : p[i] = a /\ fr[i].vertex = c
  BY DEF Pushed
<1> HIDE DEF n, m, k, e
<1>9. \A i \in 1 .. k : i \in m .. k \/ (i \in 1 .. m - 1 /\ i \in 1 .. m /\ i < m /\ ~(i \in m .. k)) BY <1>1
<1>10. \A i \in m .. k : i \in 1 .. k /\ ~(i < m) BY <1>1
<1>11. /\ \A i \in 1 .. m - 1 : i \in 1 .. k /\ i < m /\ q[i] = p[i]
       /\ \A i \in m .. k : q[i] = n + 1
       /\ q \in [1 .. k -> 0 .. n + 1]
  <2>1. \A i \in 1 .. m - 1 : i \in 1 .. k /\ i < m BY <1>1
  <2>2. 0 .. n \subseteq 0 .. n + 1 /\ n + 1 \in 0 .. n + 1 BY <1>1
  <2>3. q \in [1 .. k -> 0 .. n + 1] BY <1>5, <1>9, <1>10, <2>2
  <2> QED BY <1>10, <2>1, <2>3
<1> HIDE DEF q
<1>12. ASSUME NEW i \in 1 .. k, NEW j \in 1 .. k, i <= j PROVE q[i] <= q[j]
  <2>1. CASE j \in m .. k
    <3>1. q[j] = n + 1 /\ q[i] \in 0 .. n + 1 BY <1>11, <2>1
    <3> QED BY <1>1, <3>1
  <2>2. CASE ~(j \in m .. k)
    <3>1. j \in 1 .. m - 1 /\ i \in 1 .. m - 1 /\ i \in 1 .. m /\ j \in 1 .. m BY <1>1, <1>9, <1>12, <2>2
    <3> QED BY <1>7, <1>11, <1>12, <3>1
  <2> QED BY <2>1, <2>2
<1>13. ASSUME NEW i \in 1 .. k
       PROVE  IF q[i] = 0 THEN fr2[i].vertex \in start /\ fr2[i].depth = 0
              ELSE FromRow(rows, vis2, q[i], fr2[i].vertex) /\ fr2[i].depth = vis2[q[i]].depth + 1
  <2>1. CASE i \in m .. k
    <3>1. q[i] = n + 1 /\ n + 1 # 0 BY <1>1, <1>11, <2>1
    <3> QED BY <1>2, <1>4, <2>1, <3>1 DEF FromRow
  <2>2. CASE ~(i \in m .. k)
    <3>1. i \in 1 .. m - 1 /\ i \in 1 .. m BY <1>9, <2>2
    <3>2. q[i] = p[i] /\ fr2[i] = fr[i] BY <1>3, <1>11, <3>1
    <3>3. p[i] = 0 \/ p[i] \in 1 .. n BY <1>1, <1>5, <3>1
    <3>4. p[i] # 0 => vis2[p[i]] = vis[p[i]] BY <1>2, <3>3
    <3> QED BY <1>6, <3>1, <3>2, <3>4 DEF FromRow
  <2> QED BY <2>1, <2>2
<1>14. ASSUME NEW a \in 1 .. n + 1, NEW c \in rows[vis2[a].vertex], Unseen(vis2, n + 1, c)
       PROVE  \E i \in 1 .. k : q[i] = a /\ fr2[i].vertex = c
  <2>1. CASE a = n + 1
    <3>1. PICK i \in m .. k : fr2[i].vertex = c BY <1>2, <1>4, <2>1
    <3> QED BY <1>10, <1>11, <2>1, <3>1
  <2>2. CASE a # n + 1
    <3>1. a \in 1 .. n BY <1>1, <2>2
    <3>2. Unseen(vis, n, c) /\ e.vertex # c
      <4>1. n + 1 \in 1 .. n + 1 /\ \A i \in 1 .. n : i \in 1 .. n + 1 BY <1>1
      <4> QED BY <1>2, <1>14, <4>1 DEF Unseen
    <3>3. PICK i \in 1 .. m : p[i] = a /\ fr[i].vertex = c BY <1>2, <1>8, <1>14, <3>1, <3>2
    <3>4. i # m BY <3>2, <3>3 DEF e
    <3>5. i \in 1 .. m - 1 BY <1>1, <3>4
    <3> QED BY <1>3, <1>11, <3>3, <3>5
  <2> QED BY <2>1, <2>2
<1> QED BY SMTT(30), <1>1, <1>11, <1>12, <1>13, <1>14 DEF Pushed, k

\* What is skipped was seen already.
LEMMA PushedStays ==
  ASSUME NEW rows, NEW start, NEW vis, NEW fr, NEW fr2, NEW p,
         Len(vis) \in Nat, Len(fr) \in Nat \ {0},
         Pushed(rows, start, vis, fr, p), Len(fr2) = Len(fr) - 1, Pops(fr, fr2, 0),
         ~Unseen(vis, Len(vis), fr[Len(fr)].vertex)
  PROVE  \E q : Pushed(rows, start, vis, fr2, q)
<1> DEFINE n == Len(vis)
           m == Len(fr)
           k == Len(fr2)
           q == [i \in 1 .. k |-> p[i]]
<1>1. m \in Nat \ {0} /\ k = m - 1 /\ \A i \in 1 .. k : i \in 1 .. m OBVIOUS
<1>2. \A i \in 1 .. k : fr2[i] = fr[i]
  <2>1. \A i \in 1 .. m - 1 : fr2[i] = fr[i+0] /\ i + 0 = i BY DEF Pops
  <2> QED BY <1>1, <2>1
<1>3. \A a \in 1 .. n : \A c \in rows[vis[a].vertex] :
        Unseen(vis, n, c) => \E i \in 1 .. m : p[i] = a /\ fr[i].vertex = c
  BY DEF Pushed
<1>4. \A i \in 1 .. m : IF p[i] = 0 THEN fr[i].vertex \in start /\ fr[i].depth = 0
                        ELSE FromRow(rows, vis, p[i], fr[i].vertex) /\ fr[i].depth = vis[p[i]].depth + 1
  BY DEF Pushed
<1>5. /\ \A i \in 1 .. m : p[i] \in 0 .. n
      /\ \A i, j \in 1 .. m : i <= j => p[i] <= p[j]
  BY DEF Pushed
<1>6. ~Unseen(vis, n, fr[m].vertex) OBVIOUS
<1> HIDE DEF n, m, k
<1>7. q \in [1 .. k -> 0 .. n] /\ \A i \in 1 .. k : q[i] = p[i] BY <1>1, <1>5
<1> HIDE DEF q
<1>8. ASSUME NEW a \in 1 .. n, NEW c \in rows[vis[a].vertex], Unseen(vis, n, c)
      PROVE  \E i \in 1 .. k : q[i] = a /\ fr2[i].vertex = c
  <2>1. PICK i \in 1 .. m : p[i] = a /\ fr[i].vertex = c BY <1>3, <1>8
  <2>2. i # m BY <1>6, <1>8, <2>1
  <2>3. i \in 1 .. k BY <1>1, <2>2
  <2> QED BY <1>2, <1>7, <2>1, <2>3
<1>9. \A i, j \in 1 .. k : i <= j => q[i] <= q[j] BY <1>1, <1>5, <1>7
<1>10. \A i \in 1 .. k :
         IF q[i] = 0 THEN fr2[i].vertex \in start /\ fr2[i].depth = 0
         ELSE FromRow(rows, vis, q[i], fr2[i].vertex) /\ fr2[i].depth = vis[q[i]].depth + 1
  BY <1>1, <1>2, <1>4, <1>7
<1> QED BY SMTT(30), <1>7, <1>8, <1>9, <1>10 DEF Pushed, n, k

\* Rows that were not read yet may change.
LEMMA OrderIgnoresOthers ==
  ASSUME NEW rows, NEW others, NEW start, NEW vis, NEW fr, NEW p,
         Len(vis) \in Nat, \A i \in 1 .. Len(vis) : others[vis[i].vertex] = rows[vis[i].vertex]
  PROVE  /\ InOrder(rows, start, vis) => InOrder(others, start, vis)
         /\ Pushed(rows, start, vis, fr, p) => Pushed(others, start, vis, fr, p)
<1>1. ASSUME InOrder(rows, start, vis) PROVE InOrder(others, start, vis)
  <2>1. ASSUME NEW a \in 1 .. Len(vis), NEW b \in 1 .. Len(vis), NEW c \in others[vis[a].vertex],
               a < b, Unseen(vis, b, c)
        PROVE  \E d \in a .. b - 1 : FromRow(others, vis, d, vis[b].vertex)
    <3>1. PICK d \in a .. b - 1 : FromRow(rows, vis, d, vis[b].vertex) BY <1>1, <2>1 DEF InOrder
    <3>2. d \in 1 .. Len(vis) OBVIOUS
    <3> QED BY <3>1, <3>2 DEF FromRow
  <2>2. ASSUME NEW b \in 1 .. Len(vis) PROVE FoundAt(others, start, vis, b, vis[b])
    <3>1. FoundAt(rows, start, vis, b, vis[b]) BY <1>1 DEF InOrder
    <3>2. \A a \in 1 .. b - 1 : a \in 1 .. Len(vis) OBVIOUS
    <3> QED BY <3>1, <3>2 DEF FoundAt, FromRow
  <2> QED BY <2>1, <2>2 DEF InOrder
<1>2. ASSUME Pushed(rows, start, vis, fr, p) PROVE Pushed(others, start, vis, fr, p)
  <2>1. ASSUME NEW i \in 1 .. Len(fr), p[i] # 0
        PROVE  FromRow(others, vis, p[i], fr[i].vertex) /\ fr[i].depth = vis[p[i]].depth + 1
    <3>1. p[i] \in 1 .. Len(vis) BY <1>2, <2>1 DEF Pushed
    <3>2. FromRow(rows, vis, p[i], fr[i].vertex) /\ fr[i].depth = vis[p[i]].depth + 1
      BY <1>2, <2>1 DEF Pushed
    <3> QED BY <3>1, <3>2 DEF FromRow
  <2> QED BY <1>2, <2>1 DEF Pushed
<1> QED BY <1>1, <1>2

\* A breadth-first walk: the depths on the frontier are in order and differ by at
\* most one, none is below one that was visited, and what an edge leads to has
\* an entry that is at most one deeper.
InLevels(fr) ==
  \A i, j \in 1 .. Len(fr) :
    fr[j].depth <= fr[i].depth + 1 /\ (i <= j => fr[i].depth <= fr[j].depth)

HasEntry(s, v, d) == \E i \in 1 .. Len(s) : s[i].vertex = v /\ s[i].depth <= d

Within(rows, start, s) == \A i \in 1 .. Len(s) : s[i].vertex \in Ball(rows, start, s[i].depth)

Nearest(rows, start, vis) ==
  \A i \in 1 .. Len(vis) : vis[i].depth > 0 => vis[i].vertex \notin Ball(rows, start, vis[i].depth - 1)

NotBelow(vis, fr) == \A i \in 1 .. Len(vis), j \in 1 .. Len(fr) : vis[i].depth <= fr[j].depth

Complete(rows, start, vis, fr) ==
  /\ \A v \in start : HasEntry(vis, v, 0) \/ HasEntry(fr, v, 0)
  /\ \A i \in 1 .. Len(vis) : \A v \in rows[vis[i].vertex] :
       HasEntry(vis, v, vis[i].depth + 1) \/ HasEntry(fr, v, vis[i].depth + 1)

Spreads(rows, start, vis, fr) ==
  /\ InLevels(fr) /\ Within(rows, start, fr)
  /\ NotBelow(vis, fr) /\ Complete(rows, start, vis, fr)

HaveDepths(s) == Len(s) \in Nat /\ \A i \in 1 .. Len(s) : s[i].depth \in Nat

\* What is nearer than everything on the frontier was visited.
LEMMA NearerIsVisited ==
  ASSUME NEW rows \in [Ids -> SUBSET Ids], NEW start \in SUBSET Ids, NEW vis, NEW fr,
         HaveDepths(vis), HaveDepths(fr), Spreads(rows, start, vis, fr), NEW d \in Nat,
         \A j \in 1 .. Len(fr) : d <= fr[j].depth,
         NEW k \in Nat, k < d, NEW v \in Ball(rows, start, k)
  PROVE  HasEntry(vis, v, k)
<1> DEFINE Missing == {j \in Nat : j < d /\ \E x \in Ball(rows, start, j) : ~HasEntry(vis, x, j)}
<1> SUFFICES ASSUME Missing # {} PROVE FALSE BY DEF Missing
<1>1. PICK j \in Missing : \A m \in Missing : j <= m
  <2>1. Missing \in SUBSET Nat OBVIOUS
  <2> HIDE DEF Missing
  <2> QED BY <2>1, LeastNat
<1>2. j \in Nat /\ j < d OBVIOUS
<1>3. PICK x \in Ball(rows, start, j) : ~HasEntry(vis, x, j) OBVIOUS
<1>4. ASSUME HasEntry(fr, x, j) PROVE FALSE BY <1>2, <1>4 DEF HasEntry, HaveDepths
<1>5. CASE j = 0
  <2>1. x \in start BY <1>5, BallGrows
  <2> QED BY <1>3, <1>4, <1>5, <2>1 DEF Spreads, Complete
<1>6. CASE j # 0
  <2> DEFINE i == j - 1
  <2>1. i \in Nat /\ i + 1 = j /\ i < d /\ ~(j <= i) BY <1>2, <1>6
  <2>2. \A y \in Ball(rows, start, i) : HasEntry(vis, y, i)
    <3>1. i \notin Missing BY <1>1, <2>1
    <3> QED BY <2>1, <3>1
  <2> HIDE DEF i, Missing
  <2>3. Ball(rows, start, i + 1) = OneMore(rows, Ball(rows, start, i)) BY <2>1, BallGrows
  <2>4. x \in Ball(rows, start, i) \/ \E y \in Ball(rows, start, i) : x \in rows[y]
    BY <2>1, <2>3 DEF OneMore
  <2>5. CASE x \in Ball(rows, start, i)
    <3>1. HasEntry(vis, x, i) BY <2>2, <2>5
    <3> QED BY <1>3, <2>1, <3>1 DEF HasEntry, HaveDepths
  <2>6. CASE \E y \in Ball(rows, start, i) : x \in rows[y]
    <3>1. PICK y \in Ball(rows, start, i) : x \in rows[y] BY <2>6
    <3>2. PICK a \in 1 .. Len(vis) : vis[a].vertex = y /\ vis[a].depth <= i BY <2>2 DEF HasEntry
    <3>3. HasEntry(vis, x, vis[a].depth + 1) \/ HasEntry(fr, x, vis[a].depth + 1)
      BY <3>1, <3>2 DEF Spreads, Complete
    <3>4. vis[a].depth + 1 <= j /\ vis[a].depth \in Nat BY <2>1, <3>2 DEF HaveDepths
    <3>5. HasEntry(vis, x, j) \/ HasEntry(fr, x, j)
      BY <1>2, <3>3, <3>4 DEF HasEntry, HaveDepths
    <3> QED BY <1>3, <1>4, <3>5
  <2> QED BY <2>4, <2>5, <2>6
<1> QED BY <1>5, <1>6

\* So the head of the frontier, which was not visited, is not nearer than its depth.
LEMMA VisitedNearest ==
  ASSUME NEW rows \in [Ids -> SUBSET Ids], NEW start \in SUBSET Ids, NEW vis, NEW fr, NEW vis2,
         HaveDepths(vis), HaveDepths(fr), Len(fr) # 0, Spreads(rows, start, vis, fr),
         Within(rows, start, vis), Nearest(rows, start, vis),
         Unseen(vis, Len(vis), fr[1].vertex), Grows(vis, vis2, fr[1])
  PROVE  Within(rows, start, vis2) /\ Nearest(rows, start, vis2)
<1> DEFINE n == Len(vis)
           e == fr[1]
           d == e.depth
<1>1. n \in Nat /\ 1 \in 1 .. Len(fr) /\ d \in Nat /\ Len(vis2) = n + 1 BY DEF Grows, HaveDepths
<1>2. vis2[n+1] = e /\ \A i \in 1 .. n : vis2[i] = vis[i] BY DEF Grows
<1>3. e.vertex \in Ball(rows, start, d) BY <1>1 DEF Spreads, Within
<1>4. \A j \in 1 .. Len(fr) : d <= fr[j].depth BY <1>1 DEF Spreads, InLevels
<1>5. ASSUME d > 0, e.vertex \in Ball(rows, start, d - 1) PROVE FALSE
  <2>1. d - 1 \in Nat /\ d - 1 < d BY <1>1, <1>5
  <2>2. HasEntry(vis, e.vertex, d - 1)
    <3> HIDE DEF d
    <3> QED BY <1>1, <1>4, <1>5, <2>1, NearerIsVisited
  <2> QED BY <2>2 DEF HasEntry, Unseen
<1> HIDE DEF n, e
<1>6. \A i \in 1 .. n + 1 : i \in 1 .. n \/ i = n + 1 BY <1>1
<1>7. Within(rows, start, vis2) BY <1>1, <1>2, <1>3, <1>6 DEF Within, n
<1>8. Nearest(rows, start, vis2) BY <1>1, <1>2, <1>5, <1>6 DEF Nearest, n
<1> QED BY <1>7, <1>8

\* The row of the head joins the end, one deeper: the levels stay in order.
LEMMA VisitSpreads ==
  ASSUME NEW rows \in [Ids -> SUBSET Ids], NEW start \in SUBSET Ids, NEW vis, NEW fr, NEW vis2, NEW fr2,
         HaveDepths(vis), HaveDepths(fr), HaveDepths(fr2), Len(fr) # 0, Spreads(rows, start, vis, fr),
         Grows(vis, vis2, fr[1]), Pops(fr, fr2, 1),
         Pushes(fr, fr2, rows[fr[1].vertex], fr[1].depth + 1)
  PROVE  Spreads(rows, start, vis2, fr2)
<1> DEFINE n == Len(vis)
           m == Len(fr)
           k == Len(fr2)
           e == fr[1]
           d == e.depth
<1>1. /\ n \in Nat /\ m \in Nat \ {0} /\ k \in Nat /\ m - 1 <= k /\ d \in Nat
      /\ Len(vis2) = n + 1 /\ 1 \in 1 .. m
  BY DEF Grows, Pops, HaveDepths
<1>2. vis2[n+1] = e /\ \A i \in 1 .. n : vis2[i] = vis[i] BY DEF Grows
<1>3. \A i \in 1 .. m - 1 : fr2[i] = fr[i+1] BY DEF Pops
<1>4. /\ \A i \in m .. k : fr2[i].vertex \in rows[e.vertex] /\ fr2[i].depth = d + 1
      /\ \A v \in rows[e.vertex] : \E i \in m .. k : fr2[i].vertex = v
  BY DEF Pushes
<1>5. \A i, j \in 1 .. m : fr[j].depth <= fr[i].depth + 1 /\ (i <= j => fr[i].depth <= fr[j].depth)
  BY DEF Spreads, InLevels
<1>6. /\ \A i \in 1 .. n : vis[i].depth \in Nat
      /\ \A i \in 1 .. m : fr[i].depth \in Nat
      /\ \A i \in 1 .. k : fr2[i].depth \in Nat
  BY DEF HaveDepths
<1>7. \A i \in 1 .. n, j \in 1 .. m : vis[i].depth <= fr[j].depth BY DEF Spreads, NotBelow
<1>8. \A i \in 1 .. m : fr[i].vertex \in Ball(rows, start, fr[i].depth) BY DEF Spreads, Within
<1>9. Complete(rows, start, vis, fr) BY DEF Spreads
<1> HIDE DEF n, m, k, e, d
<1>10. \A i \in 1 .. k : i \in m .. k \/ (i \in 1 .. m - 1 /\ i + 1 \in 1 .. m /\ fr2[i] = fr[i+1])
  BY <1>1, <1>3
<1>11. e = fr[1] /\ d = e.depth BY DEF e, d
<1>12. \A i \in 1 .. k : d <= fr2[i].depth /\ fr2[i].depth <= d + 1
  <2> SUFFICES ASSUME NEW i \in 1 .. k PROVE d <= fr2[i].depth /\ fr2[i].depth <= d + 1 OBVIOUS
  <2>1. CASE i \in m .. k BY <1>1, <1>4, <2>1
  <2>2. CASE i \in 1 .. m - 1 /\ i + 1 \in 1 .. m /\ fr2[i] = fr[i+1]
    <3>1. 1 <= i + 1 BY <2>2
    <3> QED BY <1>1, <1>5, <1>11, <2>2, <3>1
  <2> QED BY <1>10, <2>1, <2>2
<1>13. InLevels(fr2)
  <2> SUFFICES ASSUME NEW i \in 1 .. k, NEW j \in 1 .. k
               PROVE  /\ fr2[j].depth <= fr2[i].depth + 1
                      /\ i <= j => fr2[i].depth <= fr2[j].depth
    BY DEF InLevels, k
  <2>1. fr2[j].depth <= fr2[i].depth + 1 BY <1>1, <1>6, <1>12
  <2>2. CASE j \in m .. k
    <3>1. fr2[j].depth = d + 1 BY <1>4, <2>2
    <3> QED BY <1>12, <2>1, <3>1
  <2>3. CASE ~(j \in m .. k) /\ i <= j
    <3>1. ~(i \in m .. k) BY <1>1, <2>3
    <3>2. /\ i + 1 \in 1 .. m /\ fr2[i] = fr[i+1] /\ j + 1 \in 1 .. m /\ fr2[j] = fr[j+1]
          /\ i + 1 <= j + 1
      BY <1>10, <2>3, <3>1
    <3> QED BY <1>5, <2>1, <3>2
  <2> QED BY <2>1, <2>2, <2>3
<1>14. Within(rows, start, fr2)
  <2> SUFFICES ASSUME NEW i \in 1 .. k PROVE fr2[i].vertex \in Ball(rows, start, fr2[i].depth)
    BY DEF Within, k
  <2>1. CASE i \in m .. k
    <3>1. Ball(rows, start, d + 1) = OneMore(rows, Ball(rows, start, d)) BY <1>1, BallGrows
    <3>2. e.vertex \in Ball(rows, start, d) BY <1>1, <1>8, <1>11
    <3> QED BY <1>4, <2>1, <3>1, <3>2 DEF OneMore
  <2>2. CASE ~(i \in m .. k) BY <1>8, <1>10, <2>2
  <2> QED BY <2>1, <2>2
<1>15. NotBelow(vis2, fr2)
  <2> SUFFICES ASSUME NEW i \in 1 .. n + 1, NEW j \in 1 .. k PROVE vis2[i].depth <= fr2[j].depth
    BY <1>1 DEF NotBelow, k
  <2>1. CASE i = n + 1 BY <1>2, <1>11, <1>12, <2>1
  <2>2. CASE i # n + 1
    <3>1. i \in 1 .. n /\ vis2[i] = vis[i] BY <1>1, <1>2, <2>2
    <3>2. vis[i].depth <= d BY <1>1, <1>7, <1>11, <3>1
    <3> QED BY <1>1, <1>6, <1>12, <3>1, <3>2
  <2> QED BY <2>1, <2>2
\* No entry is lost.
<1>16. ASSUME NEW v, NEW c \in Nat, HasEntry(vis, v, c) \/ HasEntry(fr, v, c)
       PROVE  HasEntry(vis2, v, c) \/ HasEntry(fr2, v, c)
  <2>1. CASE HasEntry(vis, v, c)
    <3>1. PICK i \in 1 .. n : vis[i].vertex = v /\ vis[i].depth <= c BY <2>1 DEF HasEntry, n
    <3>2. i \in 1 .. n + 1 /\ vis2[i] = vis[i] BY <1>1, <1>2
    <3> QED BY <1>1, <3>1, <3>2 DEF HasEntry
  <2>2. CASE HasEntry(fr, v, c)
    <3>1. PICK i \in 1 .. m : fr[i].vertex = v /\ fr[i].depth <= c BY <2>2 DEF HasEntry, m
    <3>2. CASE i = 1
      <4>1. n + 1 \in 1 .. n + 1 BY <1>1
      <4> QED BY <1>1, <1>2, <1>11, <3>1, <3>2, <4>1 DEF HasEntry
    <3>3. CASE i # 1
      <4>1. i - 1 \in 1 .. m - 1 /\ i - 1 \in 1 .. k /\ i - 1 + 1 = i BY <1>1, <3>3
      <4>2. fr2[i-1] = fr[i] BY <1>3, <4>1
      <4> QED BY <3>1, <4>1, <4>2 DEF HasEntry, k
    <3> QED BY <3>2, <3>3
  <2> QED BY <1>16, <2>1, <2>2
<1>17. Complete(rows, start, vis2, fr2)
  <2>1. ASSUME NEW v \in start PROVE HasEntry(vis2, v, 0) \/ HasEntry(fr2, v, 0)
    BY <1>9, <1>16 DEF Complete
  <2>2. ASSUME NEW i \in 1 .. n + 1, NEW v \in rows[vis2[i].vertex]
        PROVE  HasEntry(vis2, v, vis2[i].depth + 1) \/ HasEntry(fr2, v, vis2[i].depth + 1)
    <3>1. CASE i = n + 1
      <4>1. PICK j \in m .. k : fr2[j].vertex = v BY <1>2, <1>4, <2>2, <3>1
      <4>2. j \in 1 .. k /\ fr2[j].depth <= vis2[i].depth + 1 BY <1>1, <1>2, <1>4, <1>11, <3>1
      <4> QED BY <4>1, <4>2 DEF HasEntry, k
    <3>2. CASE i # n + 1
      <4>1. i \in 1 .. n /\ vis2[i] = vis[i] /\ vis[i].depth + 1 \in Nat BY <1>1, <1>2, <1>6, <3>2
      <4>2. HasEntry(vis, v, vis[i].depth + 1) \/ HasEntry(fr, v, vis[i].depth + 1)
        BY <1>9, <2>2, <4>1 DEF Complete, n
      <4> QED BY <1>16, <4>1, <4>2
    <3> QED BY <3>1, <3>2
  <2> QED BY <1>1, <2>1, <2>2 DEF Complete
<1> QED BY <1>13, <1>14, <1>15, <1>17 DEF Spreads

\* What is skipped was visited at a depth that is not higher.
LEMMA SkipSpreads ==
  ASSUME NEW rows, NEW start, NEW vis, NEW fr, NEW fr2,
         HaveDepths(vis), HaveDepths(fr), Len(fr) # 0, Spreads(rows, start, vis, fr),
         Len(fr2) = Len(fr) - 1, Pops(fr, fr2, 1), ~Unseen(vis, Len(vis), fr[1].vertex)
  PROVE  Spreads(rows, start, vis, fr2)
<1> DEFINE n == Len(vis)
           m == Len(fr)
           k == Len(fr2)
<1>1. n \in Nat /\ m \in Nat \ {0} /\ k = m - 1 /\ 1 \in 1 .. m BY DEF HaveDepths
<1>2. \A i \in 1 .. k : i + 1 \in 1 .. m /\ fr2[i] = fr[i+1] BY <1>1 DEF Pops
<1>3. \A i, j \in 1 .. m : fr[j].depth <= fr[i].depth + 1 /\ (i <= j => fr[i].depth <= fr[j].depth)
  BY DEF Spreads, InLevels
<1>4. /\ \A i \in 1 .. n : vis[i].depth \in Nat
      /\ \A i \in 1 .. m : fr[i].depth \in Nat
  BY DEF HaveDepths
<1>5. \A i \in 1 .. n, j \in 1 .. m : vis[i].depth <= fr[j].depth BY DEF Spreads, NotBelow
<1>6. \A i \in 1 .. m : fr[i].vertex \in Ball(rows, start, fr[i].depth) BY DEF Spreads, Within
<1>7. Complete(rows, start, vis, fr) BY DEF Spreads
<1>8. PICK a \in 1 .. n : vis[a].vertex = fr[1].vertex BY DEF Unseen
<1> HIDE DEF n, m, k
<1>9. InLevels(fr2)
  <2> SUFFICES ASSUME NEW i \in 1 .. k, NEW j \in 1 .. k
               PROVE  /\ fr2[j].depth <= fr2[i].depth + 1
                      /\ i <= j => fr2[i].depth <= fr2[j].depth
    BY DEF InLevels, k
  <2> QED BY <1>2, <1>3
<1>10. Within(rows, start, fr2) BY <1>2, <1>6 DEF Within, k
<1>11. NotBelow(vis, fr2) BY <1>2, <1>5 DEF NotBelow, k, n
<1>12. ASSUME NEW v, NEW c \in Nat, HasEntry(vis, v, c) \/ HasEntry(fr, v, c)
       PROVE  HasEntry(vis, v, c) \/ HasEntry(fr2, v, c)
  <2>1. CASE HasEntry(fr, v, c)
    <3>1. PICK i \in 1 .. m : fr[i].vertex = v /\ fr[i].depth <= c BY <2>1 DEF HasEntry, m
    <3>2. CASE i = 1
      <4>1. vis[a].vertex = v /\ vis[a].depth <= c BY <1>1, <1>4, <1>5, <1>8, <3>1, <3>2
      <4> QED BY <4>1 DEF HasEntry, n
    <3>3. CASE i # 1
      <4>1. i - 1 \in 1 .. k /\ i - 1 + 1 = i BY <1>1, <3>3
      <4>2. fr2[i-1] = fr[i] BY <1>2, <4>1
      <4> QED BY <3>1, <4>1, <4>2 DEF HasEntry, k
    <3> QED BY <3>2, <3>3
  <2> QED BY <1>12, <2>1
<1>13. Complete(rows, start, vis, fr2)
  <2>1. \A i \in 1 .. Len(vis) : vis[i].depth + 1 \in Nat BY <1>4 DEF n
  <2> QED BY <1>7, <1>12, <2>1 DEF Complete
<1> QED BY <1>9, <1>10, <1>11, <1>13 DEF Spreads

LEMMA AtDepthHasDepth ==
  ASSUME NEW R \in SUBSET Ids, NEW d \in Nat, NEW next \in AtDepth(d, R)
  PROVE  \A i \in DOMAIN next : next[i].depth = d
BY DEF AtDepth

LEMMA EntriesHaveDepths == ASSUME NEW s \in Seq(Entries) PROVE HaveDepths(s)
<1>1. Len(s) \in Nat /\ \A i \in 1 .. Len(s) : s[i] \in Entries BY LenProperties, ElementOfSeq
<1> QED BY <1>1 DEF HaveDepths, Entries

\* Where a walk takes the vertex it looks at from.
At == IF walk.kind = "depthFirst" THEN Len(walk.frontier) ELSE 1
Offset == IF walk.kind = "depthFirst" THEN 0 ELSE 1

LEMMA RestIsPopped ==
  ASSUME walk.frontier \in Seq(Entries), walk.frontier # <<>>
  PROVE  /\ Len(walk.frontier) \in Nat \ {0} /\ Current = walk.frontier[At]
         /\ Len(Rest) = Len(walk.frontier) - 1 /\ Pops(walk.frontier, Rest, Offset)
<1> DEFINE f == walk.frontier
<1>1. Len(f) \in Nat \ {0} BY EmptySeq
<1>2. DOMAIN f = 1 .. Len(f) /\ \A i \in 1 .. Len(f) : f[i] \in Entries BY LenProperties, ElementOfSeq
<1>3. CASE walk.kind = "depthFirst"
  <2>1. Current = f[Len(f)] /\ Rest = SubSeq(f, 1, Len(f) - 1) BY <1>3 DEF Current, Rest, Last, Front
  <2>2. /\ Len(SubSeq(f, 1, Len(f) - 1)) = Len(f) - 1
        /\ \A i \in 1 .. Len(f) - 1 : SubSeq(f, 1, Len(f) - 1)[i] = f[i] /\ i + 0 = i
    BY <1>1, <1>2
  <2> HIDE DEF f
  <2>3. Len(Rest) = Len(f) - 1 /\ Pops(f, Rest, 0) BY <1>1, <2>1, <2>2 DEF Pops
  <2> QED BY <1>1, <1>3, <2>1, <2>3 DEF At, Offset, f
<1>4. CASE walk.kind # "depthFirst"
  <2>1. Current = Head(f) /\ Rest = Tail(f) BY <1>4 DEF Current, Rest
  <2>2. /\ Len(Tail(f)) = Len(f) - 1 /\ \A i \in 1 .. Len(Tail(f)) : Tail(f)[i] = f[i + 1]
        /\ Head(f) = f[1]
    BY HeadTailProperties
  <2> HIDE DEF f
  <2>3. Len(Rest) = Len(f) - 1 /\ Pops(f, Rest, 1) BY <1>1, <2>1, <2>2 DEF Pops
  <2> QED BY <1>1, <1>4, <2>1, <2>2, <2>3 DEF At, Offset, f
<1> QED BY <1>3, <1>4

\* The row of the vertex joins what was popped.
LEMMA RowIsPushed ==
  ASSUME NEW fr, NEW rest \in Seq(Entries), NEW next \in Seq(Entries), NEW row, NEW d, NEW o,
         Len(fr) \in Nat \ {0}, Len(rest) = Len(fr) - 1, Pops(fr, rest, o),
         VerticesOf(next) = row, \A i \in DOMAIN next : next[i].depth = d
  PROVE  Pops(fr, rest \o next, o) /\ Pushes(fr, rest \o next, row, d)
<1> DEFINE m == Len(fr)
           k == Len(next)
           fr2 == rest \o next
<1>1. /\ Len(fr2) = Len(rest) + k
      /\ \A i \in 1 .. Len(rest) + k : fr2[i] = IF i <= Len(rest) THEN rest[i] ELSE next[i - Len(rest)]
      /\ k \in Nat
  BY ConcatProperties, LenProperties
<1>2. DOMAIN next = 1 .. k BY LenProperties
<1>3. \A i \in 1 .. m - 1 : rest[i] = fr[i + o] BY DEF Pops
<1>4. m \in Nat \ {0} /\ Len(rest) = m - 1 OBVIOUS
<1> HIDE DEF m, k, fr2
<1>5. /\ Len(fr2) = m - 1 + k
      /\ \A i \in 1 .. m - 1 : fr2[i] = rest[i]
      /\ \A i \in m .. m - 1 + k : fr2[i] = next[i - (m - 1)]
  <2>1. Len(fr2) = m - 1 + k BY <1>1, <1>4
  <2>2. \A i \in 1 .. m - 1 : i \in 1 .. m - 1 + k /\ i <= m - 1 BY <1>1, <1>4
  <2>3. \A i \in m .. m - 1 + k : i \in 1 .. m - 1 + k /\ ~(i <= m - 1) BY <1>1, <1>4
  <2>4. \A i \in 1 .. m - 1 + k : fr2[i] = IF i <= m - 1 THEN rest[i] ELSE next[i - (m - 1)]
    BY <1>1, <1>4
  <2> QED BY <2>1, <2>2, <2>3, <2>4
<1>6. Pops(fr, fr2, o) BY <1>1, <1>3, <1>4, <1>5 DEF Pops, m
<1>7. ASSUME NEW i \in m .. Len(fr2) PROVE fr2[i].vertex \in row /\ fr2[i].depth = d
  <2>1. i - (m - 1) \in DOMAIN next BY <1>1, <1>2, <1>4, <1>5
  <2> QED BY <1>5, <2>1 DEF VerticesOf
<1>8. ASSUME NEW v \in row PROVE \E i \in m .. Len(fr2) : fr2[i].vertex = v
  <2>1. PICK j \in 1 .. k : next[j].vertex = v BY <1>2 DEF VerticesOf
  <2>2. m - 1 + j \in m .. Len(fr2) /\ m - 1 + j - (m - 1) = j BY <1>1, <1>4, <1>5
  <2>3. fr2[m - 1 + j] = next[j]
    <3> DEFINE i == m - 1 + j
    <3>1. i \in m .. m - 1 + k /\ i - (m - 1) = j BY <1>1, <1>4
    <3> HIDE DEF i
    <3>2. fr2[i] = next[i - (m - 1)] BY <1>5, <3>1
    <3> QED BY <3>1, <3>2 DEF i
  <2> QED BY <2>1, <2>2, <2>3
<1>9. Pushes(fr, fr2, row, d) BY <1>7, <1>8 DEF Pushes, m
<1> QED BY <1>6, <1>9 DEF fr2

LEMMA AppendGrows ==
  ASSUME NEW s \in Seq(Entries), NEW e \in Entries
  PROVE  Grows(s, Append(s, e), e)
BY AppendProperties, LenProperties DEF Grows

\* The order in which a walk has visited the vertices, and what it keeps for that.
WalkOrder(rows, w) ==
  IF w.kind = "depthFirst"
  THEN /\ InOrder(rows, w.start, w.visited)
       /\ w.result # "failed" => \E p : Pushed(rows, w.start, w.visited, w.frontier, p)
  ELSE /\ Within(rows, w.start, w.visited) /\ Nearest(rows, w.start, w.visited)
       /\ w.result # "failed" => Spreads(rows, w.start, w.visited, w.frontier)

LEMMA CallsAreInOrder ==
  ASSUME NEW rows \in [Ids -> SUBSET Ids], NEW kind \in Kinds, NEW order, NEW start \in SUBSET Ids,
         NEW w \in Calls(kind, order, start)
  PROVE  WalkOrder(rows, w)
<1> PICK f \in AtDepth(0, start) :
      w = [kind |-> kind, order |-> order, start |-> start, frontier |-> f,
           visited |-> <<>>, result |-> "walking"]
  BY DEF Calls
<1>1. /\ w.kind = kind /\ w.start = start /\ w.frontier = f /\ w.visited = <<>>
      /\ w.result = "walking"
  OBVIOUS
<1>2. /\ f \in Seq(Entries) /\ VerticesOf(f) = start
      /\ \A i \in DOMAIN f : f[i].depth = 0
  BY AtDepthIsWhole, AtDepthHasDepth
<1>3. DOMAIN f = 1 .. Len(f) /\ Len(f) \in Nat BY <1>2, LenProperties
<1>4. \A i \in 1 .. Len(f) : f[i].vertex \in start /\ f[i].depth = 0 BY <1>2, <1>3 DEF VerticesOf
<1>5. \A v \in start : \E i \in 1 .. Len(f) : f[i].vertex = v BY <1>2, <1>3 DEF VerticesOf
<1>6. Len(<<>>) = 0 /\ \A i \in 1 .. Len(<<>>) : FALSE OBVIOUS
<1>7. CASE kind = "depthFirst"
  <2>1. InOrder(rows, start, <<>>) BY <1>6 DEF InOrder
  <2>2. Pushed(rows, start, <<>>, f, [i \in 1 .. Len(f) |-> 0])
    BY <1>3, <1>4, <1>6 DEF Pushed
  <2> QED BY <1>1, <1>7, <2>1, <2>2 DEF WalkOrder
<1>8. CASE kind # "depthFirst"
  <2>1. Within(rows, start, <<>>) /\ Nearest(rows, start, <<>>) BY <1>6 DEF Within, Nearest
  <2>2. InLevels(f) BY <1>4 DEF InLevels
  <2>3. Within(rows, start, f)
    <3>1. Ball(rows, start, 0) = start BY BallGrows
    <3> QED BY <1>4, <3>1 DEF Within
  <2>4. NotBelow(<<>>, f) BY <1>6 DEF NotBelow
  <2>5. Complete(rows, start, <<>>, f) BY <1>4, <1>5, <1>6 DEF Complete, HasEntry
  <2>6. Spreads(rows, start, <<>>, f) BY <2>2, <2>3, <2>4, <2>5 DEF Spreads
  <2> QED BY <1>1, <1>8, <2>1, <2>6 DEF WalkOrder
<1> QED BY <1>7, <1>8

LEMMA VisitStaysInOrder ==
  ASSUME GraphInv', WalkType, Visit, WalkOrder(Rows(walk.order, g'), walk)
  PROVE  WalkOrder(Rows(walk.order, g'), walk') /\ walk'.kind = walk.kind
<1> DEFINE rows == Rows(walk.order, g')
           start == walk.start
           vis == walk.visited
           fr == walk.frontier
           vis2 == walk'.visited
           fr2 == walk'.frontier
<1>1. walk.result = "walking" /\ fr # <<>> /\ Current.vertex \notin Seen(walk)
  BY DEF Visit, Walking
<1>2. Current \in Entries /\ Rest \in Seq(Entries) BY <1>1, CurrentAndRest DEF WalkType
<1>3. rows \in [Ids -> SUBSET Ids] /\ start \in SUBSET Ids BY DEF GraphInv, Rows, WalkType
<1>4. rows[Current.vertex] \in SUBSET Ids /\ Current.depth + 1 \in Nat BY <1>2, <1>3 DEF Entries
<1> PICK next \in AtDepth(Current.depth + 1, rows[Current.vertex]) :
      walk' = [walk EXCEPT !.frontier = Rest \o next, !.visited = Append(@, Current)]
  BY DEF Visit
<1>5. /\ next \in Seq(Entries) /\ VerticesOf(next) = rows[Current.vertex]
      /\ \A i \in DOMAIN next : next[i].depth = Current.depth + 1
  BY <1>4, AtDepthIsWhole, AtDepthHasDepth
<1>6. /\ fr2 = Rest \o next /\ vis2 = Append(vis, Current)
      /\ walk'.kind = walk.kind /\ walk'.start = start /\ walk'.result = "walking"
  <2>1. walk' = [walk EXCEPT !.frontier = Rest \o next, !.visited = Append(walk.visited, Current)]
    OBVIOUS
  <2>2. walk'.frontier = Rest \o next BY <2>1 DEF WalkType
  <2> QED BY <2>1, <2>2, <1>1 DEF WalkType
<1>7. /\ Len(fr) \in Nat \ {0} /\ Current = fr[At]
      /\ Len(Rest) = Len(fr) - 1 /\ Pops(fr, Rest, Offset)
  BY <1>1, RestIsPopped DEF WalkType
<1>8. Grows(vis, vis2, Current) BY <1>2, <1>6, AppendGrows DEF WalkType
<1>9. Pops(fr, fr2, Offset) /\ Pushes(fr, fr2, rows[Current.vertex], Current.depth + 1)
  BY <1>2, <1>5, <1>6, <1>7, RowIsPushed
<1>10. HaveDepths(vis) /\ HaveDepths(fr) /\ HaveDepths(fr2)
  <2>1. fr2 \in Seq(Entries) BY <1>2, <1>5, <1>6, VerticesOfConcat
  <2> QED BY <2>1, EntriesHaveDepths DEF WalkType
<1>11. Unseen(vis, Len(vis), Current.vertex)
  <2>1. DOMAIN vis = 1 .. Len(vis) BY LenProperties DEF WalkType
  <2> QED BY <1>1, <2>1 DEF Unseen, Seen
<1> HIDE DEF rows, start, vis, fr, vis2, fr2
<1>12. CASE walk.kind = "depthFirst"
  <2>1. Current = fr[Len(fr)] /\ Offset = 0 BY <1>7, <1>12 DEF At, Offset, fr
  <2>2. InOrder(rows, start, vis) /\ \E p : Pushed(rows, start, vis, fr, p)
    BY <1>1, <1>12 DEF WalkOrder, rows, start, vis, fr
  <2>3. PICK p : Pushed(rows, start, vis, fr, p) BY <2>2
  <2>4. Len(vis) \in Nat /\ Len(fr2) \in Nat /\ \A i \in 1 .. Len(vis) : vis[i].depth \in Nat
    BY <1>10 DEF HaveDepths
  <2>5. InOrder(rows, start, vis2) BY <1>7, <1>8, <2>1, <2>2, <2>3, <2>4, VisitedInOrder
  <2>6. \E q : Pushed(rows, start, vis2, fr2, q)
    BY <1>7, <1>8, <1>9, <2>1, <2>3, <2>4, PushedOn
  <2> QED BY <1>6, <1>12, <2>5, <2>6 DEF WalkOrder, vis2, fr2, start, rows
<1>13. CASE walk.kind # "depthFirst"
  <2>1. Current = fr[1] /\ Offset = 1 /\ Len(fr) # 0 BY <1>7, <1>13 DEF At, Offset
  <2>2. Within(rows, start, vis) /\ Nearest(rows, start, vis) /\ Spreads(rows, start, vis, fr)
    BY <1>1, <1>13 DEF WalkOrder, rows, start, vis, fr
  <2>3. Within(rows, start, vis2) /\ Nearest(rows, start, vis2)
    BY <1>3, <1>8, <1>10, <1>11, <2>1, <2>2, VisitedNearest
  <2>4. Spreads(rows, start, vis2, fr2)
    BY <1>3, <1>8, <1>9, <1>10, <2>1, <2>2, VisitSpreads
  <2> QED BY <1>6, <1>13, <2>3, <2>4 DEF WalkOrder, vis2, fr2, start, rows
<1> QED BY <1>6, <1>12, <1>13 DEF rows

LEMMA SkipStaysInOrder ==
  ASSUME WalkType, Skip, NEW rows \in [Ids -> SUBSET Ids], WalkOrder(rows, walk)
  PROVE  WalkOrder(rows, walk') /\ walk'.kind = walk.kind
<1> DEFINE start == walk.start
           vis == walk.visited
           fr == walk.frontier
<1>1. walk.result = "walking" /\ fr # <<>> /\ Current.vertex \in Seen(walk) BY DEF Skip, Walking
<1>2. /\ Len(fr) \in Nat \ {0} /\ Current = fr[At]
      /\ Len(Rest) = Len(fr) - 1 /\ Pops(fr, Rest, Offset)
  BY <1>1, RestIsPopped DEF WalkType
<1>3. walk' = [walk EXCEPT !.frontier = Rest] BY DEF Skip
<1>4. /\ walk'.frontier = Rest /\ walk'.visited = vis
      /\ walk'.kind = walk.kind /\ walk'.start = start /\ walk'.result = "walking"
  BY <1>1, <1>3 DEF WalkType
<1>5. HaveDepths(vis) /\ HaveDepths(fr) BY EntriesHaveDepths DEF WalkType
<1>6. ~Unseen(vis, Len(vis), Current.vertex)
  <2>1. DOMAIN vis = 1 .. Len(vis) BY LenProperties DEF WalkType
  <2> QED BY <1>1, <2>1 DEF Unseen, Seen
<1> HIDE DEF start, vis, fr
<1>7. CASE walk.kind = "depthFirst"
  <2>1. Current = fr[Len(fr)] /\ Offset = 0 BY <1>2, <1>7 DEF At, Offset, fr
  <2>2. InOrder(rows, start, vis) /\ \E p : Pushed(rows, start, vis, fr, p)
    BY <1>1, <1>7 DEF WalkOrder, start, vis, fr
  <2>3. PICK p : Pushed(rows, start, vis, fr, p) BY <2>2
  <2>4. Len(vis) \in Nat BY <1>5 DEF HaveDepths
  <2>5. \E q : Pushed(rows, start, vis, Rest, q) BY <1>2, <1>6, <2>1, <2>3, <2>4, PushedStays
  <2> QED BY <1>4, <1>7, <2>2, <2>5 DEF WalkOrder
<1>8. CASE walk.kind # "depthFirst"
  <2>1. Current = fr[1] /\ Offset = 1 /\ Len(fr) # 0 BY <1>2, <1>8 DEF At, Offset
  <2>2. Within(rows, start, vis) /\ Nearest(rows, start, vis) /\ Spreads(rows, start, vis, fr)
    BY <1>1, <1>8 DEF WalkOrder, start, vis, fr
  <2>3. Spreads(rows, start, vis, Rest) BY <1>2, <1>5, <1>6, <2>1, <2>2, SkipSpreads
  <2> QED BY <1>4, <1>8, <2>2, <2>3 DEF WalkOrder
<1> QED BY <1>4, <1>7, <1>8

LEMMA CallbackFailsInOrder ==
  ASSUME WalkType, CallbackFails, NEW rows \in [Ids -> SUBSET Ids], WalkOrder(rows, walk)
  PROVE  WalkOrder(rows, walk') /\ walk'.kind = walk.kind
<1> DEFINE start == walk.start
           vis == walk.visited
           fr == walk.frontier
           vis2 == walk'.visited
<1>1. walk.result = "walking" /\ fr # <<>> /\ Current.vertex \notin Seen(walk)
  BY DEF CallbackFails, Walking
<1>2. Current \in Entries BY <1>1, CurrentAndRest DEF WalkType
<1>3. walk' = [walk EXCEPT !.visited = Append(walk.visited, Current), !.result = "failed"]
  BY DEF CallbackFails
<1>4. /\ vis2 = Append(vis, Current)
      /\ walk'.kind = walk.kind /\ walk'.start = start /\ walk'.result = "failed"
  <2>1. walk'.result = "failed" BY <1>3 DEF WalkType
  <2>2. walk'.visited = Append(walk.visited, Current) BY <1>3 DEF WalkType
  <2> QED BY <2>1, <2>2, <1>3 DEF WalkType
<1>5. Len(fr) \in Nat \ {0} /\ Current = fr[At] BY <1>1, RestIsPopped DEF WalkType
<1>6. Grows(vis, vis2, Current) BY <1>2, <1>4, AppendGrows DEF WalkType
<1>7. HaveDepths(vis) /\ HaveDepths(fr) /\ start \in SUBSET Ids BY EntriesHaveDepths DEF WalkType
<1>8. Unseen(vis, Len(vis), Current.vertex)
  <2>1. DOMAIN vis = 1 .. Len(vis) BY LenProperties DEF WalkType
  <2> QED BY <1>1, <2>1 DEF Unseen, Seen
<1> HIDE DEF start, vis, fr, vis2
<1>9. CASE walk.kind = "depthFirst"
  <2>1. Current = fr[Len(fr)] BY <1>5, <1>9 DEF At, fr
  <2>2. InOrder(rows, start, vis) /\ \E p : Pushed(rows, start, vis, fr, p)
    BY <1>1, <1>9 DEF WalkOrder, start, vis, fr
  <2>3. PICK p : Pushed(rows, start, vis, fr, p) BY <2>2
  <2>4. Len(vis) \in Nat /\ \A i \in 1 .. Len(vis) : vis[i].depth \in Nat BY <1>7 DEF HaveDepths
  <2>5. InOrder(rows, start, vis2) BY <1>5, <1>6, <2>1, <2>2, <2>3, <2>4, VisitedInOrder
  <2> QED BY <1>4, <1>9, <2>5 DEF WalkOrder, vis2
<1>10. CASE walk.kind # "depthFirst"
  <2>1. Current = fr[1] /\ Len(fr) # 0 BY <1>5, <1>10 DEF At
  <2>2. Within(rows, start, vis) /\ Nearest(rows, start, vis) /\ Spreads(rows, start, vis, fr)
    BY <1>1, <1>10 DEF WalkOrder, start, vis, fr
  <2>3. Within(rows, start, vis2) /\ Nearest(rows, start, vis2)
    BY <1>6, <1>7, <1>8, <2>1, <2>2, VisitedNearest
  <2> QED BY <1>4, <1>10, <2>3 DEF WalkOrder, vis2
<1> QED BY <1>4, <1>9, <1>10

LEMMA FinishStaysInOrder ==
  ASSUME WalkType, Finish, NEW rows, WalkOrder(rows, walk)
  PROVE  WalkOrder(rows, walk') /\ walk'.kind = walk.kind
<1>1. walk.result = "walking" /\ walk' = [walk EXCEPT !.result = "ok"] BY DEF Finish, Walking
<1>2. /\ walk'.frontier = walk.frontier /\ walk'.visited = walk.visited
      /\ walk'.kind = walk.kind /\ walk'.start = walk.start /\ walk'.result # "failed"
  BY <1>1 DEF WalkType
<1> QED BY <1>1, <1>2 DEF WalkOrder

\* The callback of a reduction removes edges of u while the walk reads the rows,
\* but never one of a vertex that was visited: u has none left when it is.
OrderInv ==
  walk.result # "none" =>
    /\ WalkOrder(Rows(walk.order, g), walk)
    /\ reduction.result # "none" =>
         /\ walk.kind = "depthFirst"
         /\ \A u \in Ids : reduction.u = {u} /\ u \in VerticesOf(walk.visited) => g.downEdges[u] = {}

LEMMA InitOrder == Init => OrderInv
<1> SUFFICES ASSUME Init PROVE OrderInv OBVIOUS
<1>1. GraphInv BY InitGraph
<1>2. CASE CallWalk
  <2> PICK v \in g.vertices : \/ Ancestors(v) \/ Descendents(v)
                              \/ BreadthFirstWalk({v}) \/ ReverseBreadthFirstWalk({v})
    BY <1>2 DEF CallWalk
  <2>1. v \in Ids BY <1>1 DEF GraphInv
  <2>2. g.downEdges[v] \in SUBSET Ids /\ g.upEdges[v] \in SUBSET Ids /\ {v} \in SUBSET Ids
    BY <1>1, <2>1 DEF GraphInv
  <2>3. PICK kind \in Kinds, order \in Orders, start \in SUBSET Ids : walk \in Calls(kind, order, start)
    <3>1. "depthFirst" \in Kinds /\ "breadthFirst" \in Kinds /\ "downOrder" \in Orders /\ "upOrder" \in Orders
      BY DEF Kinds, Orders
    <3> QED BY <2>2, <3>1 DEF Ancestors, Descendents, BreadthFirstWalk, ReverseBreadthFirstWalk
  <2>4. Rows(walk.order, g) \in [Ids -> SUBSET Ids] BY <1>1, RowsType
  <2>5. WalkOrder(Rows(walk.order, g), walk) BY <2>3, <2>4, CallsAreInOrder
  <2>6. reduction.result = "none" BY <1>2 DEF CallWalk, NoReduction
  <2> QED BY <2>5, <2>6 DEF OrderInv
<1>3. CASE walk = NoWalk BY <1>3 DEF OrderInv, NoWalk
<1> QED BY <1>2, <1>3 DEF Init, CallReduction, CallStronglyConnected, CallTopologicalOrder

\* The order of a walk does not change, nor that it was called.
LEMMA StepStays ==
  ASSUME WalkType, Visit \/ Skip \/ CallbackFails \/ Finish
  PROVE  walk'.order = walk.order /\ walk.result = "walking"
BY DEF WalkType, Visit, Skip, CallbackFails, Finish, Walking

LEMMA StepStaysInOrder ==
  ASSUME GraphInv, WalkInv, OrderInv, reduction.result = "none", reduction' = reduction, Step
  PROVE  OrderInv'
<1>1. g' = g /\ (Visit \/ Skip \/ CallbackFails \/ Finish) BY DEF Step
<1>2. walk.result = "walking" BY <1>1 DEF Visit, Skip, CallbackFails, Finish, Walking
<1>3. WalkType /\ WalkOrder(Rows(walk.order, g), walk) BY <1>2 DEF WalkInv, OrderInv
<1>4. walk'.order = walk.order BY <1>1, <1>3, StepStays
<1>5. GraphInv' /\ Rows(walk.order, g) \in [Ids -> SUBSET Ids] BY <1>1, RowsType DEF GraphInv
<1>6. WalkOrder(Rows(walk.order, g), walk')
  BY <1>1, <1>3, <1>5, VisitStaysInOrder, SkipStaysInOrder, CallbackFailsInOrder, FinishStaysInOrder
<1> QED BY <1>1, <1>4, <1>6 DEF OrderInv

LEMMA OrderStutters ==
  ASSUME OrderInv, UNCHANGED <<g, walk>>, reduction'.result # "none" =>
           /\ reduction.result # "none"
           /\ \A u \in Ids : reduction'.u = {u} => reduction.u = {u}
  PROVE  OrderInv'
<1>1. g' = g /\ walk' = walk OBVIOUS
<1> QED BY <1>1 DEF OrderInv, VerticesOf

\* What is visited when, and which edges are left then, in a reduction.
LEMMA PruneStaysInOrder ==
  ASSUME GraphInv, GraphInv', WalkInv, ReductionInv, OrderInv, NEW u \in Ids, Prune(u)
  PROVE  OrderInv'
<1> DEFINE rows == g.downEdges
           fewer == g'.downEdges
           w == Current.vertex
<1>1. /\ reduction.result = "reducing" /\ reduction' = reduction /\ reduction.u = {u} /\ Visit
      /\ walk.result = "walking"
  BY DEF Prune, Reducing, Walking
<1>2. IsGraph(g) /\ walk.order = "downOrder" /\ WalkType
  BY <1>1 DEF ReductionInv, ReductionTyped, WalkSpares, WalkInv
<1>3. /\ WalkOrder(rows, walk) /\ walk.kind = "depthFirst"
      /\ u \in VerticesOf(walk.visited) => rows[u] = {}
  BY <1>1, <1>2 DEF OrderInv, Rows
<1>4. \A v \in Ids : fewer[v] = IF v = u THEN rows[v] \ rows[w] ELSE rows[v]
  BY <1>2, PruneLoses DEF LosesShared
<1>5. Rows(walk.order, g') = fewer BY <1>2 DEF Rows
<1>6. /\ walk'.order = "downOrder" /\ w \in Ids
      /\ VerticesOf(walk'.visited) = VerticesOf(walk.visited) \cup {w}
  BY <1>1, <1>2, VisitAdds
<1>7. VerticesOf(walk.visited) \in SUBSET Ids BY <1>2, VerticesOfType DEF WalkType
<1>8. \A v \in VerticesOf(walk.visited) : fewer[v] = rows[v] BY <1>3, <1>4, <1>7
<1>9. u \in VerticesOf(walk'.visited) => fewer[u] = {} BY <1>3, <1>4, <1>6
<1>10. WalkOrder(fewer, walk)
  <2>1. \A i \in 1 .. Len(walk.visited) : walk.visited[i].vertex \in VerticesOf(walk.visited)
    <3>1. DOMAIN walk.visited = 1 .. Len(walk.visited) BY <1>2, LenProperties DEF WalkType
    <3> QED BY <3>1 DEF VerticesOf
  <2>2. Len(walk.visited) \in Nat BY <1>2, LenProperties DEF WalkType
  <2>3. \A i \in 1 .. Len(walk.visited) : fewer[walk.visited[i].vertex] = rows[walk.visited[i].vertex]
    BY <1>8, <2>1
  <2>4. InOrder(rows, walk.start, walk.visited)
        /\ \E p : Pushed(rows, walk.start, walk.visited, walk.frontier, p)
    BY <1>1, <1>3 DEF WalkOrder
  <2>5. PICK p : Pushed(rows, walk.start, walk.visited, walk.frontier, p) BY <2>4
  <2> HIDE DEF rows, fewer
  <2>6. InOrder(fewer, walk.start, walk.visited)
        /\ Pushed(fewer, walk.start, walk.visited, walk.frontier, p)
    BY <2>2, <2>3, <2>4, <2>5, OrderIgnoresOthers
  <2> QED BY <1>3, <2>6 DEF WalkOrder
<1>11. WalkOrder(fewer, walk') /\ walk'.kind = "depthFirst"
  BY <1>1, <1>2, <1>3, <1>5, <1>10, VisitStaysInOrder
<1>12. Rows(walk'.order, g') = fewer BY <1>6 DEF Rows
<1>13. \A v \in Ids : reduction'.u = {v} => v = u BY <1>1
<1> QED BY <1>9, <1>11, <1>12, <1>13 DEF OrderInv

LEMMA ReduceStaysInOrder ==
  ASSUME GraphInv, GraphInv', WalkInv, ReductionInv, OrderInv, ReduceStep
  PROVE  OrderInv'
<1>1. reduction.result = "reducing" BY DEF ReduceStep, NextVertex, Prune, WalkOn, VertexDone, Reduced, Reducing
<1>2. ReductionOK(reduction) BY <1>1 DEF ReductionInv, ReductionTyped
<1>3. ASSUME NEW u \in Ids, NextVertex(u) PROVE OrderInv'
  <2>1. g' = g /\ walk' \in Calls("depthFirst", "downOrder", g.downEdges[u]) BY <1>3 DEF NextVertex
  <2>2. g.downEdges \in [Ids -> SUBSET Ids] /\ g.downEdges[u] \in SUBSET Ids BY DEF GraphInv
  <2>3. walk'.kind = "depthFirst" /\ walk'.order = "downOrder" /\ walk'.visited = <<>>
    BY <2>1 DEF Calls
  <2>4. WalkOrder(g.downEdges, walk') BY <2>1, <2>2, CallsAreInOrder DEF Kinds
  <2>5. VerticesOf(walk'.visited) = {} BY <2>3 DEF VerticesOf
  <2> QED BY <2>1, <2>3, <2>4, <2>5 DEF OrderInv, Rows
<1>4. ASSUME NEW u \in Ids, Prune(u) PROVE OrderInv' BY <1>4, PruneStaysInOrder
<1>5. ASSUME WalkOn \/ VertexDone PROVE OrderInv'
  <2>1. g' = g /\ (Skip \/ Finish) BY <1>5 DEF WalkOn, VertexDone
  <2>2. walk.result = "walking" BY <2>1 DEF Skip, Finish, Walking
  <2>3. WalkType /\ WalkOrder(Rows(walk.order, g), walk) /\ walk.kind = "depthFirst"
    BY <1>1, <2>2 DEF WalkInv, OrderInv
  <2>4. walk'.order = walk.order BY <2>1, <2>3, StepStays
  <2>5. Rows(walk.order, g) \in [Ids -> SUBSET Ids] BY RowsType
  <2>6. WalkOrder(Rows(walk.order, g), walk') /\ walk'.kind = "depthFirst"
    BY <2>1, <2>3, <2>5, SkipStaysInOrder, FinishStaysInOrder
  <2>7. walk'.visited = walk.visited BY <2>1, <2>3 DEF Skip, Finish, WalkType
  <2>8. \A u \in Ids : reduction'.u = {u} => reduction.u = {u}
    <3>1. CASE WalkOn BY <3>1 DEF WalkOn
    <3>2. CASE VertexDone
      <4>1. reduction' = [reduction EXCEPT !.u = {}] BY <3>2 DEF VertexDone
      <4>2. reduction'.u = {} BY <1>2, <4>1 DEF ReductionOK
      <4> QED BY <4>2
    <3> QED BY <1>5, <3>1, <3>2
  <2> QED BY <1>1, <2>1, <2>2, <2>3, <2>4, <2>6, <2>7, <2>8 DEF OrderInv, VerticesOf
<1>6. ASSUME Reduced PROVE OrderInv'
  <2>1. reduction' = [reduction EXCEPT !.result = "reduced"] /\ UNCHANGED <<g, walk>> BY <1>6 DEF Reduced
  <2>2. reduction'.u = reduction.u BY <1>2, <2>1 DEF ReductionOK
  <2> QED BY <1>1, <2>1, <2>2, OrderStutters
<1> QED BY <1>3, <1>4, <1>5, <1>6 DEF ReduceStep

LEMMA OrderIsShortest ==
  ASSUME WalkInv, OrderInv
  PROVE  BreadthFirstIsShortest
<1> SUFFICES ASSUME walk.result # "none", walk.kind = "breadthFirst", NEW i \in DOMAIN walk.visited
             PROVE  LET v == walk.visited[i].vertex
                        d == walk.visited[i].depth
                    IN  /\ v \in Ball(Rows(walk.order, g), walk.start, d)
                        /\ d > 0 => v \notin Ball(Rows(walk.order, g), walk.start, d - 1)
  BY DEF BreadthFirstIsShortest
<1>1. i \in 1 .. Len(walk.visited) BY LenProperties DEF WalkInv, WalkType
<1>2. /\ Within(Rows(walk.order, g), walk.start, walk.visited)
      /\ Nearest(Rows(walk.order, g), walk.start, walk.visited)
  BY DEF OrderInv, WalkOrder
<1> QED BY <1>1, <1>2 DEF Within, Nearest

LEMMA OrderIsDepthFirst ==
  ASSUME WalkInv, OrderInv
  PROVE  DepthFirstOrder
<1> SUFFICES ASSUME walk.result # "none", walk.kind = "depthFirst" PROVE DepthFirstOrder
  BY DEF DepthFirstOrder
<1> DEFINE rows == Rows(walk.order, g)
           vis == walk.visited
<1>1. /\ DOMAIN vis = 1 .. Len(vis) /\ Len(vis) \in Nat /\ VisitedOnce /\ InOrder(rows, walk.start, vis)
  BY LenProperties DEF WalkInv, WalkType, OrderInv, WalkOrder
<1>2. ASSUME NEW a \in DOMAIN vis, NEW b \in DOMAIN vis, NEW c \in DOMAIN vis,
             a < b, b < c, vis[c].vertex \in rows[vis[a].vertex]
      PROVE  \E d \in a .. b - 1 : vis[b].vertex \in rows[vis[d].vertex]
  <2>1. ASSUME NEW i \in 1 .. b, vis[i].vertex = vis[c].vertex PROVE FALSE
    <3>1. i \in DOMAIN vis /\ i # c BY <1>1, <1>2
    <3> QED BY <1>1, <2>1, <3>1 DEF VisitedOnce
  <2>2. Unseen(vis, b, vis[c].vertex) BY <2>1 DEF Unseen
  <2> HIDE DEF rows, vis
  <2> QED BY <1>1, <1>2, <2>2 DEF InOrder, FromRow
<1>3. ASSUME NEW b \in DOMAIN vis
      PROVE  IF vis[b].depth = 0 THEN vis[b].vertex \in walk.start
             ELSE \E a \in 1 .. b - 1 : /\ vis[b].vertex \in rows[vis[a].vertex]
                                        /\ vis[b].depth = vis[a].depth + 1
  <2> HIDE DEF rows, vis
  <2> QED BY <1>1, <1>3 DEF InOrder, FoundAt, FromRow
<1> QED BY <1>2, <1>3 DEF DepthFirstOrder

-----------------------------------------------------------------------------
(* The calls.                                                              *)

\* A reduction changes the graph and starts walks of its own; no other call
\* does, and a call that sorts or searches does not reduce.
CallInv ==
  /\ GraphInv /\ WalkInv /\ OrderInv /\ ReductionInv
  /\ reduction.result = "none" => EdgesInv /\ SortInv /\ SearchInv
  /\ reduction.result # "none" => topo.result = "none" /\ scc.result = "none"

LEMMA InitCall == Init => CallInv
<1> SUFFICES ASSUME Init PROVE CallInv OBVIOUS
<1>1. GraphInv /\ EdgesInv /\ WalkInv /\ SortInv /\ SearchInv /\ ReductionInv /\ OrderInv
  BY InitGraph, InitEdges, InitWalk, InitSort, InitSearch, InitReduction, InitOrder
<1>2. reduction = NoReduction \/ (reduction = NewReduction /\ topo = T!NoSort /\ scc = S!NoSearch)
  BY DEF Init, CallWalk, CallReduction, CallStronglyConnected, CallTopologicalOrder
<1> QED BY <1>1, <1>2 DEF CallInv, NoReduction, NewReduction, T!NoSort, S!NoSearch

LEMMA NextCall == CallInv /\ [Next]_vars => CallInv'
<1> SUFFICES ASSUME CallInv, [Next]_vars PROVE CallInv' OBVIOUS
<1>1. CASE reduction.result # "none"
  <2>1. topo.result = "none" /\ scc.result = "none" BY <1>1 DEF CallInv
  <2>2. UNCHANGED <<topo, scc>>
    <3>1. UNCHANGED topo
      BY <2>1 DEF Next, T!Step, T!VisitRoot, T!VisitNext, T!Sorted, T!Finish, T!Sorting, vars
    <3>2. UNCHANGED scc
      BY <2>1 DEF Next, S!Step, S!TryRoot, S!LookAt, S!Return, S!Finish, S!Searching, vars
    <3> QED BY <3>1, <3>2
  <2>3. CASE ReduceStep
    <3>1. GraphInv' /\ WalkInv' /\ ReductionInv' /\ reduction'.result # "none"
      BY <1>1, <2>3, ReduceStepKeeps DEF CallInv
    <3>2. OrderInv' BY <2>3, <3>1, ReduceStaysInOrder DEF CallInv
    <3> QED BY <2>1, <2>2, <3>1, <3>2 DEF CallInv
  <2>4. CASE ~ReduceStep
    <3>1. UNCHANGED <<g, walk, reduction>> BY <1>1, <2>4 DEF Next, S!Step, T!Step, vars
    <3>2. GraphInv' /\ WalkInv' /\ ReductionInv' BY <3>1, ReductionStutters DEF CallInv
    <3>3. OrderInv' BY <1>1, <3>1, OrderStutters DEF CallInv
    <3> QED BY <1>1, <2>1, <2>2, <3>1, <3>2, <3>3 DEF CallInv
  <2> QED BY <2>3, <2>4
<1>2. CASE reduction.result = "none"
  <2>1. GraphInv /\ EdgesInv /\ WalkInv /\ OrderInv /\ SortInv /\ SearchInv BY <1>2 DEF CallInv
  <2>2. UNCHANGED <<g, reduction>> BY <1>2, GraphStays
  <2>3. GraphInv' /\ EdgesInv' BY <2>1, <2>2 DEF GraphInv, EdgesInv
  <2>4. WalkInv' /\ OrderInv'
    <3>1. CASE Step BY <1>2, <2>1, <2>2, <3>1, StepKeeps, StepStaysInOrder
    <3>2. CASE UNCHANGED walk
      <4>1. OrderInv' BY <1>2, <2>1, <2>2, <3>2, OrderStutters
      <4> QED BY <2>1, <2>2, <3>2, <4>1, WalkStutters
    <3> QED BY <1>2, <3>1, <3>2
        DEF Next, S!Step, T!Step, ReduceStep, NextVertex, Prune, WalkOn, VertexDone, Reduced,
            Reducing, vars
  <2>5. SortInv'
    <3>1. CASE T!Step BY <3>1, <2>1, SortKeeps
    <3>2. CASE UNCHANGED topo
      <4>1. topo' = topo /\ g' = g BY <3>2, <2>2
      <4>2. CASE topo.result = "none" BY <4>1, <4>2 DEF SortInv
      <4>3. CASE topo.result # "none"
        <5>1. SortOK(topo', {}) BY <4>1, <4>3, <2>1 DEF SortInv
        <5> QED BY <5>1, <2>2, SortOKNext DEF SortInv
      <4> QED BY <4>2, <4>3
    <3> QED BY <3>1, <3>2 DEF Next, vars, S!Step, Step, ReduceStep
  <2>6. SearchInv'
    <3>1. CASE S!Step BY <3>1, <2>1, SearchStepKeeps
    <3>2. CASE UNCHANGED scc
      <4>1. scc' = scc /\ g' = g BY <3>2, <2>2
      <4>2. CASE scc.result = "none" BY <4>1, <4>2 DEF SearchInv
      <4>3. CASE scc.result # "none"
        <5>1. SearchOK(scc', {}) BY <4>1, <4>3, <2>1 DEF SearchInv
        <5> QED BY <5>1, <2>2, SearchOKNext DEF SearchInv
      <4> QED BY <4>2, <4>3
    <3> QED BY <3>1, <3>2 DEF Next, vars, T!Step, Step, ReduceStep
  <2>7. ReductionInv' BY <1>2, <2>2 DEF ReductionInv
  <2> QED BY <2>2, <2>3, <2>4, <2>5, <2>6, <2>7, <1>2 DEF CallInv
<1> QED BY <1>1, <1>2

LEMMA CallInvariant == Spec => []CallInv
<1> QED BY InitCall, NextCall, PTL DEF Spec

\* DepthFirstWalk, Ancestors, Descendents and the breadth-first walks call back
\* once for each vertex they reach, for no other, and for all of them unless the
\* callback fails: also when the callback removes edges, as a reduction does.
THEOREM WalksAreExact == Spec => []WalkIsExact
<1>1. CallInv => WalkIsExact BY FoundIsExact DEF CallInv
<1> QED BY <1>1, CallInvariant, PTL

\* BreadthFirstWalk and ReverseBreadthFirstWalk call back with the distance of
\* each vertex from the start, whatever order the rows join the queue in.
THEOREM BreadthFirstShortest == Spec => []BreadthFirstIsShortest
<1>1. CallInv => BreadthFirstIsShortest BY OrderIsShortest DEF CallInv
<1> QED BY <1>1, CallInvariant, PTL

\* A depth-first walk goes on from the vertex it found last, with a depth that is
\* one more than where it came from: also when its callback removes edges.
THEOREM DepthFirstOrdered == Spec => []DepthFirstOrder
<1>1. CallInv => DepthFirstOrder BY OrderIsDepthFirst DEF CallInv
<1> QED BY <1>1, CallInvariant, PTL

\* topoOrder returns every vertex once, after those that come before it, and
\* panics on the graphs that have a cycle and on no other.
THEOREM OrdersAreTopological == Spec => []OrderIsTopological
<1>1. CallInv => OrderIsTopological
  <2>1. CASE topo.result = "none" BY <2>1 DEF OrderIsTopological, T!OrderIsTopological
  <2>2. CASE topo.result # "none"
    BY <2>2, SortIsTopological DEF CallInv, OrderIsTopological
  <2> QED BY <2>1, <2>2
<1> QED BY <1>1, CallInvariant, PTL

\* StronglyConnected returns the strongly connected components: every vertex is
\* in one, two vertices are in the same one when each reaches the other, and a
\* component comes after those it reaches.
THEOREM ComponentsExact == Spec => []ComponentsAreExact
<1>1. CallInv => ComponentsAreExact
  <2>1. CASE scc.result = "none" BY <2>1 DEF ComponentsAreExact, S!ComponentsAreExact
  <2>2. CASE scc.result # "none" BY <2>2, SearchIsExact DEF CallInv
  <2> QED BY <2>1, <2>2
<1> QED BY <1>1, CallInvariant, PTL

\* Validate accepts the graphs a walk can run on, and no other: one root that
\* reaches every vertex, and no vertices that wait for each other.
THEOREM ValidateExact == Spec => []ValidateIsExact
<1>1. CallInv => ValidateIsExact
  <2>1. CASE scc.result = "none" BY <2>1 DEF ValidateIsExact
  <2>2. CASE scc.result # "none" BY <2>2, ValidationIsExact DEF CallInv
  <2> QED BY <2>1, <2>2
<1> QED BY <1>1, CallInvariant, PTL

\* TransitiveReduction changes nothing about what a vertex reaches at any time,
\* and at its end has removed every edge that is not needed for that, although
\* it removes edges from the rows its walk reads.
THEOREM ReductionsAreExact == Spec => []ReductionIsExact
<1>1. ReductionInv => ReductionIsExact
  BY DEF ReductionInv, ReductionTyped, ReductionKept, Needed, ReductionIsExact
<1>2. CallInv => ReductionIsExact BY <1>1 DEF CallInv
<1> QED BY <1>2, CallInvariant, PTL
==============================================================================
