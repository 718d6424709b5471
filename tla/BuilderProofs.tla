---------------------------- MODULE BuilderProofs ----------------------------
(***************************************************************************)
(* Theorems about Builder, for every set of configurations, every sequence *)
(* of registered components and all statuses of earlier runs.              *)
(***************************************************************************)
EXTENDS Builder, SequenceTheorems, FiniteSetTheorems, TLAPS

USE BuilderAssumption DEF BuilderAssumption

-----------------------------------------------------------------------------
(* What the loops go over.                                                 *)

\* A claim about numbers is refuted at the least number it fails for.
LEMMA LeastNat ==
  ASSUME NEW N \in SUBSET Nat, N # {}
  PROVE  \E n \in N : \A m \in N : n <= m
<1>1. PICK n \in N : \A m \in N : ~(<<m, n>> \in OpToRel(<, Nat))
  BY NatLessThanWellFounded, WFMin
<1>2. \A m \in N : ~(m < n) BY <1>1 DEF OpToRel
<1> QED BY <1>2

\* A flattened sequence is a sequence of what the sequences in it hold.  That
\* there is a function as FlattenSeq defines it, and what it returns, is
\* shown for the least index at which it could fail.
FlattenStep(seqs, f, i) == IF i = 1 THEN seqs[i] ELSE f[i-1] \o seqs[i]
Flattens(D, seqs, f, k) ==
  f \in [1 .. k -> Seq(D)] /\ \A i \in 1 .. k : f[i] = FlattenStep(seqs, f, i)
CanFlatten(D, seqs, k) == \E f : Flattens(D, seqs, f, k)

LEMMA FlattensOn ==
  ASSUME NEW D, NEW seqs \in Seq(Seq(D)), NEW k \in 1 .. Len(seqs), CanFlatten(D, seqs, k - 1)
  PROVE  CanFlatten(D, seqs, k)
<1>1. PICK f : Flattens(D, seqs, f, k - 1) BY DEF CanFlatten
<1>2. k \in Nat \ {0} /\ seqs[k] \in Seq(D) BY LenProperties, ElementOfSeq
<1>3. /\ f \in [1 .. k - 1 -> Seq(D)]
      /\ \A i \in 1 .. k - 1 : f[i] = IF i = 1 THEN seqs[i] ELSE f[i-1] \o seqs[i]
  BY <1>1 DEF Flattens, FlattenStep
<1> DEFINE last == FlattenStep(seqs, f, k)
           h == [i \in 1 .. k |-> IF i = k THEN last ELSE f[i]]
<1>4. last \in Seq(D)
  <2>1. CASE k = 1 BY <1>2, <2>1 DEF FlattenStep
  <2>2. CASE k # 1
    <3>1. k - 1 \in 1 .. k - 1 BY <1>2, <2>2
    <3>2. f[k-1] \in Seq(D) BY <1>3, <3>1
    <3> QED BY <1>2, <2>2, <3>2, ConcatProperties DEF FlattenStep
  <2> QED BY <2>1, <2>2
<1>5. \A i \in 1 .. k : i = k \/ i \in 1 .. k - 1 BY <1>2
<1>6. h \in [1 .. k -> Seq(D)]
  <2> HIDE DEF last
  <2> QED BY <1>3, <1>4, <1>5
<1>7. h[k] = last /\ \A i \in 1 .. k - 1 : h[i] = f[i]
  <2> HIDE DEF last
  <2> QED BY <1>2
<1>8. \A i \in 1 .. k : i = 1 \/ i - 1 \in 1 .. k - 1 BY <1>2
<1> HIDE DEF h
<1>9. ASSUME NEW i \in 1 .. k PROVE h[i] = FlattenStep(seqs, h, i)
  <2>1. CASE i = k
    <3>1. i = 1 \/ h[i-1] = f[i-1] BY <1>7, <1>8
    <3> QED BY <2>1, <3>1, <1>7 DEF FlattenStep
  <2>2. CASE i # k
    <3>1. i = 1 \/ h[i-1] = f[i-1] BY <1>7, <1>8
    <3>2. i \in 1 .. k - 1 BY <2>2, <1>5
    <3> QED BY <3>1, <3>2, <1>3, <1>7 DEF FlattenStep
  <2> QED BY <2>1, <2>2
<1> QED BY <1>6, <1>9 DEF Flattens, CanFlatten

LEMMA FlattenIsSeq ==
  ASSUME NEW D, NEW seqs \in Seq(Seq(D))
  PROVE  FlattenSeq(seqs) \in Seq(D)
<1> DEFINE n == Len(seqs)
<1>1. n \in Nat /\ \A i \in 1 .. n : seqs[i] \in Seq(D) BY LenProperties, ElementOfSeq
<1>2. CanFlatten(D, seqs, n)
  <2> DEFINE N == {k \in 0 .. n : ~CanFlatten(D, seqs, k)}
  <2> SUFFICES ASSUME N # {} PROVE FALSE BY <1>1
  <2>1. N \in SUBSET Nat OBVIOUS
  <2>2. PICK k \in N : \A m \in N : k <= m
    <3> HIDE DEF N
    <3> QED BY <2>1, LeastNat
  <2>3. CanFlatten(D, seqs, 0)
    <3>1. Flattens(D, seqs, [i \in 1 .. 0 |-> <<>>], 0) BY DEF Flattens
    <3> QED BY <3>1 DEF CanFlatten
  <2>4. k \in 1 .. n /\ k - 1 \in 0 .. n /\ ~(k <= k - 1)
    <3>1. k \in 0 .. n /\ k # 0 BY <2>3
    <3> QED BY <1>1, <3>1
  <2>5. CanFlatten(D, seqs, k - 1) BY <2>2, <2>4
  <2> QED BY <2>4, <2>5, FlattensOn
<1>3. ASSUME n # 0 PROVE FlattenSeq(seqs) \in Seq(D)
  <2> DEFINE flatten == CHOOSE f : f = [i \in 1 .. n |-> FlattenStep(seqs, f, i)]
  <2>1. PICK f : Flattens(D, seqs, f, n) BY <1>2 DEF CanFlatten
  <2>2. f = [i \in 1 .. n |-> FlattenStep(seqs, f, i)] BY <2>1 DEF Flattens
  <2>3. flatten = [i \in 1 .. n |-> FlattenStep(seqs, flatten, i)] BY <2>2
  <2>4. FlattenSeq(seqs) = flatten[n] BY <1>3 DEF FlattenSeq, FlattenStep
  <2> HIDE DEF flatten
  <2> DEFINE N == {i \in 1 .. n : flatten[i] \notin Seq(D)}
  <2>5. ASSUME N # {} PROVE FALSE
    <3>1. N \in SUBSET Nat OBVIOUS
    <3>2. PICK k \in N : \A m \in N : k <= m
      <4> HIDE DEF N
      <4> QED BY <2>5, <3>1, LeastNat
    <3>3. flatten[k] = FlattenStep(seqs, flatten, k) BY <2>3
    <3>4. CASE k = 1 BY <1>1, <3>3, <3>4 DEF FlattenStep
    <3>5. CASE k # 1
      <4>1. k - 1 \in 1 .. n /\ ~(k <= k - 1) BY <1>1, <3>5
      <4>2. flatten[k-1] \in Seq(D) BY <3>2, <4>1
      <4> QED BY <1>1, <3>3, <3>5, <4>2, ConcatProperties DEF FlattenStep
    <3> QED BY <3>4, <3>5
  <2> QED BY SMTT(40), <1>1, <1>3, <2>4, <2>5
<1>4. ASSUME n = 0 PROVE FlattenSeq(seqs) \in Seq(D)
  <2>1. seqs = <<>> BY <1>4, EmptySeq
  <2> QED BY <1>4, <2>1 DEF FlattenSeq
<1> QED BY <1>3, <1>4

LEMMA DependenciesType ==
  ASSUME conf \in Confs
  PROVE  /\ Tasks \in Seq(TaskConf)
         /\ ConfIds \subseteq Ids
         /\ Dependencies \in Seq(DependencyConf \X ConfIds)
<1>1. Tasks \in Seq(TaskConf) BY DEF Tasks
<1> DEFINE of(i) == [j \in DOMAIN Tasks[i].depends |-> <<Tasks[i].depends[j], Tasks[i].id>>]
<1>2. ASSUME NEW i \in DOMAIN Tasks
      PROVE  of(i) \in Seq(DependencyConf \X ConfIds) /\ Tasks[i].id \in Ids
  <2>1. Tasks[i] \in TaskConf /\ Tasks[i].id \in ConfIds
    BY <1>1, LenProperties, ElementOfSeq DEF ConfIds
  <2>2. Tasks[i].id \in Ids /\ Tasks[i].depends \in Seq(DependencyConf) BY <2>1 DEF TaskConf
  <2>3. /\ DOMAIN Tasks[i].depends = 1 .. Len(Tasks[i].depends) /\ Len(Tasks[i].depends) \in Nat
        /\ \A j \in DOMAIN Tasks[i].depends : Tasks[i].depends[j] \in DependencyConf
    BY <2>2, LenProperties, ElementOfSeq
  <2> QED BY <2>1, <2>2, <2>3, IsASeq
<1>3. DOMAIN Tasks = 1 .. Len(Tasks) /\ Len(Tasks) \in Nat BY <1>1, LenProperties
<1>4. [i \in DOMAIN Tasks |-> of(i)] \in Seq(Seq(DependencyConf \X ConfIds))
  <2> HIDE DEF of
  <2> QED BY <1>2, <1>3, IsASeq
<1>5. Dependencies = FlattenSeq([i \in DOMAIN Tasks |-> of(i)]) BY DEF Dependencies
<1>6. ConfIds \subseteq Ids BY <1>2 DEF ConfIds
<1> QED BY <1>1, <1>4, <1>5, <1>6, FlattenIsSeq

-----------------------------------------------------------------------------
(* The registry.                                                           *)

\* Two levels of maps, and what a registration changes of them: what is found
\* under the name and the namespace of the component, and nothing else.
IsRegistry(reg) == \E default, custom : reg = [default |-> default, custom |-> custom]

Found(map, key) == {map[k] : k \in {key} \cap DOMAIN map}

LEMMA PutFound ==
  ASSUME NEW map, NEW key, NEW val, NEW k
  PROVE  /\ Found(Put(map, key, val), key) = {val}
         /\ k # key => Found(Put(map, key, val), k) = Found(map, k)
<1> DEFINE more == Put(map, key, val)
<1>1. /\ DOMAIN more = {key} \cup DOMAIN map /\ more[key] = val
      /\ \A x \in DOMAIN map : x # key => more[x] = map[x]
  BY DEF Put
<1> HIDE DEF more
<1>2. Found(more, key) = {val}
  <2>1. {key} \cap DOMAIN more = {key} BY <1>1
  <2> QED BY <1>1, <2>1 DEF Found
<1>3. ASSUME k # key PROVE Found(more, k) = Found(map, k)
  <2>1. {k} \cap DOMAIN more = {k} \cap DOMAIN map BY <1>1, <1>3
  <2>2. \A x \in {k} \cap DOMAIN map : more[x] = map[x] BY <1>1, <1>3
  <2> QED BY <2>1, <2>2 DEF Found
<1> QED BY <1>2, <1>3 DEF more

LEMMA RegisteredFound ==
  ASSUME NEW reg, IsRegistry(reg), NEW c, NEW name, NEW namespace
  PROVE  /\ IsRegistry(Registered(reg, c))
         /\ GetComponent(Registered(reg, c), name, namespace) =
              IF c.name = name /\ c.namespace = namespace THEN {c}
              ELSE GetComponent(reg, name, namespace)
<1> PICK default, custom : reg = [default |-> default, custom |-> custom] BY DEF IsRegistry
<1>1. reg.default = default /\ reg.custom = custom OBVIOUS
<1>2. CASE c.namespace = NoNamespace
  <2> DEFINE more == Put(default, c.name, c)
  <2>1. /\ name = c.name => Found(more, name) = {c}
        /\ name # c.name => Found(more, name) = Found(default, name)
    <3>1. Found(more, c.name) = {c} BY PutFound
    <3>2. name # c.name => Found(more, name) = Found(default, name) BY PutFound
    <3> QED BY <3>1, <3>2
  <2>2. Registered(reg, c) = [default |-> more, custom |-> custom]
    BY <1>2 DEF Registered
  <2> HIDE DEF more
  <2>3. IsRegistry(Registered(reg, c)) BY <2>2 DEF IsRegistry
  <2>4. Registered(reg, c).default = more /\ Registered(reg, c).custom = custom BY <2>2
  <2>5. CASE namespace = NoNamespace
    <3>1. /\ GetComponent(Registered(reg, c), name, namespace) = Found(more, name)
          /\ GetComponent(reg, name, namespace) = Found(default, name)
      BY <1>1, <2>4, <2>5 DEF GetComponent, Found
    <3> QED BY <1>2, <2>1, <2>3, <2>5, <3>1
  <2>6. CASE namespace # NoNamespace
    <3>1. GetComponent(Registered(reg, c), name, namespace) = GetComponent(reg, name, namespace)
      BY <1>1, <2>4, <2>6 DEF GetComponent
    <3> QED BY <1>2, <2>3, <2>6, <3>1
  <2> QED BY <2>5, <2>6
<1>3. CASE c.namespace # NoNamespace
  <2> DEFINE known == IF c.namespace \in DOMAIN custom THEN custom[c.namespace] ELSE <<>>
             own == Put(known, c.name, c)
             more == Put(custom, c.namespace, own)
  <2>1. /\ name = c.name => Found(own, name) = {c}
        /\ name # c.name => Found(own, name) = Found(known, name)
    <3> HIDE DEF known
    <3>1. Found(own, c.name) = {c} BY PutFound
    <3>2. name # c.name => Found(own, name) = Found(known, name) BY PutFound
    <3> QED BY <3>1, <3>2
  <2>2. c.namespace \notin DOMAIN custom => DOMAIN known = {} OBVIOUS
  <2>3. Registered(reg, c) = [default |-> default, custom |-> more]
    BY <1>3 DEF Registered
  <2> HIDE DEF own
  <2>4. /\ DOMAIN more = {c.namespace} \cup DOMAIN custom /\ more[c.namespace] = own
        /\ \A s \in DOMAIN custom : s # c.namespace => more[s] = custom[s]
    BY DEF Put
  <2> HIDE DEF more
  <2>5. IsRegistry(Registered(reg, c)) BY <2>3 DEF IsRegistry
  <2>6. Registered(reg, c).default = default /\ Registered(reg, c).custom = more BY <2>3
  <2>7. CASE namespace = NoNamespace BY <1>1, <1>3, <2>5, <2>6, <2>7 DEF GetComponent
  <2>8. CASE namespace # NoNamespace /\ namespace # c.namespace
    <3>1. GetComponent(Registered(reg, c), name, namespace) = GetComponent(reg, name, namespace)
      BY <1>1, <2>4, <2>6, <2>8 DEF GetComponent
    <3> QED BY <2>5, <2>8, <3>1
  <2>9. CASE namespace = c.namespace
    <3>1. GetComponent(Registered(reg, c), name, namespace) = Found(own, name)
      BY <1>3, <2>4, <2>6, <2>9 DEF GetComponent, Found
    <3>2. GetComponent(reg, name, namespace) = Found(known, name)
      <4>1. CASE c.namespace \in DOMAIN custom BY <1>1, <1>3, <2>9, <4>1 DEF GetComponent, Found
      <4>2. CASE c.namespace \notin DOMAIN custom BY <1>1, <1>3, <2>2, <2>9, <4>2 DEF GetComponent, Found
      <4> QED BY <4>1, <4>2
    <3> HIDE DEF known
    <3> QED BY <2>1, <2>5, <2>9, <3>1, <3>2
  <2> QED BY <2>7, <2>8, <2>9
<1> QED BY <1>2, <1>3

\* After n registrations, a name and a namespace find the last component that
\* was registered under exactly both.
LastUnder(n, name, namespace, i) ==
  /\ i \in 1 .. n /\ registrations[i].name = name /\ registrations[i].namespace = namespace
  /\ \A j \in 1 .. n : registrations[j].name = name /\ registrations[j].namespace = namespace => j <= i

Holds(reg, n) ==
  /\ IsRegistry(reg)
  /\ \A name, namespace :
       GetComponent(reg, name, namespace) =
         {registrations[i] : i \in {j \in 1 .. n : LastUnder(n, name, namespace, j)}}

LEMMA RegisterHolds ==
  ASSUME registrations \in Registrations, NEW n \in Nat, n < Len(registrations),
         NEW reg, Holds(reg, n)
  PROVE  Holds(Registered(reg, registrations[n+1]), n + 1)
<1> DEFINE c == registrations[n+1]
<1>1. IsRegistry(Registered(reg, c)) BY RegisteredFound DEF Holds
<1>2. ASSUME NEW name, NEW namespace
      PROVE  GetComponent(Registered(reg, c), name, namespace) =
               {registrations[i] : i \in {j \in 1 .. n + 1 : LastUnder(n + 1, name, namespace, j)}}
  <2>1. CASE c.name = name /\ c.namespace = namespace
    <3>1. {j \in 1 .. n + 1 : LastUnder(n + 1, name, namespace, j)} = {n + 1}
      BY <2>1 DEF LastUnder
    <3>2. GetComponent(Registered(reg, c), name, namespace) = {c}
      BY <2>1, RegisteredFound DEF Holds
    <3> QED BY <3>1, <3>2
  <2>2. CASE ~(c.name = name /\ c.namespace = namespace)
    <3>1. {j \in 1 .. n + 1 : LastUnder(n + 1, name, namespace, j)} =
            {j \in 1 .. n : LastUnder(n, name, namespace, j)}
      BY <2>2 DEF LastUnder
    <3>2. GetComponent(Registered(reg, c), name, namespace) = GetComponent(reg, name, namespace)
      BY <2>2, RegisteredFound DEF Holds
    <3>3. GetComponent(reg, name, namespace) =
            {registrations[i] : i \in {j \in 1 .. n : LastUnder(n, name, namespace, j)}}
      BY DEF Holds
    <3> QED BY <3>1, <3>2, <3>3
  <2> QED BY <2>1, <2>2
<1> QED BY <1>1, <1>2 DEF Holds

\* So a node is made exactly for the tasks that name what can be made.
LEMMA MadeIsMakeable ==
  ASSUME registrations \in Registrations, Holds(registry, Len(registrations)), NEW t
  PROVE  NodeIsMade(t) <=> Makeable(t)
<1>1. DOMAIN registrations = 1 .. Len(registrations) BY LenProperties
<1>2. \A i : Means(t, i) <=> LastUnder(Len(registrations), t.name, t.namespace, i)
  BY <1>1 DEF Means, LastUnder
<1>3. GetComponent(registry, t.name, t.namespace) =
        {registrations[i] : i \in {j \in 1 .. Len(registrations) :
                                     LastUnder(Len(registrations), t.name, t.namespace, j)}}
  BY DEF Holds
<1> HIDE DEF GetComponent
<1> QED BY <1>1, <1>2, <1>3 DEF NodeIsMade, Makeable, LastUnder

-----------------------------------------------------------------------------
(* The root of a configuration.                                            *)

RootsOf(rows, V) == {v \in V : \A p \in Ids : v \notin rows[p]}

\* What a set reaches is the least set with it that is closed under the edges.
LEMMA ReachIsLeastClosed ==
  ASSUME NEW rows \in [Ids -> SUBSET Ids], NEW from \in SUBSET Ids
  PROVE  /\ Reachable(rows, from) \in SUBSET Ids /\ from \subseteq Reachable(rows, from)
         /\ Closed(rows, Reachable(rows, from))
         /\ \A set \in SUBSET Ids :
              from \subseteq set /\ Closed(rows, set) => Reachable(rows, from) \subseteq set
<1>1. Reachable(rows, from) \in SUBSET Ids /\ from \subseteq Reachable(rows, from) BY DEF Reachable
<1>2. \A set \in SUBSET Ids :
        from \subseteq set /\ Closed(rows, set) => Reachable(rows, from) \subseteq set
  BY DEF Reachable
<1>3. ASSUME NEW v \in Reachable(rows, from), NEW w \in rows[v], NEW set \in SUBSET Ids,
             from \subseteq set, Closed(rows, set)
      PROVE  w \in set
  BY <1>2, <1>3 DEF Closed
<1> QED BY <1>1, <1>2, <1>3 DEF Closed, Reachable

\* In an acyclic graph nothing that w reaches has an edge to w.
LEMMA NoEdgeBack ==
  ASSUME NEW rows \in [Ids -> SUBSET Ids], Acyclic(rows),
         NEW w \in Ids, NEW p \in Reachable(rows, {w})
  PROVE  w \notin rows[p]
<1> SUFFICES ASSUME w \in rows[p] PROVE FALSE
  OBVIOUS
<1>1. p \in Ids /\ rows[p] \in SUBSET Ids BY ReachIsLeastClosed
<1>2. w \in Reachable(rows, rows[p]) /\ Closed(rows, Reachable(rows, rows[p]))
      /\ Reachable(rows, rows[p]) \in SUBSET Ids
  BY <1>1, ReachIsLeastClosed
<1>3. Reachable(rows, {w}) \subseteq Reachable(rows, rows[p]) BY <1>2, ReachIsLeastClosed
<1> QED BY <1>1, <1>3 DEF Acyclic

\* So of finitely many vertices one has no edge from another: one that as few
\* of them reach as can be.
LEMMA SomeFirst ==
  ASSUME NEW rows \in [Ids -> SUBSET Ids], Acyclic(rows), NEW U \in SUBSET Ids, U # {}
  PROVE  \E v \in U : \A p \in U : v \notin rows[p]
<1> DEFINE before(v) == {w \in U : v \in Reachable(rows, {w})}
           B == {before(v) : v \in U}
<1>1. B \in SUBSET SUBSET U /\ B # {} /\ IsFiniteSet(U)
  <2>1. \A v \in U : before(v) \in SUBSET U /\ before(v) \in B OBVIOUS
  <2> QED BY <2>1, FS_Subset
<1>2. PICK V \in B : \A W \in B : W \subseteq V => W = V
  <2> HIDE DEF B
  <2>1. B \subseteq FiniteSubsetsOf(U) BY <1>1, FS_Subset DEF FiniteSubsetsOf
  <2>2. PICK V \in B : \A W \in B : ~(<<W, V>> \in StrictSubsetOrdering(U))
    BY <1>1, <2>1, FS_StrictSubsetOrderingWellFounded, WFMin
  <2> QED BY <1>1, <2>2 DEF StrictSubsetOrdering
<1>3. PICK v \in U : V = before(v) OBVIOUS
<1>4. ASSUME NEW p \in U, v \in rows[p] PROVE FALSE
  <2>1. \A w \in U : p \in Reachable(rows, {w}) => v \in Reachable(rows, {w})
    BY <1>4, ReachIsLeastClosed DEF Closed
  <2>2. before(p) = before(v)
    <3>1. before(p) \subseteq before(v) BY <2>1
    <3>2. before(p) \in B OBVIOUS
    <3> HIDE DEF before, B
    <3> QED BY <1>2, <1>3, <3>1, <3>2
  <2>3. v \in before(v) BY ReachIsLeastClosed
  <2>4. p \in Reachable(rows, {v}) BY <2>2, <2>3
  <2> QED BY <1>4, <2>4, NoEdgeBack
<1> QED BY <1>4

\* A vertex that reaches all is the only one without an edge to it, and the
\* only such vertex reaches all: among the others a first one would be another.
LEMMA RootReachesAll ==
  ASSUME NEW rows \in [Ids -> SUBSET Ids], Acyclic(rows), NEW V \in SUBSET Ids,
         \A v, w \in Ids : w \in rows[v] => v \in V /\ w \in V,
         NEW r
  PROVE  RootsOf(rows, V) = {r} <=> r \in V /\ Reachable(rows, {r}) = V
<1> DEFINE reach == Reachable(rows, {r})
<1>1. ASSUME RootsOf(rows, V) = {r} PROVE r \in V /\ reach = V
  <2>1. r \in V BY <1>1 DEF RootsOf
  <2>2. Closed(rows, V) BY DEF Closed
  <2>3. reach \subseteq V /\ r \in reach /\ Closed(rows, reach) BY <2>1, <2>2, ReachIsLeastClosed
  <2>4. ASSUME V \ reach # {} PROVE FALSE
    <3>1. PICK v \in V \ reach : \A p \in V \ reach : v \notin rows[p] BY <2>4, SomeFirst
    <3>2. \A p \in Ids : v \notin rows[p] BY <2>3, <3>1 DEF Closed
    <3> QED BY <1>1, <2>3, <3>1, <3>2 DEF RootsOf
  <2> QED BY <2>1, <2>3, <2>4
<1>2. ASSUME r \in V, reach = V PROVE RootsOf(rows, V) = {r}
  <2>1. \A p \in Ids : r \notin rows[p] BY <1>2, NoEdgeBack
  <2>2. ASSUME NEW v \in V, v # r, \A p \in Ids : v \notin rows[p] PROVE FALSE
    <3>1. Closed(rows, V \ {v}) BY <2>2 DEF Closed
    <3>2. Reachable(rows, {r}) \subseteq V \ {v} BY <1>2, <2>2, <3>1, ReachIsLeastClosed
    <3> QED BY <1>2, <3>2
  <2> QED BY <1>2, <2>1, <2>2 DEF RootsOf
<1> QED BY <1>1, <1>2

-----------------------------------------------------------------------------
(* The inductive invariant.                                                *)

\* What the first n iterations of the two loops have made: the vertices of the
\* first n tasks, and the edges of as many dependencies as follow the tasks.
AddedIds(n) == {Tasks[i].id : i \in {j \in DOMAIN Tasks : j <= n}}
LinkedPairs(n) ==
  {<<Dependencies[k][1].id, Dependencies[k][2]>> :
     k \in {j \in DOMAIN Dependencies : Len(Tasks) + j <= n}}

Rows(pairs) == [v \in Ids |-> {w \in Ids : <<v, w>> \in pairs}]
UpRows(pairs) == [v \in Ids |-> {w \in Ids : <<w, v>> \in pairs}]

\* The graph holds exactly that, in its three representations.
GraphHolds(n) ==
  /\ g.vertices = AddedIds(n)
  /\ g.edges \subseteq DG!Edge /\ DG!Pairs(g) = LinkedPairs(n)
  /\ g.downEdges = Rows(LinkedPairs(n))
  /\ g.upEdges = UpRows(LinkedPairs(n))
  /\ g = [vertices |-> g.vertices, edges |-> g.edges,
          downEdges |-> g.downEdges, upEdges |-> g.upEdges]

BuildingInv ==
  /\ Holds(registry, Len(registrations))
  /\ done \in 0 .. Len(Tasks) + Len(Dependencies)
  /\ \A i \in DOMAIN Tasks : i <= done => Makeable(Tasks[i])
  /\ \A pair \in LinkedPairs(done) : pair[1] \in ConfIds
  /\ GraphHolds(done)
  /\ g.vertices \subseteq DOMAIN statuses

BuildInv ==
  /\ conf \in Confs /\ registrations \in Registrations
  /\ result \in {"registering", "building", "built", "refused"}
  /\ result = "registering" => /\ done \in 0 .. Len(registrations)
                               /\ Holds(registry, done)
                               /\ g = DG!EmptyGraph
  /\ result = "building" => BuildingInv
  /\ BuildIsExact

LEMMA BuildInit == Init => BuildInv
<1> SUFFICES ASSUME Init PROVE BuildInv OBVIOUS
<1> USE DEF Init
<1>1. Len(registrations) \in Nat BY LenProperties
<1>2. Holds(registry, 0)
  <2>1. registry = [default |-> <<>>, custom |-> <<>>] /\ DOMAIN <<>> = {} BY DEF EmptyRegistry
  <2>2. registry.default = <<>> /\ registry.custom = <<>> BY <2>1
  <2>3. IsRegistry(registry) BY <2>1 DEF IsRegistry
  <2>4. ASSUME NEW name, NEW namespace
        PROVE  GetComponent(registry, name, namespace) =
                 {registrations[i] : i \in {j \in 1 .. 0 : LastUnder(0, name, namespace, j)}}
    <3>1. {j \in 1 .. 0 : LastUnder(0, name, namespace, j)} = {} OBVIOUS
    <3>2. GetComponent(registry, name, namespace) = {}
      <4>1. {name} \cap DOMAIN registry.default = {} /\ {namespace} \cap DOMAIN registry.custom = {}
        BY <2>1, <2>2
      <4> QED BY <4>1 DEF GetComponent
    <3> QED BY <3>1, <3>2
  <2> QED BY <2>3, <2>4 DEF Holds
<1> QED BY <1>1, <1>2 DEF BuildInv, BuildIsExact

\* What the configuration and the registrations say does not change.
LEMMA ConfStays ==
  ASSUME UNCHANGED <<conf, registrations>>
  PROVE  /\ Tasks' = Tasks /\ Dependencies' = Dependencies
         /\ ConfIds' = ConfIds /\ ConfPairs' = ConfPairs /\ ConfRows' = ConfRows
         /\ Buildable' = Buildable
         /\ \A t : Makeable(t)' = Makeable(t)
         /\ \A reg, n : Holds(reg, n)' = Holds(reg, n)
         /\ \A n : AddedIds(n)' = AddedIds(n) /\ LinkedPairs(n)' = LinkedPairs(n)
<1>1. Tasks' = Tasks BY DEF Tasks
<1>2. Dependencies' = Dependencies BY <1>1 DEF Dependencies
<1>3. ConfIds' = ConfIds /\ ConfPairs' = ConfPairs BY <1>1, <1>2 DEF ConfIds, ConfPairs
<1>4. ConfRows' = ConfRows BY <1>3 DEF ConfRows
<1>5. \A t : Makeable(t)' = Makeable(t) BY DEF Makeable, Means
<1>6. Buildable' = Buildable BY <1>1, <1>3, <1>4, <1>5 DEF Buildable
<1>7. \A reg, n : Holds(reg, n)' = Holds(reg, n) BY DEF Holds, LastUnder
<1>8. \A n : AddedIds(n)' = AddedIds(n) /\ LinkedPairs(n)' = LinkedPairs(n)
  BY <1>1, <1>2 DEF AddedIds, LinkedPairs
<1> QED BY <1>1, <1>2, <1>3, <1>4, <1>5, <1>6, <1>7, <1>8

\* The two loops.  A new vertex has no edge, and the edge of a dependency is
\* found to be there or is added beside the others: it replaces none, for two
\* pairs of ids have two edge ids.
LEMMA AddTaskKeeps ==
  ASSUME BuildInv, NEW t \in ToSet(Tasks), AddTask(t)
  PROVE  BuildingInv'
<1> USE DEF AddTask, AtTask
<1>1. BuildingInv /\ conf \in Confs /\ registrations \in Registrations BY DEF BuildInv
<1>2. Tasks \in Seq(TaskConf) /\ Dependencies \in Seq(DependencyConf \X ConfIds)
  BY <1>1, DependenciesType
<1>3. /\ Len(Tasks) \in Nat /\ DOMAIN Tasks = 1 .. Len(Tasks)
      /\ Len(Dependencies) \in Nat /\ DOMAIN Dependencies = 1 .. Len(Dependencies)
  BY <1>2, LenProperties
<1>4. /\ done \in 0 .. Len(Tasks) + Len(Dependencies)
      /\ \A i \in DOMAIN Tasks : i <= done => Makeable(Tasks[i])
      /\ GraphHolds(done) /\ g.vertices \subseteq DOMAIN statuses
      /\ Holds(registry, Len(registrations))
  BY <1>1 DEF BuildingInv
<1>5. done \in Nat /\ done < Len(Tasks) /\ t = Tasks[done+1] /\ done + 1 \in DOMAIN Tasks
  BY <1>3, <1>4
<1>6. Makeable(t) BY <1>1, <1>4, MadeIsMakeable
<1>7. \A i \in DOMAIN Tasks : i <= done + 1 => Makeable(Tasks[i])
  BY <1>3, <1>4, <1>5, <1>6
<1>8. LinkedPairs(done) = {} /\ LinkedPairs(done + 1) = {} BY <1>3, <1>5 DEF LinkedPairs
<1>9. AddedIds(done + 1) = AddedIds(done) \cup {t.id}
  <2>1. {i \in DOMAIN Tasks : i <= done + 1} = {i \in DOMAIN Tasks : i <= done} \cup {done + 1}
    BY <1>3, <1>5
  <2> QED BY <1>5, <2>1 DEF AddedIds
<1>10. g' = [vertices |-> g.vertices \cup {t.id}, edges |-> g.edges,
             downEdges |-> g.downEdges, upEdges |-> g.upEdges]
  BY <1>4 DEF GraphHolds
<1>11. /\ g'.vertices = AddedIds(done + 1) /\ g'.edges = g.edges
       /\ g'.downEdges = g.downEdges /\ g'.upEdges = g.upEdges
  BY <1>4, <1>9, <1>10 DEF GraphHolds
<1>12. DG!Pairs(g') = DG!Pairs(g) BY <1>11 DEF DG!Pairs
<1>13. g'.vertices \subseteq DOMAIN statuses' BY <1>4, <1>10
<1>14. UNCHANGED <<conf, registrations>> /\ done' = done + 1 /\ registry' = registry OBVIOUS
<1>15. GraphHolds(done)' BY <1>4, <1>8, <1>10, <1>11, <1>12, <1>14, ConfStays DEF GraphHolds
<1> HIDE DEF AddTask, AtTask
<1> QED BY <1>3, <1>4, <1>5, <1>7, <1>8, <1>13, <1>14, <1>15, ConfStays DEF BuildingInv

LEMMA ConnectKeeps ==
  ASSUME DG!JoinIsInjective, BuildInv, NEW dep \in ToSet(Dependencies), Connect(dep[1], dep[2])
  PROVE  BuildingInv'
<1> DEFINE d == dep[1]
           id == dep[2]
           e == MadeEdge(d, id)
<1>1. BuildingInv /\ conf \in Confs /\ registrations \in Registrations
  BY DEF BuildInv, Connect, AtDependency
<1>2. /\ Tasks \in Seq(TaskConf) /\ ConfIds \subseteq Ids
      /\ Dependencies \in Seq(DependencyConf \X ConfIds)
  BY <1>1, DependenciesType
<1>3. /\ Len(Tasks) \in Nat /\ DOMAIN Tasks = 1 .. Len(Tasks)
      /\ Len(Dependencies) \in Nat /\ DOMAIN Dependencies = 1 .. Len(Dependencies)
      /\ \A k \in DOMAIN Dependencies : Dependencies[k] \in DependencyConf \X ConfIds
  BY <1>2, LenProperties, ElementOfSeq
<1>4. /\ done \in 0 .. Len(Tasks) + Len(Dependencies)
      /\ \A i \in DOMAIN Tasks : i <= done => Makeable(Tasks[i])
      /\ \A pair \in LinkedPairs(done) : pair[1] \in ConfIds
      /\ GraphHolds(done) /\ g.vertices \subseteq DOMAIN statuses
      /\ Holds(registry, Len(registrations))
  BY <1>1 DEF BuildingInv
<1>5. /\ done - Len(Tasks) \in 0 .. Len(Dependencies) - 1 /\ d.id \in g.vertices
      /\ <<d, id>> = Dependencies[done - Len(Tasks) + 1]
      /\ g' = DG!Connected(g, e) /\ done' = done + 1
      /\ UNCHANGED <<registrations, registry, conf, statuses, result>>
  BY DEF Connect, AtDependency
<1> DEFINE k == done - Len(Tasks) + 1
<1>6. /\ k \in DOMAIN Dependencies /\ done \in Nat /\ Len(Tasks) <= done
      /\ Len(Tasks) + k = done + 1 /\ done + 1 \in 0 .. Len(Tasks) + Len(Dependencies)
  BY <1>3, <1>4, <1>5
<1>7. d \in DependencyConf /\ id \in ConfIds /\ Dependencies[k][1] = d /\ Dependencies[k][2] = id
  BY <1>3, <1>5, <1>6
<1>8. d.id \in Ids /\ d.conditional \in BOOLEAN /\ id \in Ids BY <1>2, <1>7 DEF DependencyConf
<1>9. e = [source |-> d.id, target |-> id, tag |-> "plain"]
  BY DEF MadeEdge, PropertyEdge, ConditionEdge, WithProperties
<1>10. e \in DG!Edge /\ e.source = d.id /\ e.target = id
  BY <1>8, <1>9 DEF DG!Edge, Tags
<1> HIDE DEF e
<1>11. AddedIds(done) = ConfIds /\ AddedIds(done + 1) = ConfIds
  BY <1>3, <1>6 DEF AddedIds, ConfIds
<1>12. LinkedPairs(done + 1) = LinkedPairs(done) \cup {<<d.id, id>>}
  <2>1. {j \in DOMAIN Dependencies : Len(Tasks) + j <= done + 1} =
          {j \in DOMAIN Dependencies : Len(Tasks) + j <= done} \cup {k}
    BY <1>3, <1>6
  <2> QED BY <1>7, <2>1 DEF LinkedPairs
<1>13. \A pair \in LinkedPairs(done + 1) : pair[1] \in ConfIds
  BY <1>4, <1>5, <1>11, <1>12 DEF GraphHolds
<1>14. GraphHolds(done)' /\ g'.vertices = g.vertices
  <2>1. CASE id \in g.downEdges[d.id]
    <3>1. g' = g BY <1>5, <1>10, <2>1 DEF DG!Connected
    <3>2. <<d.id, id>> \in LinkedPairs(done) BY <1>4, <1>8, <2>1 DEF GraphHolds, Rows
    <3>3. LinkedPairs(done + 1) = LinkedPairs(done) BY <1>12, <3>2
    <3> QED BY <1>4, <1>5, <1>11, <3>1, <3>3, ConfStays DEF GraphHolds
  <2>2. CASE id \notin g.downEdges[d.id]
    <3>1. g' = [g EXCEPT !.edges = DG!WithEdge(@, e),
                         !.downEdges[d.id] = @ \cup {id}, !.upEdges[id] = @ \cup {d.id}]
      BY <1>5, <1>10, <2>2 DEF DG!Connected
    <3>2. g' = [vertices |-> g.vertices, edges |-> DG!WithEdge(g.edges, e),
                downEdges |-> [g.downEdges EXCEPT ![d.id] = @ \cup {id}],
                upEdges |-> [g.upEdges EXCEPT ![id] = @ \cup {d.id}]]
      BY <1>4, <3>1 DEF GraphHolds
    <3>3. /\ g'.vertices = g.vertices /\ g'.edges = DG!WithEdge(g.edges, e)
          /\ g'.downEdges = [g.downEdges EXCEPT ![d.id] = @ \cup {id}]
          /\ g'.upEdges = [g.upEdges EXCEPT ![id] = @ \cup {d.id}]
      BY <3>2
    <3>4. g.downEdges = Rows(LinkedPairs(done)) /\ g.upEdges = UpRows(LinkedPairs(done))
      BY <1>4 DEF GraphHolds
    <3> HIDE DEF id, d
    <3>5. /\ g'.downEdges = Rows(LinkedPairs(done + 1)) /\ g'.upEdges = UpRows(LinkedPairs(done + 1))
      <4> DEFINE pairs == LinkedPairs(done)
                 more == LinkedPairs(done + 1)
      <4>1. more = pairs \cup {<<d.id, id>>} BY <1>12
      <4> HIDE DEF pairs, more
      <4>2. \A x \in Ids : Rows(more)[x] = [Rows(pairs) EXCEPT ![d.id] = @ \cup {id}][x]
        BY <1>8, <4>1 DEF Rows
      <4>3. \A x \in Ids : UpRows(more)[x] = [UpRows(pairs) EXCEPT ![id] = @ \cup {d.id}][x]
        BY <1>8, <4>1 DEF UpRows
      <4>4. Rows(more) = [Rows(pairs) EXCEPT ![d.id] = @ \cup {id}] BY <4>2 DEF Rows
      <4>5. UpRows(more) = [UpRows(pairs) EXCEPT ![id] = @ \cup {d.id}] BY <4>3 DEF UpRows
      <4> QED BY <3>3, <3>4, <4>4, <4>5 DEF pairs, more
    <3>6. \A f \in g.edges : DG!EdgeId(f) = DG!EdgeId(e) => f.source = d.id /\ f.target = id
      <4>1. g.edges \subseteq DG!Edge BY <1>4 DEF GraphHolds
      <4> QED BY <1>8, <1>10, <4>1 DEF DG!JoinIsInjective, DG!EdgeId, DG!Edge
    <3>7. DG!Pairs(g') = DG!Pairs(g) \cup {<<d.id, id>>}
      BY <1>10, <3>3, <3>6 DEF DG!Pairs, DG!WithEdge
    <3>8. g'.edges \subseteq DG!Edge BY <1>4, <1>10, <3>3 DEF GraphHolds, DG!WithEdge
    <3> QED
      BY <1>4, <1>5, <1>11, <1>12, <3>2, <3>3, <3>4, <3>5, <3>7, <3>8, ConfStays
      DEF GraphHolds
  <2> QED BY <2>1, <2>2
<1>15. \A i \in DOMAIN Tasks : i <= done + 1 => Makeable(Tasks[i]) BY <1>3, <1>4, <1>6
<1> QED BY <1>4, <1>5, <1>6, <1>13, <1>14, <1>15, ConfStays DEF BuildingInv

\* A build is refused for a reason.
LEMMA RefuseKeeps ==
  ASSUME BuildInv, Refuse
  PROVE  ~Buildable
<1>1. BuildingInv /\ conf \in Confs /\ registrations \in Registrations
  BY DEF BuildInv, Refuse, AtTask, AtDependency
<1>2. Tasks \in Seq(TaskConf) /\ Dependencies \in Seq(DependencyConf \X ConfIds)
  BY <1>1, DependenciesType
<1>3. /\ Len(Tasks) \in Nat /\ DOMAIN Tasks = 1 .. Len(Tasks)
      /\ Len(Dependencies) \in Nat /\ DOMAIN Dependencies = 1 .. Len(Dependencies)
      /\ \A k \in DOMAIN Dependencies : Dependencies[k] \in DependencyConf \X ConfIds
  BY <1>2, LenProperties, ElementOfSeq
<1>4. /\ done \in Nat /\ GraphHolds(done) /\ Holds(registry, Len(registrations))
  BY <1>1, <1>3 DEF BuildingInv
<1>5. ASSUME NEW t \in ToSet(Tasks), AtTask(t), ~NodeIsMade(t) PROVE ~Buildable
  <2>1. done + 1 \in DOMAIN Tasks /\ t = Tasks[done+1] BY <1>3, <1>4, <1>5 DEF AtTask
  <2>2. ~Makeable(t) BY <1>1, <1>4, <1>5, MadeIsMakeable
  <2> QED BY <2>1, <2>2 DEF Buildable
<1>6. ASSUME NEW dep \in ToSet(Dependencies), AtDependency(dep[1], dep[2]), dep[1].id \notin g.vertices
      PROVE  ~Buildable
  <2>1. Len(Tasks) <= done BY <1>3, <1>4, <1>6 DEF AtDependency
  <2>2. g.vertices = ConfIds
    <3>1. {j \in DOMAIN Tasks : j <= done} = DOMAIN Tasks BY <1>3, <1>4, <2>1
    <3> QED BY <1>4, <3>1 DEF GraphHolds, AddedIds, ConfIds
  <2>3. <<dep[1].id, dep[2]>> \in ConfPairs BY DEF ConfPairs
  <2> QED BY <1>6, <2>2, <2>3 DEF Buildable
<1> QED BY <1>5, <1>6 DEF Refuse

\* Validate asks of the graph what the configuration should be: one vertex
\* without an edge to it is one that reaches all others, in an acyclic graph.
LEMMA ValidIsBuildable ==
  ASSUME BuildInv, Validate
  PROVE  /\ Valid /\ conf.concurrency > 0 <=> Buildable
         /\ g.vertices = ConfIds /\ DG!Pairs(g) = ConfPairs /\ g.vertices \subseteq DOMAIN statuses
<1>1. BuildingInv /\ conf \in Confs /\ registrations \in Registrations
  BY DEF BuildInv, Validate
<1>2. /\ Tasks \in Seq(TaskConf) /\ ConfIds \subseteq Ids
      /\ Dependencies \in Seq(DependencyConf \X ConfIds)
  BY <1>1, DependenciesType
<1>3. /\ Len(Tasks) \in Nat /\ DOMAIN Tasks = 1 .. Len(Tasks)
      /\ Len(Dependencies) \in Nat /\ DOMAIN Dependencies = 1 .. Len(Dependencies)
      /\ \A k \in DOMAIN Dependencies : Dependencies[k] \in DependencyConf \X ConfIds
  BY <1>2, LenProperties, ElementOfSeq
<1>4. /\ done = Len(Tasks) + Len(Dependencies) /\ done \in Nat
      /\ \A i \in DOMAIN Tasks : i <= done => Makeable(Tasks[i])
      /\ \A pair \in LinkedPairs(done) : pair[1] \in ConfIds
      /\ GraphHolds(done) /\ g.vertices \subseteq DOMAIN statuses
  BY <1>1, <1>3 DEF BuildingInv, Validate
<1>5. AddedIds(done) = ConfIds
  <2>1. {j \in DOMAIN Tasks : j <= done} = DOMAIN Tasks BY <1>3, <1>4
  <2> QED BY <2>1 DEF AddedIds, ConfIds
<1>6. LinkedPairs(done) = ConfPairs
  <2>1. {j \in DOMAIN Dependencies : Len(Tasks) + j <= done} = DOMAIN Dependencies BY <1>3, <1>4
  <2> QED BY <2>1 DEF LinkedPairs, ConfPairs, ToSet
<1>7. \A pair \in ConfPairs : pair[1] \in ConfIds /\ pair[2] \in ConfIds
  <2>1. \A dep \in ToSet(Dependencies) : dep[2] \in ConfIds BY <1>3 DEF ToSet
  <2> QED BY <1>4, <1>6, <2>1 DEF ConfPairs
<1>8. g.downEdges = ConfRows /\ g.vertices = ConfIds /\ DG!Pairs(g) = ConfPairs
  BY <1>4, <1>5, <1>6 DEF GraphHolds, Rows, ConfRows
<1>9. {v \in g.vertices : g.upEdges[v] = {}} = RootsOf(ConfRows, ConfIds)
  <2>1. \A v \in ConfIds : g.upEdges[v] = {w \in Ids : <<w, v>> \in ConfPairs}
    BY <1>2, <1>4, <1>6 DEF GraphHolds, UpRows
  <2>2. \A v \in ConfIds : g.upEdges[v] = {} <=> \A p \in Ids : v \notin ConfRows[p]
    BY <1>2, <2>1 DEF ConfRows
  <2> QED BY <1>8, <2>2 DEF RootsOf
<1>10. ConfRows \in [Ids -> SUBSET Ids]
       /\ \A v, w \in Ids : w \in ConfRows[v] => v \in ConfIds /\ w \in ConfIds
  BY <1>7 DEF ConfRows
<1>11. Valid => \E r : RootsOf(ConfRows, ConfIds) = {r}
  BY <1>2, <1>9, FS_Subset, FS_Singleton DEF Valid, RootsOf
<1>12. Valid <=> /\ Acyclic(ConfRows)
                 /\ \E r : RootsOf(ConfRows, ConfIds) = {r}
  BY <1>8, <1>9, <1>11, FS_Singleton DEF Valid
<1>13. ASSUME Acyclic(ConfRows)
       PROVE  (\E r : RootsOf(ConfRows, ConfIds) = {r})
                <=> \E r \in ConfIds : Reachable(ConfRows, {r}) = ConfIds
  <2>1. \A r : RootsOf(ConfRows, ConfIds) = {r}
                <=> r \in ConfIds /\ Reachable(ConfRows, {r}) = ConfIds
    BY <1>2, <1>10, <1>13, RootReachesAll
  <2> QED BY <2>1
<1>14. \A i \in DOMAIN Tasks : Makeable(Tasks[i]) BY <1>3, <1>4
<1> QED BY <1>4, <1>7, <1>8, <1>12, <1>13, <1>14 DEF Buildable

LEMMA BuildNext ==
  ASSUME DG!JoinIsInjective, BuildInv, [Next]_vars
  PROVE  BuildInv'
<1>1. CASE UNCHANGED vars
  <2>1. UNCHANGED <<conf, registrations, registry, done, g, statuses, result>> BY <1>1 DEF vars
  <2>2. /\ Buildable' = Buildable /\ ConfIds' = ConfIds /\ ConfPairs' = ConfPairs
        /\ Holds(registry, done)' = Holds(registry, done)
    BY <2>1, ConfStays DEF Holds, LastUnder
  <2>3. DG!Pairs(g)' = DG!Pairs(g) /\ DG!EmptyGraph' = DG!EmptyGraph
    BY <2>1 DEF DG!Pairs, DG!EmptyGraph
  <2>4. BuildingInv' = BuildingInv
    BY <2>1, <2>3, ConfStays DEF BuildingInv, GraphHolds, Holds, LastUnder
  <2> QED BY <2>1, <2>2, <2>3, <2>4 DEF BuildInv, BuildIsExact
<1>2. CASE Register
  <2>1. /\ result = "registering" /\ done \in 0 .. Len(registrations) /\ done < Len(registrations)
        /\ registrations \in Registrations /\ conf \in Confs /\ Holds(registry, done)
        /\ g = DG!EmptyGraph
    BY <1>2 DEF BuildInv, Register
  <2>2. Len(registrations) \in Nat BY <2>1, LenProperties
  <2>3. Holds(Registered(registry, registrations[done+1]), done + 1)
    BY <2>1, <2>2, RegisterHolds
  <2>4. /\ done' = done + 1 /\ registry' = Registered(registry, registrations[done+1])
        /\ UNCHANGED <<registrations, conf, g, statuses, result>>
    BY <1>2 DEF Register
  <2>5. Holds(registry, done)' BY <2>3, <2>4 DEF Holds, LastUnder
  <2>6. g' = DG!EmptyGraph' BY <2>1, <2>4 DEF DG!EmptyGraph
  <2> QED BY <2>1, <2>2, <2>4, <2>5, <2>6 DEF BuildInv, BuildIsExact
<1>3. CASE BeginBuild
  <2>1. /\ done = Len(registrations) /\ registrations \in Registrations /\ conf \in Confs
        /\ Holds(registry, done) /\ g = DG!EmptyGraph
        /\ done' = 0 /\ result' = "building"
        /\ UNCHANGED <<registrations, registry, conf, g, statuses>>
    BY <1>3 DEF BuildInv, BeginBuild
  <2>2. /\ Tasks \in Seq(TaskConf) /\ Dependencies \in Seq(DependencyConf \X ConfIds)
    BY <2>1, DependenciesType
  <2>3. /\ Len(Tasks) \in Nat /\ DOMAIN Tasks = 1 .. Len(Tasks)
        /\ Len(Dependencies) \in Nat /\ DOMAIN Dependencies = 1 .. Len(Dependencies)
    BY <2>2, LenProperties
  <2>4. AddedIds(0) = {} /\ LinkedPairs(0) = {} BY <2>3 DEF AddedIds, LinkedPairs
  <2>5. GraphHolds(0) BY <2>1, <2>4 DEF GraphHolds, DG!EmptyGraph, DG!Pairs, Rows, UpRows
  <2>6. GraphHolds(done)' BY <2>1, <2>5, ConfStays DEF GraphHolds, DG!Pairs
  <2>7. Holds(registry, Len(registrations))' BY <2>1 DEF Holds, LastUnder
  <2>8. g.vertices = {} BY <2>1 DEF DG!EmptyGraph
  <2>9. BuildingInv' BY <2>1, <2>3, <2>4, <2>6, <2>7, <2>8, ConfStays DEF BuildingInv
  <2> QED BY <2>1, <2>9 DEF BuildInv, BuildIsExact
<1>4. ASSUME NEW t \in ToSet(Tasks), AddTask(t) PROVE BuildInv'
  <2>1. BuildingInv' BY <1>4, AddTaskKeeps
  <2> QED BY <1>4, <2>1 DEF BuildInv, BuildIsExact, AddTask, AtTask
<1>5. ASSUME NEW dep \in ToSet(Dependencies), Connect(dep[1], dep[2]) PROVE BuildInv'
  <2>1. BuildingInv' BY <1>5, ConnectKeeps
  <2> QED BY <1>5, <2>1 DEF BuildInv, BuildIsExact, Connect, AtDependency
<1>6. CASE Refuse
  <2>1. ~Buildable BY <1>6, RefuseKeeps
  <2>2. /\ result' = "refused" /\ UNCHANGED <<conf, registrations>> BY <1>6 DEF Refuse
  <2>3. ~Buildable' BY <2>1, <2>2, ConfStays
  <2> QED BY <2>2, <2>3 DEF BuildInv, BuildIsExact
<1>7. CASE Validate
  <2>1. /\ Valid /\ conf.concurrency > 0 <=> Buildable
        /\ g.vertices = ConfIds /\ DG!Pairs(g) = ConfPairs /\ g.vertices \subseteq DOMAIN statuses
    BY <1>7, ValidIsBuildable
  <2>2. /\ result' = (IF Valid /\ conf.concurrency > 0 THEN "built" ELSE "refused")
        /\ UNCHANGED <<conf, registrations, g, statuses>>
    BY <1>7 DEF Validate
  <2>3. Buildable' = Buildable /\ ConfIds' = ConfIds /\ ConfPairs' = ConfPairs BY <2>2, ConfStays
  <2>4. DG!Pairs(g)' = DG!Pairs(g) BY <2>2 DEF DG!Pairs
  <2> QED BY <2>1, <2>2, <2>3, <2>4 DEF BuildInv, BuildIsExact
<1>8. Returned => UNCHANGED vars BY DEF Returned
<1> QED BY <1>1, <1>2, <1>3, <1>4, <1>5, <1>6, <1>7, <1>8 DEF Next

\* Where two pairs of ids have two edge ids, a pipeline is built exactly when its
\* configuration can be, and then its graph is that of the configuration: for all
\* tasks, dependencies and components, in any order and with any repetitions.
THEOREM BuildExact ==
  ASSUME DG!JoinIsInjective
  PROVE  Spec => []BuildIsExact
<1>1. BuildInv /\ [Next]_vars => BuildInv' BY BuildNext
<1>2. BuildInv => BuildIsExact BY DEF BuildInv
<1> QED BY <1>1, <1>2, BuildInit, PTL DEF Spec

\* No step of a build changes a status it was given, and the status it adds is
\* that of a task of the configuration: for any statuses of earlier runs.
THEOREM StatusesStay == Spec => SavedStatusesStay
<1>1. ASSUME NEW t \in ToSet(Tasks), AddTask(t) PROVE StatusesGrow
  <2>1. t.id \in ConfIds BY <1>1 DEF ToSet, ConfIds
  <2> QED BY <1>1, <2>1 DEF AddTask, StatusesGrow
<1>2. [Next]_vars => [StatusesGrow]_vars
  BY <1>1
  DEF Next, vars, Register, BeginBuild, Connect, Refuse, Validate, Returned, StatusesGrow
<1> QED BY <1>2, PTL DEF Spec, SavedStatusesStay
=============================================================================
