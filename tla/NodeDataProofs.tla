--------------------------- MODULE NodeDataProofs ---------------------------
(***************************************************************************)
(* Theorems about NodeData, for every graph, every set of parameters and   *)
(* all data: what a task answered is kept, and what a task runs with is    *)
(* what its edges and its dependencies say.                                *)
(***************************************************************************)
EXTENDS NodeData, NaturalsInduction, WellFoundedInduction, TLAPS

-----------------------------------------------------------------------------
(* Maps and the store.                                                     *)

\* Each variable that belongs to tasks has a row for every one of them.
Rows ==
  /\ DOMAIN output = Vertices /\ DOMAIN given = Vertices /\ DOMAIN snapshot.output = Vertices
  /\ DOMAIN pc = Vertices /\ DOMAIN context = Vertices /\ DOMAIN param = Vertices
  /\ DOMAIN reply = Vertices /\ DOMAIN status = Vertices /\ DOMAIN passed = Vertices

LEMMA InitRows == Init => Rows
BY DEF Init, Rows, FreshWalk

LEMMA NextRows == Rows /\ [Next]_vars => Rows'
<1> SUFFICES ASSUME Rows, [Next]_vars PROVE Rows'
  OBVIOUS
<1> USE DEF Rows, storeVars, walkVars, runVars, PassOver
<1>1. ASSUME NEW v \in Vertices, Enter(v) \/ RepeatSettled(v) \/ Start(v) PROVE Rows'
  BY <1>1 DEF Enter, RepeatSettled, Start
<1>2. ASSUME NEW v \in Vertices, NEW e \in In(v), ReadEdge(v, e) PROVE Rows'
  BY <1>2 DEF ReadEdge
<1>3. ASSUME NEW v \in Vertices, NEW w \in Writes[v], Write(v, w) \/ Delete(v, w[1]) PROVE Rows'
  BY <1>3 DEF Write, Delete
<1>4. ASSUME NEW v \in Vertices, NEW keys \in Reshares[v], Reshare(v, keys[1], keys[2])
      PROVE  Rows'
  BY <1>4 DEF Reshare
<1>5. ASSUME NEW v \in Vertices, NEW r \in Replies(v), Answer(v, r) PROVE Rows'
  BY <1>5 DEF Answer
<1>6. ASSUME NEW v \in Vertices, Publish(v) \/ Record(v) PROVE Rows'
  BY <1>6 DEF Publish, Record
<1>7. ASSUME RunReturns PROVE Rows'
  BY <1>7 DEF RunReturns, Recoded
<1>8. ASSUME NEW initial \in InitialData, NEW stored \in BOOLEAN, Rebuild(initial, stored)
      PROVE  Rows'
  BY <1>8 DEF Rebuild, FreshWalk, Recoded
<1>9. CASE UNCHANGED vars
  BY <1>9 DEF vars
<1> QED BY <1>1, <1>2, <1>3, <1>4, <1>5, <1>6, <1>7, <1>8, <1>9 DEF Next

\* What is shared, answered, kept and read are maps to data.
DataInv ==
  /\ IsMap(shared) /\ IsMap(snapshot.shared)
  /\ \A v \in Vertices :
       /\ IsMap(output[v]) /\ IsMap(reply[v].data) /\ IsMap(snapshot.output[v])
       /\ IsMap(context[v].properties) /\ context[v].prev \in Seq(Vertices)

LEMMA EmptyIsMap == IsMap(Empty)
BY DEF IsMap, Empty

LEMMA RecodedIsMap ==
  ASSUME NEW map, IsMap(map)
  PROVE  IsMap(RecodedMap(map))
BY DataAssumption DEF DataAssumption, IsMap, RecodedMap

LEMMA OverIsMap ==
  ASSUME NEW map, IsMap(map), NEW other, IsMap(other)
  PROVE  IsMap(Over(map, other))
BY DEF IsMap, Over

LEMMA WithIsMap ==
  ASSUME NEW map, IsMap(map), NEW key, NEW val \in Data
  PROVE  IsMap(With(map, key, val))
BY DEF IsMap, With

LEMMA LeastNat ==
  ASSUME NEW N \in SUBSET Nat, N # {}
  PROVE  \E n \in N : \A m \in N : n <= m
<1>1. PICK n \in N : \A m \in N : ~(<<m, n>> \in OpToRel(<, Nat))
  BY NatLessThanWellFounded, WFMin
<1>2. \A m \in N : ~(m < n) BY <1>1 DEF OpToRel
<1> QED BY <1>2

\* Where a key is looked up: in the properties, with the first previous task
\* that has it, and in the shared store.
From(ctx, key) == {i \in DOMAIN ctx.prev : key \in DOMAIN output[ctx.prev[i]]}

LEMMA GetLooksUp ==
  ASSUME NEW ctx, ctx.prev \in Seq(Vertices), NEW key
  PROVE  /\ key \in DOMAIN ctx.properties => Get(ctx, key) = ctx.properties[key]
         /\ key \notin DOMAIN ctx.properties /\ From(ctx, key) # {} =>
              \E i \in From(ctx, key) : Get(ctx, key) = output[ctx.prev[i]][key]
         /\ key \notin DOMAIN ctx.properties /\ From(ctx, key) = {} =>
              Get(ctx, key) = IF key \in DOMAIN shared THEN shared[key] ELSE NoValue
<1>1. CASE From(ctx, key) # {}
  <2>1. From(ctx, key) \in SUBSET Nat
    BY DEF From
  <2>2. FirstOf(From(ctx, key)) \in From(ctx, key)
    BY <1>1, <2>1, LeastNat DEF FirstOf
  <2> QED BY <1>1, <2>2 DEF Get, From
<1>2. CASE From(ctx, key) = {}
  BY <1>2 DEF Get, From
<1> QED BY <1>1, <1>2

\* A task reads data, or nothing.
LEMMA GetsData ==
  ASSUME DataInv, NEW v \in Vertices, NEW key, Get(context[v], key) # NoValue
  PROVE  Get(context[v], key) \in Data
<1>1. IsMap(context[v].properties) /\ context[v].prev \in Seq(Vertices)
  BY DEF DataInv
<1>2. \A i \in From(context[v], key) : output[context[v].prev[i]][key] \in Data
  BY <1>1 DEF DataInv, IsMap, From
<1>3. key \in DOMAIN shared => shared[key] \in Data
  BY DEF DataInv, IsMap
<1> QED BY <1>1, <1>2, <1>3, GetLooksUp DEF IsMap

LEMMA NothingIsData ==
  /\ IsMap(NoReply.data)
  /\ IsMap(NoContext.properties) /\ NoContext.prev \in Seq(Vertices)
<1>1. <<>> \in Seq(Vertices)
  OBVIOUS
<1> QED BY <1>1, EmptyIsMap DEF NoReply, NoContext

LEMMA InitData == Init => DataInv
<1> SUFFICES ASSUME Init PROVE DataInv
  OBVIOUS
<1>1. IsMap(shared) /\ IsMap(snapshot.shared)
  BY DataAssumption, EmptyIsMap DEF DataAssumption, Init
<1>2. \A v \in Vertices : /\ output[v] = Empty /\ snapshot.output[v] = Empty
                          /\ reply[v] = NoReply /\ context[v] = NoContext
  BY DEF Init, FreshWalk
<1> QED BY <1>1, <1>2, EmptyIsMap, NothingIsData DEF DataInv

LEMMA NextData == Rows /\ DataInv /\ [Next]_vars => DataInv'
<1> SUFFICES ASSUME Rows, DataInv, [Next]_vars PROVE DataInv'
  OBVIOUS
<1> USE DEF Rows, DataInv, storeVars, walkVars, runVars, PassOver
<1>1. ASSUME NEW v \in Vertices, Enter(v) \/ RepeatSettled(v) \/ Start(v) PROVE DataInv'
  BY <1>1, EmptyIsMap DEF Enter, RepeatSettled, Start
<1>2. ASSUME NEW v \in Vertices, NEW e \in In(v), ReadEdge(v, e) PROVE DataInv'
  <2>1. e \in Edges /\ e[1] \in Vertices /\ IsMap(Properties[e])
    BY EdgeAssumption DEF EdgeAssumption, In
  <2>2. /\ IsMap(Over(Properties[e], context[v].properties))
        /\ Append(context[v].prev, e[1]) \in Seq(Vertices)
    BY <2>1, OverIsMap
  <2> QED BY <1>2, <2>2 DEF ReadEdge
<1>3. ASSUME NEW v \in Vertices, NEW w \in Writes[v], Write(v, w) PROVE DataInv'
  <2>1. IsMap(With(shared, w[1], w[2]))
    BY DataAssumption, WithIsMap DEF DataAssumption
  <2> QED BY <1>3, <2>1 DEF Write
<1>4. ASSUME NEW v \in Vertices, NEW w \in Writes[v], Delete(v, w[1]) PROVE DataInv'
  <2>1. IsMap(Without(shared, w[1]))
    BY DEF Without, IsMap
  <2> QED BY <1>4, <2>1 DEF Delete
<1>5. ASSUME NEW v \in Vertices, NEW keys \in Reshares[v], Reshare(v, keys[1], keys[2])
      PROVE  DataInv'
  <2>1. Get(context[v], keys[1]) \in Data
    BY <1>5, GetsData DEF Reshare
  <2>2. IsMap(With(shared, keys[2], Get(context[v], keys[1])))
    BY <2>1, WithIsMap
  <2> QED BY <1>5, <2>2 DEF Reshare
<1>6. ASSUME NEW v \in Vertices, NEW r \in Replies(v), Answer(v, r) PROVE DataInv'
  <2>1. IsMap(r.data)
    BY DataAssumption, EmptyIsMap DEF DataAssumption, Replies
  <2> QED BY <1>6, <2>1 DEF Answer
<1>7. ASSUME NEW v \in Vertices, Publish(v) \/ Record(v) PROVE DataInv'
  <2>1. UNCHANGED <<shared, snapshot, reply, context>>
    BY <1>7 DEF Publish, Record
  <2>2. \A w \in Vertices : output'[w] \in {output[w], reply[w].data}
    BY <1>7 DEF Publish, Record
  <2> QED BY <2>1, <2>2
<1>8. ASSUME RunReturns PROVE DataInv'
  <2>1. IsMap(RecodedMap(shared)) /\ \A v \in Vertices : IsMap(Recoded(output)[v])
    BY RecodedIsMap DEF Recoded
  <2> QED BY <1>8, <2>1 DEF RunReturns
<1>9. ASSUME NEW initial \in InitialData, NEW stored \in BOOLEAN, Rebuild(initial, stored)
      PROVE  DataInv'
  <2>1. IsMap(initial) /\ IsMap(Over(initial, snapshot.shared))
    BY DataAssumption, OverIsMap DEF DataAssumption
  <2>2. IsMap(shared') /\ IsMap(snapshot'.shared)
    BY <1>9, <2>1 DEF Rebuild
  <2>3. \A v \in Vertices : IsMap(output'[v]) /\ IsMap(snapshot'.output[v])
    BY <1>9, EmptyIsMap DEF Rebuild
  <2>4. \A v \in Vertices : reply'[v] = NoReply /\ context'[v] = NoContext
    BY <1>9 DEF Rebuild, FreshWalk
  <2> QED BY <2>2, <2>3, <2>4, NothingIsData
<1>10. CASE UNCHANGED vars
  BY <1>10 DEF vars
<1> QED
  BY <1>1, <1>2, <1>3, <1>4, <1>5, <1>6, <1>7, <1>8, <1>9, <1>10 DEF Next
-----------------------------------------------------------------------------
(* Outputs.                                                                *)

\* A task that has answered publishes what it answered next, and every other
\* task has published what it answered last; a run that has returned left no
\* task at work, and the snapshot of a blocked one is what it left behind.
KeptInv ==
  /\ kept => \A v \in Vertices :
       /\ pc[v] # "answered" => output[v] = given[v]
       /\ pc[v] = "answered" =>
            given[v] = IF reply[v].data = Empty THEN output[v] ELSE reply[v].data
  /\ result.status # "running" => \A v \in Vertices : pc[v] = "done"
  /\ result.status = "blocked" => \A v \in Vertices : snapshot.output[v] = RecodedMap(output[v])

LEMMA InitKept == Init => KeptInv
<1> SUFFICES ASSUME Init PROVE KeptInv
  OBVIOUS
<1>1. \A v \in Vertices : pc[v] = "waiting" /\ output[v] = given[v]
  BY DEF Init, FreshWalk
<1>2. result.status = "running"
  BY DEF Init
<1> QED BY <1>1, <1>2 DEF KeptInv

LEMMA NextKept == Rows /\ KeptInv /\ [Next]_vars => KeptInv'
<1> SUFFICES ASSUME Rows, KeptInv, [Next]_vars PROVE KeptInv'
  OBVIOUS
<1> USE DEF Rows, KeptInv, storeVars, walkVars, runVars, PassOver
<1>1. ASSUME NEW v \in Vertices, Enter(v) PROVE KeptInv'
  BY <1>1 DEF Enter
<1>2. ASSUME NEW v \in Vertices, RepeatSettled(v) \/ Start(v) PROVE KeptInv'
  <2>1. UNCHANGED <<output, given, snapshot, result, kept>> /\ pc[v] = "reading"
    BY <1>2 DEF RepeatSettled, Start
  <2>2. /\ pc'[v] = "answered" => reply'[v].data = Empty
        /\ pc'[v] \in {"answered", "running"}
        /\ \A w \in Vertices \ {v} : pc'[w] = pc[w] /\ reply'[w] = reply[w]
    BY <1>2 DEF RepeatSettled, Start
  <2> QED BY <2>1, <2>2
<1>3. ASSUME NEW v \in Vertices, NEW e \in In(v), ReadEdge(v, e) PROVE KeptInv'
  BY <1>3 DEF ReadEdge
<1>4. ASSUME NEW v \in Vertices, NEW w \in Writes[v], Write(v, w) \/ Delete(v, w[1])
      PROVE  KeptInv'
  BY <1>4 DEF Write, Delete
<1>5. ASSUME NEW v \in Vertices, NEW keys \in Reshares[v], Reshare(v, keys[1], keys[2])
      PROVE  KeptInv'
  BY <1>5 DEF Reshare
<1>6. ASSUME NEW v \in Vertices, NEW r \in Replies(v), Answer(v, r) PROVE KeptInv'
  BY <1>6 DEF Answer
<1>7. ASSUME NEW v \in Vertices, Publish(v) PROVE KeptInv'
  <2>1. UNCHANGED <<given, reply, snapshot, result, kept>> /\ pc[v] = "answered"
    BY <1>7 DEF Publish
  <2>2. /\ pc'[v] = "published"
        /\ output'[v] = IF reply[v].data = Empty THEN output[v] ELSE reply[v].data
        /\ \A w \in Vertices \ {v} : pc'[w] = pc[w] /\ output'[w] = output[w]
    BY <1>7 DEF Publish
  <2> QED BY <2>1, <2>2
<1>8. ASSUME NEW v \in Vertices, Record(v) PROVE KeptInv'
  BY <1>8 DEF Record
<1>9. ASSUME RunReturns PROVE KeptInv'
  <2>1. UNCHANGED <<output, given, pc, reply, kept>> /\ \A v \in Vertices : pc[v] = "done"
    BY <1>9 DEF RunReturns
  <2>2. result'.status = "blocked" => snapshot'.output = Recoded(output)
    <3>1. \/ \E data : result' = [status |-> "failure", data |-> data]
          \/ snapshot' = [shared |-> RecodedMap(shared), output |-> Recoded(output)]
          \/ \E data : result' = [status |-> "success", data |-> data]
      BY <1>9, Zenon DEF RunReturns
    <3> QED BY <3>1
  <2>3. \A v \in Vertices : Recoded(output)[v] = RecodedMap(output[v])
    BY DEF Recoded
  <2> QED BY <2>1, <2>2, <2>3
<1>10. ASSUME NEW initial \in InitialData, NEW stored \in BOOLEAN, Rebuild(initial, stored)
       PROVE  KeptInv'
  <2>1. \A v \in Vertices : pc'[v] = "waiting"
    BY <1>10 DEF Rebuild, FreshWalk
  <2>2. result'.status = "running"
    BY <1>10 DEF Rebuild
  <2>3. ASSUME kept', NEW v \in Vertices PROVE output'[v] = given'[v]
    <3>1. kept /\ stored /\ pc[v] = "done" /\ snapshot.output[v] = RecodedMap(output[v])
      BY <1>10, <2>3 DEF Rebuild
    <3> QED BY <1>10, <3>1 DEF Rebuild, Recoded
  <2> QED BY <2>1, <2>2, <2>3
<1>11. CASE UNCHANGED vars
  BY <1>11 DEF vars
<1> QED
  BY <1>1, <1>2, <1>3, <1>4, <1>5, <1>6, <1>7, <1>8, <1>9, <1>10, <1>11 DEF Next

\* What a task answered stays its output, through every interleaving and every
\* rebuild from its snapshot.
THEOREM AnswersOutliveRuns == Spec => []OutputsOutliveRuns
<1>1. KeptInv => OutputsOutliveRuns
  BY DEF KeptInv, OutputsOutliveRuns
<1> QED BY <1>1, InitRows, NextRows, InitKept, NextKept, PTL DEF Spec
-----------------------------------------------------------------------------
(* Configurations are finite trees, so what is defined by recursion over   *)
(* them exists: GetValue and Says are two such rules.                      *)

Rule(mode, x, c, f) == IF mode = "value" THEN Assemble(x, c, f) ELSE Allowed(x, c, f)

\* The functions that obey the rule on what is nested less deep than n.
Shallow(n) == {c \in Configs : Nesting[c] < n}
Solves(mode, x, n, f) == f = [c \in Shallow(n) |-> Rule(mode, x, c, f)]
Obeys(mode, x, f) == f = [c \in Configs |-> Rule(mode, x, c, f)]

\* Configurations that a claim is false of include a least nested one.
LEMMA LeastConfig ==
  ASSUME NEW C \in SUBSET Configs, C # {}
  PROVE  \E c \in C : \A d \in Configs : Nesting[d] < Nesting[c] => d \notin C
<1> DEFINE N == {Nesting[c] : c \in C}
<1>1. \A c \in Configs : Nesting[c] \in Nat
  BY ConfigAssumption DEF ConfigAssumption
<1>2. N \in SUBSET Nat /\ N # {}
  BY <1>1
<1>3. PICK n \in N : \A m \in N : n <= m
  BY <1>2, LeastNat
<1>4. PICK c \in C : n = Nesting[c]
  OBVIOUS
<1>5. ASSUME NEW d \in C, Nesting[d] < Nesting[c] PROVE FALSE
  BY <1>1, <1>3, <1>4, <1>5
<1> QED BY <1>5

LEMMA ItemsAreShallow ==
  ASSUME NEW c \in Configs, c.type \in Nested, NEW i \in DOMAIN c.items
  PROVE  c.items[i] \in Configs /\ Nesting[c.items[i]] \in Nat
         /\ Nesting[c] \in Nat /\ Nesting[c.items[i]] < Nesting[c]
BY ConfigAssumption DEF ConfigAssumption

\* A rule looks at the items of a configuration only.
LEMMA RuleIsLocal ==
  ASSUME NEW mode, NEW x, NEW c \in Configs, NEW f, NEW h,
         c.type \in Nested => \A i \in DOMAIN c.items : f[c.items[i]] = h[c.items[i]]
  PROVE  Rule(mode, x, c, f) = Rule(mode, x, c, h)
<1>1. CASE c.type \in Nested
  <2>1. \A i \in DOMAIN c.items : f[c.items[i]] = h[c.items[i]]
    BY <1>1
  <2>2. [i \in DOMAIN c.items |-> f[c.items[i]]] = [i \in DOMAIN c.items |-> h[c.items[i]]]
    BY <2>1
  <2>3. Assemble(x, c, f) = Assemble(x, c, h)
    BY <1>1, <2>2 DEF Assemble, Nested
  <2>4. {f[c.items[i]] : i \in DOMAIN c.items} = {h[c.items[i]] : i \in DOMAIN c.items}
    BY <2>1
  <2>5. UNION {f[c.items[i]] : i \in DOMAIN c.items} = UNION {h[c.items[i]] : i \in DOMAIN c.items}
    BY <2>4
  <2>6. {val \in [DOMAIN c.items -> UNION {f[c.items[i]] : i \in DOMAIN c.items}] :
            \A i \in DOMAIN c.items : val[i] \in f[c.items[i]]}
        = {val \in [DOMAIN c.items -> UNION {h[c.items[i]] : i \in DOMAIN c.items}] :
            \A i \in DOMAIN c.items : val[i] \in h[c.items[i]]}
    BY <2>1, <2>5
  <2>7. Allowed(x, c, f) = Allowed(x, c, h)
    BY <1>1, <2>6 DEF Allowed, Nested
  <2> QED BY <2>3, <2>7 DEF Rule
<1>2. CASE c.type \notin Nested
  <2>1. Assemble(x, c, f) = Assemble(x, c, h)
    BY <1>2 DEF Assemble
  <2>2. Allowed(x, c, f) = Allowed(x, c, h)
    BY <1>2 DEF Allowed
  <2> QED BY <2>1, <2>2 DEF Rule
<1> QED BY <1>1, <1>2

LEMMA SolutionsAgree ==
  ASSUME NEW mode, NEW x, NEW n \in Nat, NEW k \in Nat,
         NEW f, Solves(mode, x, n, f), NEW h, Solves(mode, x, k, h)
  PROVE  \A c \in Shallow(n) \cap Shallow(k) : f[c] = h[c]
<1> DEFINE C == {c \in Shallow(n) \cap Shallow(k) : f[c] # h[c]}
<1> SUFFICES ASSUME C # {} PROVE FALSE
  OBVIOUS
<1>1. PICK c \in C : \A d \in Configs : Nesting[d] < Nesting[c] => d \notin C
  BY LeastConfig DEF Shallow
<1>2. c \in Configs /\ Nesting[c] < n /\ Nesting[c] < k
  BY DEF Shallow
<1>3. ASSUME c.type \in Nested, NEW i \in DOMAIN c.items PROVE f[c.items[i]] = h[c.items[i]]
  <2>1. /\ c.items[i] \in Configs /\ Nesting[c.items[i]] < Nesting[c]
        /\ Nesting[c.items[i]] < n /\ Nesting[c.items[i]] < k
    BY <1>2, <1>3, ItemsAreShallow
  <2> QED BY <1>1, <2>1 DEF Shallow
<1>4. Rule(mode, x, c, f) = Rule(mode, x, c, h)
  BY <1>2, <1>3, RuleIsLocal
<1>5. f[c] = Rule(mode, x, c, f) /\ h[c] = Rule(mode, x, c, h)
  BY DEF Solves
<1> QED BY <1>4, <1>5

LEMMA SolutionsExist ==
  ASSUME NEW mode, NEW x
  PROVE  \A n \in Nat : \E f : Solves(mode, x, n, f)
<1> DEFINE N == {n \in Nat : \A f : ~Solves(mode, x, n, f)}
<1> SUFFICES ASSUME N # {} PROVE FALSE
  OBVIOUS
<1>1. PICK n \in N : \A m \in N : n <= m
  BY LeastNat
<1>2. ASSUME n = 0 PROVE FALSE
  <2>1. Shallow(n) = {}
    BY <1>2, ConfigAssumption DEF Shallow, ConfigAssumption
  <2>2. Solves(mode, x, n, [c \in Shallow(n) |-> c])
    BY <2>1 DEF Solves
  <2> QED BY <2>2
<1>3. ASSUME n # 0 PROVE FALSE
  <2>1. n - 1 \in Nat /\ n - 1 \notin N
    BY <1>1, <1>3
  <2>2. PICK f : Solves(mode, x, n - 1, f)
    BY <2>1
  <2> DEFINE h == [c \in Shallow(n) |-> Rule(mode, x, c, f)]
  <2>3. ASSUME NEW c \in Shallow(n) PROVE Rule(mode, x, c, f) = Rule(mode, x, c, h)
    <3>1. c \in Configs /\ Nesting[c] < n
      BY DEF Shallow
    <3>2. ASSUME c.type \in Nested, NEW i \in DOMAIN c.items PROVE f[c.items[i]] = h[c.items[i]]
      <4>1. c.items[i] \in Shallow(n - 1) /\ c.items[i] \in Shallow(n)
        BY <3>1, <3>2, ItemsAreShallow DEF Shallow
      <4>2. f[c.items[i]] = Rule(mode, x, c.items[i], f)
        BY <2>2, <4>1 DEF Solves
      <4> QED BY <4>1, <4>2
    <3> HIDE DEF h
    <3> QED BY <3>1, <3>2, RuleIsLocal
  <2>4. h = [c \in Shallow(n) |-> Rule(mode, x, c, h)]
    BY <2>3
  <2>5. Solves(mode, x, n, h)
    BY <2>4 DEF Solves
  <2> QED BY <2>5
<1> QED BY <1>2, <1>3

LEMMA RulesAreObeyed ==
  ASSUME NEW mode, NEW x
  PROVE  \E f : Obeys(mode, x, f)
<1> DEFINE Solution(n) == CHOOSE f : Solves(mode, x, n, f)
           F == [c \in Configs |-> Solution(Nesting[c] + 1)[c]]
<1>1. \A n \in Nat : Solves(mode, x, n, Solution(n))
  BY SolutionsExist
<1>2. \A c \in Configs : Nesting[c] \in Nat
  BY ConfigAssumption DEF ConfigAssumption
<1>3. ASSUME NEW c \in Configs PROVE F[c] = Rule(mode, x, c, F)
  <2> DEFINE n == Nesting[c] + 1
  <2>1. n \in Nat /\ c \in Shallow(n) /\ F[c] = Solution(n)[c]
    BY <1>2 DEF Shallow
  <2>2. Solution(n)[c] = Rule(mode, x, c, Solution(n))
    BY <1>1, <2>1 DEF Solves
  <2>3. ASSUME c.type \in Nested, NEW i \in DOMAIN c.items
        PROVE  F[c.items[i]] = Solution(n)[c.items[i]]
    <3> DEFINE d == c.items[i]
               m == Nesting[d] + 1
    <3>1. d \in Configs /\ m \in Nat /\ d \in Shallow(m) /\ d \in Shallow(n)
      BY <1>2, <2>3, ItemsAreShallow DEF Shallow
    <3>2. F[d] = Solution(m)[d]
      BY <3>1
    <3>3. Solves(mode, x, m, Solution(m)) /\ Solves(mode, x, n, Solution(n))
      BY <1>1, <2>1, <3>1
    <3>4. Solution(m)[d] = Solution(n)[d]
      <4> HIDE DEF Solution, m, n
      <4> QED BY <2>1, <3>1, <3>3, SolutionsAgree
    <3> QED BY <3>2, <3>4
  <2> HIDE DEF F, Solution
  <2>4. Rule(mode, x, c, F) = Rule(mode, x, c, Solution(n))
    BY <2>3, RuleIsLocal
  <2> QED BY <2>1, <2>2, <2>4
<1>4. F = [c \in Configs |-> Rule(mode, x, c, F)]
  <2>1. F = [c \in Configs |-> F[c]]
    OBVIOUS
  <2> HIDE DEF F
  <2> QED BY <1>3, <2>1
<1> QED BY <1>4 DEF Obeys

LEMMA ValueObeys ==
  ASSUME NEW ctx, NEW c \in Configs
  PROVE  GetValue(ctx)[c] = Assemble(ctx, c, GetValue(ctx))
<1>1. PICK f : Obeys("value", ctx, f)
  BY RulesAreObeyed
<1>2. \A d \in Configs : Rule("value", ctx, d, f) = Assemble(ctx, d, f)
  BY DEF Rule
<1>3. f = [d \in Configs |-> Assemble(ctx, d, f)]
  BY <1>1, <1>2 DEF Obeys
<1> QED BY <1>3 DEF GetValue

LEMMA SaysObeys ==
  ASSUME NEW provided, NEW c \in Configs
  PROVE  Says(provided)[c] = Allowed(provided, c, Says(provided))
<1>1. PICK f : Obeys("says", provided, f)
  BY RulesAreObeyed
<1>2. \A d \in Configs : Rule("says", provided, d, f) = Allowed(provided, d, f)
  BY DEF Rule
<1>3. f = [d \in Configs |-> Allowed(provided, d, f)]
  BY <1>1, <1>2 DEF Obeys
<1> QED BY <1>3 DEF Says

-----------------------------------------------------------------------------
(* What a task reads.                                                      *)

\* The in-edges of v that a context was made of; and a context made of them.
ReadBy(v, ctx) == {e \in In(v) : \E i \in DOMAIN ctx.prev : ctx.prev[i] = e[1]}

Holds(v, ctx) ==
  /\ ctx.prev \in Seq(Vertices)
  /\ \A i \in DOMAIN ctx.prev : \E e \in In(v) : e[1] = ctx.prev[i]
  /\ \A key \in DOMAIN ctx.properties : \E e \in ReadBy(v, ctx) :
       key \in DOMAIN Properties[e] /\ ctx.properties[key] = Properties[e][key]
  /\ \A e \in ReadBy(v, ctx) : DOMAIN Properties[e] \subseteq DOMAIN ctx.properties

LEMMA NothingIsHeld == \A v \in Vertices : Holds(v, NoContext) /\ ReadBy(v, NoContext) = {}
<1>1. NoContext.prev = <<>> /\ NoContext.properties = <<>>
  BY DEF NoContext, Empty
<1>2. <<>> \in Seq(Vertices) /\ DOMAIN <<>> = {}
  OBVIOUS
<1> QED BY <1>1, <1>2 DEF Holds, ReadBy

\* One more edge, in any order.
LEMMA ReadingHolds ==
  ASSUME NEW v \in Vertices, NEW ctx, Holds(v, ctx), NEW e \in In(v),
         NEW new, new = [properties |-> Over(Properties[e], ctx.properties),
                         prev |-> Append(ctx.prev, e[1])]
  PROVE  Holds(v, new) /\ ReadBy(v, new) = ReadBy(v, ctx) \cup {e}
<1>1. /\ e \in Edges /\ e[2] = v /\ e[1] \in Vertices
      /\ \A f \in In(v) : f[1] = e[1] => f = e
  BY EdgeAssumption DEF EdgeAssumption, In
<1>2. /\ new.prev = Append(ctx.prev, e[1])
      /\ new.properties = Over(Properties[e], ctx.properties)
  OBVIOUS
<1>3. /\ new.prev \in Seq(Vertices)
      /\ DOMAIN new.prev = DOMAIN ctx.prev \cup {Len(ctx.prev) + 1}
      /\ \A i \in DOMAIN ctx.prev : new.prev[i] = ctx.prev[i]
      /\ new.prev[Len(ctx.prev) + 1] = e[1]
  BY <1>1, <1>2 DEF Holds
<1>4. ReadBy(v, new) = ReadBy(v, ctx) \cup {e}
  BY <1>1, <1>3 DEF ReadBy
<1>5. \A i \in DOMAIN new.prev : \E f \in In(v) : f[1] = new.prev[i]
  BY <1>3 DEF Holds
<1>6. /\ DOMAIN new.properties = DOMAIN Properties[e] \cup DOMAIN ctx.properties
      /\ \A key \in DOMAIN Properties[e] : new.properties[key] = Properties[e][key]
      /\ \A key \in DOMAIN ctx.properties \ DOMAIN Properties[e] :
           new.properties[key] = ctx.properties[key]
  BY <1>2 DEF Over
<1>7. ASSUME NEW key \in DOMAIN new.properties
      PROVE  \E f \in ReadBy(v, new) :
               key \in DOMAIN Properties[f] /\ new.properties[key] = Properties[f][key]
  BY <1>4, <1>6 DEF Holds
<1>8. \A f \in ReadBy(v, new) : DOMAIN Properties[f] \subseteq DOMAIN new.properties
  BY <1>4, <1>6 DEF Holds
<1> QED BY <1>3, <1>4, <1>5, <1>7, <1>8 DEF Holds

\* Where a value comes from that a task of v finds.
LEMMA GetIsProvided ==
  ASSUME NEW v \in Vertices, NEW ctx, Holds(v, ctx), NEW key
  PROVE  \/ \E e \in ReadBy(v, ctx) :
              key \in DOMAIN Properties[e] /\ Get(ctx, key) = Properties[e][key]
         \/ /\ \A e \in ReadBy(v, ctx) : key \notin DOMAIN Properties[e]
            /\ \E e \in ReadBy(v, ctx) :
                 key \in DOMAIN output[e[1]] /\ Get(ctx, key) = output[e[1]][key]
         \/ /\ \A e \in ReadBy(v, ctx) :
                 key \notin DOMAIN Properties[e] /\ key \notin DOMAIN output[e[1]]
            /\ Get(ctx, key) = IF key \in DOMAIN shared THEN shared[key] ELSE NoValue
<1>1. CASE key \in DOMAIN ctx.properties
  BY <1>1, GetLooksUp DEF Holds
<1>2. CASE key \notin DOMAIN ctx.properties /\ From(ctx, key) # {}
  <2>1. \A e \in ReadBy(v, ctx) : key \notin DOMAIN Properties[e]
    BY <1>2 DEF Holds
  <2>2. PICK i \in From(ctx, key) : Get(ctx, key) = output[ctx.prev[i]][key]
    BY <1>2, GetLooksUp DEF Holds
  <2>3. i \in DOMAIN ctx.prev /\ key \in DOMAIN output[ctx.prev[i]]
    BY DEF From
  <2>4. PICK e \in In(v) : e[1] = ctx.prev[i]
    BY <2>3 DEF Holds
  <2>5. e \in ReadBy(v, ctx)
    BY <2>3, <2>4 DEF ReadBy
  <2> QED BY <2>1, <2>2, <2>3, <2>4, <2>5
<1>3. CASE key \notin DOMAIN ctx.properties /\ From(ctx, key) = {}
  <2>1. \A e \in ReadBy(v, ctx) : key \notin DOMAIN Properties[e]
    BY <1>3 DEF Holds
  <2>2. \A e \in ReadBy(v, ctx) : key \notin DOMAIN output[e[1]]
    BY <1>3 DEF ReadBy, From
  <2> QED BY <1>3, <2>1, <2>2, GetLooksUp DEF Holds
<1> QED BY <1>1, <1>2, <1>3

\* What is found, when every edge was read, is what is provided; or else what
\* is shared.
LEMMA GetIsAllowed ==
  ASSUME DataInv, NEW v \in Vertices, NEW ctx, Holds(v, ctx), ReadBy(v, ctx) = In(v), NEW key
  PROVE  IF Provided(v, key) # {} THEN Get(ctx, key) \in Provided(v, key)
                                  ELSE Get(ctx, key) \in Data \cup {NoValue}
<1> DEFINE edges == {e \in In(v) : key \in DOMAIN Properties[e]}
           sources == {e \in In(v) : key \in DOMAIN output[e[1]]}
<1>1. Provided(v, key) = IF edges # {} THEN {Properties[e][key] : e \in edges}
                                       ELSE {output[e[1]][key] : e \in sources}
  BY DEF Provided
<1>2. CASE \E e \in In(v) : key \in DOMAIN Properties[e] /\ Get(ctx, key) = Properties[e][key]
  BY <1>1, <1>2
<1>3. CASE /\ \A e \in In(v) : key \notin DOMAIN Properties[e]
           /\ \E e \in In(v) : key \in DOMAIN output[e[1]] /\ Get(ctx, key) = output[e[1]][key]
  BY <1>1, <1>3
<1>4. CASE /\ \A e \in In(v) : key \notin DOMAIN Properties[e] /\ key \notin DOMAIN output[e[1]]
           /\ Get(ctx, key) = IF key \in DOMAIN shared THEN shared[key] ELSE NoValue
  <2>1. Provided(v, key) = {}
    BY <1>1, <1>4
  <2> QED BY <1>4, <2>1 DEF DataInv, IsMap
<1> QED BY <1>2, <1>3, <1>4, GetIsProvided

LEMMA ValuesAreAllowed ==
  ASSUME DataInv, NEW v \in Vertices, NEW ctx, Holds(v, ctx), ReadBy(v, ctx) = In(v)
  PROVE  \A c \in Configs :
           GetValue(ctx)[c] # Missing => GetValue(ctx)[c] \in Says(AllProvided(v))[c]
<1> DEFINE value == GetValue(ctx)
           says == Says(AllProvided(v))
           C == {c \in Configs : value[c] # Missing /\ value[c] \notin says[c]}
<1> SUFFICES ASSUME C # {} PROVE FALSE
  OBVIOUS
<1>1. PICK c \in C : \A d \in Configs : Nesting[d] < Nesting[c] => d \notin C
  BY LeastConfig
<1>2. value[c] = Assemble(ctx, c, value) /\ says[c] = Allowed(AllProvided(v), c, says)
  BY ValueObeys, SaysObeys
<1>3. c \in Configs /\ value[c] # Missing /\ value[c] \notin says[c]
  OBVIOUS
<1> HIDE DEF value, says, C
<1>4. CASE c.type = "variable"
  <2>1. c.variable \in Variables
    BY <1>3, <1>4 DEF Variables
  <2>2. AllProvided(v)[c.variable] = Provided(v, c.variable)
    BY <2>1 DEF AllProvided
  <2>3. value[c] = Get(ctx, c.variable) /\ (c.required => value[c] # NoValue)
    BY <1>2, <1>3, <1>4 DEF Assemble, Nested
  <2>4. says[c] = IF Provided(v, c.variable) # {} THEN Provided(v, c.variable)
                  ELSE IF c.required THEN Data ELSE Data \cup {NoValue}
    BY <1>2, <1>4, <2>2 DEF Allowed, Nested
  <2> QED BY <1>3, <2>3, <2>4, GetIsAllowed
<1>5. CASE c.type = "literal"
  BY <1>2, <1>3, <1>5 DEF Assemble, Allowed, Nested
<1>6. CASE c.type \in Nested
  <2> DEFINE item == [i \in DOMAIN c.items |-> value[c.items[i]]]
  <2>1. value[c] = item /\ \A i \in DOMAIN c.items : value[c.items[i]] # Missing
    BY <1>2, <1>3, <1>6 DEF Assemble, Nested
  <2>2. ASSUME NEW i \in DOMAIN c.items PROVE item[i] \in says[c.items[i]]
    <3>1. c.items[i] \in Configs /\ Nesting[c.items[i]] < Nesting[c]
      BY <1>3, <1>6, ItemsAreShallow
    <3> QED BY <1>1, <2>1, <3>1 DEF C
  <2>3. says[c] = {val \in [DOMAIN c.items -> UNION {says[c.items[i]] : i \in DOMAIN c.items}] :
                     \A i \in DOMAIN c.items : val[i] \in says[c.items[i]]}
    BY <1>2, <1>6 DEF Allowed, Nested
  <2>4. item \in [DOMAIN c.items -> UNION {says[c.items[i]] : i \in DOMAIN c.items}]
    BY <2>2
  <2> QED BY <1>3, <2>1, <2>2, <2>3, <2>4
<1>7. CASE c.type \notin {"variable", "literal"} \cup Nested
  BY <1>2, <1>3, <1>7 DEF Assemble, Allowed
<1> QED BY <1>4, <1>5, <1>6, <1>7

\* Two parameters of one name fill one field, so only the last would be given.
DistinctNames ==
  \A v \in Vertices : \A i, j \in DOMAIN Params[v] : Params[v][i].name = Params[v][j].name => i = j

LEMMA PreparedIsGiven ==
  ASSUME DistinctNames, NEW v \in Vertices, NEW ctx, NEW prepared,
         prepared = Prepared(ctx, Params[v]), prepared # Missing, NEW i \in DOMAIN Params[v]
  PROVE  LET c == Params[v][i] IN
         /\ GetValue(ctx)[c] # Missing
         /\ GetValue(ctx)[c] = IF c.name \in DOMAIN prepared THEN prepared[c.name] ELSE NoValue
<1> DEFINE configs == Params[v]
           val == [j \in DOMAIN configs |-> GetValue(ctx)[configs[j]]]
           set == {j \in DOMAIN configs : val[j] # NoValue}
           fields == {configs[j].name : j \in set}
           last(f) == CHOOSE j \in set :
                        configs[j].name = f /\ \A k \in set : configs[k].name = f => k <= j
<1>1. /\ \A j \in set : val[j] # Missing
      /\ prepared = [f \in fields |-> val[last(f)]]
  BY DEF Prepared
<1>2. \A j, k \in DOMAIN configs : configs[j].name = configs[k].name => j = k
  BY DEF DistinctNames
<1>3. NoValue # Missing /\ DOMAIN configs \subseteq Nat
  BY DataAssumption, ConfigAssumption DEF DataAssumption, ConfigAssumption
<1>4. DOMAIN prepared = fields /\ val[i] = GetValue(ctx)[configs[i]]
  BY <1>1
<1>5. CASE i \in set
  <2>1. last(configs[i].name) = i
    BY <1>2, <1>3, <1>5
  <2>2. configs[i].name \in fields
    BY <1>5
  <2> HIDE DEF set, fields, last, val
  <2>3. prepared[configs[i].name] = val[i]
    BY <1>1, <2>1, <2>2
  <2> QED BY <1>1, <1>4, <1>5, <2>2, <2>3
<1>6. CASE i \notin set
  <2>1. val[i] = NoValue
    BY <1>6
  <2>2. configs[i].name \notin fields
    BY <1>2, <1>6
  <2> HIDE DEF set, fields, last, val
  <2> QED BY <1>3, <1>4, <2>1, <2>2
<1> QED BY <1>5, <1>6

-----------------------------------------------------------------------------
(* Running tasks.                                                          *)

\* An edge that decides has let its target in on a value it is provided with.
LetIn(e) ==
  Decides(e) => \E val \in Provided(e[2], Conditions[e].key) : Match(Conditions[e], val)

WellGiven(v) ==
  \A i \in DOMAIN Params[v] : Given(v, Params[v][i]) \in Says(AllProvided(v))[Params[v][i]]

\* What a task reads from is done, and a running one has read from all of it.
TaskOK(v) ==
  /\ Holds(v, context[v])
  /\ pc[v] = "waiting" => context[v] = NoContext
  /\ pc[v] \in {"reading", "running"} =>
       /\ \A e \in In(v) : pc[e[1]] = "done"
       /\ \A e \in ReadBy(v, context[v]) : LetIn(e)
  /\ pc[v] = "running" => ReadBy(v, context[v]) = In(v) /\ WellGiven(v)

TasksInv == \A v \in Vertices : TaskOK(v)

\* A task that is done keeps its output.
DoneStays == \A w \in Vertices : pc[w] = "done" => pc'[w] = "done" /\ output'[w] = output[w]

LEMMA ProvisionStays ==
  ASSUME NEW v \in Vertices, DoneStays, \A e \in In(v) : pc[e[1]] = "done"
  PROVE  /\ AllProvided(v)' = AllProvided(v)
         /\ \A e \in In(v) : LetIn(e)' <=> LetIn(e)
<1>1. \A e \in In(v) : output'[e[1]] = output[e[1]]
  BY EdgeAssumption DEF EdgeAssumption, In, DoneStays
<1>2. ASSUME NEW key PROVE Provided(v, key)' = Provided(v, key)
  <2>1. {e \in In(v) : key \in DOMAIN output'[e[1]]} = {e \in In(v) : key \in DOMAIN output[e[1]]}
    BY <1>1
  <2>2. {output'[e[1]][key] : e \in {f \in In(v) : key \in DOMAIN output'[f[1]]}}
        = {output[e[1]][key] : e \in {f \in In(v) : key \in DOMAIN output[f[1]]}}
    BY <1>1, <2>1
  <2> QED BY <2>2 DEF Provided
<1>3. AllProvided(v)' = AllProvided(v)
  BY <1>2 DEF AllProvided
<1>4. ASSUME NEW e \in In(v) PROVE LetIn(e)' <=> LetIn(e)
  <2>1. e[2] = v
    BY DEF In
  <2>2. Decides(e)' <=> Decides(e)
    BY <1>1, <2>1 DEF Decides
  <2>3. Provided(e[2], Conditions[e].key)' = Provided(e[2], Conditions[e].key)
    BY <1>2, <2>1
  <2> QED BY <2>2, <2>3 DEF LetIn
<1> QED BY <1>3, <1>4

\* What a task was given stays right as long as it runs.
LEMMA TaskStays ==
  ASSUME TasksInv, NEW v \in Vertices, DoneStays,
         UNCHANGED <<context[v], param[v]>>,
         pc'[v] = pc[v] \/ pc'[v] \notin {"waiting", "reading", "running"}
  PROVE  TaskOK(v)'
<1>1. TaskOK(v)
  BY DEF TasksInv
<1>2. Holds(v, context[v])'
  BY <1>1 DEF TaskOK, Holds, ReadBy
<1>3. ReadBy(v, context[v])' = ReadBy(v, context[v])
  BY DEF ReadBy
<1>4. CASE pc[v] \in {"reading", "running"} /\ pc'[v] = pc[v]
  <2>1. /\ \A e \in In(v) : pc[e[1]] = "done"
        /\ \A e \in ReadBy(v, context[v]) : LetIn(e)
        /\ pc[v] = "running" => ReadBy(v, context[v]) = In(v) /\ WellGiven(v)
    BY <1>1, <1>4 DEF TaskOK
  <2>2. AllProvided(v)' = AllProvided(v) /\ \A e \in In(v) : LetIn(e)' <=> LetIn(e)
    BY <2>1, ProvisionStays
  <2>3. \A e \in In(v) : pc'[e[1]] = "done"
    BY <2>1, EdgeAssumption DEF EdgeAssumption, In, DoneStays
  <2>4. \A e \in ReadBy(v, context[v])' : LetIn(e)'
    BY <1>3, <2>1, <2>2 DEF ReadBy
  <2>5. \A c : Given(v, c)' = Given(v, c)
    BY DEF Given
  <2>6. WellGiven(v)' <=> WellGiven(v)
    BY <2>2, <2>5 DEF WellGiven
  <2> QED BY <1>2, <1>3, <1>4, <2>1, <2>3, <2>4, <2>6 DEF TaskOK
<1>5. CASE pc[v] = "waiting" /\ pc'[v] = pc[v]
  BY <1>1, <1>2, <1>5 DEF TaskOK
<1>6. CASE pc'[v] \notin {"waiting", "reading", "running"}
  BY <1>2, <1>6 DEF TaskOK
<1> QED BY <1>4, <1>5, <1>6

\* A condition that holds of what was found holds of what is provided.
LEMMA MatchLetsIn ==
  ASSUME NEW v \in Vertices, NEW ctx, Holds(v, ctx), NEW e \in ReadBy(v, ctx),
         Conditions[e] = NoCondition \/ Match(Conditions[e], Get(ctx, Conditions[e].key))
  PROVE  LetIn(e)
<1> SUFFICES ASSUME Decides(e)
             PROVE  \E val \in Provided(v, Conditions[e].key) : Match(Conditions[e], val)
  BY DEF LetIn, ReadBy, In
<1> DEFINE key == Conditions[e].key
<1>1. e \in In(v) /\ e[2] = v
  BY DEF ReadBy, In
<1>2. /\ Match(Conditions[e], Get(ctx, key))
      /\ key \in DOMAIN Properties[e] \cup DOMAIN output[e[1]]
      /\ \A other \in In(v) \ {e} :
           key \notin DOMAIN Properties[other] /\ key \notin DOMAIN output[other[1]]
  BY <1>1 DEF Decides
<1>3. Get(ctx, key) \in Provided(v, key)
  <2>1. \A f \in ReadBy(v, ctx) : f \in In(v)
    BY DEF ReadBy
  <2>2. CASE \E f \in ReadBy(v, ctx) :
               key \in DOMAIN Properties[f] /\ Get(ctx, key) = Properties[f][key]
    BY <2>1, <2>2 DEF Provided
  <2>3. CASE /\ \A f \in ReadBy(v, ctx) : key \notin DOMAIN Properties[f]
             /\ \E f \in ReadBy(v, ctx) :
                  key \in DOMAIN output[f[1]] /\ Get(ctx, key) = output[f[1]][key]
    <3>1. {f \in In(v) : key \in DOMAIN Properties[f]} = {}
      BY <1>2, <2>3
    <3> QED BY <2>1, <2>3, <3>1 DEF Provided
  <2>4. CASE \A f \in ReadBy(v, ctx) :
               key \notin DOMAIN Properties[f] /\ key \notin DOMAIN output[f[1]]
    BY <1>2, <2>4
  <2> HIDE DEF key
  <2> QED BY <2>2, <2>3, <2>4, GetIsProvided
<1> QED BY <1>2, <1>3

LEMMA InitTasks == Init => TasksInv
<1> SUFFICES ASSUME Init, NEW v \in Vertices PROVE TaskOK(v)
  BY DEF TasksInv
<1>1. pc[v] = "waiting" /\ context[v] = NoContext
  BY DEF Init, FreshWalk
<1> QED BY <1>1, NothingIsHeld DEF TaskOK

\* Every step of a task leaves what is done alone.
LEMMA DoneStaysDone ==
  ASSUME Rows, NEW u \in Vertices,
         \/ Enter(u) \/ (\E e \in In(u) : ReadEdge(u, e)) \/ RepeatSettled(u) \/ Start(u)
         \/ (\E w \in Writes[u] : Write(u, w) \/ Delete(u, w[1]))
         \/ (\E keys \in Reshares[u] : Reshare(u, keys[1], keys[2]))
         \/ (\E r \in Replies(u) : Answer(u, r)) \/ Publish(u) \/ Record(u)
  PROVE  /\ DoneStays
         /\ \A v \in Vertices \ {u} : UNCHANGED <<context[v], param[v], pc[v]>>
<1> USE DEF Rows, DoneStays, storeVars, walkVars, runVars, PassOver
<1> DEFINE Goal == DoneStays /\ \A v \in Vertices \ {u} : UNCHANGED <<context[v], param[v], pc[v]>>
<1>1. CASE Enter(u)
  BY <1>1 DEF Enter
<1>2. ASSUME NEW e \in In(u), ReadEdge(u, e) PROVE Goal
  BY <1>2 DEF ReadEdge
<1>3. CASE RepeatSettled(u)
  BY <1>3 DEF RepeatSettled
<1>4. CASE Start(u)
  BY <1>4 DEF Start
<1>5. ASSUME NEW w \in Writes[u], Write(u, w) \/ Delete(u, w[1]) PROVE Goal
  BY <1>5 DEF Write, Delete
<1>6. ASSUME NEW keys \in Reshares[u], Reshare(u, keys[1], keys[2]) PROVE Goal
  BY <1>6 DEF Reshare
<1>7. ASSUME NEW r \in Replies(u), Answer(u, r) PROVE Goal
  BY <1>7 DEF Answer
<1>8. CASE Publish(u)
  BY <1>8 DEF Publish
<1>9. CASE Record(u)
  BY <1>9 DEF Record
<1> HIDE DEF Goal, DoneStays
<1>10. Goal
  BY <1>1, <1>2, <1>3, <1>4, <1>5, <1>6, <1>7, <1>8, <1>9 DEF Goal
<1> QED BY <1>10 DEF Goal

LEMMA EnterTask ==
  ASSUME Rows, TasksInv, NEW u \in Vertices, Enter(u), DoneStays
  PROVE  TaskOK(u)'
<1>1. TaskOK(u) /\ context[u] = NoContext /\ context' = context
  BY DEF TasksInv, TaskOK, Enter
<1>2. Holds(u, context[u])' /\ ReadBy(u, context[u])' = {}
  BY <1>1, NothingIsHeld DEF Holds, ReadBy
<1>3. \A e \in In(u) : pc'[e[1]] = "done"
  BY EdgeAssumption DEF EdgeAssumption, Enter, DoneStays, In
<1>4. pc'[u] \in {"reading", "done"}
  BY DEF Enter, PassOver, Rows
<1> QED BY <1>2, <1>3, <1>4 DEF TaskOK

LEMMA ReadEdgeTask ==
  ASSUME Rows, TasksInv, NEW u \in Vertices, NEW e \in In(u), ReadEdge(u, e), DoneStays
  PROVE  TaskOK(u)'
<1> DEFINE new == [properties |-> Over(Properties[e], context[u].properties),
                   prev |-> Append(context[u].prev, e[1])]
<1>1. TaskOK(u) /\ pc[u] = "reading" /\ context'[u] = new
  BY DEF TasksInv, ReadEdge, Rows
<1>2. Holds(u, new) /\ ReadBy(u, new) = ReadBy(u, context[u]) \cup {e}
  BY <1>1, ReadingHolds DEF TaskOK
<1>3. /\ \A f \in In(u) : pc[f[1]] = "done"
      /\ \A f \in ReadBy(u, context[u]) : LetIn(f)
  BY <1>1 DEF TaskOK
<1>4. \A f \in In(u) : pc'[f[1]] = "done"
  BY <1>3, EdgeAssumption DEF EdgeAssumption, DoneStays, In
<1>5. Holds(u, context[u])' /\ ReadBy(u, context[u])' = ReadBy(u, new)
  <2> HIDE DEF new
  <2> QED BY <1>1, <1>2 DEF Holds, ReadBy
<1>6. CASE Conditions[e] = NoCondition \/ Match(Conditions[e], Get(new, Conditions[e].key))
  <2>1. LetIn(e)
    BY <1>2, <1>6, MatchLetsIn
  <2>2. \A f \in ReadBy(u, new) : f \in In(u) /\ LetIn(f)
    BY <1>2, <1>3, <2>1 DEF ReadBy
  <2>3. \A f \in ReadBy(u, new) : LetIn(f)'
    BY <1>3, <2>2, ProvisionStays
  <2>4. pc'[u] = "reading"
    BY <1>1, <1>6 DEF ReadEdge
  <2> QED BY <1>4, <1>5, <2>3, <2>4 DEF TaskOK
<1>7. CASE ~(Conditions[e] = NoCondition \/ Match(Conditions[e], Get(new, Conditions[e].key)))
  <2>1. pc'[u] = "done"
    BY <1>7 DEF ReadEdge, PassOver, Rows
  <2> QED BY <1>5, <2>1 DEF TaskOK
<1> QED BY <1>6, <1>7

LEMMA StartTask ==
  ASSUME DistinctNames, Rows, DataInv, TasksInv, NEW u \in Vertices, Start(u), DoneStays
  PROVE  TaskOK(u)'
<1> DEFINE prepared == Prepared(context[u], Params[u])
<1>1. TaskOK(u) /\ pc[u] = "reading" /\ AllRead(u) /\ context' = context
  BY DEF TasksInv, Start
<1>2. /\ Holds(u, context[u]) /\ ReadBy(u, context[u]) = In(u)
      /\ \A e \in In(u) : pc[e[1]] = "done"
      /\ \A e \in In(u) : LetIn(e)
  BY <1>1 DEF TaskOK, AllRead, ReadBy
<1>3. Holds(u, context[u])' /\ ReadBy(u, context[u])' = In(u)
  BY <1>1, <1>2 DEF Holds, ReadBy
<1>4. CASE prepared = Missing
  <2>1. pc'[u] = "answered"
    BY <1>4 DEF Start, Rows
  <2> QED BY <1>3, <2>1 DEF TaskOK
<1>5. CASE prepared # Missing
  <2>1. pc'[u] = "running" /\ param'[u] = prepared
    BY <1>5 DEF Start, Rows
  <2>2. AllProvided(u)' = AllProvided(u) /\ \A e \in In(u) : LetIn(e)'
    BY <1>2, ProvisionStays
  <2>3. ASSUME NEW i \in DOMAIN Params[u]
        PROVE  Given(u, Params[u][i])' \in Says(AllProvided(u))[Params[u][i]]
    <3> DEFINE c == Params[u][i]
    <3>1. c \in Configs
      BY ConfigAssumption DEF ConfigAssumption
    <3>2. /\ GetValue(context[u])[c] # Missing
          /\ GetValue(context[u])[c] = IF c.name \in DOMAIN prepared THEN prepared[c.name] ELSE NoValue
      <4> HIDE DEF prepared
      <4>1. prepared = Prepared(context[u], Params[u])
        BY DEF prepared
      <4> QED BY <1>5, <4>1, PreparedIsGiven
    <3>3. GetValue(context[u])[c] \in Says(AllProvided(u))[c]
      BY <1>2, <3>1, <3>2, ValuesAreAllowed
    <3>4. Given(u, c)' = GetValue(context[u])[c]
      BY <2>1, <3>2 DEF Given
    <3> QED BY <3>3, <3>4
  <2>4. WellGiven(u)'
    BY <2>2, <2>3 DEF WellGiven
  <2>5. \A e \in In(u) : pc'[e[1]] = "done"
    BY <1>2, EdgeAssumption DEF EdgeAssumption, DoneStays, In
  <2> QED BY <1>3, <2>1, <2>2, <2>4, <2>5 DEF TaskOK
<1> QED BY <1>4, <1>5

LEMMA NextTasks ==
  ASSUME DistinctNames
  PROVE  Rows /\ DataInv /\ TasksInv /\ [Next]_vars => TasksInv'
<1> SUFFICES ASSUME Rows, DataInv, TasksInv, [Next]_vars, NEW v \in Vertices PROVE TaskOK(v)'
  BY DEF TasksInv
<1>1. ASSUME NEW u \in Vertices, Enter(u) PROVE TaskOK(v)'
  BY <1>1, DoneStaysDone, EnterTask, TaskStays
<1>2. ASSUME NEW u \in Vertices, NEW e \in In(u), ReadEdge(u, e) PROVE TaskOK(v)'
  BY <1>2, DoneStaysDone, ReadEdgeTask, TaskStays
<1>3. ASSUME NEW u \in Vertices, Start(u) PROVE TaskOK(v)'
  BY <1>3, DoneStaysDone, StartTask, TaskStays
<1>4. ASSUME NEW u \in Vertices, RepeatSettled(u) PROVE TaskOK(v)'
  <2>1. context' = context /\ param' = param /\ pc'[u] = "answered"
    BY <1>4 DEF RepeatSettled, Rows
  <2> QED BY <1>4, <2>1, DoneStaysDone, TaskStays
<1>5. ASSUME NEW u \in Vertices, NEW w \in Writes[u], Write(u, w) \/ Delete(u, w[1])
      PROVE  TaskOK(v)'
  <2>1. UNCHANGED <<context, param, pc>>
    BY <1>5 DEF Write, Delete, walkVars
  <2> QED BY <1>5, <2>1, DoneStaysDone, TaskStays
<1>6. ASSUME NEW u \in Vertices, NEW keys \in Reshares[u], Reshare(u, keys[1], keys[2])
      PROVE  TaskOK(v)'
  <2>1. UNCHANGED <<context, param, pc>>
    BY <1>6 DEF Reshare, walkVars
  <2> QED BY <1>6, <2>1, DoneStaysDone, TaskStays
<1>7. ASSUME NEW u \in Vertices, NEW r \in Replies(u), Answer(u, r) PROVE TaskOK(v)'
  <2>1. context' = context /\ param' = param /\ pc'[u] = "answered"
    BY <1>7 DEF Answer, Rows
  <2> QED BY <1>7, <2>1, DoneStaysDone, TaskStays
<1>8. ASSUME NEW u \in Vertices, Publish(u) \/ Record(u) PROVE TaskOK(v)'
  <2>1. context' = context /\ param' = param /\ pc'[u] \in {"published", "done"}
    BY <1>8 DEF Publish, Record, Rows
  <2> QED BY <1>8, <2>1, DoneStaysDone, TaskStays
<1>9. ASSUME RunReturns \/ UNCHANGED vars PROVE TaskOK(v)'
  <2>1. UNCHANGED <<context, param, pc, output>>
    BY <1>9 DEF RunReturns, vars, walkVars, storeVars
  <2>2. DoneStays
    BY <2>1 DEF DoneStays
  <2> QED BY <2>1, <2>2, TaskStays
<1>10. ASSUME NEW initial \in InitialData, NEW stored \in BOOLEAN, Rebuild(initial, stored)
       PROVE  TaskOK(v)'
  <2>1. pc'[v] = "waiting" /\ context'[v] = NoContext
    BY <1>10 DEF Rebuild, FreshWalk
  <2>2. Holds(v, context[v])'
    BY <2>1, NothingIsHeld DEF Holds, ReadBy
  <2> QED BY <2>1, <2>2 DEF TaskOK
<1> QED
  BY <1>1, <1>2, <1>3, <1>4, <1>5, <1>6, <1>7, <1>8, <1>9, <1>10 DEF Next

\* A running task was given what its edges say or else what its dependencies
\* answered, and what let it in still holds, whatever others share and answer.
THEOREM TasksAreWellGiven ==
  ASSUME DistinctNames
  PROVE  Spec => []TasksRunOnWhatTheyNeed
<1>1. TasksInv => TasksRunOnWhatTheyNeed
  <2> SUFFICES ASSUME TasksInv, NEW v \in Vertices, pc[v] = "running"
               PROVE  /\ WellGiven(v)
                      /\ \A e \in In(v) : Decides(e) =>
                           \E val \in Provided(v, Conditions[e].key) : Match(Conditions[e], val)
    BY DEF TasksRunOnWhatTheyNeed, WellGiven
  <2>1. WellGiven(v) /\ \A e \in In(v) : LetIn(e)
    BY DEF TasksInv, TaskOK
  <2> QED BY <2>1 DEF LetIn, In
<1>2. Rows /\ DataInv /\ TasksInv /\ [Next]_vars => TasksInv'
  BY NextTasks
<1> QED
  BY <1>1, <1>2, InitRows, NextRows, InitData, NextData, InitTasks, PTL DEF Spec
=============================================================================
