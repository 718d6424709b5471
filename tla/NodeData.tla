------------------------------ MODULE NodeData ------------------------------
(***************************************************************************)
(* What a task reads and leaves behind: the node data context of           *)
(* internal/dag/data_context.go, the shared data store of                  *)
(* internal/builtin/data_store.go, conditions (edge.go), parameters        *)
(* (parameter.go) and the result and the snapshot of a run (pipeline.go).  *)
(*                                                                         *)
(* Every vertex is a plain task, and a task that fails or is blocked holds *)
(* up the next ones; the rest of the walk is in Walker and Pipeline.  The  *)
(* keys of one parameter are read at once, which only matters for what is  *)
(* shared.                                                                 *)
(***************************************************************************)
EXTENDS Naturals, Sequences

CONSTANTS
  Vertices, Edges,
  Properties,  \* the properties of each edge, from keys to values
  Conditions,  \* the condition of each edge, or NoCondition
  Params,      \* the parameter configurations of each task
  Configs,     \* these configurations, and those they are made of
  Nesting,     \* how deep each of them is nested
  Fields,      \* the fields of a parameter object
  Data,        \* the values there are, of any type
  Outputs,     \* the data each task may answer with
  Writes,      \* what each task may put in the shared store
  Reshares,    \* the keys a task copies to keys of the shared store
  InitialData, \* what a run may be given to begin with
  ResultKeys,
  MaxRuns,     \* bound on runs: one, and MaxRuns - 1 rebuilds
  NoValue, NoCondition

Nested == {"complex", "mapping"}
IsMap(map) == \A key \in DOMAIN map : map[key] \in Data

\* A variable that is required and missing.
Missing == [missing |-> TRUE]

\* JSON knows one type of number.
RecodedValue(val) == IF val.type = "int" THEN [val EXCEPT !.type = "float"] ELSE val

\* Edges join vertices of the graph; a configuration is a finite tree, as it
\* was decoded from text; and there is no value that stands for none.
ASSUME EdgeAssumption ==
  /\ Edges \subseteq Vertices \X Vertices
  /\ \A e \in Edges : IsMap(Properties[e])

ASSUME ConfigAssumption ==
  /\ \A v \in Vertices : Params[v] \in Seq(Configs)
  /\ Nesting \in [Configs -> Nat]
  /\ \A c \in Configs : c.type \in Nested => \A i \in DOMAIN c.items :
       c.items[i] \in Configs /\ Nesting[c.items[i]] < Nesting[c]

ASSUME DataAssumption ==
  /\ NoValue \notin Data \cup {Missing}
  /\ \A val \in Data : RecodedValue(val) \in Data
  /\ \A map \in InitialData : IsMap(map)
  /\ \A v \in Vertices : (\A map \in Outputs[v] : IsMap(map)) /\ \A w \in Writes[v] : w[2] \in Data

VARIABLES
  shared,   \* SharedDataStore.Data
  output,   \* SharedDataStore.NodeData
  pc,       \* where walkVertex stands
  context,  \* the node data context: properties and previous tasks so far
  param,    \* the parameters a task was given
  reply,    \* the answer of a task
  status,   \* TaskStatuses
  passed,   \* whether the recorded response passed
  result,   \* status and data of the run, "running" until it returns
  snapshot, \* the encoded store of a blocked run
  runs,
  given,    \* what each task last answered with
  kept      \* no rebuild came without its snapshot

storeVars == <<shared, output>>
walkVars == <<pc, context, param, reply, status, passed>>
runVars == <<result, snapshot, runs, kept>>
vars == <<storeVars, walkVars, runVars, given>>

Empty == <<>>
In(v) == {e \in Edges : e[2] = v}
Settled == {"success", "failure"}
NoContext == [properties |-> Empty, prev |-> <<>>]
NoReply == [status |-> "init", data |-> Empty]

FreshWalk ==
  [pc |-> [v \in Vertices |-> "waiting"], context |-> [v \in Vertices |-> NoContext],
   param |-> [v \in Vertices |-> Empty], reply |-> [v \in Vertices |-> NoReply],
   passed |-> [v \in Vertices |-> FALSE]]

Init ==
  /\ shared \in InitialData
  /\ output = [v \in Vertices |-> Empty]
  /\ pc = FreshWalk.pc /\ context = FreshWalk.context /\ param = FreshWalk.param
  /\ reply = FreshWalk.reply /\ passed = FreshWalk.passed
  /\ status = [v \in Vertices |-> "init"]
  /\ result = [status |-> "running", data |-> Empty]
  /\ snapshot = [shared |-> Empty, output |-> output]
  /\ runs = 1
  /\ given = output
  /\ kept = TRUE

-----------------------------------------------------------------------------
\* The least index of a set, a map with a key and without it, and a map over
\* another that it hides.
FirstOf(S) == CHOOSE i \in S : \A j \in S : i <= j
With(map, key, val) == [k \in DOMAIN map \cup {key} |-> IF k = key THEN val ELSE map[k]]
Without(map, key) == [k \in DOMAIN map \ {key} |-> map[k]]
Over(map, other) ==
  [k \in DOMAIN map \cup DOMAIN other |-> IF k \in DOMAIN map THEN map[k] ELSE other[k]]

\* Mutant of Get: what is shared hides what the dependencies say.
GetSharedFirst(ctx, key) ==
  LET from == {i \in DOMAIN ctx.prev : key \in DOMAIN output[ctx.prev[i]]}
  IN  IF key \in DOMAIN ctx.properties THEN ctx.properties[key]
      ELSE IF key \in DOMAIN shared THEN shared[key]
      ELSE IF from # {} THEN output[ctx.prev[FirstOf(from)]][key]
      ELSE NoValue

\* nodeDataContext.Get: the properties, the previous tasks in the order they
\* were appended, the shared store.
Get(ctx, key) ==
  LET from == {i \in DOMAIN ctx.prev : key \in DOMAIN output[ctx.prev[i]]}
  IN  IF key \in DOMAIN ctx.properties THEN ctx.properties[key]
      ELSE IF from # {} THEN output[ctx.prev[FirstOf(from)]][key]
      ELSE IF key \in DOMAIN shared THEN shared[key]
      ELSE NoValue

\* conditionEdge.Match on the value that was found.  A value has a type, which
\* == and != and in compare too; the others compare numbers of any type and
\* refuse what is none.
Compares(operator, m, n) ==
  CASE operator = ">" -> m > n [] operator = "<" -> m < n
    [] operator = ">=" -> m >= n [] operator = "<=" -> m <= n

Match(c, val) ==
  /\ val # NoValue
  /\ CASE c.operator = "==" -> val = c.value
       [] c.operator = "!=" -> val # c.value
       [] c.operator = "in" -> \E i \in DOMAIN c.value : c.value[i] = val
       [] OTHER -> /\ c.operator \in {">", "<", ">=", "<="}
                   /\ val.type # "text" /\ c.value.type # "text"
                   /\ Compares(c.operator, val.n, c.value.n)

\* assembleParam.getValue: a value, NoValue for nil, or Missing.
Assemble(ctx, c, value) ==
  CASE c.type = "variable" ->
         IF Get(ctx, c.variable) = NoValue /\ c.required THEN Missing ELSE Get(ctx, c.variable)
    [] c.type = "literal" -> c.literal
    [] c.type \in Nested ->
         LET item == [i \in DOMAIN c.items |-> value[c.items[i]]]
         IN  IF \E i \in DOMAIN item : item[i] = Missing THEN Missing ELSE item
    [] OTHER -> IF c.required THEN Missing ELSE NoValue

GetValue(ctx) ==
  LET value[c \in Configs] == Assemble(ctx, c, value)
  IN  value

\* prepareParameter: the fields that were set, or Missing; nil sets nothing.
Prepared(ctx, configs) ==
  LET val == [i \in DOMAIN configs |-> GetValue(ctx)[configs[i]]]
      set == {i \in DOMAIN configs : val[i] # NoValue}
      fields == {configs[i].name : i \in set}
      last(f) == CHOOSE i \in set : configs[i].name = f /\ \A j \in set : configs[j].name = f => j <= i
  IN  IF (\E i \in set : val[i] = Missing) \/ ~(fields \subseteq Fields) THEN Missing
      ELSE [f \in fields |-> val[last(f)]]

-----------------------------------------------------------------------------
PassOver(v) ==
  /\ pc' = [pc EXCEPT ![v] = "done"]
  /\ passed' = [passed EXCEPT ![v] = TRUE]

\* walkVertex, when the waiter of v has its verdict.
Enter(v) ==
  /\ pc[v] = "waiting"
  /\ \A e \in In(v) : pc[e[1]] = "done"
  /\ IF \A e \in In(v) : passed[e[1]]
     THEN pc' = [pc EXCEPT ![v] = "reading"] /\ UNCHANGED passed
     ELSE PassOver(v)
  /\ UNCHANGED <<storeVars, context, param, reply, status, runVars, given>>

\* One more in-edge, in the order of a set: its source, its properties, and
\* its condition, which sees the edges up to this one only.
ReadEdge(v, e) ==
  LET ctx == [properties |-> Over(Properties[e], context[v].properties),
              prev |-> Append(context[v].prev, e[1])]
  IN  /\ pc[v] = "reading"
      /\ \A i \in DOMAIN context[v].prev : context[v].prev[i] # e[1]
      /\ context' = [context EXCEPT ![v] = ctx]
      /\ IF Conditions[e] = NoCondition \/ Match(Conditions[e], Get(ctx, Conditions[e].key))
         THEN UNCHANGED <<pc, passed>>
         ELSE PassOver(v)
      /\ UNCHANGED <<storeVars, param, reply, status, runVars, given>>

AllRead(v) == \A e \in In(v) : \E i \in DOMAIN context[v].prev : context[v].prev[i] = e[1]

\* A task that was settled by an earlier run answers its status and no data.
RepeatSettled(v) ==
  /\ pc[v] = "reading" /\ AllRead(v) /\ status[v] \in Settled
  /\ pc' = [pc EXCEPT ![v] = "answered"]
  /\ reply' = [reply EXCEPT ![v] = [status |-> status[v], data |-> Empty]]
  /\ UNCHANGED <<storeVars, context, param, status, passed, runVars, given>>

\* The parameters are assembled, or the task fails without having run.
Start(v) ==
  LET prepared == Prepared(context[v], Params[v])
  IN  /\ pc[v] = "reading" /\ AllRead(v) /\ status[v] \notin Settled
      /\ IF prepared = Missing
         THEN /\ pc' = [pc EXCEPT ![v] = "answered"]
              /\ reply' = [reply EXCEPT ![v] = [status |-> "failure", data |-> Empty]]
              /\ UNCHANGED param
         ELSE /\ pc' = [pc EXCEPT ![v] = "running"]
              /\ param' = [param EXCEPT ![v] = prepared]
              /\ UNCHANGED reply
      /\ UNCHANGED <<storeVars, context, status, passed, runVars, given>>

\* A running task writes to the shared store and deletes from it.
Write(v, w) ==
  /\ pc[v] = "running"
  /\ shared' = With(shared, w[1], w[2])
  /\ UNCHANGED <<output, walkVars, runVars, given>>

Delete(v, key) ==
  /\ pc[v] = "running"
  /\ key \in DOMAIN shared
  /\ shared' = Without(shared, key)
  /\ UNCHANGED <<output, walkVars, runVars, given>>

\* ReShareDataNode: one of its keys, or nothing if there is no value.
Reshare(v, from, to) ==
  /\ pc[v] = "running"
  /\ Get(context[v], from) # NoValue
  /\ shared' = With(shared, to, Get(context[v], from))
  /\ UNCHANGED <<output, walkVars, runVars, given>>

Answer(v, r) ==
  /\ pc[v] = "running"
  /\ pc' = [pc EXCEPT ![v] = "answered"]
  /\ reply' = [reply EXCEPT ![v] = r]
  /\ given' = [given EXCEPT ![v] = IF r.data = Empty THEN @ ELSE r.data]
  /\ UNCHANGED <<storeVars, context, param, status, passed, runVars>>

\* Mutant of Publish: no data replaces the data of an earlier run.
PublishAlways(v) ==
  /\ pc[v] = "answered"
  /\ pc' = [pc EXCEPT ![v] = "published"]
  /\ status' = [status EXCEPT ![v] = IF @ \in Settled THEN @ ELSE reply[v].status]
  /\ output' = [output EXCEPT ![v] = reply[v].data]
  /\ UNCHANGED <<shared, context, param, reply, passed, runVars, given>>

\* SetTaskStatus and SetCurrentNodeData, before the response is recorded.
Publish(v) ==
  /\ pc[v] = "answered"
  /\ pc' = [pc EXCEPT ![v] = "published"]
  /\ status' = [status EXCEPT ![v] = IF @ \in Settled THEN @ ELSE reply[v].status]
  /\ output' = [output EXCEPT ![v] = IF reply[v].data = Empty THEN @ ELSE reply[v].data]
  /\ UNCHANGED <<shared, context, param, reply, passed, runVars, given>>

Record(v) ==
  /\ pc[v] = "published"
  /\ pc' = [pc EXCEPT ![v] = "done"]
  /\ passed' = [passed EXCEPT ![v] = reply[v].status = "success"]
  /\ UNCHANGED <<storeVars, context, param, reply, status, runVars, given>>

-----------------------------------------------------------------------------
RecodedMap(map) == [k \in DOMAIN map |-> RecodedValue(map[k])]
Recoded(maps) == [v \in Vertices |-> RecodedMap(maps[v])]

Leaves == {v \in Vertices : \A e \in Edges : e[1] # v}

\* assembleResult: a leaf that has the key, in any order, or the shared store.
Assembled(key) ==
  LET leaves == {v \in Leaves : key \in DOMAIN output[v]}
  IN  IF leaves # {} THEN {output[v][key] : v \in leaves}
      ELSE {shared[k] : k \in {key} \cap DOMAIN shared}

RunReturns ==
  /\ result.status = "running"
  /\ \A v \in Vertices : pc[v] = "done"
  /\ \/ /\ \E v \in Vertices : reply[v].status = "failure"
        /\ result' = [status |-> "failure", data |-> Empty]
        /\ UNCHANGED snapshot
     \/ /\ \A v \in Vertices : reply[v].status # "failure"
        /\ \E v \in Vertices : status[v] = "blocked"
        /\ result' = [status |-> "blocked", data |-> Empty]
        /\ snapshot' = [shared |-> RecodedMap(shared), output |-> Recoded(output)]
     \/ /\ \A v \in Vertices : reply[v].status # "failure" /\ status[v] # "blocked"
        /\ \E data \in [{k \in ResultKeys : Assembled(k) # {}} -> UNION {Assembled(k) : k \in ResultKeys}] :
             /\ \A k \in DOMAIN data : data[k] \in Assembled(k)
             /\ result' = [status |-> "success", data |-> data]
        /\ UNCHANGED snapshot
  /\ UNCHANGED <<storeVars, walkVars, runs, kept, given>>

\* Rebuild: the store of the snapshot or a new one; the initial data replaces
\* what it holds under the same keys.
Rebuild(initial, stored) ==
  /\ result.status = "blocked" /\ runs < MaxRuns
  /\ runs' = runs + 1
  /\ IF stored
     THEN shared' = Over(initial, snapshot.shared) /\ output' = snapshot.output
     ELSE shared' = initial /\ output' = [v \in Vertices |-> Empty]
  /\ kept' = (kept /\ stored)
  /\ given' = Recoded(given)
  /\ pc' = FreshWalk.pc /\ context' = FreshWalk.context /\ param' = FreshWalk.param
  /\ reply' = FreshWalk.reply /\ passed' = FreshWalk.passed
  /\ result' = [status |-> "running", data |-> Empty]
  /\ UNCHANGED <<status, snapshot>>

Replies(v) ==
  [status : {"success"}, data : Outputs[v]] \cup [status : {"blocked", "failure"}, data : {Empty}]

Next ==
  \/ \E v \in Vertices :
       \/ Enter(v) \/ (\E e \in In(v) : ReadEdge(v, e)) \/ RepeatSettled(v) \/ Start(v)
       \/ (\E w \in Writes[v] : Write(v, w) \/ Delete(v, w[1]))
       \/ (\E keys \in Reshares[v] : Reshare(v, keys[1], keys[2]))
       \/ (\E r \in Replies(v) : Answer(v, r)) \/ Publish(v) \/ Record(v)
  \/ RunReturns
  \/ \E initial \in InitialData, stored \in BOOLEAN : Rebuild(initial, stored)

Spec == Init /\ [][Next]_vars

-----------------------------------------------------------------------------
\* What the edges of v and the outputs of its dependencies say of a key now.
Provided(v, key) ==
  LET edges == {e \in In(v) : key \in DOMAIN Properties[e]}
      sources == {e \in In(v) : key \in DOMAIN output[e[1]]}
  IN  IF edges # {} THEN {Properties[e][key] : e \in edges}
      ELSE {output[e[1]][key] : e \in sources}

\* The values a configuration may have: what is provided of a variable, and
\* without that whatever is shared, or nothing if it may be left out.
Variables == {c.variable : c \in {d \in Configs : d.type = "variable"}}

Allowed(provided, c, says) ==
  CASE c.type = "variable" ->
         IF provided[c.variable] # {} THEN provided[c.variable]
         ELSE IF c.required THEN Data ELSE Data \cup {NoValue}
    [] c.type = "literal" -> {c.literal}
    [] c.type \in Nested ->
         {val \in [DOMAIN c.items -> UNION {says[c.items[i]] : i \in DOMAIN c.items}] :
            \A i \in DOMAIN c.items : val[i] \in says[c.items[i]]}
    [] OTHER -> {NoValue}

Says(provided) ==
  LET says[c \in Configs] == Allowed(provided, c, says)
  IN  says

AllProvided(v) == [key \in Variables |-> Provided(v, key)]

Given(v, c) == IF c.name \in DOMAIN param[v] THEN param[v][c.name] ELSE NoValue

\* The edges that alone provide the key of their condition.
Decides(e) ==
  /\ Conditions[e] # NoCondition
  /\ LET key == Conditions[e].key IN
       /\ key \in DOMAIN Properties[e] \cup DOMAIN output[e[1]]
       /\ \A other \in In(e[2]) \ {e} : key \notin DOMAIN Properties[other] \cup DOMAIN output[other[1]]

\* README.md, data of a node: a running task has been given what its edges say
\* or else what its dependencies answered, was let in by conditions that hold
\* of it, and all this stays true while it runs, whatever order the edges were
\* read in, whatever other tasks share, delete and answer, and also in a run
\* that goes on from a snapshot.
TasksRunOnWhatTheyNeed ==
  \A v \in Vertices : pc[v] = "running" =>
    /\ \A i \in DOMAIN Params[v] : Given(v, Params[v][i]) \in Says(AllProvided(v))[Params[v][i]]
    /\ \A e \in In(v) : Decides(e) =>
         \E val \in Provided(v, Conditions[e].key) : Match(Conditions[e], val)

\* What a task answered stays its output: through later answers, through the
\* repeated answers of rebuilt runs, and through a snapshot (with numbers as
\* the codec leaves them), unless a rebuild leaves the snapshot out.
OutputsOutliveRuns ==
  kept => \A v \in Vertices : pc[v] # "answered" => output[v] = given[v]
=============================================================================
