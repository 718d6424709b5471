------------------------------ MODULE MCBuilder ------------------------------
(***************************************************************************)
(* Configurations for TLC: two tasks of any kind with one dependency each, *)
(* and three plain tasks with up to two dependencies each.                 *)
(***************************************************************************)
EXTENDS Builder

A == <<"a">>
B == <<"b">>
C == <<"c">>
ThreeIds == {A, B, C}

\* Names and namespaces of tasks.
Names == {<<"@any", NoNamespace>>, <<"@other", NoNamespace>>, <<"component", NoNamespace>>,
          <<"component", "team">>, <<"other", "team">>}
Plain == {<<"component", NoNamespace>>}

\* The same name with and without a namespace, once more with a timeout.
C1(namespace, timed) == [name |-> "component", namespace |-> namespace, timed |-> timed]
Other == [name |-> "other", namespace |-> "team", timed |-> FALSE]
SomeRegistrations ==
  { <<C1(NoNamespace, TRUE), C1("team", FALSE), Other, C1(NoNamespace, FALSE)>>,
    <<C1("team", FALSE), C1("team", TRUE), C1(NoNamespace, TRUE), Other>> }

Depends(n) ==
  BoundedSeq([id : ThreeIds, conditional : BOOLEAN], n)

TaskWith(ids, names, n) ==
  {[id |-> v, name |-> n2[1], namespace |-> n2[2], timeout |-> timeout, depends |-> depends] :
     v \in ids, n2 \in names, timeout \in BOOLEAN, depends \in Depends(n)}

PlainTask(v) ==
  {t \in TaskWith({v}, Plain, 2) : ~t.timeout}

Confs2 ==
  [concurrency : {0, 10}, tasks : BoundedSeq(TaskWith({A, B}, Names, 1), 2)]

Confs3 ==
  [concurrency : {10},
   tasks : {<<s, t, u>> : s \in {x \in PlainTask(A) : Len(x.depends) <= 1},
                          t \in PlainTask(B), u \in PlainTask(C)}]

AllConfs == Confs2 \cup Confs3

NoneOrSome == {[v \in {} |-> "init"], [v \in {A, C} |-> IF v = A THEN "success" ELSE "blocked"]}

\* One task that depends on another under a condition.
ConditionalConf ==
  [concurrency : {10},
   tasks : {<<s, t>> : s \in {x \in PlainTask(A) : x.depends = <<>>},
                       t \in {x \in PlainTask(B) : Len(x.depends) <= 1}}]
=============================================================================
