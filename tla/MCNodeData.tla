----------------------------- MODULE MCNodeData -----------------------------
(***************************************************************************)
(* Data for TLC.                                                           *)
(***************************************************************************)
EXTENDS NodeData, TLC

CONSTANTS a, b, c, d

\* a is first; c also needs b, both under a condition; d runs beside them.
Diamond == {<<a, b>>, <<a, c>>, <<b, c>>, <<a, d>>}

Int(i) == [type |-> "int", n |-> i]
Text == [type |-> "text", n |-> 0]

EdgeProperties == [e \in Diamond |-> IF e = <<b, c>> THEN "k" :> Text ELSE <<>>]
EdgeConditions ==
  [e \in Diamond |-> CASE e = <<a, c>> -> [key |-> "n", operator |-> ">", value |-> Int(0)]
                       [] e = <<b, c>> -> [key |-> "k", operator |-> "in", value |-> <<Int(0), Text>>]
                       [] OTHER -> NoCondition]

Variable(name, key, required) ==
  [name |-> name, type |-> "variable", variable |-> key, required |-> required]
Literal(name, value) == [name |-> name, type |-> "literal", literal |-> value]
List(name, items) == [name |-> name, type |-> "complex", items |-> items]
Map(name, items) == [name |-> name, type |-> "mapping", items |-> items]

\* What the task c is given: a number, a list and a map.
Number == Variable("N", "n", TRUE)
Items == <<Variable("", "k", TRUE), Literal("", Text)>>
Optional == Variable("", "s", FALSE)
All == List("All", Items)
Keyed == Map("Map", "x" :> Optional)
TaskParams == [v \in {a, b, c, d} |-> IF v = c THEN <<Number, All, Keyed>> ELSE <<>>]
AllConfigs == {Number, All, Keyed, Optional} \cup {Items[i] : i \in DOMAIN Items}
Depths == [config \in AllConfigs |-> IF config \in {All, Keyed} THEN 1 ELSE 0]

Values == {Int(i) : i \in 0 .. 3} \cup {[type |-> "float", n |-> i] : i \in 0 .. 3} \cup {Text}

\* What each task answers and shares, and what a run is given.
TaskOutputs ==
  (a :> {<<>>, ("n" :> Int(2)) @@ ("k" :> Int(0))}) @@ (b :> {<<>>, "n" :> Int(1)})
  @@ (c :> {"s" :> Int(1)}) @@ (d :> {<<>>})
TaskWrites ==
  (a :> {<<"n", Int(3)>>}) @@ (b :> {}) @@ (c :> {}) @@ (d :> {<<"n", Int(0)>>})
TaskReshares == (a :> {}) @@ (b :> {}) @@ (c :> {}) @@ (d :> {<<"n", "s">>})
SomeData == {<<>>, "s" :> Int(2)}
=============================================================================
