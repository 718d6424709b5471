------------------------------ MODULE Registry ------------------------------
(***************************************************************************)
(* registry/registry.go: the components known to the program, one map for  *)
(* those without a namespace and one for each namespace.                   *)
(***************************************************************************)
\* The namespace of a component that has none, and of a task that names none.
NoNamespace == ""

\* A map with a value under a key.
Put(map, key, val) == [k \in DOMAIN map \cup {key} |-> IF k = key THEN val ELSE map[k]]

EmptyRegistry == [default |-> <<>>, custom |-> <<>>]

\* Mutant of Registered: a namespace starts again with each registration.
RegisteredAlone(reg, c) ==
  IF c.namespace = NoNamespace
  THEN [reg EXCEPT !.default = Put(@, c.name, c)]
  ELSE [reg EXCEPT !.custom = Put(@, c.namespace, Put(<<>>, c.name, c))]

\* Register: a component replaces one of the same name and namespace.
Registered(reg, c) ==
  IF c.namespace = NoNamespace
  THEN [reg EXCEPT !.default = Put(@, c.name, c)]
  ELSE LET known == IF c.namespace \in DOMAIN reg.custom THEN reg.custom[c.namespace] ELSE <<>>
       IN  [reg EXCEPT !.custom = Put(@, c.namespace, Put(known, c.name, c))]

\* GetComponent, as the set of what it returns: nothing for nil.
GetComponent(reg, name, namespace) ==
  IF namespace = NoNamespace
  THEN {reg.default[n] : n \in {name} \cap DOMAIN reg.default}
  ELSE {reg.custom[s][name] :
          s \in {x \in {namespace} \cap DOMAIN reg.custom : name \in DOMAIN reg.custom[x]}}

\* GetAllComponents.
GetAllComponents(reg) ==
  {reg.default[n] : n \in DOMAIN reg.default}
    \cup UNION {{reg.custom[s][n] : n \in DOMAIN reg.custom[s]} : s \in DOMAIN reg.custom}
=============================================================================
