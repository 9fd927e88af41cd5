---------------------------- MODULE MCAgenRuntime ----------------------------
(* AgenRuntime on two values besides None and the functions below. *)
EXTENDS AgenRuntime

CONSTANTS v1, v2

MCValues == {NoneValue, v1, v2}

Def(kind, declared) ==
  [kind |-> kind, node |-> "FuncDef", is_coroutine |-> kind \in {"compat", "helper"},
   is_decorated |-> kind \in {"compat", "helper"}, annotated |-> TRUE,
   declared |-> declared]

NoneArm == PlainArm(NoneType)

Alias(t) == [kind |-> "UnionAlias", args |-> <<t>>]

\* Generators that agree on some types and not on others, in several spellings:
\* a missing YieldType, a missing SendType, no return type, neither, an alias
\* alone and in a union, redundant members, among them a YieldType beneath another
\* or beneath object, and a function without annotations.
MCFunctions ==
  {Def("compat", <<PlainArm({v1}), YieldArm({v1}), SendArm({v2})>>),
   Def("compat", <<YieldArm({v1, v2}), PlainArm({v2}), SendArm({v1, v2, NoneValue}),
                   PlainArm({v1, v2})>>),
   Def("compat", <<NoneArm, YieldArm({v1})>>),
   Def("compat", <<SendArm({v1})>>),
   Def("compat", <<Alias({v1})>>),
   Def("compat", <<Alias({v2}), SendArm({v2})>>),
   Def("compat", <<PlainArm({v1}), Alias({v1})>>),
   Def("compat", <<YieldArm({v1}), SendArm({v1}), YieldArm({v1, v2})>>),
   Def("compat", <<PlainArm(ObjectType), YieldArm({v1}), SendArm({v1})>>),
   [Def("compat", <<PlainArm(AnyType)>>) EXCEPT !.annotated = FALSE],
   Def("helper", <<NoneArm, YieldArm({v2}), SendArm({v1})>>),
   [Def("helper", <<NoneArm>>) EXCEPT !.is_decorated = FALSE],
   Def("native", <<YieldArm({v1}), SendArm({v1, NoneValue})>>),
   Def("native", <<YieldArm({v2}), SendArm(AnyType)>>),
   Def("iterable", <<YieldArm({v1, v2})>>)}

=============================================================================
