---------------------------- MODULE MCCheckSession ----------------------------
(* CheckSession on a module with two generators, one of which has a lambda, a  *)
(* local class, a nested generator and a nested helper, and a class with a     *)
(* method that is a generator.                                                 *)
EXTENDS CheckSession

CONSTANTS v1, v2, mod, agen, later, lam, Local, inner, helper, Class, method

MCValues == {NoneValue, v1, v2}
MCScopes == {mod, agen, later, lam, Local, inner, helper, Class, method}

MCKind ==
  [s \in MCScopes |->
     CASE s = mod -> "MypyFile"
       [] s \in {Local, Class} -> "TypeInfo"
       [] s = lam -> "LambdaExpr"
       [] OTHER -> "FuncDef"]

MCEnclosing ==
  [s \in MCScopes |->
     CASE s \in {mod, agen, later, Class} -> mod
       [] s = method -> Class
       [] s = helper -> inner
       [] OTHER -> agen]

RECURSIVE WithinOf(_)
WithinOf(s) ==
  IF MCKind[s] = "TypeInfo" THEN WithinOf(MCEnclosing[s]) ELSE s

MCWithin == [s \in MCScopes |-> WithinOf(s)]

MCDecorator ==
  [s \in MCScopes |->
     CASE s \in {agen, later, inner, method} -> "async_generator.async_generator"
       [] s = helper -> "trio_typing.takes_callable_and_args"
       [] OTHER -> ""]

\* "later" is declared with two YieldTypes.
MCFn ==
  [s \in MCScopes |->
     [kind |-> IF s \in {agen, later, inner, method} THEN "compat" ELSE "helper",
      node |-> IF FunctionKind(MCKind[s]) THEN MCKind[s] ELSE "None",
      is_coroutine |-> MCKind[s] = "FuncDef",
      is_decorated |-> MCDecorator[s] # "",
      annotated |-> TRUE,
      declared |->
        CASE s = agen -> <<YieldArm({v1, v2}), SendArm({v1}), PlainArm({v2})>>
          [] s = inner -> <<YieldArm({v1}), SendArm({v1, v2})>>
          [] s = method -> <<YieldArm({v2}), SendArm({v2})>>
          [] s = later -> <<YieldArm({v1}), YieldArm({v2})>>
          [] OTHER -> <<PlainArm(NoneType)>>]]

Yield(t) == [what |-> "yield_", arg |-> t]
YieldFrom(g) == [what |-> "yield_from_", scope |-> g]

ChoicesOf(s) ==
  CASE s = mod -> {<<Definition(agen), Definition(Class), Definition(later)>>,
                   <<Definition(later), Definition(Class), YieldFrom(agen), Definition(agen)>>}
    [] s = agen -> {<<Definition(lam), Definition(inner), YieldFrom(agen), Definition(Local)>>,
                    <<YieldFrom(method), Definition(Local), Definition(inner), Yield({v2}), Definition(lam)>>,
                    <<Definition(Local), Definition(lam), Definition(inner), YieldFrom(inner), Yield({NoneValue})>>}
    [] s = lam -> {<<Yield({v1})>>, <<YieldFrom(method)>>}
    [] s = Local -> {<<Yield({v1})>>, <<Yield({NoneValue}), YieldFrom(inner)>>}
    [] s = inner -> {<<YieldFrom(inner), Definition(helper)>>,
                     <<Definition(helper), YieldFrom(agen), Yield({v1})>>,
                     <<Definition(helper), YieldFrom(method)>>}
    [] s = helper -> {<<Yield({NoneValue})>>}
    [] s = Class -> {<<Yield(AnyType), Definition(method)>>}
    [] s = method -> {<<Yield({v2}), Yield({v1})>>, <<YieldFrom(later)>>, <<YieldFrom(agen)>>}
    [] s = later -> {<<YieldFrom(method), Yield({v2})>>}

MCBodies ==
  {[s \in MCScopes |->
      CASE s = mod -> b_mod [] s = agen -> b_agen [] s = lam -> b_lam [] s = Local -> b_Local
        [] s = inner -> b_inner [] s = helper -> b_helper [] s = Class -> b_Class
        [] s = method -> b_method [] s = later -> b_later] :
   b_mod \in ChoicesOf(mod), b_agen \in ChoicesOf(agen), b_lam \in ChoicesOf(lam),
   b_Local \in ChoicesOf(Local), b_inner \in ChoicesOf(inner), b_helper \in ChoicesOf(helper),
   b_Class \in ChoicesOf(Class), b_method \in ChoicesOf(method), b_later \in ChoicesOf(later)}

=============================================================================
