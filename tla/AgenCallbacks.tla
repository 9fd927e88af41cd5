---------------------------- MODULE AgenCallbacks ----------------------------
(***************************************************************************)
(* The function hooks of trio_typing/plugin.py for the async_generator     *)
(* package, as operators: what a function, a yield_() call in its body and *)
(* a yield_from_() call in its body are given as types, and which calls    *)
(* mypy accepts.  mypy calls them while it checks a program; they keep no  *)
(* state of their own.                                                     *)
(***************************************************************************)
EXTENDS AgenTypes

\* A function as mypy sees it.  "node" tells a FuncDef from a lambda or from
\* no function at all, "annotated" whether mypy gave it a signature that
\* returns Coroutine[_, _, declared].
FunctionKinds == {"compat", "helper", "native", "iterable"}

FunctionDefs ==
  [kind : FunctionKinds, node : {"FuncDef", "LambdaExpr", "None"},
   is_coroutine : BOOLEAN, is_decorated : BOOLEAN,
   annotated : BOOLEAN, declared : Seq(Arms)]

\* The types decoded from the declaration as it is written.
DecodedFor(fn) == Decoded(fn.declared, ResolvedArms(fn.declared))

\* mypy's solution for _T in the stub of async_generator(), which takes a
\* Callable[_P, Awaitable[_T]]: inference simplifies the declared union, so that
\* nested aliases are expanded and redundant members are gone.  Each member of
\* the union is its own index.
Inferred(declared) ==
  [arm \in MakeSimplifiedUnion({declared[i] : i \in DOMAIN declared}) |-> arm]

\* async_generator_callback(): the type arguments of the CompatAsyncGenerator a
\* decorated function returns, decoded from its third argument _T.  The declared
\* type of a function without annotations is Any, which decodes to Any three times.
DecoratedTypes(fn) ==
  IF fn.annotated
  THEN Decoded(Inferred(fn.declared), Inferred(fn.declared))
  ELSE DecodedType(AnyType, AnyType, {PlainArm(AnyType)}, FALSE)

\* decode_enclosing_agen_types(): the types a yield_() or yield_from_() in the
\* body of fn is checked against, decoded from the declaration itself.
CouldBeDecorated(fn) ==
  fn.node = "FuncDef" /\ fn.is_coroutine /\ fn.is_decorated

EnclosingTypes(fn) ==
  IF ~ CouldBeDecorated(fn)
  THEN DecodedType(AnyType, AnyType, {}, TRUE)
  ELSE IF ~ fn.annotated
  THEN DecodedType(AnyType, AnyType, {}, FALSE)
  ELSE DecodedFor(fn)

\* yield_callback(): whether yield_(arg) is accepted in the body of fn, and the
\* type of the awaited call.  yield_() is yield_(None).
YieldAccepted(fn, arg) ==
  /\ ~ EnclosingTypes(fn).failed
  /\ IsSubtype(arg, EnclosingTypes(fn).yield)

YieldResult(fn) == EnclosingTypes(fn).send

\* The static type of yield_from_'s argument: an instance of one of the three
\* async generator classes, an instance of another class that is an
\* AsyncIterable, a union of the former, or Any.
DelegateForms == {"generator", "iterable", "union", "any"}

\* Mutant: the send types are compared the way the yield types are.
YieldFromSendReversed(fn, form, agen) ==
  LET ours == EnclosingTypes(fn)
  IN  /\ ~ ours.failed
      /\ form \in {"generator", "iterable"} => IsSubtype(agen.yield, ours.yield)
      /\ form = "generator" => IsSubtype(agen.send, ours.send)

\* yield_from_callback(): whether yield_from_(x) is accepted in the body of fn,
\* for an x of static type "form" with the yield and send types of "agen".
YieldFromAccepted(fn, form, agen) ==
  LET ours == EnclosingTypes(fn)
  IN  /\ ~ ours.failed
      /\ form \in {"generator", "iterable"} => IsSubtype(agen.yield, ours.yield)
      /\ form = "generator" => IsSubtype(ours.send, agen.send)

\* Mutant: the stub's overload for AsyncGenerator comes first.
YieldFromNone(form, kind, agen) ==
  CASE form \in {"generator", "iterable"} -> NoneType
    [] form = "union" -> Values
    [] form = "any" -> AnyType

\* The type of "await yield_from_(x)", from the stub's overloads: the return
\* type of a CompatAsyncGenerator, None for every other async iterable.  For a
\* union of CompatAsyncGenerators mypy joins their return types; the join is
\* taken to be object.
YieldFromResult(form, kind, agen) ==
  CASE form = "generator" /\ kind = "compat" -> UnionType(Flattened(agen.ret))
    [] form = "generator" /\ kind = "native" -> NoneType
    [] form = "iterable" -> NoneType
    [] form = "union" -> Values
    [] form = "any" -> AnyType

=============================================================================
