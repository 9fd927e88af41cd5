----------------------------- MODULE AgenRuntime -----------------------------
(***************************************************************************)
(* A program mypy accepted with the trio-typing plugin, run on the         *)
(* async_generator library: one consumer drives an @async_generator        *)
(* function whose body yields, delegates with yield_from_() to further     *)
(* generators, calls helper coroutines that yield on its behalf, returns   *)
(* and raises.  What the plugin accepts comes from AgenCallbacks; what the *)
(* library does with a value is external and taken from how the stubs and  *)
(* the plugin describe it.  The question is whether every value arrives    *)
(* where the plugin said a value of its type would.                        *)
(***************************************************************************)
EXTENDS AgenCallbacks

CONSTANTS
  Functions,  \* the functions of the program
  MaxDepth    \* the most generators that delegate to one another

ASSUME RuntimeAssumption ==
  /\ Functions \subseteq FunctionDefs
  /\ MaxDepth \in Nat \ {0}
  /\ \A f \in Functions :
       /\ Len(f.declared) > 0
       /\ f.kind = "compat" => CouldBeDecorated(f)
       /\ f.kind # "compat" => f.annotated

VARIABLES
  stack,  \* the generator the consumer drives, then what each delegates to
  phase,  \* what the innermost of them is doing
  event   \* the value that moved in the last step, if one did

vars == <<stack, phase, event>>

Links == DelegateForms \cup {"root", "helper"}
Frames == [fn : Functions, link : Links]

Nothing == [what |-> "nothing"]
Events ==
  {Nothing}
    \cup [what : {"yielded"}, value : Values, untyped : BOOLEAN]
    \cup [what : {"sent"}, value : Values, untyped : BOOLEAN, by : {"asend", "__anext__"}]
    \cup [what : {"returned"}, value : Values, frame : Frames]

depth == Len(stack)
top == stack[depth]
Popped == SubSeq(stack, 1, depth - 1)

\* The yield, send and return types by which others know a generator.
GeneratorTypes(fn) ==
  CASE fn.kind = "compat" -> DecoratedTypes(fn)
    [] fn.kind = "helper" -> EnclosingTypes(fn)
    [] OTHER -> DecodedFor(fn)

YieldOf(i) == GeneratorTypes(stack[i].fn).yield
SendOf(i)  == GeneratorTypes(stack[i].fn).send

\* The type of what a suspended body is resumed with: that of "await yield_(x)",
\* or of a native generator's yield expression.
ResumedType(fn) ==
  IF fn.kind \in {"compat", "helper"} THEN YieldResult(fn) ELSE DecodedFor(fn).send

\* The type of an expression of value v: the least one, or Any if untyped.
StaticType(v, untyped) == IF untyped THEN AnyType ELSE {v}

-----------------------------------------------------------------------------
(* The program, as mypy accepted it. *)

\* A body calls yield_(), or yields as a native generator or an iterable does.
Yield ==
  /\ phase = "running"
  /\ \E v \in Values, untyped \in BOOLEAN :
       /\ IF top.fn.kind \in {"compat", "helper"}
          THEN YieldAccepted(top.fn, StaticType(v, untyped))
          ELSE IsSubtype(StaticType(v, untyped), YieldOf(depth))
       /\ event' = [what |-> "yielded", value |-> v, untyped |-> untyped]
  /\ phase' = "suspended"
  /\ UNCHANGED stack

\* The static types under which a function's generator may be passed to
\* yield_from_(): its own, AsyncIterable, a union it is an item of, or Any.
FormsOf(fn) ==
  CASE fn.kind = "compat" -> DelegateForms
    [] fn.kind = "native" -> {"generator", "iterable", "any"}
    [] fn.kind = "iterable" -> {"iterable", "any"}
    [] fn.kind = "helper" -> {}

YieldFrom ==
  /\ phase = "running"
  /\ top.fn.kind \in {"compat", "helper"}
  /\ depth < MaxDepth
  /\ \E f \in Functions, form \in DelegateForms :
       /\ form \in FormsOf(f)
       /\ YieldFromAccepted(top.fn, form, GeneratorTypes(f))
       /\ stack' = Append(stack, [fn |-> f, link |-> form])
  /\ event' = Nothing
  /\ UNCHANGED phase

\* A body awaits a coroutine that may itself call yield_(): the library lets
\* its yields through to the enclosing generator.
CallHelper ==
  /\ phase = "running"
  /\ top.fn.kind \in {"compat", "helper"}
  /\ depth < MaxDepth
  /\ \E f \in Functions :
       /\ f.kind = "helper"
       /\ stack' = Append(stack, [fn |-> f, link |-> "helper"])
  /\ event' = Nothing
  /\ UNCHANGED phase

-----------------------------------------------------------------------------
(* How a body ends, and what its caller gets. *)

\* What mypy lets a body return: the plain arms of its declared return type.
BodyReturns(fn) ==
  CASE fn.kind \in {"native", "iterable"} -> NoneType
    [] fn.kind \in {"compat", "helper"} /\ fn.annotated ->
         UnionType(Flattened({fn.declared[i] : i \in DOMAIN fn.declared}))
    [] OTHER -> AnyType

Leave(after) ==
  IF depth = 1
  THEN phase' = "done" /\ UNCHANGED stack
  ELSE phase' = after /\ stack' = Popped

Return ==
  /\ phase = "running"
  /\ \E v \in Values :
       /\ Admits(BodyReturns(top.fn), v)
       /\ event' = IF top.link \in DelegateForms
                   THEN [what |-> "returned", value |-> v, frame |-> top]
                   ELSE Nothing
  /\ Leave("running")

Raise ==
  /\ phase = "running"
  /\ phase' = "raising"
  /\ event' = Nothing
  /\ UNCHANGED stack

Catch ==
  /\ phase = "raising"
  /\ phase' = "running"
  /\ event' = Nothing
  /\ UNCHANGED stack

Propagate ==
  /\ phase = "raising"
  /\ event' = Nothing
  /\ Leave("raising")

-----------------------------------------------------------------------------
(***************************************************************************)
(* The consumer.  A plain iterable has neither asend() nor athrow():       *)
(* sending it a value other than None raises AttributeError in the         *)
(* generator that delegates to it, and so does throwing.                   *)
(***************************************************************************)

Start ==
  /\ phase = "created"
  /\ phase' = "running"
  /\ event' = Nothing
  /\ UNCHANGED stack

Deliver(v, untyped, by) ==
  IF top.fn.kind # "iterable"
  THEN /\ phase' = "running"
       /\ event' = [what |-> "sent", value |-> v, untyped |-> untyped, by |-> by]
       /\ UNCHANGED stack
  ELSE /\ event' = Nothing
       /\ IF v = NoneValue
          THEN phase' = "running" /\ UNCHANGED stack
          ELSE Leave("raising")

Asend ==
  /\ phase = "suspended"
  /\ \E v \in Values, untyped \in BOOLEAN :
       /\ IsSubtype(StaticType(v, untyped), SendOf(1))
       /\ Deliver(v, untyped, "asend")

Anext ==
  /\ phase = "suspended"
  /\ Deliver(NoneValue, FALSE, "__anext__")

\* Mutant: an exception does not resume the generator.
AthrowIgnored ==
  /\ phase = "suspended"
  /\ event' = Nothing
  /\ UNCHANGED <<stack, phase>>

Athrow ==
  /\ phase = "suspended"
  /\ event' = Nothing
  /\ IF top.fn.kind # "iterable"
     THEN phase' = "raising" /\ UNCHANGED stack
     ELSE Leave("raising")

-----------------------------------------------------------------------------
Init ==
  /\ \E f \in Functions :
       f.kind = "compat" /\ stack = <<[fn |-> f, link |-> "root"]>>
  /\ phase = "created"
  /\ event = Nothing

Next ==
  \/ Yield \/ YieldFrom \/ CallHelper
  \/ Return \/ Raise \/ Catch \/ Propagate
  \/ Start \/ Asend \/ Anext \/ Athrow

Spec == Init /\ [][Next]_vars

-----------------------------------------------------------------------------
(***************************************************************************)
(* Properties.                                                             *)
(***************************************************************************)

\* Only the frames of accepted delegations are on the stack.
TypeOK ==
  /\ stack \in Seq(Frames)
  /\ depth \in 1..MaxDepth
  /\ stack[1].link = "root"
  /\ phase \in {"created", "running", "suspended", "raising", "done"}
  /\ event \in Events
  /\ event.what = "yielded" <=> phase = "suspended"

\* An alias for a union with a YieldType is one arm of several: the decorator is
\* given its members, while the body's hooks take it for a return type.
AliasNested(fn) ==
  Len(fn.declared) # 1 /\ ArmsOfKind(fn.declared, "UnionAlias") # {}

\* No Any, no argument yield_from_callback() cannot see through, no helper
\* coroutine and no nested alias is between generator i and generator j: the
\* plugin checked every yield type on the way up, and every send type on the way
\* down.
YieldsChecked(i, j) ==
  /\ \A k \in (i + 1)..j : stack[k].link \in {"generator", "iterable"} /\ YieldOf(k) # AnyType
  /\ \A k \in i..j : ~ AliasNested(stack[k].fn)

SendsChecked(i, j) ==
  /\ \A k \in (i + 1)..j : stack[k].link = "generator"
  /\ \A k \in i..j : SendOf(k) # AnyType /\ ~ AliasNested(stack[k].fn)

\* A yielded value passes up through every delegating generator to the
\* consumer, and is of the yield type each of them was given by its decorator,
\* although each body was checked against its own reading of the declaration, and
\* each yield_from_() against the next generator only (plugin.py lines 170-179 and
\* 217-285).
YieldSound ==
  (event.what = "yielded" /\ ~ event.untyped) =>
    \A i \in 1..depth : YieldsChecked(i, depth) => Admits(YieldOf(i), event.value)

\* A value the consumer sends arrives, through every delegating generator, at a
\* yield_() whose awaited type, as decoded in that body, admits it (lines 252,
\* 286-293), unless __anext__ put in a None that the consumer could not have sent.
SendSound ==
  (/\ event.what = "sent" /\ ~ event.untyped
   /\ event.by = "asend" \/ Admits(SendOf(1), NoneValue)) =>
    (SendsChecked(1, depth) => Admits(ResumedType(top.fn), event.value))

\* "await yield_from_(g)" is a value of the type the stub and the decorator
\* give it, for a g of its own type: the union with the YieldType and SendType
\* taken out still holds everything the body returns (lines 141-146, 171-182).
ReturnSound ==
  (event.what = "returned" /\ event.frame.link \in {"generator", "union", "any"}) =>
    Admits(YieldFromResult(event.frame.link, event.frame.fn.kind,
                           GeneratorTypes(event.frame.fn)),
           event.value)

\* What README.rst says of "amount = await yield_(next_yield)  # amount is an
\* int": what yield_() returns is of the send type, whichever way the
\* generator that calls it is resumed.
YieldReturnsSendType ==
  (event.what = "sent" /\ ~ event.untyped /\ depth = 1 /\ SendsChecked(1, 1)) =>
    Admits(YieldResult(top.fn), event.value)

\* What README.rst says of calls to yield_(): they are type-checked based on the
\* declarations, by which the generator is known to its consumer.
YieldIsChecked ==
  (/\ event.what = "yielded" /\ ~ event.untyped
   /\ depth = 1 /\ ~ GeneratorTypes(top.fn).failed) =>
    Admits(YieldOf(1), event.value)

\* What README.rst says of calls to yield_from_(): they are type-checked based
\* on the enclosing function's declarations.
YieldFromIsChecked ==
  (/\ event.what = "yielded" /\ ~ event.untyped
   /\ \A k \in 1..depth :
        /\ stack[k].link \in {"root", "generator", "union"}
        /\ YieldOf(k) # AnyType /\ ~ AliasNested(stack[k].fn)) =>
    \A i \in 1..depth : Admits(YieldOf(i), event.value)

=============================================================================
