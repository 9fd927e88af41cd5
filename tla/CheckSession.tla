----------------------------- MODULE CheckSession -----------------------------
(***************************************************************************)
(* mypy checking a module with the plugin: it walks through nested         *)
(* functions, lambdas and classes with a scope stack, asks the plugin for  *)
(* a hook at every call and decorator, and checks a function again in a    *)
(* later pass when it used a decorated function before its decorator was   *)
(* visited.  The hooks read the stack and the signatures as they are at    *)
(* that moment.  The walk, the stack and the passes are mypy's, external.  *)
(***************************************************************************)
EXTENDS AgenCallbacks

CONSTANTS
  Scopes,     \* the module and, nested in it, its classes, functions and lambdas
  Module,     \* the module itself
  Kind,       \* the class of the node of a scope
  Enclosing,  \* the scope around a scope
  Within,     \* the innermost function or lambda around a call in a scope, or Module
  Fn,         \* a function as the hooks see it
  Decorator,  \* the full name of a function's decorator, "" without one
  Bodies,     \* the bodies of the scopes: what is in each, in order
  LastPass,   \* the pass in which mypy defers no more
  Unknown     \* the signature of a function whose definition was not visited yet

FunctionKind(kind) == kind \in {"FuncDef", "LambdaExpr"}

Generators == {s \in Scopes : Decorator[s] = "async_generator.async_generator"}

Definition(s) == [what |-> "define", scope |-> s]

Items ==
  [what : {"define"}, scope : Scopes]
    \cup [what : {"yield_"}, arg : Types]
    \cup [what : {"yield_from_"}, scope : Generators]

ASSUME ScopesAssumption ==
  /\ Module \in Scopes
  /\ \A s \in Scopes :
       /\ Kind[s] \in {"MypyFile", "TypeInfo", "FuncDef", "LambdaExpr"}
       /\ Kind[s] = "MypyFile" <=> s = Module
       /\ Fn[s] \in FunctionDefs /\ Len(Fn[s].declared) > 0
       /\ Fn[s].is_decorated <=> Decorator[s] # ""
       /\ Fn[s].node = IF FunctionKind(Kind[s]) THEN Kind[s] ELSE "None"
       /\ Within[s] = IF s = Module \/ FunctionKind(Kind[s]) THEN s ELSE Within[Enclosing[s]]
  /\ \A g \in Generators : CouldBeDecorated(Fn[g])

\* The scopes are a tree, whose root is the module.
ASSUME TreeAssumption ==
  /\ \A s \in Scopes : Enclosing[s] \in Scopes
  /\ Enclosing[Module] = Module
  /\ \A S \in SUBSET Scopes :
       Module \in S /\ (\A s \in Scopes : Enclosing[s] \in S => s \in S) => S = Scopes

\* Each scope but the module is defined in the one around it, and nowhere else.
ASSUME BodiesAssumption ==
  \A b \in Bodies, s \in Scopes :
    /\ b[s] \in Seq(Items)
    /\ \A i \in DOMAIN b[s] :
         b[s][i].what = "define" => b[s][i].scope # Module /\ Enclosing[b[s][i].scope] = s
    /\ s # Module => \E i \in DOMAIN b[Enclosing[s]] : b[Enclosing[s]][i] = Definition(s)

ASSUME PassesAssumption == LastPass \in Nat \ {0}

VARIABLES
  plugin,          \* the class that plugin(version) returned
  body,            \* the bodies of this program
  pass_num,        \* the pass, from 0
  todo,            \* the nodes to check in this pass
  deferred_nodes,  \* the functions to check again in the next pass
  stack,           \* the scope stack, and the item each scope is at
  signature,       \* what visiting a definition found for the defined name
  errors,          \* the places at which an error was reported
  finished         \* whether mypy is done

given == <<plugin, body>>
passes == <<pass_num, todo, finished>>
vars == <<given, passes, deferred_nodes, stack, signature, errors>>

-----------------------------------------------------------------------------
(* The dispatch by full name. *)

TrioPluginHook(fullname) ==
  CASE fullname = "trio_typing.takes_callable_and_args" -> "takes_callable_and_args_callback"
    [] fullname = "async_generator.async_generator" -> "async_generator_callback"
    [] fullname = "async_generator.yield_" -> "yield_callback"
    [] fullname = "async_generator.yield_from_" -> "yield_from_callback"
    [] OTHER -> "None"

\* Mutant: the subclass does not fall back on its base class.
TrioPlugin13HookOnly(fullname) ==
  IF fullname = "trio_typing.takes_callable_and_args"
  THEN "takes_callable_and_args_callback without default"
  ELSE "None"

TrioPlugin13Hook(fullname) ==
  IF fullname = "trio_typing.takes_callable_and_args"
  THEN "takes_callable_and_args_callback without default"
  ELSE TrioPluginHook(fullname)

get_function_hook(fullname) ==
  IF plugin = "TrioPlugin13" THEN TrioPlugin13Hook(fullname) ELSE TrioPluginHook(fullname)

-----------------------------------------------------------------------------
(* The scope stack. *)

depth == Len(stack)
top == stack[depth]

At(scope, next) == [scope |-> scope, next |-> next]
Running == depth > 0 /\ top.next <= Len(body[top.scope])
item == body[top.scope][top.next]
place == <<top.scope, top.next>>

Advanced == [stack EXCEPT ![depth].next = @ + 1]

\* Mutant: the outermost function or lambda.
BottomFunction ==
  LET functions == {i \in DOMAIN stack : FunctionKind(Kind[stack[i].scope])}
  IN  IF functions = {} THEN Module
      ELSE stack[CHOOSE i \in functions : \A j \in functions : i <= j].scope

\* scope.top_function(): the innermost function or lambda, Module for None.
TopFunction ==
  LET functions == {i \in DOMAIN stack : FunctionKind(Kind[stack[i].scope])}
  IN  IF functions = {} THEN Module
      ELSE stack[CHOOSE i \in functions : \A j \in functions : i >= j].scope

Reported(error) == errors' = IF error THEN errors \cup {place} ELSE errors

-----------------------------------------------------------------------------
(* The walk through one node. *)

Enter ==
  /\ Running
  /\ item.what = "define"
  /\ stack' = Append(stack, At(item.scope, 1))
  /\ UNCHANGED <<given, passes, deferred_nodes, signature, errors>>

CallYield ==
  /\ Running
  /\ item.what = "yield_"
  /\ Reported(/\ get_function_hook("async_generator.yield_") = "yield_callback"
              /\ ~ YieldAccepted(Fn[TopFunction], item.arg))
  /\ stack' = Advanced
  /\ UNCHANGED <<given, passes, deferred_nodes, signature>>

AnyGenerator == DecodedType(AnyType, AnyType, {PlainArm(AnyType)}, FALSE)

YieldFromChecked(form, agen) ==
  get_function_hook("async_generator.yield_from_") = "yield_from_callback"
    => YieldFromAccepted(Fn[TopFunction], form, agen)

CallYieldFrom ==
  /\ Running
  /\ item.what = "yield_from_"
  /\ signature[item.scope] # Unknown
  /\ Reported(~ YieldFromChecked("generator", signature[item.scope]))
  /\ stack' = Advanced
  /\ UNCHANGED <<given, passes, deferred_nodes, signature>>

\* Mutant: the lambda around the call is deferred too.
DeferrableWithLambdas == {f \in {stack[i].scope : i \in DOMAIN stack} : FunctionKind(Kind[f])}

\* The functions around the call.
Deferrable == {f \in {stack[i].scope : i \in DOMAIN stack} : Kind[f] = "FuncDef"}

\* Mutant: the last pass comes one too early.
MayDeferEarlier == pass_num + 1 < LastPass /\ Deferrable # {}

MayDefer == pass_num < LastPass /\ Deferrable # {}

\* A function that is deferred again is checked once.
Deferring(f) ==
  IF \E i \in DOMAIN deferred_nodes : deferred_nodes[i] = f
  THEN deferred_nodes
  ELSE Append(deferred_nodes, f)

\* The generator's decorator was not visited: the argument's type is Any, and
\* mypy defers a function around the call (which one depends on its version),
\* or reports that it cannot determine the type.
CallYieldFromUnknown ==
  /\ Running
  /\ item.what = "yield_from_"
  /\ signature[item.scope] = Unknown
  /\ IF MayDefer
     THEN /\ \E f \in Deferrable : deferred_nodes' = Deferring(f)
          /\ Reported(~ YieldFromChecked("any", AnyGenerator))
     ELSE Reported(TRUE) /\ UNCHANGED deferred_nodes
  /\ stack' = Advanced
  /\ UNCHANGED <<given, passes, signature>>

-----------------------------------------------------------------------------
(* Leaving a scope, and with it the statement that defines it. *)

\* Without the hook: CompatAsyncGenerator[Any, Any, _T] of the stub.
DefaultReturnType(s) ==
  DecodedType(AnyType, AnyType, DOMAIN Inferred(Fn[s].declared), FALSE)

\* What a visited definition gives its name: what the hook of its decorator
\* makes of it, or the declared type.  The overloads that the hook for
\* takes_callable_and_args builds are the subject of TakesCallable.
Defined(s) ==
  LET hook == get_function_hook(Decorator[s])
  IN  CASE hook = "async_generator_callback" -> DecoratedTypes(Fn[s])
        [] hook = "None" -> DefaultReturnType(s)
        [] OTHER -> hook

ASSUME UnknownAssumption ==
  /\ \A s \in Scopes : Unknown # DecoratedTypes(Fn[s]) /\ Unknown # DefaultReturnType(s)
  /\ \A hook \in {"takes_callable_and_args_callback",
                 "takes_callable_and_args_callback without default",
                 "yield_callback", "yield_from_callback"} : Unknown # hook

\* A deferred function is checked again without its decorator: the scopes below
\* it on the stack have no statement left.
LeaveScope ==
  /\ depth > 0 /\ ~ Running
  /\ LET popped == SubSeq(stack, 1, depth - 1)
         below  == popped[depth - 1]
         s      == top.scope
     IN  IF depth > 1 /\ below.next <= Len(body[below.scope])
         THEN /\ stack' = [popped EXCEPT ![depth - 1].next = @ + 1]
              /\ signature' = [signature EXCEPT ![s] = Defined(s)]
              /\ errors' = IF s \in Generators /\ Defined(s).failed
                           THEN errors \cup {<<s, 0>>} ELSE errors
         ELSE stack' = popped /\ UNCHANGED <<signature, errors>>
  /\ UNCHANGED <<given, passes, deferred_nodes>>

-----------------------------------------------------------------------------
(* The passes. *)

Ended(s) == At(s, Len(body[s]) + 1)

\* A deferred function is checked with its module and class around it only.
StackFor(node) ==
  IF node = Module THEN <<At(Module, 1)>>
  ELSE IF Kind[Enclosing[node]] = "TypeInfo"
  THEN <<Ended(Module), Ended(Enclosing[node]), At(node, 1)>>
  ELSE <<Ended(Module), At(node, 1)>>

StartNode ==
  /\ depth = 0 /\ todo # <<>>
  /\ stack' = StackFor(Head(todo))
  /\ todo' = Tail(todo)
  /\ UNCHANGED <<given, pass_num, finished, deferred_nodes, signature, errors>>

NextPass ==
  /\ depth = 0 /\ todo = <<>> /\ deferred_nodes # <<>>
  /\ pass_num' = pass_num + 1
  /\ todo' = deferred_nodes
  /\ deferred_nodes' = <<>>
  /\ UNCHANGED <<given, finished, stack, signature, errors>>

Finish ==
  /\ depth = 0 /\ todo = <<>> /\ deferred_nodes = <<>>
  /\ ~ finished
  /\ finished' = TRUE
  /\ UNCHANGED <<given, pass_num, todo, deferred_nodes, stack, signature, errors>>

-----------------------------------------------------------------------------
Init ==
  /\ plugin \in {"TrioPlugin", "TrioPlugin13"}
  /\ body \in Bodies
  /\ pass_num = 0
  /\ todo = <<Module>>
  /\ deferred_nodes = <<>>
  /\ stack = <<>>
  /\ signature = [s \in Scopes |-> Unknown]
  /\ errors = {}
  /\ finished = FALSE

Next ==
  \/ Enter \/ CallYield \/ CallYieldFrom \/ CallYieldFromUnknown \/ LeaveScope
  \/ StartNode \/ NextPass \/ Finish

Spec == Init /\ [][Next]_vars /\ WF_vars(Next)

-----------------------------------------------------------------------------
(***************************************************************************)
(* Properties.                                                             *)
(***************************************************************************)

\* mypy's state keeps its types: the scopes on the stack are at an item or at
\* their end, and deferred nodes are functions.
TypeOK ==
  /\ plugin \in {"TrioPlugin", "TrioPlugin13"}
  /\ pass_num \in 0..LastPass
  /\ todo \in Seq(Scopes)
  /\ deferred_nodes \in Seq({s \in Scopes : Kind[s] = "FuncDef"})
  /\ stack \in Seq([scope : Scopes, next : Nat])
  /\ \A i \in DOMAIN stack : stack[i].next \in 1..(Len(body[stack[i].scope]) + 1)
  /\ DOMAIN signature = Scopes
  /\ errors \subseteq Scopes \X Nat
  /\ finished \in BOOLEAN

\* Whenever a hook may run, the function it finds on the scope stack is the one
\* whose body the call is written in, in the first pass and when a function is
\* checked again alone (lines 192-199).
EnclosingFound == Running => TopFunction = Within[top.scope]

\* A generator is known by the types its decorator's hook decodes, whichever
\* plugin class answered and however often it was visited (lines 38-60).
SignaturesDecoded ==
  \A g \in Generators : signature[g] \in {Unknown, DecoratedTypes(Fn[g])}

\* The places that are in error by the rules of the hooks, read off the program:
\* each call by the function it is written in and by the types its argument has
\* once everything is known.
IsBad(s, it) ==
  \/ it.what = "yield_" /\ ~ YieldAccepted(Fn[Within[s]], it.arg)
  \/ /\ it.what = "yield_from_"
     /\ ~ YieldFromAccepted(Fn[Within[s]], "generator", DecoratedTypes(Fn[it.scope]))

BadCalls == {call \in Scopes \X Items : IsBad(call[1], call[2])}
BadDecorators == {g \in Generators : DecoratedTypes(Fn[g]).failed}

BadPlaces(bodies) ==
  {<<g, 0>> : g \in BadDecorators}
    \cup UNION {{<<s, i>> : i \in {j \in DOMAIN bodies[s] : <<s, bodies[s][j]>> \in BadCalls}}
                 : s \in Scopes}

\* No error is reported that is not one, although a call may be looked at
\* before the types it depends on are known, or for a second time.
NoSpuriousErrors == errors \subseteq BadPlaces(body)

\* Every bad place is reported by the end, in particular those whose generator
\* is decorated later in the module or is the calling function itself, and the
\* end is reached (the dispatch and the three hooks, lines 38-60 and 149-306).
Contract == INSTANCE CheckContract
              WITH BadIn <- BadPlaces, program <- body, reported <- errors,
                   settled <- finished
ImplementsContract == Contract!Spec

=============================================================================
