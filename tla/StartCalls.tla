----------------------------- MODULE StartCalls -----------------------------
(***************************************************************************)
(* A call such as nursery.start_soon(async_fn, x, y) of a function that    *)
(* the stubs decorate with @takes_callable_and_args: mypy checks it, with  *)
(* the overloads the plugin makes or with the stub's signature as it is,   *)
(* and if it is accepted the program runs and Trio calls async_fn(x, y).   *)
(* How mypy matches a call against a signature, and what Trio does with    *)
(* the arguments, is external.                                             *)
(***************************************************************************)
EXTENDS VariadicStubs

CONSTANTS
  Stubs,         \* the decorated functions
  Targets,       \* the functions passed to them, as sequences of overloads
  ArgLists,      \* the static types of the arguments passed along
  Values,        \* the runtime values
  MaxArgs        \* the most arguments an overload takes, 5 in the source

ASSUME StartCallsAssumption ==
  /\ Stubs \subseteq TrioFunctions
  /\ \A t \in Targets : IsSequence(t)
  /\ \A list \in ArgLists :
       /\ IsSequence(list)
       /\ \A i \in DOMAIN list :
            list[i] = Any \/ \E of \in (SUBSET Values) \ {{}} : list[i] = Inst(of)
  /\ Values # {}
  /\ MaxArgs \in Nat

VARIABLES
  plugin,  \* whether mypy runs with the plugin
  stub,    \* the function that is called
  target,  \* the function passed to it
  args,    \* the types of the arguments passed along
  pc,      \* "written", then what mypy said, then what happened
  passed   \* the values passed along, once the program runs

vars == <<plugin, stub, target, args, pc, passed>>

-----------------------------------------------------------------------------
(***************************************************************************)
(* How mypy checks a call.  The arguments passed along are the ones after  *)
(* the callable; a type variable is solved to the join of the types of the *)
(* arguments whose formal it is, and then a function passed for a callable *)
(* must take what that callable takes.                                     *)
(***************************************************************************)

ArgFormals(sig, callable_at) ==
  OfKinds(SubSeq(sig.formals, callable_at + 1, Len(sig.formals)), {"pos"})

HasStar(formals) == OfKinds(formals, {"star"}) # <<>>

Names(formals, kinds) ==
  LET named == OfKinds(formals, kinds) IN {named[i].type : i \in DOMAIN named}

\* The type a formal has once the type variables are solved.
Join(types) == IF Any \in types THEN Any ELSE Inst(UNION {t.of : t \in types})

Solved(formals, type) ==
  IF type.form # "tvar" THEN type
  ELSE Join({args[i] : i \in {j \in DOMAIN formals : formals[j].type = type}})

IsSubtype(sub, super) == (sub # Any /\ super # Any) => sub.of \subseteq super.of

\* The type of the n-th positional argument of a function that takes so many.
TypeAt(formals, n) ==
  LET positional == OfKinds(formals, {"pos", "opt"})
  IN  IF n <= Len(positional) THEN positional[n].type ELSE OfKinds(formals, {"star"})[1].type

TakesSoMany(formals, n) ==
  /\ n <= Len(OfKinds(formals, {"pos", "opt"})) \/ HasStar(formals)
  /\ n >= Len(OfKinds(formals, {"pos"}))

TakesNamed(formals, given) ==
  /\ Names(formals, {"named"}) \subseteq given
  /\ given \subseteq Names(formals, {"named", "named_opt"})

\* One overload of the target is compatible with the callable "wanted".  What
\* *args: Any stands for is as many arguments as the overload asks for.
FitsCallable(overload, wanted, arg_formals) ==
  LET given == OfKinds(wanted.formals, {"pos"})
  IN  \/ wanted.ellipsis
      \/ /\ IF HasStar(wanted.formals) THEN HasStar(overload)
            ELSE TakesSoMany(overload, Len(given))
         /\ \A i \in DOMAIN given :
              IsSubtype(Solved(arg_formals, given[i].type), TypeAt(overload, i))
         /\ TakesNamed(overload, Names(wanted.formals, {"named"}))

CallableArms(type) ==
  IF type.form = "union" THEN {type.items[i] : i \in DOMAIN type.items} ELSE {type}

\* The positional formals after the callable take the arguments, *args the rest,
\* and some overload of the target is a callable the signature takes.
Matches(sig, callable_at) ==
  LET arg_formals == ArgFormals(sig, callable_at)
  IN  /\ Len(args) >= Len(arg_formals)
      /\ Len(args) > Len(arg_formals) => HasStar(sig.formals)
      /\ \E i \in DOMAIN target, wanted \in CallableArms(sig.formals[callable_at].type) :
           FitsCallable(target[i], wanted, arg_formals)

AcceptedWith(has_plugin) ==
  IF has_plugin
  THEN \E n \in DOMAIN Overloads(stub, MaxArgs) :
         Matches(Overloads(stub, MaxArgs)[n], CallableAt(stub))
  ELSE Matches(stub, CallableAt(stub))

-----------------------------------------------------------------------------
(* The call. *)

Init ==
  /\ plugin \in BOOLEAN
  /\ stub \in Stubs
  /\ target \in Targets
  /\ args \in ArgLists
  /\ pc = "written"
  /\ passed = <<>>

Check ==
  /\ pc = "written"
  /\ pc' = IF AcceptedWith(plugin) THEN "accepted" ELSE "rejected"
  /\ UNCHANGED <<plugin, stub, target, args, passed>>

\* What the stub's callable takes before VarArg() and by name, Trio passes.
TrioPasses == OfKinds(SubSeq(SplattedOf(stub).formals, 1, SplatAt(stub) - 1), {"pos"})
TrioNames == Names(SplattedOf(stub).formals, {"named"})

Admits(type, v) == type # Any => v \in type.of

\* target(passed...) runs, with what Trio passes: it takes so many arguments of
\* these values.
Runs(values) ==
  \E i \in DOMAIN target :
    /\ TakesSoMany(target[i], Len(TrioPasses) + Len(values))
    /\ \A k \in DOMAIN TrioPasses : IsSubtype(TrioPasses[k].type, TypeAt(target[i], k))
    /\ \A k \in DOMAIN values : Admits(TypeAt(target[i], Len(TrioPasses) + k), values[k])
    /\ TakesNamed(target[i], TrioNames)

PossibleValues ==
  {values \in [DOMAIN args -> Values] : \A i \in DOMAIN args : Admits(args[i], values[i])}

\* Mutant: Trio leaves the last argument out.
InvokeDropsLast ==
  /\ pc = "accepted"
  /\ \E values \in PossibleValues : passed' = SubSeq(values, 1, Len(values) - 1)
  /\ pc' = IF Runs(passed') THEN "ran" ELSE "TypeError"
  /\ UNCHANGED <<plugin, stub, target, args>>

\* Trio calls the target.
Invoke ==
  /\ pc = "accepted"
  /\ passed' \in PossibleValues
  /\ pc' = IF Runs(passed') THEN "ran" ELSE "TypeError"
  /\ UNCHANGED <<plugin, stub, target, args>>

Next == Check \/ Invoke

Spec == Init /\ [][Next]_vars

-----------------------------------------------------------------------------
(***************************************************************************)
(* Properties.                                                             *)
(***************************************************************************)

\* The arguments passed along keep their number and types.
TypeOK ==
  /\ plugin \in BOOLEAN
  /\ stub \in Stubs
  /\ target \in Targets
  /\ args \in ArgLists
  /\ pc \in {"written", "accepted", "rejected", "ran", "TypeError"}
  /\ IF pc \in {"ran", "TypeError"} THEN passed \in PossibleValues ELSE passed = <<>>

\* What README.rst says of the plugin (lines 151-154): start_soon(async_fn, *args)
\* is an error if async_fn(*args) would be, wherever VarArg() stands.  A call it
\* accepts, with no argument of type Any, calls the function as it may be called.
AcceptedCallsRun ==
  (plugin /\ pc = "TypeError") => \E i \in DOMAIN args : args[i] = Any

\* It is an error only then: a call of at most MaxArgs arguments that the plugin
\* rejects could fail, for a function that is not itself overloaded.
RejectedCallsFail ==
  (plugin /\ pc = "rejected" /\ Len(args) <= MaxArgs /\ Len(target) = 1) =>
    \E values \in PossibleValues : ~ Runs(values)

\* Without the plugin a call is accepted whenever it is with the plugin, as the
\* comment in lines 377-379 of plugin.py has it; start_soon() and start() spell
\* out four parameters, so there only with as many arguments.
WeakerWithoutPlugin ==
  (plugin /\ pc = "accepted" /\ Len(args) <= 4) => AcceptedWith(FALSE)

\* Even without the plugin, start_soon() is not passed a function with required
\* keyword-only parameters, nor start() one that does not take task_status (the
\* comments in lines 139-141 and 156-159 of trio-stubs/__init__.pyi).
KeywordsChecked ==
  (pc = "accepted" /\ stub \in {start_soon, start}) =>
    \E i \in DOMAIN target : TakesNamed(target[i], TrioNames)

=============================================================================
