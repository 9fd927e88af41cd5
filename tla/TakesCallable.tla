---------------------------- MODULE TakesCallable ----------------------------
(***************************************************************************)
(* @takes_callable_and_args in the mypy plugin: plugin(version) chooses    *)
(* the plugin class, and takes_callable_and_args_callback() scans the      *)
(* decorated signature for "*args: Any" and for the callable those         *)
(* arguments are for, then builds one overload for each number of          *)
(* arguments.  One behaviour is mypy loading the plugin and then checking  *)
(* one use of the decorator; the variables are the callback's locals.      *)
(***************************************************************************)
EXTENDS Signatures

CONSTANTS
  Uses,         \* what the decorator is applied to
  Versions,     \* the versions of mypy, 100 times major plus minor
  NoFunction,   \* a use that does not decorate a function
  NoCallable,   \* the local callable_ty while it is None
  MaxArgs       \* the most arguments an overload takes, 5 in the source

ASSUME TakesCallableAssumption ==
  /\ Versions \subseteq Nat
  /\ MaxArgs \in Nat
  /\ \A u \in Uses : u # NoFunction => IsSignature(u)

VARIABLES
  version,            \* the version of mypy
  has_default,        \* has_type_var_default, once the plugin is chosen
  fn_type,            \* the type of the decorated function
  pc,                 \* where the callback is
  idx,                \* the formal the scan looks at next
  args_idx,           \* the formal that is *args: Any, 0 before one is found
  callable_idx,       \* the formal that is the callable, 0 before
  callable_args_idx,  \* the formal of the callable that is VarArg()
  callable_ty,        \* the callable
  type_var_types,     \* the ids of the type variables made so far
  expanded_fns        \* the overloads made so far

scan == <<idx, args_idx, callable_idx, callable_args_idx, callable_ty>>
expansion == <<type_var_types, expanded_fns>>
given == <<version, fn_type>>
vars == <<version, has_default, fn_type, pc, scan, expansion>>

\* mypy's TypeVarType takes a "default" since 1.4, and requires it.
TypeVarTypeTakesDefault == version >= 104

-----------------------------------------------------------------------------
(* Loading the plugin. *)

\* Mutant: version 1.4 itself is given to TrioPlugin13.
ChoosesPlugin13Late(v) == v <= 104

\* TrioPlugin13 is for the versions before 1.4, TrioPlugin for the others.
ChoosesPlugin13(v) == v < 104

LoadPlugin ==
  /\ pc = "load"
  /\ IF version < 100
     THEN pc' = "RuntimeError" /\ UNCHANGED has_default
     ELSE pc' = "usage" /\ has_default' = ~ ChoosesPlugin13(version)
  /\ UNCHANGED <<given, scan, expansion>>

-----------------------------------------------------------------------------
(* Checking the use and scanning the formals of the decorated function. *)

Fail ==
  /\ pc' = "failed"
  /\ UNCHANGED <<given, has_default, scan, expansion>>

FailUsage == pc = "usage" /\ fn_type = NoFunction /\ Fail

StartScan ==
  /\ pc = "usage"
  /\ fn_type # NoFunction
  /\ pc' = "scan"
  /\ UNCHANGED <<given, has_default, scan, expansion>>

Scanning == pc = "scan" /\ idx <= Len(fn_type.formals)

formal == fn_type.formals[idx]

ScanStarArgs ==
  /\ Scanning
  /\ IsAnyStar(formal)
  /\ args_idx' = idx
  /\ idx' = idx + 1
  /\ UNCHANGED <<given, has_default, pc, callable_idx, callable_args_idx, callable_ty, expansion>>

\* Mutant: the index of the callable in the place of that of its VarArg().
ScanCallableOuterIndex ==
  /\ Scanning
  /\ callable_idx = 0
  /\ callable_ty' \in CallablesOf(formal)
  /\ callable_args_idx' = idx
  /\ callable_idx' = idx
  /\ idx' = idx + 1
  /\ UNCHANGED <<given, has_default, pc, args_idx, expansion>>

ScanCallable ==
  /\ Scanning
  /\ callable_idx = 0
  /\ \E c \in CallablesOf(formal) :
       /\ callable_ty' = c
       /\ callable_args_idx' \in AnyStars(c)
  /\ callable_idx' = idx
  /\ idx' = idx + 1
  /\ UNCHANGED <<given, has_default, pc, args_idx, expansion>>

FailSecondCallable ==
  /\ Scanning
  /\ callable_idx # 0
  /\ CallablesOf(formal) # {}
  /\ Fail

ScanOther ==
  /\ Scanning
  /\ ~ IsAnyStar(formal)
  /\ CallablesOf(formal) = {}
  /\ idx' = idx + 1
  /\ UNCHANGED <<given, has_default, pc, args_idx, callable_idx, callable_args_idx,
                 callable_ty, expansion>>

Scanned == pc = "scan" /\ idx > Len(fn_type.formals)

\* Mutant: only a function with neither is refused.
NothingFound == args_idx = 0 /\ callable_idx = 0

SomethingMissing == args_idx = 0 \/ callable_idx = 0

FailMissing == Scanned /\ SomethingMissing /\ Fail

StartExpansion ==
  /\ Scanned
  /\ ~ SomethingMissing
  /\ pc' = "expand"
  /\ UNCHANGED <<given, has_default, scan, expansion>>

-----------------------------------------------------------------------------
(* Building the overloads. *)

arg_idx == Len(expanded_fns) + 1

\* Mutant: the loop runs once more.
InWiderRange == arg_idx <= MaxArgs + 2

\* "for arg_idx in range(1, 7)".
InRange == arg_idx <= MaxArgs + 1

\* Mutant: the iteration's own type variable is made before the overload.
EagerTypeVars == Append(type_var_types, NewTypeVarId(fn_type, arg_idx))

\* The type variables the overload is built with: those of the iterations before.
SplicedTypeVars == type_var_types

Expand ==
  /\ pc = "expand"
  /\ InRange
  /\ expanded_fns' = Append(expanded_fns,
       ExpandedFn(fn_type, callable_idx, callable_ty, callable_args_idx, args_idx, SplicedTypeVars))
  /\ IF has_default = TypeVarTypeTakesDefault
     THEN /\ type_var_types' = Append(type_var_types, NewTypeVarId(fn_type, arg_idx))
          /\ UNCHANGED pc
     ELSE /\ pc' = "crashed"
          /\ UNCHANGED type_var_types
  /\ UNCHANGED <<given, has_default, scan>>

ReturnOverloaded ==
  /\ pc = "expand"
  /\ ~ InRange
  /\ pc' = "overloaded"
  /\ UNCHANGED <<given, has_default, scan, expansion>>

-----------------------------------------------------------------------------
Init ==
  /\ version \in Versions
  /\ has_default = TRUE
  /\ fn_type \in Uses
  /\ pc = "load"
  /\ idx = 1
  /\ args_idx = 0
  /\ callable_idx = 0
  /\ callable_args_idx = 0
  /\ callable_ty = NoCallable
  /\ type_var_types = <<>>
  /\ expanded_fns = <<>>

Next ==
  \/ LoadPlugin
  \/ FailUsage \/ StartScan
  \/ ScanStarArgs \/ ScanCallable \/ FailSecondCallable \/ ScanOther
  \/ FailMissing \/ StartExpansion
  \/ Expand \/ ReturnOverloaded

Spec == Init /\ [][Next]_vars

-----------------------------------------------------------------------------
(***************************************************************************)
(* Properties.                                                             *)
(***************************************************************************)

\* The locals stay within the signature they index.
TypeOK ==
  /\ version \in Versions
  /\ has_default \in BOOLEAN
  /\ fn_type \in Uses
  /\ pc \in {"load", "RuntimeError", "usage", "scan", "expand", "overloaded",
             "failed", "crashed"}
  /\ pc \in {"scan", "expand", "overloaded", "crashed"} => fn_type # NoFunction
  /\ fn_type # NoFunction =>
       /\ idx \in 1..(Len(fn_type.formals) + 1)
       /\ args_idx \in 0..(idx - 1)
       /\ callable_idx \in 0..(idx - 1)
  /\ callable_idx # 0 => callable_args_idx \in AnyStars(callable_ty)
  /\ type_var_types \in Seq(Int)
  /\ Len(expanded_fns) \in 0..(MaxArgs + 1)

\* The signature the callback should build, without the loop: the overload for
\* n arguments binds n type variables of its own, from the first to the n-th.
FreshIds(n) == NewIds(fn_type, n)

OverloadFor(n) ==
  ExpandedFn(fn_type, callable_idx, callable_ty, callable_args_idx, args_idx, FreshIds(n))

\* There is one overload for each number of arguments from none to MaxArgs and
\* no other, and each has the type variables of its own arity although all are
\* built from the one list the loop keeps appending to (lines 412-488).
OverloadsComplete ==
  /\ \A n \in DOMAIN expanded_fns : expanded_fns[n] = OverloadFor(n - 1)
  /\ pc = "overloaded" => Len(expanded_fns) = MaxArgs + 1

\* What the callback returns depends on the decorated signature alone, and is
\* what a call of the function is checked with: the overloads of the callable
\* and the *args the signature has, whatever the scan passed on its way to them
\* (lines 360-488).
ExpandsSignature == pc = "overloaded" => expanded_fns = Overloads(fn_type, MaxArgs)

\* The type variables an overload binds are distinct, and are not those its
\* function already refers to, at most one of which is an enclosing function's
\* (the id computed in lines 467 and 480).
NoCapture ==
  fn_type # NoFunction /\ fn_type.outer_vars <= 1 =>
    \A n \in DOMAIN expanded_fns :
      LET bound == expanded_fns[n].variables
      IN  /\ \A i, j \in DOMAIN bound : bound[i] = bound[j] => i = j
          /\ \A i \in (Len(fn_type.variables) + 1)..Len(bound) :
               bound[i] \notin InScopeIds(fn_type)

\* The plugin class chosen for the version of mypy calls its TypeVarType the way
\* that version wants (lines 462-486 and 497-505).
NoCrash == pc # "crashed"

\* The callback fails exactly on the uses that do not decorate a function with
\* one *args: Any and one callable to pass it to, whatever their order and
\* whatever else the function takes (lines 357-410).
ValidUse ==
  /\ fn_type # NoFunction
  /\ \E i \in DOMAIN fn_type.formals : IsAnyStar(fn_type.formals[i])
  /\ \E i \in DOMAIN fn_type.formals :
       \A j \in DOMAIN fn_type.formals : CallablesOf(fn_type.formals[j]) # {} <=> i = j

FailsIffInvalid ==
  /\ pc = "failed" => ~ ValidUse
  /\ pc \in {"expand", "overloaded", "crashed"} => ValidUse

\* What the callback says when it fails on a second callable (lines 397-400):
\* that the decorated function takes more than one callable that has an
\* argument of type VarArg().  Callable[..., T] is not declared with VarArg().
TakesVarArg(f) ==
  LET DeclaresVarArg(c) == c.form = "callable" /\ ~ c.ellipsis /\ AnyStars(c) # {}
  IN  \/ DeclaresVarArg(f.type)
      \/ f.type.form = "union" /\ \E i \in DOMAIN f.type.items : DeclaresVarArg(f.type.items[i])

SecondCallableHasVarArg ==
  (pc = "failed" /\ fn_type # NoFunction /\ idx <= Len(fn_type.formals)) =>
    \E i, j \in DOMAIN fn_type.formals :
      i # j /\ TakesVarArg(fn_type.formals[i]) /\ TakesVarArg(fn_type.formals[j])

=============================================================================
