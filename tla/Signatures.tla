------------------------------ MODULE Signatures ------------------------------
(***************************************************************************)
(* The signatures takes_callable_and_args_callback() of                    *)
(* trio_typing/plugin.py reads and builds.  mypy's parallel lists of       *)
(* argument kinds, types and names are one sequence of formals here; names *)
(* are left out, since the plugin only splices None for the new ones.      *)
(***************************************************************************)
EXTENDS Integers, Sequences

\* ARG_POS, ARG_OPT, ARG_STAR, ARG_NAMED, ARG_NAMED_OPT and ARG_STAR2.
ArgKinds == {"pos", "opt", "star", "named", "named_opt", "star2"}

\* The types of formals: Any, an instance, a type variable, a callable with its
\* own formals, and a union.
Any == [form |-> "any"]
Inst(of) == [form |-> "inst", of |-> of]
TypeVar(id) == [form |-> "tvar", id |-> id]
CallableType(formals) == [form |-> "callable", ellipsis |-> FALSE, formals |-> formals]
Union(items) == [form |-> "union", items |-> items]

Formal(kind, type) == [kind |-> kind, type |-> type]

\* Callable[..., T] is *args: Any, **kwargs: Any with is_ellipsis_args set.
EllipsisCallable ==
  [form |-> "callable", ellipsis |-> TRUE,
   formals |-> <<Formal("star", Any), Formal("star2", Any)>>]

\* The formal at index i gives way to the formals "inserted".
Splice(formals, i, inserted) ==
  SubSeq(formals, 1, i - 1) \o inserted \o SubSeq(formals, i + 1, Len(formals))

\* A generic function's type: its formals, the ids of the type variables it
\* binds, and how many more are bound by the functions it is nested in.  mypy
\* numbers the type variables of functions -1, -2, ... from the outermost in.
Signature(formals, variables, outer_vars) ==
  [formals |-> formals, variables |-> variables, outer_vars |-> outer_vars]

InScopeIds(sig) ==
  {-i : i \in 1..sig.outer_vars} \cup {sig.variables[i] : i \in DOMAIN sig.variables}

\* The formals of some kinds, in order.
OfKinds(formals, kinds) ==
  LET among[n \in 0..Len(formals)] ==
        IF n = 0 THEN <<>>
        ELSE IF formals[n].kind \in kinds THEN Append(among[n - 1], formals[n])
        ELSE among[n - 1]
  IN  among[Len(formals)]

\* A formal "*args: Any", in a function or in a callable.
IsAnyStar(formal) == formal.kind = "star" /\ formal.type.form = "any"

AnyStars(callable) == {i \in DOMAIN callable.formals : IsAnyStar(callable.formals[i])}

-----------------------------------------------------------------------------
(* The parts of a decorated function. *)

\* The callables a formal may stand for: itself, or the first arm of a union
\* that is a callable with an *args other than "...".
VarArgArms(union) ==
  {i \in DOMAIN union.items :
     /\ union.items[i].form = "callable"
     /\ ~ union.items[i].ellipsis
     /\ \E j \in DOMAIN union.items[i].formals : union.items[i].formals[j].kind = "star"}

CandidatesOf(f) ==
  IF f.kind # "pos" THEN {}
  ELSE IF f.type.form = "callable" THEN {f.type}
  ELSE IF f.type.form # "union" THEN {}
  ELSE {f.type.items[i] : i \in {k \in VarArgArms(f.type) :
                                   \A j \in VarArgArms(f.type) : k <= j}}

\* The callables among them that are passed *args: Any.
CallablesOf(f) == {c \in CandidatesOf(f) : AnyStars(c) # {}}

IsSequence(s) == s \in Seq({s[i] : i \in DOMAIN s})

\* A function, and a callable, has one *args at most.
OneStar(formals) ==
  \A i, j \in DOMAIN formals : formals[i].kind = "star" /\ formals[j].kind = "star" => i = j

IsSignature(sig) ==
  /\ sig = Signature(sig.formals, sig.variables, sig.outer_vars)
  /\ IsSequence(sig.formals)
  /\ OneStar(sig.formals)
  /\ \A i \in DOMAIN sig.formals :
       /\ sig.formals[i].type.form = "union" => IsSequence(sig.formals[i].type.items)
       /\ \A c \in CandidatesOf(sig.formals[i]) : OneStar(c.formals)
  /\ IsSequence(sig.variables)
  /\ sig.outer_vars \in Nat
  /\ \A i \in DOMAIN sig.variables : sig.variables[i] = -(sig.outer_vars + i)

-----------------------------------------------------------------------------
(* The signature the plugin makes for one number of arguments. *)

PosFormals(ids) == [i \in DOMAIN ids |-> Formal("pos", TypeVar(ids[i]))]

\* Mutant: the callable takes the type variables in the reverse order.
ExpandedFnReversed(fn, callable_at, callable, callable_args_at, args_at, ids) ==
  LET reversed == [i \in DOMAIN ids |-> ids[Len(ids) + 1 - i]]
      expanded == [form |-> "callable", ellipsis |-> callable.ellipsis,
                   formals |-> Splice(callable.formals, callable_args_at, PosFormals(reversed))]
      replaced == [fn.formals EXCEPT ![callable_at] = Formal(@.kind, expanded)]
  IN  Signature(Splice(replaced, args_at, PosFormals(ids)), fn.variables \o ids, fn.outer_vars)

\* fn_type with the type variables "ids" in the place of *args, in the callable
\* and in the function itself.
ExpandedFn(fn, callable_at, callable, callable_args_at, args_at, ids) ==
  LET expanded == [form |-> "callable", ellipsis |-> callable.ellipsis,
                   formals |-> Splice(callable.formals, callable_args_at, PosFormals(ids))]
      replaced == [fn.formals EXCEPT ![callable_at] = Formal(@.kind, expanded)]
  IN  Signature(Splice(replaced, args_at, PosFormals(ids)), fn.variables \o ids, fn.outer_vars)

\* Mutant: the first id is the one after the function's own.
AdjacentTypeVarId(fn, i) == -Len(fn.variables) - i

NewTypeVarId(fn, i) == -Len(fn.variables) - i - 1

-----------------------------------------------------------------------------
(* The overloads the plugin makes of a signature with one *args: Any and one   *)
(* callable to pass it to.                                                     *)

ArgsAt(sig) == CHOOSE i \in DOMAIN sig.formals : IsAnyStar(sig.formals[i])
CallableAt(sig) == CHOOSE i \in DOMAIN sig.formals : CallablesOf(sig.formals[i]) # {}
SplattedOf(sig) == CHOOSE c \in CallablesOf(sig.formals[CallableAt(sig)]) : TRUE
SplatAt(sig) == CHOOSE i \in AnyStars(SplattedOf(sig)) : TRUE

Expanded(sig, ids) ==
  ExpandedFn(sig, CallableAt(sig), SplattedOf(sig), SplatAt(sig), ArgsAt(sig), ids)

NewIds(sig, n) == [i \in 1..n |-> NewTypeVarId(sig, i)]

\* Mutant: an overload is missing at the limit.
OverloadsTooFew(sig, max_args) == [n \in 1..max_args |-> Expanded(sig, NewIds(sig, n - 1))]

Overloads(sig, max_args) == [n \in 1..(max_args + 1) |-> Expanded(sig, NewIds(sig, n - 1))]

=============================================================================
