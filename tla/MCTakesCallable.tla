--------------------------- MODULE MCTakesCallable ---------------------------
(* TakesCallable on the functions the stubs decorate, and on combinations of  *)
(* parameters of which the callback refuses many.                             *)
EXTENDS TakesCallable, VariadicStubs

MCVersions == {90, 103, 104}

\* What else a decorated function may take: a name or an endpoint; a callable
\* with VarArg() on its own, in the unions of the stubs, or next to keyword
\* parameters; Callable[..., T] on its own, a callable without VarArg(), and a
\* union whose first *args is not Any.
Plain   == Pos(Inst({"other"}))
Bare    == Pos(Splatted(<<>>, <<>>))
Soon    == UpToFour(<<>>)
Started == Pos(Splatted(<<>>, <<Required("task_status")>>))
Serve   == AnyCallableOr(Splatted(<<Plain>>, <<>>))
Ellipsis == Pos(EllipsisCallable)
NoStar  == Pos(TakingAny(1, <<>>))
IntStar == Pos(Union(<<CallableType(<<Formal("star", Inst({"int"}))>>), Splatted(<<>>, <<>>)>>))
Defaulted == Formal("opt", Splatted(<<>>, <<>>))

Heads == {<<>>, <<Plain>>, <<Bare>>, <<AnyCallable>>, <<Soon>>, <<Started>>, <<Serve>>,
          <<Ellipsis>>, <<NoStar>>, <<IntStar>>, <<Defaulted>>}
Seconds == {<<>>, <<Plain>>, <<Bare>>, <<Ellipsis>>}
Tails == {<<>>, <<StarAny>>, <<StarAny, Optional("name")>>, <<Formal("star", Inst({"int"}))>>}

\* How many type variables the function binds, and how many those around it.
Generics == {<<0, 0>>, <<2, 0>>, <<1, 1>>, <<1, 2>>}

MCUses ==
  {NoFunction} \cup TrioFunctions \cup
    {Signature(a \o b \o c, [i \in 1..g[1] |-> -(g[2] + i)], g[2]) :
       a \in Heads, b \in Seconds, c \in Tails, g \in Generics}

=============================================================================
