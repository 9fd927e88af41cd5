----------------------------- MODULE MCStartCalls -----------------------------
(* StartCalls on all the functions of the stubs, with two values.             *)
EXTENDS StartCalls

CONSTANTS v1, v2

MCValues == {v1, v2, "DTLSChannel"}

ArgTypes == {Any, Inst({v1}), Inst({v1, v2})}
Same(type, n) == [i \in 1..n |-> type]

\* Any three arguments, and up to one more than the overloads take.
MCArgLists ==
  UNION {[1..n -> ArgTypes] : n \in 0..3}
    \cup {Same(Inst({v1}), n) : n \in 4..6}
    \cup {Same(Inst({v1, v2}), n) \o <<Inst({v1})>> : n \in 3..5}

P(values) == Pos(Inst(values))
O(values) == Formal("opt", Inst(values))
Both == {v1, v2}
Channel == P({"DTLSChannel"})
Status == Required("task_status")

\* Functions of no parameter, of one and of several in an order that matters,
\* with optional ones, *args and keyword-only ones, for start() and for serve(),
\* some of four to six parameters, and one that is overloaded.
MCTargets ==
  {<<fn>> : fn \in
     {<<>>, <<P({v1})>>, <<P(Both)>>, <<P({v1}), P(Both)>>, <<P(Both), P({v1})>>,
      <<P({v1}), O(Both)>>, <<P({v2}), Formal("star", Inst({v1}))>>, <<Formal("star", Any)>>,
      <<P({v1}), Optional("task_status")>>, <<Formal("star", Inst(Both)), Status>>,
      <<P(Both), Status>>, <<P({v1}), Required("other")>>, <<Formal("star", Any), Required("other")>>,
      <<Channel>>, <<Channel, P({v1})>>, <<Channel, P(Both), P({v1})>>,
      <<P(Both), P(Both), P(Both), P({v1})>>,
      <<P(Both), P(Both), P(Both), P(Both), P({v1})>>,
      <<P(Both), P(Both), P(Both), P(Both), P(Both), P({v1})>>}}
  \cup {<<  <<P({v1})>>, <<P({v2}), P({v1})>>  >>}

MCStubs == TrioFunctions

=============================================================================
