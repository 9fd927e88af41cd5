------------------------------ MODULE MCHandoff ------------------------------
(* Handoff on two values besides None and five type arguments. *)
EXTENDS Handoff, TLC

CONSTANTS v1, v2

MCValues == {NoneValue, v1, v2}

\* Types that include one another, one that does not, one without None, Any.
MCDeclared == {{v1}, {v1, NoneValue}, {v2, NoneValue}, MCValues, AnyType}

\* Nothing is claimed of a carrier once a reference to it has had Any, and it
\* never gets its type back.
Typed == ~ erased

Symmetry == Permutations(Tasks)

=============================================================================
