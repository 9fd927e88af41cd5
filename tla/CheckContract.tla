---------------------------- MODULE CheckContract ----------------------------
(***************************************************************************)
(* What checking a module with the trio-typing plugin promises: the errors *)
(* reported are those of the bad places in the program, each of them and   *)
(* no others, in some order, and the check ends.  CheckSession, which has  *)
(* mypy's passes and the state the hooks read, implements it.              *)
(***************************************************************************)
CONSTANT BadIn(_)  \* the calls and decorators of a program that are in error

VARIABLES
  program,   \* the program
  reported,  \* the places reported so far
  settled    \* whether the check has ended

vars == <<program, reported, settled>>

Init ==
  /\ reported = {}
  /\ settled = FALSE

Report ==
  /\ ~ settled
  /\ \E place \in BadIn(program) \ reported : reported' = reported \cup {place}
  /\ UNCHANGED <<program, settled>>

Settle ==
  /\ ~ settled
  /\ reported = BadIn(program)
  /\ settled' = TRUE
  /\ UNCHANGED <<program, reported>>

Next == Report \/ Settle

Spec == Init /\ [][Next]_vars /\ WF_vars(Next)

=============================================================================
