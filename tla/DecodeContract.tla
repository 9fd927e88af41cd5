--------------------------- MODULE DecodeContract ---------------------------
(***************************************************************************)
(* What decode_agen_types_from_return_type() of trio_typing/plugin.py      *)
(* promises: for any declared return type it returns, once, the triple its *)
(* docstring describes.  There is no loop and no intermediate state here;  *)
(* DecodeAgen, which has both, is shown to implement this specification.   *)
(***************************************************************************)
EXTENDS AgenTypes

CONSTANTS
  Annotations,  \* the declared return types considered
  Pending       \* the result of a call that has not returned

VARIABLES
  declared,  \* the parameter original_async_return_type
  result     \* what the call returned

vars == <<declared, result>>

Init ==
  /\ declared \in Annotations
  /\ result = Pending

Decide ==
  /\ result = Pending
  /\ result' = Decoded(declared, ResolvedArms(declared))
  /\ UNCHANGED declared

Next == Decide

Spec == Init /\ [][Next]_vars /\ WF_vars(Next)

=============================================================================
