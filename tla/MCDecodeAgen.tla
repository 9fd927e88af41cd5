---------------------------- MODULE MCDecodeAgen ----------------------------
(* DecodeAgen on every union of one to four arms drawn from MCArms. *)
EXTENDS DecodeAgen

CONSTANTS v1, MaxArms

MCValues == {NoneValue, v1}

\* YieldType and SendType over a proper type and Any, the malformed ones with
\* no argument, two plain types of which one contains the other, and an alias
\* for a union that holds a YieldType.
MCArms ==
  {YieldArm({v1}), YieldArm(AnyType), SendArm({v1}), SendArm(AnyType),
   [kind |-> "YieldType", args |-> <<>>], [kind |-> "SendType", args |-> <<>>],
   PlainArm({v1}), PlainArm(MCValues),
   [kind |-> "UnionAlias", args |-> <<{v1}>>]}

MCAnnotations == UNION {[1..n -> MCArms] : n \in 1..MaxArms}

=============================================================================
