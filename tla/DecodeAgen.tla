----------------------------- MODULE DecodeAgen -----------------------------
(***************************************************************************)
(* decode_agen_types_from_return_type() of trio_typing/plugin.py, step by  *)
(* step: the loop over the arms of the declared union with its early exit  *)
(* on an invalid arm, then the choice between the three ways to return.    *)
(* The variables are the function's locals; one behaviour is one call.     *)
(***************************************************************************)
EXTENDS AgenTypes

CONSTANTS
  Annotations,  \* the declared return types considered
  Pending       \* the result of a call that has not returned

ASSUME DecodeAssumption ==
  /\ Annotations \subseteq Seq(Arms)
  /\ \A d \in Annotations : Len(d) > 0
  /\ Pending \notin [yield : Types, send : Types, ret : SUBSET Arms, failed : BOOLEAN]

VARIABLES
  declared,    \* the parameter original_async_return_type
  arms,        \* the union's items, or the declared type itself
  pos,         \* the arm the loop looks at next
  yield_type,  \* the argument of the YieldType seen, or Unset
  send_type,   \* the argument of the SendType seen, or Unset
  other_arms,  \* the arms that are neither, in order
  result       \* what the call returned, or Pending

locals == <<arms, pos, yield_type, send_type, other_arms>>
vars == <<declared, result, locals>>

Init ==
  /\ declared \in Annotations
  /\ arms = ResolvedArms(declared)
  /\ pos = 1
  /\ yield_type = Unset
  /\ send_type = Unset
  /\ other_arms = <<>>
  /\ result = Pending

-----------------------------------------------------------------------------
(* The loop. *)

Scanning == result = Pending /\ pos <= Len(arms)

\* Mutant: a repeated arm is not noticed.
InvalidArity(arm) ==
  arm.kind \in {"YieldType", "SendType"} /\ Len(arm.args) # 1

\* The arm makes the loop raise ValueError: a wrong number of arguments, or a
\* second arm of its kind.
Invalid(arm) ==
  \/ /\ arm.kind = "YieldType"
     /\ Len(arm.args) # 1 \/ yield_type # Unset
  \/ /\ arm.kind = "SendType"
     /\ Len(arm.args) # 1 \/ send_type # Unset

ScanYieldType ==
  /\ Scanning
  /\ arms[pos].kind = "YieldType"
  /\ ~ Invalid(arms[pos])
  /\ yield_type' = arms[pos].args[1]
  /\ pos' = pos + 1
  /\ UNCHANGED <<declared, result, arms, send_type, other_arms>>

\* Mutant: the arm after the SendType is taken with it.
ScanSendTypePair ==
  /\ Scanning
  /\ arms[pos].kind = "SendType"
  /\ ~ Invalid(arms[pos])
  /\ send_type' = arms[pos].args[1]
  /\ pos' = pos + 2
  /\ UNCHANGED <<declared, result, arms, yield_type, other_arms>>

ScanSendType ==
  /\ Scanning
  /\ arms[pos].kind = "SendType"
  /\ ~ Invalid(arms[pos])
  /\ send_type' = arms[pos].args[1]
  /\ pos' = pos + 1
  /\ UNCHANGED <<declared, result, arms, yield_type, other_arms>>

ScanOther ==
  /\ Scanning
  /\ arms[pos].kind \notin {"YieldType", "SendType"}
  /\ other_arms' = Append(other_arms, arms[pos])
  /\ pos' = pos + 1
  /\ UNCHANGED <<declared, result, arms, yield_type, send_type>>

-----------------------------------------------------------------------------
(* The three ways to return. *)

OriginalReturnType == {declared[i] : i \in DOMAIN declared}

\* "raise ValueError" in the loop, and its handler.
FailInvalid ==
  /\ Scanning
  /\ Invalid(arms[pos])
  /\ result' = DecodedType(AnyType, AnyType, OriginalReturnType, TRUE)
  /\ UNCHANGED <<declared, locals>>

Scanned == result = Pending /\ pos > Len(arms)

ReturnUnannotated ==
  /\ Scanned
  /\ yield_type = Unset /\ send_type = Unset
  /\ result' = DecodedType(AnyType, AnyType, OriginalReturnType, FALSE)
  /\ UNCHANGED <<declared, locals>>

\* Mutant: the type that is left off is Any.
OrAny(type) == IF type = Unset THEN AnyType ELSE type

\* A type that is left off is None.
OrNone(type) == IF type = Unset THEN NoneType ELSE type

ReturnDecoded ==
  /\ Scanned
  /\ yield_type # Unset \/ send_type # Unset
  /\ yield_type' = OrNone(yield_type)
  /\ send_type' = OrNone(send_type)
  /\ result' = DecodedType(
                 yield_type', send_type',
                 MakeSimplifiedUnion({other_arms[i] : i \in DOMAIN other_arms}),
                 FALSE)
  /\ UNCHANGED <<declared, arms, pos, other_arms>>

Next ==
  \/ ScanYieldType
  \/ ScanSendType
  \/ ScanOther
  \/ FailInvalid
  \/ ReturnUnannotated
  \/ ReturnDecoded

Spec ==
  /\ Init
  /\ [][Next]_vars
  /\ WF_vars(Next)

-----------------------------------------------------------------------------
(***************************************************************************)
(* Properties.                                                             *)
(***************************************************************************)

\* The locals have the types their comments in the source give them, and the
\* call returns a triple of types.
TypeOK ==
  /\ declared \in Annotations
  /\ arms = ResolvedArms(declared)
  /\ pos \in 1..(Len(arms) + 1)
  /\ yield_type \in {Unset} \cup Types
  /\ send_type \in {Unset} \cup Types
  /\ other_arms \in Seq(Arms)
  /\ result \in {Pending} \cup
       [yield : Types, send : Types, ret : SUBSET Arms, failed : BOOLEAN]

\* Before it returns, a local is set exactly when an arm of its kind was
\* passed, that arm is the only one, and its argument is the local's value;
\* the loop went past no invalid arm (the locals mid-loop, lines 91-113).
Passed(kind) == {i \in ArmsOfKind(arms, kind) : i < pos}

LocalMatches(local, kind) ==
  /\ local = Unset => Passed(kind) = {}
  /\ local # Unset =>
       \E i \in Passed(kind) :
         /\ Passed(kind) = {i}
         /\ Len(arms[i].args) = 1
         /\ local = arms[i].args[1]

OthersBefore(p) ==
  {arms[i] : i \in {j \in 1..(p - 1) : arms[j].kind \notin {"YieldType", "SendType"}}}

OtherArmsMatch == {other_arms[i] : i \in DOMAIN other_arms} = OthersBefore(pos)

ScanInv ==
  result = Pending =>
    /\ LocalMatches(yield_type, "YieldType")
    /\ LocalMatches(send_type, "SendType")
    /\ OtherArmsMatch

\* The triple returned is the documented one whatever the order of the arms,
\* and whatever the loop had already stored when it met an invalid arm: an
\* error never lets a half-decoded yield or send type out (lines 114-146).
ResultDecodes ==
  result # Pending => result = Decoded(declared, ResolvedArms(declared))

IInv == TypeOK /\ ScanInv /\ ResultDecodes

\* The loop implements the one-step contract: it decides exactly once, and
\* the decision is the contract's (the whole function, lines 85-146).
Contract == INSTANCE DecodeContract
ImplementsContract == Contract!Spec

=============================================================================
