------------------------------ MODULE AgenTypes ------------------------------
(***************************************************************************)
(* The static types the trio-typing mypy plugin computes with, and what    *)
(* decode_agen_types_from_return_type() of trio_typing/plugin.py returns   *)
(* for the declared return type of an @async_generator function.           *)
(*                                                                         *)
(* A static type is abstracted to the set of runtime values it admits, so  *)
(* that subtyping is inclusion; Any is a type of its own, compatible with  *)
(* every type in both directions.  A declared return type is the sequence  *)
(* of the arms of its union (one arm when it is not a union).              *)
(***************************************************************************)
EXTENDS Naturals, Sequences

CONSTANTS
  Values,     \* the runtime values
  NoneValue,  \* Python's None, one of the values
  AnyType,    \* mypy's AnyType, whatever its TypeOfAny reason
  Unset       \* a Python local that still holds None: "no type seen yet"

ASSUME TypesAssumption ==
  /\ NoneValue \in Values
  /\ \A t \in SUBSET Values : t # AnyType /\ t # Unset
  /\ Unset # AnyType

Types == {AnyType} \cup SUBSET Values

NoneType == {NoneValue}
ObjectType == Values

\* mypy's subtype test behind TypeChecker.check_subtype().
IsSubtype(sub, super) ==
  (sub # AnyType /\ super # AnyType) => sub \subseteq super

\* v may be the value of an expression whose static type is t.
Admits(t, v) == t # AnyType => v \in t

-----------------------------------------------------------------------------
(***************************************************************************)
(* The arms of a declared return type.  "YieldType" and "SendType" are     *)
(* instances of trio_typing.YieldType and trio_typing.SendType with their  *)
(* type arguments; "Plain" is every other type, its only argument being    *)
(* the type itself; "UnionAlias" is a type alias that stands for           *)
(* Union[None, YieldType[args[1]]], which mypy does not flatten into the   *)
(* enclosing union.  A plain alias is the same arm as what it stands for.  *)
(***************************************************************************)
ArmKinds == {"YieldType", "SendType", "Plain", "UnionAlias"}

Arms ==
  {arm \in [kind : ArmKinds, args : Seq(Types)] :
     arm.kind \in {"Plain", "UnionAlias"} => Len(arm.args) = 1}

PlainArm(t) == [kind |-> "Plain", args |-> <<t>>]
YieldArm(t) == [kind |-> "YieldType", args |-> <<t>>]
SendArm(t)  == [kind |-> "SendType", args |-> <<t>>]

\* The positions of the arms of one kind, and the arms that are neither
\* YieldType nor SendType.
ArmsOfKind(arms, kind) == {i \in DOMAIN arms : arms[i].kind = kind}

OtherArms(arms) ==
  {arms[i] : i \in {j \in DOMAIN arms : arms[j].kind \notin {"YieldType", "SendType"}}}

\* What an arm stands for once its alias is expanded.
ExpandedArm(arm) ==
  IF arm.kind = "UnionAlias"
  THEN <<PlainArm(NoneType), YieldArm(arm.args[1])>>
  ELSE <<arm>>

\* Mutant: the declaration is not expanded when it is an alias itself.
UnresolvedArms(declared) == declared

\* The union's items mypy gives for a declared return type: get_proper_type()
\* expands the declaration itself, but not the aliases among its items.
ResolvedArms(declared) ==
  IF Len(declared) = 1 THEN ExpandedArm(declared[1]) ELSE declared

\* The members with every nested alias expanded.
Flattened(members) ==
  UNION {{ExpandedArm(a)[i] : i \in DOMAIN ExpandedArm(a)} : a \in members}

\* mypy's is_proper_subtype() on the members of a flattened union: YieldType is
\* covariant, SendType contravariant, Never is beneath every type and object above
\* every type but Any; Any is no proper subtype of another type.
IsProperSubtype(a, b) ==
  \/ a = PlainArm({})
  \/ b = PlainArm(ObjectType) /\ a # PlainArm(AnyType)
  \/ /\ a.kind = b.kind
     /\ Len(a.args) = 1 /\ Len(b.args) = 1
     /\ a.args[1] # AnyType /\ b.args[1] # AnyType
     /\ IF a.kind = "SendType"
        THEN b.args[1] \subseteq a.args[1]
        ELSE a.args[1] \subseteq b.args[1]

\* make_simplified_union(): the flattened members without those that another
\* member makes redundant.
MakeSimplifiedUnion(members) ==
  LET flat == Flattened(members)
  IN  {a \in flat : ~ \E b \in flat \ {a} : IsProperSubtype(a, b)}

\* The values a union of members admits: those of its plain members, all of
\* them if one is Any, none (Never) if there is no plain member.
PlainTypes(members) == {a.args[1] : a \in {m \in members : m.kind = "Plain"}}

UnionType(members) ==
  IF AnyType \in PlainTypes(members) THEN AnyType ELSE UNION PlainTypes(members)

-----------------------------------------------------------------------------
(***************************************************************************)
(* The triple decode_agen_types_from_return_type() returns, with "failed"  *)
(* telling whether it reported an error through ctx.api.fail().  "ret" is  *)
(* the set of members of the returned union, empty for NoReturn.  The      *)
(* order of the arms does not matter to it: "declared" and "arms" may be   *)
(* functions from any index set.                                           *)
(***************************************************************************)
DecodedType(yield, send, ret, failed) ==
  [yield |-> yield, send |-> send, ret |-> ret, failed |-> failed]

\* Every YieldType and SendType has one argument, and neither is repeated.
WellDeclared(arms) ==
  /\ \A i \in DOMAIN arms :
       arms[i].kind \in {"YieldType", "SendType"} => Len(arms[i].args) = 1
  /\ \A i, j \in DOMAIN arms :
       /\ arms[i].kind = arms[j].kind
       /\ arms[i].kind \in {"YieldType", "SendType"}
       => i = j

\* The argument of the only arm among those at "positions", None without one.
ArgumentOrNone(arms, positions) ==
  IF positions = {} THEN NoneType
  ELSE arms[CHOOSE i \in positions : TRUE].args[1]

\* What the function returns for the declaration "declared" whose union has the
\* items "arms", in one step and without the loop.
Decoded(declared, arms) ==
  LET original == {declared[i] : i \in DOMAIN declared}
      yields   == ArmsOfKind(arms, "YieldType")
      sends    == ArmsOfKind(arms, "SendType")
  IN  IF ~ WellDeclared(arms)
      THEN DecodedType(AnyType, AnyType, original, TRUE)
      ELSE IF yields = {} /\ sends = {}
      THEN DecodedType(AnyType, AnyType, original, FALSE)
      ELSE DecodedType(ArgumentOrNone(arms, yields),
                       ArgumentOrNone(arms, sends),
                       MakeSimplifiedUnion(OtherArms(arms)),
                       FALSE)

=============================================================================
