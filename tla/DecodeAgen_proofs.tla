-------------------------- MODULE DecodeAgen_proofs --------------------------
(***************************************************************************)
(* Proofs about DecodeAgen: its inductive invariant, and that it           *)
(* implements DecodeContract, for every set of types and annotations.      *)
(***************************************************************************)
EXTENDS DecodeAgen, TLAPS

USE TypesAssumption, DecodeAssumption

Triples == [yield : Types, send : Types, ret : SUBSET Arms, failed : BOOLEAN]

-----------------------------------------------------------------------------
(* Lemmas about the operators of AgenTypes. *)

\* Expanding the alias of an arm gives arms (what get_proper_type() returns).
LEMMA ExpandedArms ==
  ASSUME NEW arm \in Arms
  PROVE  ExpandedArm(arm) \in Seq(Arms)
<1>1. CASE arm.kind = "UnionAlias"
  <2>1. arm.args[1] \in Types
    BY <1>1 DEF Arms
  <2>2. NoneType \in Types
    BY DEF NoneType, Types
  <2>3. PlainArm(NoneType) \in Arms /\ YieldArm(arm.args[1]) \in Arms
    BY <2>1, <2>2 DEF Arms, ArmKinds, PlainArm, YieldArm
  <2> QED
    BY <1>1, <2>3 DEF ExpandedArm
<1>2. CASE arm.kind # "UnionAlias"
  BY <1>2 DEF ExpandedArm
<1> QED
  BY <1>1, <1>2

\* The loop runs over a sequence of arms, and the declaration is one too.
LEMMA DeclaredArms ==
  ASSUME NEW d \in Annotations
  PROVE  d \in Seq(Arms) /\ ResolvedArms(d) \in Seq(Arms)
<1>1. d \in Seq(Arms) /\ Len(d) > 0
  OBVIOUS
<1>2. d[1] \in Arms
  BY <1>1
<1> QED
  BY <1>1, <1>2, ExpandedArms DEF ResolvedArms

\* Simplifying a union of arms gives arms.
LEMMA SimplifiedArms ==
  ASSUME NEW members \in SUBSET Arms
  PROVE  MakeSimplifiedUnion(members) \in SUBSET Arms
<1>1. Flattened(members) \subseteq Arms
  BY ExpandedArms DEF Flattened
<1> QED
  BY <1>1 DEF MakeSimplifiedUnion

\* What is returned to mypy is a triple of types, so never the Pending mark.
LEMMA ReturnedTriples ==
  ASSUME NEW y \in Types, NEW s \in Types, NEW r \in SUBSET Arms, NEW f \in BOOLEAN
  PROVE  DecodedType(y, s, r, f) \in Triples /\ DecodedType(y, s, r, f) # Pending
BY DEF DecodedType, Triples

\* None is a type, and a local of the loop stands for one when it is not Unset.
LEMMA LocalTypes ==
  ASSUME NEW local \in {Unset} \cup Types
  PROVE  OrNone(local) \in Types
BY DEF OrNone, NoneType, Types

-----------------------------------------------------------------------------
(* The locals against the arms they were read from. *)

\* When the loop has passed every arm, a local tells how its kind was declared.
LEMMA ScannedLocal ==
  ASSUME TypeOK, arms \in Seq(Arms), pos = Len(arms) + 1,
         NEW local, NEW kind, LocalMatches(local, kind), local \in {Unset} \cup Types
  PROVE  /\ \A i \in ArmsOfKind(arms, kind) : Len(arms[i].args) = 1
         /\ \A i, j \in ArmsOfKind(arms, kind) : i = j
         /\ local = Unset <=> ArmsOfKind(arms, kind) = {}
         /\ ArgumentOrNone(arms, ArmsOfKind(arms, kind)) = OrNone(local)
<1>1. Passed(kind) = ArmsOfKind(arms, kind)
  BY DEF Passed, ArmsOfKind
<1>2. CASE local = Unset
  BY <1>1, <1>2 DEF LocalMatches, ArgumentOrNone, OrNone
<1>3. CASE local # Unset
  <2>1. PICK i \in ArmsOfKind(arms, kind) :
          /\ ArmsOfKind(arms, kind) = {i}
          /\ Len(arms[i].args) = 1
          /\ local = arms[i].args[1]
    BY <1>1, <1>3 DEF LocalMatches
  <2>2. (CHOOSE j \in {i} : TRUE) = i
    OBVIOUS
  <2> QED
    BY <1>3, <2>1, <2>2 DEF ArgumentOrNone, OrNone
<1> QED
  BY <1>2, <1>3

\* An arm the loop raises on makes the declaration ill-formed.
LEMMA InvalidArm ==
  ASSUME TypeOK, arms \in Seq(Arms), Scanning, ScanInv, Invalid(arms[pos])
  PROVE  ~ WellDeclared(arms)
<1> USE DEF Scanning
<1>1. pos \in DOMAIN arms
  BY DEF TypeOK
<1>2. ASSUME NEW kind \in {"YieldType", "SendType"}, arms[pos].kind = kind,
             NEW local, LocalMatches(local, kind), local # Unset
      PROVE  ~ WellDeclared(arms)
  <2>1. PICK i \in Passed(kind) : TRUE
    BY <1>2 DEF LocalMatches
  <2>2. i \in DOMAIN arms /\ arms[i].kind = kind /\ i # pos
    BY <2>1, <1>1 DEF Passed, ArmsOfKind
  <2> QED
    BY <1>1, <1>2, <2>2 DEF WellDeclared
<1>3. CASE arms[pos].kind = "YieldType"
  <2>1. CASE Len(arms[pos].args) # 1
    BY <1>1, <1>3, <2>1 DEF WellDeclared
  <2>2. CASE yield_type # Unset
    BY <1>2, <1>3, <2>2 DEF ScanInv
  <2> QED
    BY <1>3, <2>1, <2>2 DEF Invalid
<1>4. CASE arms[pos].kind = "SendType"
  <2>1. CASE Len(arms[pos].args) # 1
    BY <1>1, <1>4, <2>1 DEF WellDeclared
  <2>2. CASE send_type # Unset
    BY <1>2, <1>4, <2>2 DEF ScanInv
  <2> QED
    BY <1>4, <2>1, <2>2 DEF Invalid
<1> QED
  BY <1>3, <1>4 DEF Invalid

\* After a whole scan the declaration is well-formed, and the locals are what
\* the declaration says.
LEMMA ScannedArms ==
  ASSUME TypeOK, arms \in Seq(Arms), Scanned, ScanInv
  PROVE  /\ WellDeclared(arms)
         /\ yield_type = Unset <=> ArmsOfKind(arms, "YieldType") = {}
         /\ send_type = Unset <=> ArmsOfKind(arms, "SendType") = {}
         /\ ArgumentOrNone(arms, ArmsOfKind(arms, "YieldType")) = OrNone(yield_type)
         /\ ArgumentOrNone(arms, ArmsOfKind(arms, "SendType")) = OrNone(send_type)
         /\ OtherArms(arms) = {other_arms[i] : i \in DOMAIN other_arms}
<1>1. pos = Len(arms) + 1
  BY DEF TypeOK, Scanned
<1>2. LocalMatches(yield_type, "YieldType") /\ LocalMatches(send_type, "SendType")
  BY DEF ScanInv, Scanned
<1>3. yield_type \in {Unset} \cup Types /\ send_type \in {Unset} \cup Types
  BY DEF TypeOK
<1>4. /\ \A i \in ArmsOfKind(arms, "YieldType") : Len(arms[i].args) = 1
      /\ \A i, j \in ArmsOfKind(arms, "YieldType") : i = j
      /\ yield_type = Unset <=> ArmsOfKind(arms, "YieldType") = {}
      /\ ArgumentOrNone(arms, ArmsOfKind(arms, "YieldType")) = OrNone(yield_type)
  BY <1>1, <1>2, <1>3, ScannedLocal
<1>5. /\ \A i \in ArmsOfKind(arms, "SendType") : Len(arms[i].args) = 1
      /\ \A i, j \in ArmsOfKind(arms, "SendType") : i = j
      /\ send_type = Unset <=> ArmsOfKind(arms, "SendType") = {}
      /\ ArgumentOrNone(arms, ArmsOfKind(arms, "SendType")) = OrNone(send_type)
  BY <1>1, <1>2, <1>3, ScannedLocal
<1>6. WellDeclared(arms)
  BY <1>4, <1>5 DEF WellDeclared, ArmsOfKind
<1>7. OtherArms(arms) = {other_arms[i] : i \in DOMAIN other_arms}
  <2>1. 1..(pos - 1) = DOMAIN arms
    BY <1>1
  <2> QED
    BY <2>1 DEF ScanInv, Scanned, OtherArmsMatch, OthersBefore, OtherArms
<1> QED
  BY <1>4, <1>5, <1>6, <1>7

-----------------------------------------------------------------------------
(* The inductive invariant. *)

LEMMA InitInv == Init => IInv
<1> SUFFICES ASSUME Init PROVE IInv
  OBVIOUS
<1>1. ResolvedArms(declared) \in Seq(Arms)
  BY DeclaredArms DEF Init
<1>2. TypeOK
  BY <1>1 DEF Init, TypeOK
<1>3. ScanInv
  <2>1. Passed("YieldType") = {} /\ Passed("SendType") = {}
    BY <1>1 DEF Init, Passed, ArmsOfKind
  <2>2. {other_arms[i] : i \in DOMAIN other_arms} = {}
    BY DEF Init
  <2>3. 1..(pos - 1) = {}
    BY DEF Init
  <2>4. OthersBefore(pos) = {}
    BY <2>3 DEF OthersBefore
  <2> QED
    BY <2>1, <2>2, <2>4 DEF Init, ScanInv, LocalMatches, OtherArmsMatch
<1>4. ResultDecodes
  BY DEF Init, ResultDecodes
<1> QED
  BY <1>2, <1>3, <1>4 DEF IInv

\* Passing an arm of another kind leaves what is known of a local.
LEMMA LocalUnmoved ==
  ASSUME TypeOK, arms \in Seq(Arms), Scanning, arms' = arms, pos' = pos + 1,
         NEW local, NEW kind, arms[pos].kind # kind, LocalMatches(local, kind)
  PROVE  {i \in ArmsOfKind(arms, kind) : i < pos + 1} = Passed(kind)
BY DEF TypeOK, Passed, ArmsOfKind, Scanning

\* The loop's arm is the next one of its kind.
LEMMA LocalMoved ==
  ASSUME TypeOK, arms \in Seq(Arms), Scanning,
         NEW kind, arms[pos].kind = kind, Passed(kind) = {}
  PROVE  {i \in ArmsOfKind(arms, kind) : i < pos + 1} = {pos}
BY DEF TypeOK, Passed, ArmsOfKind, Scanning

\* Passing an arm adds it to the others if it is one of them.
LEMMA OthersMoved ==
  ASSUME pos \in Nat \ {0}
  PROVE  /\ arms[pos].kind \in {"YieldType", "SendType"} =>
              OthersBefore(pos + 1) = OthersBefore(pos)
         /\ arms[pos].kind \notin {"YieldType", "SendType"} =>
              OthersBefore(pos + 1) = OthersBefore(pos) \cup {arms[pos]}
<1>1. 1..(pos + 1 - 1) = 1..(pos - 1) \cup {pos}
  OBVIOUS
<1> QED
  BY <1>1 DEF OthersBefore

\* What list.append() adds to the elements of a list.
LEMMA AppendedRange ==
  ASSUME NEW S, NEW s \in Seq(S), NEW e \in S
  PROVE  {Append(s, e)[i] : i \in DOMAIN Append(s, e)} = {s[i] : i \in DOMAIN s} \cup {e}
<1>1. DOMAIN s = 1..Len(s) /\ DOMAIN Append(s, e) = 1..(Len(s) + 1)
  OBVIOUS
<1>2. /\ \A i \in 1..Len(s) : Append(s, e)[i] = s[i]
      /\ Append(s, e)[Len(s) + 1] = e
  OBVIOUS
<1>3. 1..(Len(s) + 1) = 1..Len(s) \cup {Len(s) + 1}
  OBVIOUS
<1> QED
  BY <1>1, <1>2, <1>3

LEMMA StepInv == IInv /\ [Next]_vars => IInv'
<1> SUFFICES ASSUME IInv, [Next]_vars PROVE IInv'
  OBVIOUS
<1>t. TypeOK /\ ScanInv /\ ResultDecodes
  BY DEF IInv
<1>a. declared \in Annotations /\ arms = ResolvedArms(declared) /\ arms \in Seq(Arms)
  BY <1>t, DeclaredArms DEF TypeOK
<1>d. declared \in Seq(Arms)
  BY <1>a
<1>o. OriginalReturnType \in SUBSET Arms
  BY <1>d DEF OriginalReturnType
<1>any. AnyType \in Types
  BY DEF Types
<1>1. CASE ScanYieldType
  <2> USE <1>1 DEF ScanYieldType
  <2>1. result = Pending /\ pos \in DOMAIN arms /\ pos \in 1..Len(arms)
    BY <1>t, <1>a DEF Scanning, TypeOK
  <2>2. yield_type = Unset /\ Len(arms[pos].args) = 1
    BY DEF Invalid
  <2>3. arms[pos].args[1] \in Types
    BY <2>1, <2>2, <1>a DEF Arms
  <2>4. TypeOK'
    BY <1>t, <2>1, <2>3 DEF TypeOK
  <2>5. Passed("YieldType") = {}
    BY <1>t, <2>1, <2>2 DEF ScanInv, LocalMatches
  <2>6. LocalMatches(yield_type, "YieldType")'
    <3>1. Passed("YieldType")' = {pos}
      BY <1>t, <1>a, <2>5, LocalMoved DEF Passed, ArmsOfKind
    <3> QED
      BY <3>1, <2>2, <2>3 DEF LocalMatches, Types
  <2>7. LocalMatches(send_type, "SendType")'
    <3>1. Passed("SendType")' = Passed("SendType")
      BY <1>t, <1>a, <2>1, LocalUnmoved DEF Passed, ArmsOfKind, ScanInv
    <3> QED
      BY <1>t, <2>1, <3>1 DEF LocalMatches, ScanInv
  <2>8. OtherArmsMatch'
    <3>1. OthersBefore(pos + 1) = OthersBefore(pos)
      BY <2>1, OthersMoved
    <3> QED
      BY <1>t, <2>1, <3>1 DEF OtherArmsMatch, OthersBefore, ScanInv
  <2> QED
    BY <1>t, <2>1, <2>4, <2>6, <2>7, <2>8 DEF IInv, ScanInv, ResultDecodes
<1>2. CASE ScanSendType
  <2> USE <1>2 DEF ScanSendType
  <2>1. result = Pending /\ pos \in DOMAIN arms /\ pos \in 1..Len(arms)
    BY <1>t, <1>a DEF Scanning, TypeOK
  <2>2. send_type = Unset /\ Len(arms[pos].args) = 1
    BY DEF Invalid
  <2>3. arms[pos].args[1] \in Types
    BY <2>1, <2>2, <1>a DEF Arms
  <2>4. TypeOK'
    BY <1>t, <2>1, <2>3 DEF TypeOK
  <2>5. Passed("SendType") = {}
    BY <1>t, <2>1, <2>2 DEF ScanInv, LocalMatches
  <2>6. LocalMatches(send_type, "SendType")'
    <3>1. Passed("SendType")' = {pos}
      BY <1>t, <1>a, <2>5, LocalMoved DEF Passed, ArmsOfKind
    <3> QED
      BY <3>1, <2>2, <2>3 DEF LocalMatches, Types
  <2>7. LocalMatches(yield_type, "YieldType")'
    <3>1. Passed("YieldType")' = Passed("YieldType")
      BY <1>t, <1>a, <2>1, LocalUnmoved DEF Passed, ArmsOfKind, ScanInv
    <3> QED
      BY <1>t, <2>1, <3>1 DEF LocalMatches, ScanInv
  <2>8. OtherArmsMatch'
    <3>1. OthersBefore(pos + 1) = OthersBefore(pos)
      BY <2>1, OthersMoved
    <3> QED
      BY <1>t, <2>1, <3>1 DEF OtherArmsMatch, OthersBefore, ScanInv
  <2> QED
    BY <1>t, <2>1, <2>4, <2>6, <2>7, <2>8 DEF IInv, ScanInv, ResultDecodes
<1>3. CASE ScanOther
  <2>0. arms[pos].kind \notin {"YieldType", "SendType"}
    BY <1>3 DEF ScanOther
  <2> USE <1>3 DEF ScanOther
  <2>1. result = Pending /\ pos \in DOMAIN arms /\ pos \in 1..Len(arms)
    BY <1>t, <1>a DEF Scanning, TypeOK
  <2>2. TypeOK'
    BY <1>t, <1>a, <2>1 DEF TypeOK
  <2>3. \A kind \in {"YieldType", "SendType"} : Passed(kind)' = Passed(kind)
    BY <1>t, <1>a, <2>1 DEF Passed, ArmsOfKind
  <2>4. LocalMatches(yield_type, "YieldType")' /\ LocalMatches(send_type, "SendType")'
    BY <1>t, <2>1, <2>3 DEF LocalMatches, ScanInv
  <2>5. OtherArmsMatch'
    <3>1. OthersBefore(pos + 1) = OthersBefore(pos) \cup {arms[pos]}
      BY <2>1, OthersMoved
    <3>2. other_arms \in Seq(Arms) /\ arms[pos] \in Arms
      BY <1>t, <1>a, <2>1 DEF TypeOK
    <3>3. {other_arms'[i] : i \in DOMAIN other_arms'} =
            {other_arms[i] : i \in DOMAIN other_arms} \cup {arms[pos]}
      BY <3>2, AppendedRange
    <3>4. OthersBefore(pos)' = OthersBefore(pos + 1)
      BY DEF OthersBefore
    <3>5. {other_arms[i] : i \in DOMAIN other_arms} = OthersBefore(pos)
      BY <1>t, <2>1 DEF OtherArmsMatch, ScanInv
    <3> QED
      BY <3>1, <3>3, <3>4, <3>5, <2>0 DEF OtherArmsMatch
  <2> QED
    BY <1>t, <2>1, <2>2, <2>4, <2>5 DEF IInv, ScanInv, ResultDecodes
<1>4. CASE FailInvalid
  <2> USE <1>4 DEF FailInvalid
  <2>1. ~ WellDeclared(arms)
    BY <1>t, <1>a, InvalidArm
  <2>2. result' \in Triples /\ result' # Pending
    BY <1>o, <1>any, ReturnedTriples
  <2>3. TypeOK'
    BY <1>t, <2>2 DEF TypeOK, Triples, locals
  <2>4. ResultDecodes'
    BY <1>a, <2>1 DEF ResultDecodes, Decoded, OriginalReturnType
  <2> QED
    BY <2>2, <2>3, <2>4 DEF IInv, ScanInv
<1>5. CASE ReturnUnannotated
  <2> USE <1>5 DEF ReturnUnannotated
  <2>1. result' \in Triples /\ result' # Pending
    BY <1>o, <1>any, ReturnedTriples
  <2>2. TypeOK'
    BY <1>t, <2>1 DEF TypeOK, Triples, locals
  <2>3. WellDeclared(arms) /\ ArmsOfKind(arms, "YieldType") = {} /\ ArmsOfKind(arms, "SendType") = {}
    BY <1>t, <1>a, ScannedArms
  <2>4. ResultDecodes'
    BY <1>a, <2>3 DEF ResultDecodes, Decoded, OriginalReturnType
  <2> QED
    BY <2>1, <2>2, <2>4 DEF IInv, ScanInv
<1>6. CASE ReturnDecoded
  <2> USE <1>6 DEF ReturnDecoded
  <2> DEFINE others == {other_arms[i] : i \in DOMAIN other_arms}
  <2>1. others \in SUBSET Arms
    BY <1>t DEF TypeOK
  <2>2. OrNone(yield_type) \in Types /\ OrNone(send_type) \in Types
    BY <1>t, LocalTypes DEF TypeOK
  <2>3. MakeSimplifiedUnion(others) \in SUBSET Arms
    BY <2>1, SimplifiedArms
  <2>4. result' = DecodedType(OrNone(yield_type), OrNone(send_type),
                              MakeSimplifiedUnion(others), FALSE)
    OBVIOUS
  <2>5. result' \in Triples /\ result' # Pending
    <3> HIDE DEF others
    <3> QED
      BY <2>2, <2>3, <2>4, ReturnedTriples
  <2>6. TypeOK'
    BY <1>t, <2>2, <2>5 DEF TypeOK, Triples
  <2>7. /\ WellDeclared(arms)
        /\ ~ (ArmsOfKind(arms, "YieldType") = {} /\ ArmsOfKind(arms, "SendType") = {})
        /\ ArgumentOrNone(arms, ArmsOfKind(arms, "YieldType")) = OrNone(yield_type)
        /\ ArgumentOrNone(arms, ArmsOfKind(arms, "SendType")) = OrNone(send_type)
        /\ OtherArms(arms) = others
    BY <1>t, <1>a, ScannedArms
  <2>8. ResultDecodes'
    BY <1>a, <2>4, <2>7 DEF ResultDecodes, Decoded
  <2> QED
    BY <2>5, <2>6, <2>8 DEF IInv, ScanInv
<1>7. CASE UNCHANGED vars
  <2> USE <1>7 DEF vars, locals
  <2>1. TypeOK' /\ ResultDecodes'
    BY <1>t DEF TypeOK, ResultDecodes
  <2>2. ScanInv'
    BY <1>t DEF ScanInv, LocalMatches, OtherArmsMatch, OthersBefore, Passed, ArmsOfKind
  <2> QED
    BY <2>1, <2>2 DEF IInv
<1> QED
  BY <1>1, <1>2, <1>3, <1>4, <1>5, <1>6, <1>7 DEF Next

\* In every reachable state of a call the locals have their types and describe
\* the arms passed, and a returned triple is the documented one, for every
\* annotation: an invalid arm never lets a half-decoded type out.
THEOREM DecodeInvariant == Spec => []IInv
<1>1. Init => IInv
  BY InitInv
<1>2. IInv /\ [Next]_vars => IInv'
  BY StepInv
<1> QED
  BY <1>1, <1>2, PTL DEF Spec

\* The type invariant of the run MCDecodeAgen, for every set of annotations.
THEOREM DecodeTypeOK == Spec => []TypeOK
<1>1. IInv => TypeOK
  BY DEF IInv
<1> QED
  BY <1>1, DecodeInvariant, PTL

\* What the loop has stored, at every iteration, is what it has passed.
THEOREM DecodeScan == Spec => []ScanInv
<1>1. IInv => ScanInv
  BY DEF IInv
<1> QED
  BY <1>1, DecodeInvariant, PTL

-----------------------------------------------------------------------------
(* The loop implements the one-step contract. *)

\* The contract's operators are those of the loop's module.
LEMMA SameDecoded ==
  ASSUME NEW d, NEW a
  PROVE  /\ Contract!Decoded(d, a) = Decoded(d, a)
         /\ Contract!ResolvedArms(d) = ResolvedArms(d)
<1>1. Contract!ResolvedArms(d) = ResolvedArms(d)
  BY DEF ResolvedArms, ExpandedArm, PlainArm, YieldArm, NoneType,
         Contract!ResolvedArms, Contract!ExpandedArm, Contract!PlainArm,
         Contract!YieldArm, Contract!NoneType
<1>2. Contract!WellDeclared(a) = WellDeclared(a)
  BY DEF WellDeclared, Contract!WellDeclared
<1>3. \A kind : Contract!ArmsOfKind(a, kind) = ArmsOfKind(a, kind)
  BY DEF ArmsOfKind, Contract!ArmsOfKind
<1>4. \A positions : Contract!ArgumentOrNone(a, positions) = ArgumentOrNone(a, positions)
  BY DEF ArgumentOrNone, NoneType, Contract!ArgumentOrNone, Contract!NoneType
<1>5. Contract!OtherArms(a) = OtherArms(a)
  BY DEF OtherArms, Contract!OtherArms
<1>6. \A members : Contract!MakeSimplifiedUnion(members) = MakeSimplifiedUnion(members)
  <2>1. \A members : Contract!Flattened(members) = Flattened(members)
    BY DEF Flattened, ExpandedArm, PlainArm, YieldArm, NoneType,
           Contract!Flattened, Contract!ExpandedArm, Contract!PlainArm,
           Contract!YieldArm, Contract!NoneType
  <2>2. \A p, q : Contract!IsProperSubtype(p, q) <=> IsProperSubtype(p, q)
    BY DEF IsProperSubtype, ObjectType, PlainArm,
           Contract!IsProperSubtype, Contract!ObjectType, Contract!PlainArm
  <2> QED
    BY <2>1, <2>2 DEF MakeSimplifiedUnion, Contract!MakeSimplifiedUnion
<1>7. \A y, s, r, f : Contract!DecodedType(y, s, r, f) = DecodedType(y, s, r, f)
  BY DEF DecodedType, Contract!DecodedType
<1>8. Contract!Decoded(d, a) = Decoded(d, a)
  <2>1. CASE ~ WellDeclared(a)
    BY <2>1, <1>2, <1>7 DEF Decoded, Contract!Decoded
  <2>2. CASE WellDeclared(a)
    <3>1. CASE ArmsOfKind(a, "YieldType") = {} /\ ArmsOfKind(a, "SendType") = {}
      BY <2>2, <3>1, <1>2, <1>3, <1>7 DEF Decoded, Contract!Decoded
    <3>2. CASE ~ (ArmsOfKind(a, "YieldType") = {} /\ ArmsOfKind(a, "SendType") = {})
      <4>1. /\ Contract!ArmsOfKind(a, "YieldType") = ArmsOfKind(a, "YieldType")
            /\ Contract!ArmsOfKind(a, "SendType") = ArmsOfKind(a, "SendType")
        BY <1>3
      <4>2. Decoded(d, a) =
              DecodedType(ArgumentOrNone(a, ArmsOfKind(a, "YieldType")),
                          ArgumentOrNone(a, ArmsOfKind(a, "SendType")),
                          MakeSimplifiedUnion(OtherArms(a)), FALSE)
        BY <2>2, <3>2 DEF Decoded
      <4>3. Contract!Decoded(d, a) =
              Contract!DecodedType(
                Contract!ArgumentOrNone(a, Contract!ArmsOfKind(a, "YieldType")),
                Contract!ArgumentOrNone(a, Contract!ArmsOfKind(a, "SendType")),
                Contract!MakeSimplifiedUnion(Contract!OtherArms(a)), FALSE)
        BY <2>2, <3>2, <1>2, <4>1 DEF Contract!Decoded
      <4> QED
        BY <1>4, <1>5, <1>6, <1>7, <4>1, <4>2, <4>3
    <3> QED
      BY <3>1, <3>2
  <2> QED
    BY <2>1, <2>2
<1> QED
  BY <1>1, <1>8

\* A step of the loop is a step of the contract, or leaves what the contract
\* sees unchanged.
LEMMA StepRefines == IInv /\ IInv' /\ [Next]_vars => [Contract!Next]_Contract!vars
<1> SUFFICES ASSUME IInv, IInv', [Next]_vars PROVE [Contract!Next]_Contract!vars
  OBVIOUS
<1> USE DEF Contract!Next, Contract!Decide, Contract!vars
<1>1. CASE ScanYieldType \/ ScanSendType \/ ScanOther
  BY <1>1 DEF ScanYieldType, ScanSendType, ScanOther
<1>2. CASE FailInvalid \/ ReturnUnannotated \/ ReturnDecoded
  <2>1. result = Pending /\ declared' = declared
    BY <1>2 DEF FailInvalid, ReturnUnannotated, ReturnDecoded, Scanning, Scanned
  <2>2. result' = Pending \/ result' = Decoded(declared, ResolvedArms(declared))
    BY <2>1 DEF IInv, ResultDecodes
  <2> QED
    BY <2>1, <2>2, SameDecoded
<1>3. CASE UNCHANGED vars
  BY <1>3 DEF vars
<1> QED
  BY <1>1, <1>2, <1>3 DEF Next

\* decode_agen_types_from_return_type() decides at most once, and decides what
\* its docstring says, for every annotation (that it decides at all is checked
\* by TLC only).
THEOREM DecodeImplementsContract ==
  Spec => Contract!Init /\ [][Contract!Next]_Contract!vars
<1>1. Init => Contract!Init
  BY DEF Init, Contract!Init
<1>2. IInv /\ IInv' /\ [Next]_vars => [Contract!Next]_Contract!vars
  BY StepRefines
<1> QED
  BY <1>1, <1>2, DecodeInvariant, PTL DEF Spec

=============================================================================
