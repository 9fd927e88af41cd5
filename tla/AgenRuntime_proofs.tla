------------------------- MODULE AgenRuntime_proofs -------------------------
(***************************************************************************)
(* Proofs about AgenRuntime: whatever the program, and however deep its    *)
(* generators delegate, a yielded value is of every yield type it passes   *)
(* and a sent value is of the send type it arrives at, where the plugin    *)
(* could check.  The plugin compares neighbours only; the inductive        *)
(* invariant is what that comparison means for generators far apart.  The  *)
(* decorator and the body also decode different types: mypy's solution of  *)
(* _T and the declaration as it is written.  They agree on the yield and   *)
(* send types, up to Any, unless an alias is nested in the declaration.    *)
(* Last, the type of "await yield_from_(g)" admits what the body of g may  *)
(* return: make_simplified_union() drops the members of the declared union *)
(* that others make redundant, and that no value is lost rests on a union  *)
(* having finitely many members, each below one that is not redundant.     *)
(***************************************************************************)
EXTENDS AgenRuntime, FiniteSetTheorems, SequenceTheorems, TLAPS

USE TypesAssumption, RuntimeAssumption

\* The yield type of a generator is a subtype of that of every generator it is
\* reached from by checked delegations.
YieldChain ==
  \A i, j \in 1..depth :
    i <= j /\ YieldsChecked(i, j) => IsSubtype(YieldOf(j), YieldOf(i))

\* The send type of a generator is a supertype of that of every generator it
\* is reached from by checked delegations.
SendChain ==
  \A i, j \in 1..depth :
    i <= j /\ SendsChecked(i, j) => IsSubtype(SendOf(i), SendOf(j))

IInv == TypeOK /\ YieldChain /\ SendChain /\ YieldSound /\ SendSound

-----------------------------------------------------------------------------
(* Lemmas about the operators. *)

\* The arms an alias expands to, one by one.
LEMMA ExpandedArms ==
  ASSUME NEW arm
  PROVE  {ExpandedArm(arm)[i] : i \in DOMAIN ExpandedArm(arm)} =
           IF arm.kind = "UnionAlias" THEN {PlainArm(NoneType), YieldArm(arm.args[1])}
           ELSE {arm}
BY DEF ExpandedArm

LEMMA FlattenedArms ==
  ASSUME NEW members, NEW p
  PROVE  p \in Flattened(members) <=>
           \E a \in members :
             IF a.kind = "UnionAlias" THEN p \in {PlainArm(NoneType), YieldArm(a.args[1])}
             ELSE p = a
<1>1. p \in Flattened(members) <=>
        \E a \in members : p \in {ExpandedArm(a)[i] : i \in DOMAIN ExpandedArm(a)}
  BY DEF Flattened
<1>2. ASSUME NEW a
      PROVE  p \in {ExpandedArm(a)[i] : i \in DOMAIN ExpandedArm(a)} <=>
               IF a.kind = "UnionAlias" THEN p \in {PlainArm(NoneType), YieldArm(a.args[1])}
               ELSE p = a
  <2> DEFINE expanded == {ExpandedArm(a)[i] : i \in DOMAIN ExpandedArm(a)}
  <2>1. expanded = IF a.kind = "UnionAlias" THEN {PlainArm(NoneType), YieldArm(a.args[1])}
                   ELSE {a}
    BY ExpandedArms
  <2> HIDE DEF expanded
  <2>2. p \in expanded <=>
          IF a.kind = "UnionAlias" THEN p \in {PlainArm(NoneType), YieldArm(a.args[1])}
          ELSE p = a
    BY <2>1
  <2> QED
    BY <2>2 DEF expanded
<1> QED
  BY <1>1, <1>2

\* The items of a union, in whatever order.
Items(arms) == {arms[i] : i \in DOMAIN arms}

\* Without a nested alias, the body's hooks see the members mypy flattens the
\* declaration to.
LEMMA FlattenedIsResolved ==
  ASSUME NEW declared \in Seq(Arms), Len(declared) > 0,
         Len(declared) # 1 => ArmsOfKind(declared, "UnionAlias") = {}
  PROVE  Flattened(Items(declared)) = Items(ResolvedArms(declared))
<1>1. CASE Len(declared) = 1
  <2>1. Items(declared) = {declared[1]}
    BY <1>1 DEF Items
  <2>2. ResolvedArms(declared) = ExpandedArm(declared[1])
    BY <1>1 DEF ResolvedArms
  <2>3. Items(ExpandedArm(declared[1])) =
          IF declared[1].kind = "UnionAlias"
          THEN {PlainArm(NoneType), YieldArm(declared[1].args[1])}
          ELSE {declared[1]}
    BY ExpandedArms DEF Items
  <2>4. \A p : p \in Flattened(Items(declared)) <=> p \in Items(ExpandedArm(declared[1]))
    BY <2>1, <2>3, FlattenedArms
  <2> QED
    BY <2>2, <2>4
<1>2. CASE Len(declared) # 1
  <2>1. ResolvedArms(declared) = declared
    BY <1>2 DEF ResolvedArms
  <2>2. \A a \in Items(declared) : a.kind # "UnionAlias"
    <3>1. ArmsOfKind(declared, "UnionAlias") = {}
      BY <1>2
    <3> QED
      BY <3>1 DEF ArmsOfKind, Items
  <2>3. \A p : p \in Flattened(Items(declared)) <=> p \in Items(declared)
    BY <2>2, FlattenedArms
  <2> QED
    BY <2>1, <2>3
<1> QED
  BY <1>1, <1>2

\* The argument of the arm of one kind is found in the union's members as it is
\* in the declaration they come from.
LEMMA SameArgument ==
  ASSUME NEW arms, WellDeclared(arms), NEW kind \in {"YieldType", "SendType"},
         NEW kept \in SUBSET Items(arms),
         \A i \in DOMAIN arms : arms[i].kind = kind => arms[i] \in kept,
         NEW inferred, inferred = [arm \in kept |-> arm]
  PROVE  /\ ArgumentOrNone(inferred, ArmsOfKind(inferred, kind)) =
              ArgumentOrNone(arms, ArmsOfKind(arms, kind))
         /\ ArmsOfKind(inferred, kind) = {} <=> ArmsOfKind(arms, kind) = {}
<1>1. \A a : a \in ArmsOfKind(inferred, kind) <=> a \in kept /\ a.kind = kind
  BY DEF ArmsOfKind
<1>2. \A i : i \in ArmsOfKind(arms, kind) <=> i \in DOMAIN arms /\ arms[i].kind = kind
  BY DEF ArmsOfKind
<1>3. CASE ArmsOfKind(arms, kind) = {}
  <2>1. \A a : a \notin ArmsOfKind(inferred, kind)
    <3>1. \A a \in kept : a.kind # kind
      BY <1>2, <1>3 DEF Items
    <3> QED
      BY <1>1, <3>1
  <2> QED
    BY <1>3, <2>1 DEF ArgumentOrNone
<1>4. CASE ArmsOfKind(arms, kind) # {}
  <2>1. PICK i \in DOMAIN arms : arms[i].kind = kind
    BY <1>2, <1>4
  <2>a. arms[i] \in kept
    BY <2>1
  <2>2. ArmsOfKind(arms, kind) = {i}
    BY <1>2, <2>1 DEF WellDeclared
  <2>3. ArmsOfKind(inferred, kind) = {arms[i]}
    <3>1. \A a \in kept : a.kind = kind => a = arms[i]
      BY <2>1 DEF WellDeclared, Items
    <3> QED
      BY <1>1, <2>1, <2>a, <3>1
  <2>4. inferred[arms[i]] = arms[i]
    BY <2>a
  <2> QED
    BY <2>2, <2>3, <2>4 DEF ArgumentOrNone
<1> QED
  BY <1>3, <1>4

\* Simplifying the members of a well-formed declaration takes a YieldType or a
\* SendType out only beneath object, which takes every other one out as well.
LEMMA SimplifiedKeepsKinds ==
  ASSUME NEW arms, WellDeclared(arms), NEW members,
         Flattened(members) = Items(arms),
         NEW a \in MakeSimplifiedUnion(members), a.kind \in {"YieldType", "SendType"},
         NEW i \in DOMAIN arms, arms[i].kind \in {"YieldType", "SendType"}
  PROVE  arms[i] \in MakeSimplifiedUnion(members)
<1>1. PlainArm(ObjectType) \notin Items(arms)
  <2> SUFFICES ASSUME PlainArm(ObjectType) \in Items(arms) PROVE FALSE
    OBVIOUS
  <2>1. IsProperSubtype(a, PlainArm(ObjectType)) /\ a # PlainArm(ObjectType)
    BY DEF IsProperSubtype, PlainArm
  <2> QED
    BY <2>1 DEF MakeSimplifiedUnion
<1>2. ASSUME NEW b \in Items(arms), b # arms[i] PROVE ~ IsProperSubtype(arms[i], b)
  <2>1. b.kind # arms[i].kind
    BY <1>2 DEF WellDeclared, Items
  <2>2. arms[i] # PlainArm({}) /\ b # PlainArm(ObjectType)
    BY <1>1, <1>2 DEF PlainArm
  <2> QED
    BY <2>1, <2>2 DEF IsProperSubtype
<1> QED
  BY <1>2 DEF MakeSimplifiedUnion, Items

\* A function whose declaration nests no alias is known to others by the yield
\* and send types its body is checked against, or by Any: its decorator is given
\* the declaration's members simplified, and its body's hooks the declaration
\* (plugin.py lines 170-179 and 217-220).
LEMMA DecodingsAgree ==
  ASSUME NEW f \in Functions, f.kind \in {"compat", "helper"},
         ~ EnclosingTypes(f).failed, ~ AliasNested(f)
  PROVE  /\ GeneratorTypes(f).yield \in {AnyType, EnclosingTypes(f).yield}
         /\ GeneratorTypes(f).send \in {AnyType, EnclosingTypes(f).send}
<1>1. CASE f.kind = "helper"
  BY <1>1 DEF GeneratorTypes
<1>2. CASE f.kind = "compat" /\ ~ f.annotated
  BY <1>2 DEF GeneratorTypes, DecoratedTypes, DecodedType
<1>3. CASE f.kind = "compat" /\ f.annotated
  <2> DEFINE all      == Items(f.declared)
             arms     == ResolvedArms(f.declared)
             kept     == MakeSimplifiedUnion(all)
             inferred == Inferred(f.declared)
  <2>1. GeneratorTypes(f) = Decoded(inferred, inferred)
    BY <1>3 DEF GeneratorTypes, DecoratedTypes
  <2>2. EnclosingTypes(f) = Decoded(f.declared, arms)
    BY <1>3 DEF EnclosingTypes, DecodedFor
  <2>3. WellDeclared(arms)
    <3> HIDE DEF arms
    <3> QED
      BY <2>2 DEF Decoded, DecodedType
  <2>4. Flattened(all) = Items(arms)
    BY FlattenedIsResolved DEF FunctionDefs, AliasNested
  <2>5. kept \in SUBSET Items(arms)
    <3> HIDE DEF all, arms
    <3> QED
      BY <2>4 DEF MakeSimplifiedUnion
  <2>6. inferred = [arm \in kept |-> arm]
    BY DEF Inferred, Items
  <2> HIDE DEF all, arms, kept, inferred
  <2>7. WellDeclared(inferred)
    BY <2>3, <2>5, <2>6 DEF WellDeclared, Items
  <2>8. CASE ArmsOfKind(inferred, "YieldType") = {} /\ ArmsOfKind(inferred, "SendType") = {}
    BY <2>1, <2>7, <2>8 DEF Decoded, DecodedType
  <2>9. CASE \E a \in kept : a.kind \in {"YieldType", "SendType"}
    <3>1. \A i \in DOMAIN arms : arms[i].kind \in {"YieldType", "SendType"} => arms[i] \in kept
      BY <2>3, <2>4, <2>9, SimplifiedKeepsKinds DEF kept
    <3>2. ASSUME NEW kind \in {"YieldType", "SendType"}
          PROVE  /\ ArgumentOrNone(inferred, ArmsOfKind(inferred, kind)) =
                      ArgumentOrNone(arms, ArmsOfKind(arms, kind))
                 /\ ArmsOfKind(inferred, kind) = {} <=> ArmsOfKind(arms, kind) = {}
      <4>1. \A i \in DOMAIN arms : arms[i].kind = kind => arms[i] \in kept
        BY <3>1
      <4> QED
        BY ONLY <2>3, <2>5, <2>6, <4>1, kind \in {"YieldType", "SendType"}, SameArgument
    <3>3. ArmsOfKind(inferred, "YieldType") # {} \/ ArmsOfKind(inferred, "SendType") # {}
      BY <2>6, <2>9 DEF ArmsOfKind
    <3> QED
      BY <2>1, <2>2, <2>3, <2>7, <3>2, <3>3 DEF Decoded, DecodedType
  <2> QED
    BY <2>6, <2>8, <2>9 DEF ArmsOfKind
<1> QED
  BY <1>1, <1>2, <1>3

\* What a body is resumed with has the send type others know its generator by.
LEMMA ResumedAsSent ==
  ASSUME NEW f \in Functions, ~ AliasNested(f), GeneratorTypes(f).send # AnyType,
         NEW v, Admits(GeneratorTypes(f).send, v)
  PROVE  Admits(ResumedType(f), v)
<1>1. CASE f.kind \notin {"compat", "helper"}
  BY <1>1 DEF ResumedType, GeneratorTypes
<1>2. CASE f.kind \in {"compat", "helper"} /\ ~ EnclosingTypes(f).failed
  BY <1>2, DecodingsAgree DEF ResumedType, YieldResult
<1>3. CASE f.kind \in {"compat", "helper"} /\ EnclosingTypes(f).failed
  <2>1. EnclosingTypes(f).send = AnyType
    BY <1>3 DEF EnclosingTypes, DecodedFor, Decoded, DecodedType
  <2> QED
    BY <1>3, <2>1 DEF ResumedType, YieldResult, Admits
<1> QED
  BY <1>1, <1>2, <1>3

\* Popping a generator leaves those that delegated to it as they are.
LEMMA PoppedStack ==
  ASSUME stack \in Seq(Frames), depth \in Nat, depth > 1
  PROVE  /\ Popped \in Seq(Frames)
         /\ Len(Popped) = depth - 1
         /\ \A i \in 1..(depth - 1) : Popped[i] = stack[i]
<1>1. /\ 1 \in 1..(Len(stack) + 1)
      /\ depth - 1 \in 0..Len(stack)
  BY DEF depth
<1> QED
  BY <1>1, SubSeqProperties DEF Popped, depth

\* The chains only depend on the generators they are about.
LEMMA ChainsKept ==
  ASSUME TypeOK, TypeOK', YieldChain, SendChain,
         depth' <= depth, \A i \in 1..depth' : stack'[i] = stack[i]
  PROVE  YieldChain' /\ SendChain'
<1>0. depth \in Nat /\ depth' \in Nat
  BY DEF TypeOK, depth
<1>1. \A i \in 1..depth' : YieldOf(i)' = YieldOf(i) /\ SendOf(i)' = SendOf(i)
  BY DEF YieldOf, SendOf
<1>a. \A i \in 1..depth' : AliasNested(stack[i].fn)' <=> AliasNested(stack[i].fn)
  OBVIOUS
<1>2. ASSUME NEW i \in 1..depth', NEW j \in 1..depth', i <= j
      PROVE  /\ YieldsChecked(i, j)' => YieldsChecked(i, j)
             /\ SendsChecked(i, j)' => SendsChecked(i, j)
  <2>1. \A k \in i..j : k \in 1..depth'
    BY <1>0, <1>2
  <2> QED
    BY <1>0, <1>1, <1>a, <2>1, <1>2 DEF YieldsChecked, SendsChecked
<1>3. ASSUME NEW i \in 1..depth', NEW j \in 1..depth'
      PROVE  i \in 1..depth /\ j \in 1..depth
  BY <1>0
<1>4. YieldChain'
  BY <1>0, <1>1, <1>2, <1>3 DEF YieldChain
<1>5. SendChain'
  BY <1>0, <1>1, <1>2, <1>3 DEF SendChain
<1> QED
  BY <1>4, <1>5

\* A delegation the plugin accepted extends the chains by one generator.
LEMMA ChainsExtended ==
  ASSUME TypeOK, YieldChain, SendChain,
         NEW frame \in Frames, stack' = Append(stack, frame),
         frame.link \in {"generator", "iterable"} /\ ~ AliasNested(top.fn) =>
           IsSubtype(GeneratorTypes(frame.fn).yield, YieldOf(depth)),
         frame.link = "generator" /\ ~ AliasNested(top.fn) =>
           IsSubtype(SendOf(depth), GeneratorTypes(frame.fn).send)
  PROVE  YieldChain' /\ SendChain'
<1>n. PICK n \in Nat : n = depth
  BY DEF TypeOK
<1>0. n \in Nat /\ n >= 1 /\ stack \in Seq(Frames)
  BY <1>n DEF TypeOK
<1>1. /\ depth' = n + 1
      /\ \A i \in 1..n : stack'[i] = stack[i]
      /\ stack'[n + 1] = frame
  BY <1>0, <1>n DEF depth
<1>2. \A i \in 1..n : YieldOf(i)' = YieldOf(i) /\ SendOf(i)' = SendOf(i)
  BY <1>1 DEF YieldOf, SendOf
<1>3. /\ YieldOf(n + 1)' = GeneratorTypes(frame.fn).yield
      /\ SendOf(n + 1)' = GeneratorTypes(frame.fn).send
  BY <1>1 DEF YieldOf, SendOf
<1>a. /\ \A i \in 1..n : AliasNested(stack[i].fn)' <=> AliasNested(stack[i].fn)
      /\ top = stack[n]
  BY <1>n, <1>1 DEF top
<1>4. ASSUME NEW i \in 1..(n + 1), NEW j \in 1..(n + 1), i <= j, YieldsChecked(i, j)'
      PROVE  IsSubtype(YieldOf(j)', YieldOf(i)')
  <2>1. CASE j <= n
    <3>1. /\ \A k \in (i + 1)..j : k \in 1..n
          /\ \A k \in i..j : k \in 1..n
      BY <1>0, <2>1
    <3>2. YieldsChecked(i, j)
      BY <1>1, <1>2, <1>a, <1>4, <3>1 DEF YieldsChecked
    <3>3. i \in 1..n /\ j \in 1..n
      BY <1>0, <1>4, <2>1
    <3> QED
      BY <1>n, <1>2, <1>4, <3>2, <3>3 DEF YieldChain
  <2>2. CASE j = n + 1 /\ i = n + 1
    BY <2>2 DEF IsSubtype
  <2>3. CASE j = n + 1 /\ i <= n
    <3>1. i \in 1..n /\ n \in 1..n /\ n + 1 \in (i + 1)..j /\ n \in i..j
      BY <1>0, <1>4, <2>3
    <3>2. /\ stack'[n + 1].link \in {"generator", "iterable"} /\ YieldOf(n + 1)' # AnyType
          /\ ~ AliasNested(top.fn)
      BY <1>4, <1>a, <3>1 DEF YieldsChecked
    <3>3. IsSubtype(YieldOf(n + 1)', YieldOf(n))
      BY <1>n, <1>1, <1>3, <3>2
    <3>4. CASE i = n
      BY <1>2, <2>3, <3>1, <3>3, <3>4
    <3>5. CASE i < n
      <4>1. /\ \A k \in (i + 1)..n : k \in (i + 1)..j /\ k \in 1..n
            /\ \A k \in i..n : k \in i..j /\ k \in 1..n
        BY <1>0, <3>1, <2>3
      <4>2. YieldsChecked(i, n)
        <5>1. \A k \in (i + 1)..n :
                stack[k].link \in {"generator", "iterable"} /\ YieldOf(k) # AnyType
          BY <1>1, <1>2, <1>4, <4>1 DEF YieldsChecked
        <5>2. \A k \in i..n : ~ AliasNested(stack[k].fn)
          BY <1>1, <1>a, <1>4, <4>1 DEF YieldsChecked
        <5> QED
          BY <5>1, <5>2 DEF YieldsChecked
      <4>3. n \in (i + 1)..n
        BY <1>0, <3>1, <3>5
      <4>4. YieldOf(n) # AnyType
        BY <4>2, <4>3 DEF YieldsChecked
      <4>5. IsSubtype(YieldOf(n), YieldOf(i))
        BY <1>n, <3>1, <3>5, <4>2 DEF YieldChain
      <4> QED
        BY <1>2, <2>3, <3>1, <3>3, <4>4, <4>5 DEF IsSubtype
    <3> QED
      BY <1>0, <3>1, <3>4, <3>5
  <2> QED
    BY <1>0, <1>4, <2>1, <2>2, <2>3
<1>5. ASSUME NEW i \in 1..(n + 1), NEW j \in 1..(n + 1), i <= j, SendsChecked(i, j)'
      PROVE  IsSubtype(SendOf(i)', SendOf(j)')
  <2>1. CASE j <= n
    <3>1. \A k \in i..j : k \in 1..n
      BY <1>0, <2>1
    <3>2. \A k \in (i + 1)..j : k \in 1..n
      BY <1>0, <2>1
    <3>4. SendsChecked(i, j)
      BY <1>1, <1>2, <1>a, <1>5, <3>1, <3>2 DEF SendsChecked
    <3>5. i \in 1..n /\ j \in 1..n
      BY <1>0, <1>5, <2>1
    <3> QED
      BY <1>n, <1>2, <1>5, <3>4, <3>5 DEF SendChain
  <2>2. CASE j = n + 1 /\ i = n + 1
    BY <2>2 DEF IsSubtype
  <2>3. CASE j = n + 1 /\ i <= n
    <3>1. i \in 1..n /\ n \in 1..n /\ n + 1 \in (i + 1)..j /\ n \in i..j
      BY <1>0, <1>5, <2>3
    <3>2. /\ stack'[n + 1].link = "generator" /\ SendOf(n)' # AnyType
          /\ ~ AliasNested(top.fn)
      BY <1>5, <1>a, <3>1 DEF SendsChecked
    <3>3. IsSubtype(SendOf(n), SendOf(n + 1)')
      BY <1>n, <1>1, <1>3, <3>2
    <3>4. CASE i = n
      BY <1>2, <2>3, <3>1, <3>3, <3>4
    <3>5. CASE i < n
      <4>1. \A k \in (i + 1)..n : k \in (i + 1)..j /\ k \in 1..n
        BY <1>0, <3>1, <2>3
      <4>2. \A k \in i..n : k \in i..j /\ k \in 1..n
        BY <1>0, <3>1, <2>3
      <4>3. SendsChecked(i, n)
        <5>1. \A k \in (i + 1)..n : stack[k].link = "generator"
          BY <1>1, <1>5, <4>1 DEF SendsChecked
        <5>2. \A k \in i..n : SendOf(k) # AnyType /\ ~ AliasNested(stack[k].fn)
          BY <1>2, <1>a, <1>5, <4>2 DEF SendsChecked
        <5> QED
          BY <5>1, <5>2 DEF SendsChecked
      <4>4. IsSubtype(SendOf(i), SendOf(n))
        BY <1>n, <3>1, <3>5, <4>3 DEF SendChain
      <4> QED
        BY <1>2, <2>3, <3>1, <3>2, <3>3, <4>4 DEF IsSubtype
    <3> QED
      BY <1>0, <3>1, <3>4, <3>5
  <2> QED
    BY <1>0, <1>5, <2>1, <2>2, <2>3
<1>6. YieldChain'
  BY <1>1, <1>4 DEF YieldChain
<1>7. SendChain'
  BY <1>1, <1>5 DEF SendChain
<1> QED
  BY <1>6, <1>7

-----------------------------------------------------------------------------
(* The inductive invariant. *)

\* The innermost generator is one of the program's.
LEMMA TopFrame ==
  ASSUME TypeOK
  PROVE  top \in Frames /\ top.fn \in Functions
<1>1. stack \in Seq(Frames) /\ Len(stack) \in 1..MaxDepth
  BY DEF TypeOK, depth
<1>2. top \in Frames
  BY <1>1 DEF top, depth
<1> QED
  BY <1>2 DEF Frames

LEMMA InitInv == Init => IInv
<1> SUFFICES ASSUME Init PROVE IInv
  OBVIOUS
<1>1. PICK f \in Functions : f.kind = "compat" /\ stack = <<[fn |-> f, link |-> "root"]>>
  BY DEF Init
<1>2. [fn |-> f, link |-> "root"] \in Frames
  BY DEF Frames, Links
<1>3. stack \in Seq(Frames) /\ depth = 1 /\ stack[1].link = "root"
  BY <1>1, <1>2 DEF depth
<1>4. event \in Events /\ event.what = "nothing"
  BY DEF Init, Events, Nothing
<1>5. TypeOK
  BY <1>3, <1>4 DEF Init, TypeOK
<1>6. YieldChain /\ SendChain
  BY <1>3 DEF YieldChain, SendChain, IsSubtype
<1>7. YieldSound /\ SendSound
  BY <1>4 DEF YieldSound, SendSound
<1> QED
  BY <1>5, <1>6, <1>7 DEF IInv

\* A step that yields and sends nothing has nothing to deliver wrongly.
LEMMA QuietSound ==
  ASSUME event'.what \in {"nothing", "returned"}
  PROVE  YieldSound' /\ SendSound'
BY DEF YieldSound, SendSound

\* Nothing moves when a generator is left, but the stack may shrink by one.
LEMMA LeaveInv ==
  ASSUME IInv, NEW after \in {"running", "raising"}, Leave(after),
         event' \in Events, event'.what \in {"nothing", "returned"}
  PROVE  IInv'
<1>1. TypeOK /\ YieldChain /\ SendChain
  BY DEF IInv
<1>2. CASE depth = 1
  <2>1. stack' = stack /\ phase' = "done"
    BY <1>2 DEF Leave
  <2>2. TypeOK'
    BY <1>1, <2>1 DEF TypeOK, depth
  <2>3. YieldChain' /\ SendChain'
    BY <1>1, <2>1, <2>2, ChainsKept DEF depth, TypeOK
  <2> QED
    BY <2>2, <2>3, QuietSound DEF IInv
<1>3. CASE depth # 1
  <2>1. stack' = Popped /\ phase' = after
    BY <1>3 DEF Leave
  <2>2. /\ stack \in Seq(Frames) /\ depth \in Nat /\ depth > 1
        /\ depth <= MaxDepth
    BY <1>1, <1>3 DEF TypeOK
  <2>3. /\ stack' \in Seq(Frames)
        /\ depth' = depth - 1
        /\ \A i \in 1..depth' : stack'[i] = stack[i]
    BY <2>1, <2>2, PoppedStack DEF depth
  <2>4. stack'[1].link = "root" /\ depth' \in 1..MaxDepth
    BY <1>1, <2>2, <2>3 DEF TypeOK
  <2>5. TypeOK'
    BY <2>1, <2>3, <2>4 DEF TypeOK
  <2>6. YieldChain' /\ SendChain'
    BY <1>1, <2>2, <2>3, <2>5, ChainsKept
  <2> QED
    BY <2>5, <2>6, QuietSound DEF IInv
<1> QED
  BY <1>2, <1>3

\* A step in which the stack stays, and nothing moves.
LEMMA QuietInv ==
  ASSUME IInv, stack' = stack, phase' \in {"running", "raising"}, event' = Nothing
  PROVE  IInv'
<1>1. TypeOK'
  BY DEF IInv, TypeOK, depth, Events, Nothing
<1>2. YieldChain' /\ SendChain'
  BY <1>1, ChainsKept DEF IInv, depth, TypeOK
<1> QED
  BY <1>1, <1>2, QuietSound DEF IInv, Nothing

\* A step that pushes an accepted delegation, and moves nothing.
LEMMA PushInv ==
  ASSUME IInv, NEW frame \in Frames, stack' = Append(stack, frame), depth < MaxDepth,
         phase = "running", phase' = phase, event' = Nothing,
         frame.link \in {"generator", "iterable"} /\ ~ AliasNested(top.fn) =>
           IsSubtype(GeneratorTypes(frame.fn).yield, YieldOf(depth)),
         frame.link = "generator" /\ ~ AliasNested(top.fn) =>
           IsSubtype(SendOf(depth), GeneratorTypes(frame.fn).send)
  PROVE  IInv'
<1>1. TypeOK /\ YieldChain /\ SendChain
  BY DEF IInv
<1>2. stack \in Seq(Frames) /\ depth \in 1..MaxDepth
  BY <1>1 DEF TypeOK
<1>3. stack' \in Seq(Frames) /\ depth' = depth + 1 /\ stack'[1] = stack[1]
  BY <1>2 DEF depth
<1>4. TypeOK'
  BY <1>1, <1>2, <1>3 DEF TypeOK, Events, Nothing
<1>5. YieldChain' /\ SendChain'
  BY <1>1, ChainsExtended
<1> QED
  BY <1>4, <1>5, QuietSound DEF IInv, Nothing

\* What a consumer is allowed to send arrives at the innermost generator as a
\* value of its send type.
LEMMA DeliverInv ==
  ASSUME IInv, NEW v \in Values, NEW untyped \in BOOLEAN, NEW by \in {"asend", "__anext__"},
         Deliver(v, untyped, by),
         (~ untyped /\ by = "asend") => Admits(SendOf(1), v),
         by = "__anext__" => v = NoneValue
  PROVE  IInv'
<1>1. TypeOK /\ YieldChain /\ SendChain
  BY DEF IInv
<1>2. CASE top.fn.kind # "iterable"
  <2>1. /\ phase' = "running" /\ stack' = stack
        /\ event' = [what |-> "sent", value |-> v, untyped |-> untyped, by |-> by]
    BY <1>2 DEF Deliver
  <2>2. event' \in Events /\ event'.what = "sent"
    BY <2>1 DEF Events
  <2>3. TypeOK'
    BY <1>1, <2>1, <2>2 DEF TypeOK, depth
  <2>4. YieldChain' /\ SendChain'
    BY <1>1, <2>1, <2>3, ChainsKept DEF depth, TypeOK
  <2>5. YieldSound'
    BY <2>2 DEF YieldSound
  <2>6. SendSound'
    <3> SUFFICES ASSUME ~ untyped, by = "asend" \/ Admits(SendOf(1), NoneValue),
                        SendsChecked(1, depth)
                 PROVE  Admits(ResumedType(top.fn), v)
      <4>1. /\ SendsChecked(1, depth)' <=> SendsChecked(1, depth)
            /\ ResumedType(top.fn)' = ResumedType(top.fn)
            /\ SendOf(1)' = SendOf(1)
        BY <2>1 DEF SendOf, SendsChecked, depth, top
      <4>2. /\ event'.untyped = untyped /\ event'.by = by /\ event'.value = v
        BY <2>1
      <4> QED
        BY <4>1, <4>2 DEF SendSound
    <3>1. Admits(SendOf(1), v)
      OBVIOUS
    <3>2. depth \in Nat /\ depth >= 1 /\ 1 \in 1..depth /\ depth \in 1..depth
      BY <1>1 DEF TypeOK
    <3>3. IsSubtype(SendOf(1), SendOf(depth))
      BY <1>1, <3>2 DEF SendChain
    <3>4. SendOf(1) # AnyType /\ SendOf(depth) # AnyType /\ ~ AliasNested(top.fn)
      BY <3>2 DEF SendsChecked, top
    <3>5. Admits(SendOf(depth), v)
      BY <3>1, <3>3, <3>4 DEF Admits, IsSubtype
    <3>6. top.fn \in Functions
      BY <1>1, TopFrame
    <3> QED
      BY <3>4, <3>5, <3>6, ResumedAsSent DEF SendOf, top
  <2> QED
    BY <2>3, <2>4, <2>5, <2>6 DEF IInv
<1>3. CASE top.fn.kind = "iterable"
  <2>1. event' = Nothing
    BY <1>3 DEF Deliver
  <2>2. event' \in Events /\ event'.what = "nothing"
    BY <2>1 DEF Events, Nothing
  <2>3. CASE v = NoneValue
    BY <1>3, <2>1, <2>3, QuietInv DEF Deliver
  <2>4. CASE v # NoneValue
    BY <1>3, <2>2, <2>4, LeaveInv DEF Deliver
  <2> QED
    BY <2>3, <2>4
<1> QED
  BY <1>2, <1>3

\* An expression with a type of its own that may be passed where type t is
\* expected is a value of t.
LEMMA StaticTypeAdmits ==
  ASSUME NEW v \in Values, NEW t, IsSubtype(StaticType(v, FALSE), t)
  PROVE  Admits(t, v)
<1>1. {v} # AnyType
  OBVIOUS
<1> QED
  BY <1>1 DEF StaticType, IsSubtype, Admits

LEMMA YieldInv == IInv /\ Yield => IInv'
<1> SUFFICES ASSUME IInv, Yield PROVE IInv'
  OBVIOUS
<1>1. TypeOK /\ YieldChain /\ SendChain
  BY DEF IInv
<1>2. PICK v \in Values, untyped \in BOOLEAN :
        /\ IF top.fn.kind \in {"compat", "helper"}
           THEN YieldAccepted(top.fn, StaticType(v, untyped))
           ELSE IsSubtype(StaticType(v, untyped), YieldOf(depth))
        /\ event' = [what |-> "yielded", value |-> v, untyped |-> untyped]
  BY DEF Yield
<1>3. stack' = stack /\ phase' = "suspended"
  BY DEF Yield
<1>4. event' \in Events /\ event'.what = "yielded"
  BY <1>2 DEF Events
<1>5. TypeOK'
  BY <1>1, <1>3, <1>4 DEF TypeOK, depth
<1>6. YieldChain' /\ SendChain'
  BY <1>1, <1>3, <1>5, ChainsKept DEF depth, TypeOK
<1>7. SendSound'
  BY <1>4 DEF SendSound
<1>8. depth \in Nat /\ depth >= 1 /\ depth \in 1..depth /\ stack \in Seq(Frames)
  BY <1>1 DEF TypeOK
<1>9. top.fn \in Functions
  BY <1>1, TopFrame
<1>10. ~ AliasNested(top.fn) => IsSubtype(StaticType(v, untyped), YieldOf(depth))
  <2>1. CASE top.fn.kind \notin {"compat", "helper"}
    BY <1>2, <2>1
  <2>2. CASE top.fn.kind \in {"compat", "helper"}
    <3>1. /\ ~ EnclosingTypes(top.fn).failed
          /\ IsSubtype(StaticType(v, untyped), EnclosingTypes(top.fn).yield)
      BY <1>2, <2>2 DEF YieldAccepted
    <3> QED
      BY <1>9, <2>2, <3>1, DecodingsAgree DEF IsSubtype, YieldOf, top
  <2> QED
    BY <2>1, <2>2
<1>11. YieldSound'
  <2> SUFFICES ASSUME ~ untyped, NEW i \in 1..depth, YieldsChecked(i, depth)
               PROVE  Admits(YieldOf(i), v)
    BY <1>2, <1>3 DEF YieldSound, YieldOf, YieldsChecked, depth
  <2>1. Admits(YieldOf(depth), v)
    <3>1. ~ AliasNested(top.fn)
      BY <1>8 DEF YieldsChecked, top
    <3> QED
      BY <1>10, <3>1, StaticTypeAdmits
  <2>2. CASE i = depth
    BY <2>1, <2>2
  <2>3. CASE i < depth
    <3>1. depth \in (i + 1)..depth
      BY <1>8, <2>3
    <3>2. YieldOf(depth) # AnyType
      BY <3>1 DEF YieldsChecked
    <3>3. IsSubtype(YieldOf(depth), YieldOf(i))
      BY <1>1, <1>8, <2>3 DEF YieldChain
    <3> QED
      BY <2>1, <3>2, <3>3 DEF Admits, IsSubtype
  <2> QED
    BY <1>8, <2>2, <2>3
<1> QED
  BY <1>5, <1>6, <1>7, <1>11 DEF IInv

LEMMA StepInv == IInv /\ [Next]_vars => IInv'
<1> SUFFICES ASSUME IInv, [Next]_vars PROVE IInv'
  OBVIOUS
<1>t. TypeOK
  BY DEF IInv
<1>f. top \in Frames /\ top.fn \in Functions
  BY <1>t, TopFrame
<1>n. Nothing \in Events /\ Nothing.what = "nothing"
  BY DEF Events, Nothing
<1>1. CASE Yield
  BY <1>1, YieldInv
<1>2. CASE YieldFrom
  <2>1. PICK f \in Functions, form \in DelegateForms :
          /\ YieldFromAccepted(top.fn, form, GeneratorTypes(f))
          /\ stack' = Append(stack, [fn |-> f, link |-> form])
    BY <1>2 DEF YieldFrom
  <2> DEFINE frame == [fn |-> f, link |-> form]
  <2>2. frame \in Frames /\ frame.fn = f /\ frame.link = form
    BY DEF Frames, Links
  <2>3. ~ AliasNested(top.fn) =>
          /\ YieldOf(depth) \in {AnyType, EnclosingTypes(top.fn).yield}
          /\ SendOf(depth) \in {AnyType, EnclosingTypes(top.fn).send}
    BY <1>2, <1>f, <2>1, DecodingsAgree DEF YieldFrom, YieldFromAccepted, YieldOf, SendOf, top
  <2>4. /\ form \in {"generator", "iterable"} /\ ~ AliasNested(top.fn) =>
             IsSubtype(GeneratorTypes(f).yield, YieldOf(depth))
        /\ form = "generator" /\ ~ AliasNested(top.fn) =>
             IsSubtype(SendOf(depth), GeneratorTypes(f).send)
    BY <2>1, <2>3 DEF YieldFromAccepted, IsSubtype
  <2> HIDE DEF frame
  <2> QED
    BY <1>2, <2>1, <2>2, <2>4, PushInv DEF YieldFrom, frame
<1>3. CASE CallHelper
  <2>1. PICK f \in Functions : stack' = Append(stack, [fn |-> f, link |-> "helper"])
    BY <1>3 DEF CallHelper
  <2>2. [fn |-> f, link |-> "helper"] \in Frames
    BY DEF Frames, Links
  <2> QED
    BY <1>3, <2>1, <2>2, PushInv DEF CallHelper
<1>4. CASE Return
  <2>1. event' \in Events /\ event'.what \in {"nothing", "returned"}
    BY <1>4, <1>f, <1>n DEF Return, Events
  <2> QED
    BY <1>4, <2>1, LeaveInv DEF Return
<1>5. CASE Raise
  BY <1>5, QuietInv DEF Raise
<1>6. CASE Catch
  BY <1>6, QuietInv DEF Catch
<1>7. CASE Propagate
  BY <1>7, <1>n, LeaveInv DEF Propagate
<1>8. CASE Start
  BY <1>8, QuietInv DEF Start
<1>9. CASE Asend
  <2>1. PICK v \in Values, untyped \in BOOLEAN :
          /\ IsSubtype(StaticType(v, untyped), SendOf(1))
          /\ Deliver(v, untyped, "asend")
    BY <1>9 DEF Asend
  <2>2. ~ untyped => Admits(SendOf(1), v)
    BY <2>1, StaticTypeAdmits
  <2> QED
    BY <2>1, <2>2, DeliverInv
<1>10. CASE Anext
  BY <1>10, DeliverInv DEF Anext
<1>11. CASE Athrow
  <2>1. CASE top.fn.kind # "iterable"
    BY <1>11, <2>1, QuietInv DEF Athrow
  <2>2. CASE top.fn.kind = "iterable"
    BY <1>11, <1>n, <2>2, LeaveInv DEF Athrow
  <2> QED
    BY <2>1, <2>2
<1>12. CASE UNCHANGED vars
  <2> USE <1>12 DEF vars
  <2>1. TypeOK'
    BY <1>t DEF TypeOK, depth
  <2>2. YieldChain' /\ SendChain'
    BY <1>t, <2>1, ChainsKept DEF IInv, depth, TypeOK
  <2>3. YieldSound' /\ SendSound'
    BY DEF IInv, YieldSound, SendSound, YieldsChecked, SendsChecked, YieldOf, SendOf, depth, top
  <2> QED
    BY <2>1, <2>2, <2>3 DEF IInv
<1> QED
  BY <1>1, <1>2, <1>3, <1>4, <1>5, <1>6, <1>7, <1>8, <1>9, <1>10, <1>11, <1>12 DEF Next

\* The chains hold, and so do the two soundness properties, in every reachable
\* state of every program.
THEOREM RuntimeInvariant == Spec => []IInv
<1>1. Init => IInv
  BY InitInv
<1>2. IInv /\ [Next]_vars => IInv'
  BY StepInv
<1> QED
  BY <1>1, <1>2, PTL DEF Spec

\* The stack holds generators of the program, at most MaxDepth of them.
THEOREM RuntimeTypeOK == Spec => []TypeOK
<1>1. IInv => TypeOK
  BY DEF IInv
<1> QED
  BY <1>1, RuntimeInvariant, PTL

\* Every generator a yielded value passes through was given a yield type that
\* admits it, for all programs, types and depths.
THEOREM YieldsAreSound == Spec => []YieldSound
<1>1. IInv => YieldSound
  BY DEF IInv
<1> QED
  BY <1>1, RuntimeInvariant, PTL

\* A value sent by a type-checked asend() is of the send type of the yield_()
\* it arrives at, for all programs, types and depths.
THEOREM SendsAreSound == Spec => []SendSound
<1>1. IInv => SendSound
  BY DEF IInv
<1> QED
  BY <1>1, RuntimeInvariant, PTL

-----------------------------------------------------------------------------
(* Simplified unions. *)

\* In a finite set of sets, every set is included in a maximal one.
LEMMA MaximalAbove ==
  ASSUME NEW S, IsFiniteSet(S), NEW a \in S
  PROVE  \E b \in S : a \subseteq b /\ \A c \in S : b \subseteq c => c = b
<1> DEFINE Above(x) == {y \in S : x \subseteq y}
           T        == {Above(x) : x \in Above(a)}
<1>1. IsWellFoundedOn(StrictSubsetOrdering(S), SUBSET S)
  BY FS_StrictSubsetOrderingWellFounded, FS_FiniteSubsetsOfFinite
<1>2. T \subseteq SUBSET S /\ T # {}
  <2>1. a \in Above(a)
    OBVIOUS
  <2>2. \A x : Above(x) \in SUBSET S
    OBVIOUS
  <2> HIDE DEF Above
  <2> QED
    BY <2>1, <2>2
<1>3. PICK M \in T : \A Y \in T : <<Y, M>> \notin StrictSubsetOrdering(S)
  <2> HIDE DEF T
  <2> QED
    BY <1>1, <1>2, WFMin
<1>4. PICK b \in Above(a) : M = Above(b)
  OBVIOUS
<1>5. ASSUME NEW c \in S, b \subseteq c, c # b PROVE FALSE
  <2>1. Above(c) \in T
    BY <1>4, <1>5
  <2>2. Above(c) \subseteq Above(b) /\ b \in Above(b) /\ b \notin Above(c)
    BY <1>4, <1>5
  <2>3. Above(c) \in SUBSET S /\ Above(b) \in SUBSET S
    OBVIOUS
  <2> HIDE DEF Above, T
  <2>4. <<Above(c), Above(b)>> \in StrictSubsetOrdering(S)
    BY <2>2, <2>3 DEF StrictSubsetOrdering
  <2> QED
    BY <1>3, <1>4, <2>1, <2>4
<1> QED
  BY <1>4, <1>5

\* No alias is left in a flattened union.
LEMMA FlattenedTwice ==
  ASSUME NEW members, NEW simplified \in SUBSET Flattened(members)
  PROVE  Flattened(simplified) = simplified
<1>1. \A p \in Flattened(members) : p.kind # "UnionAlias"
  BY FlattenedArms DEF PlainArm, YieldArm
<1>2. \A p : p \in Flattened(simplified) <=> p \in simplified
  BY <1>1, FlattenedArms
<1> QED
  BY <1>2

\* The plain types of a union of some arms of a declaration are finitely many.
LEMMA PlainTypesFinite ==
  ASSUME NEW arms \in Seq(Arms), NEW members \in SUBSET {arms[i] : i \in DOMAIN arms}
  PROVE  IsFiniteSet(PlainTypes(Flattened(members)))
<1> DEFINE TypeOf(i) == IF arms[i].kind = "UnionAlias" THEN NoneType ELSE arms[i].args[1]
           f         == [i \in 1..Len(arms) |-> TypeOf(i)]
           S         == {f[i] : i \in 1..Len(arms)}
<1>1. IsFiniteSet(1..Len(arms))
  BY FS_Interval
<1>2. f \in Surjection(1..Len(arms), S)
  BY DEF Surjection
<1>3. IsFiniteSet(S)
  <2> HIDE DEF f, S
  <2> QED
    BY <1>1, <1>2, FS_Surjection
<1>4. PlainTypes(Flattened(members)) \subseteq S
  <2> SUFFICES ASSUME NEW p \in Flattened(members), p.kind = "Plain"
               PROVE  p.args[1] \in S
    BY DEF PlainTypes
  <2>1. PICK a \in members :
          IF a.kind = "UnionAlias" THEN p \in {PlainArm(NoneType), YieldArm(a.args[1])}
          ELSE p = a
    BY FlattenedArms
  <2>2. PICK i \in 1..Len(arms) : a = arms[i]
    OBVIOUS
  <2>3. p.args[1] = TypeOf(i)
    BY <2>1, <2>2 DEF PlainArm, YieldArm
  <2> QED
    BY <2>3
<1> QED
  BY <1>3, <1>4, FS_Subset

\* Expanding the aliases of a union of arms gives arms.
LEMMA FlattenedAreArms ==
  ASSUME NEW members \in SUBSET Arms
  PROVE  Flattened(members) \subseteq Arms
<1> SUFFICES ASSUME NEW p \in Flattened(members) PROVE p \in Arms
  OBVIOUS
<1>1. PICK a \in members :
        IF a.kind = "UnionAlias" THEN p \in {PlainArm(NoneType), YieldArm(a.args[1])}
        ELSE p = a
  BY FlattenedArms
<1>2. CASE a.kind = "UnionAlias"
  <2>1. a.args[1] \in Types /\ NoneType \in Types
    BY <1>2 DEF Arms, NoneType, Types
  <2>2. PlainArm(NoneType) \in Arms /\ YieldArm(a.args[1]) \in Arms
    BY <2>1 DEF PlainArm, YieldArm, Arms, ArmKinds
  <2> QED
    BY <1>1, <1>2, <2>2
<1>3. CASE a.kind # "UnionAlias"
  BY <1>1, <1>3
<1> QED
  BY <1>2, <1>3

\* The plain types of a union of arms are types.
LEMMA PlainTypesAreTypes ==
  ASSUME NEW members \in SUBSET Arms
  PROVE  PlainTypes(Flattened(members)) \subseteq Types
<1> SUFFICES ASSUME NEW p \in Flattened(members), p.kind = "Plain"
             PROVE  p.args[1] \in Types
  BY DEF PlainTypes
<1>1. PICK a \in members :
        IF a.kind = "UnionAlias" THEN p \in {PlainArm(NoneType), YieldArm(a.args[1])}
        ELSE p = a
  BY FlattenedArms
<1>2. CASE p = a
  BY <1>2 DEF Arms
<1>3. CASE p # a
  <2>1. p.args[1] = NoneType
    BY <1>1, <1>3 DEF PlainArm, YieldArm
  <2> QED
    BY <2>1 DEF NoneType, Types
<1> QED
  BY <1>2, <1>3

\* A union of types that are not Any admits what one of them does.
LEMMA UnionAdmits ==
  ASSUME NEW members, PlainTypes(members) \subseteq Types, NEW v
  PROVE  Admits(UnionType(members), v) <=>
           \E t \in PlainTypes(members) : t = AnyType \/ v \in t
<1>1. CASE AnyType \in PlainTypes(members)
  BY <1>1 DEF UnionType, Admits
<1>2. CASE AnyType \notin PlainTypes(members)
  <2>1. UNION PlainTypes(members) \in SUBSET Values
    BY <1>2 DEF Types
  <2>2. UnionType(members) = UNION PlainTypes(members) /\ UnionType(members) # AnyType
    BY <1>2, <2>1 DEF UnionType
  <2> QED
    BY <1>2, <2>2 DEF Admits
<1> QED
  BY <1>1, <1>2

\* No plain member of a simplified union is lost, but beneath another one.
LEMMA PlainKept ==
  ASSUME NEW members \in SUBSET Arms, NEW p \in Flattened(members), p.kind = "Plain",
         p.args[1] # AnyType, p.args[1] # {},
         \A c \in PlainTypes(Flattened(members)) \ {AnyType} :
           p.args[1] \subseteq c => c = p.args[1]
  PROVE  p \in MakeSimplifiedUnion(members)
<1>1. p \in Arms
  BY FlattenedAreArms
<1>2. SUFFICES ASSUME NEW q \in Flattened(members), q # p, IsProperSubtype(p, q)
               PROVE  FALSE
  BY DEF MakeSimplifiedUnion
<1>3. p # PlainArm({})
  BY DEF PlainArm
<1>4. p.args[1] \in SUBSET Values
  BY <1>1 DEF Arms, Types
<1>5. q \in Arms
  BY FlattenedAreArms
<1>6. /\ q.kind = "Plain" /\ q.args[1] # AnyType /\ p.args[1] \subseteq q.args[1]
  <2>1. CASE q = PlainArm(ObjectType)
    <3>1. q.kind = "Plain" /\ q.args[1] = Values
      BY <2>1 DEF PlainArm, ObjectType
    <3>2. Values # AnyType
      OBVIOUS
    <3> QED
      BY <1>4, <3>1, <3>2
  <2>2. CASE q # PlainArm(ObjectType)
    BY <1>2, <1>3, <2>2 DEF IsProperSubtype
  <2> QED
    BY <2>1, <2>2
<1>7. q.args[1] \in PlainTypes(Flattened(members)) \ {AnyType}
  BY <1>6 DEF PlainTypes
<1>8. q.args[1] = p.args[1]
  BY <1>6, <1>7
<1>9. /\ p = [kind |-> "Plain", args |-> p.args] /\ p.args \in Seq(Types) /\ Len(p.args) = 1
      /\ q = [kind |-> "Plain", args |-> q.args] /\ q.args \in Seq(Types) /\ Len(q.args) = 1
  BY <1>1, <1>5, <1>6 DEF Arms
<1>10. p.args = <<p.args[1]>> /\ q.args = <<q.args[1]>>
  BY <1>9
<1> QED
  BY <1>2, <1>8, <1>9, <1>10

\* make_simplified_union() keeps every value of its members.
LEMMA SimplifiedKeepsValues ==
  ASSUME NEW members \in SUBSET Arms, IsFiniteSet(PlainTypes(Flattened(members))),
         NEW v, Admits(UnionType(Flattened(members)), v)
  PROVE  Admits(UnionType(MakeSimplifiedUnion(members)), v)
<1> DEFINE flat       == Flattened(members)
           types      == PlainTypes(flat)
           simplified == MakeSimplifiedUnion(members)
<1>1. \A t : t \in types <=> \E p \in flat : p.kind = "Plain" /\ p.args[1] = t
  BY DEF PlainTypes
<1>2. \A t : t \in PlainTypes(simplified) <=>
               \E p \in simplified : p.kind = "Plain" /\ p.args[1] = t
  BY DEF PlainTypes
<1>3. \A p \in flat :
        p \notin simplified <=> \E q \in flat : q # p /\ IsProperSubtype(p, q)
  BY DEF MakeSimplifiedUnion
<1>4. types \subseteq Types /\ IsFiniteSet(types)
  BY PlainTypesAreTypes
<1>5. PICK t \in types : t = AnyType \/ v \in t
  BY <1>4, UnionAdmits
<1>s. simplified \subseteq flat
  BY DEF MakeSimplifiedUnion
<1>a. flat \subseteq Arms
  BY FlattenedAreArms
<1> HIDE DEF flat, types, simplified
<1>6. PlainTypes(simplified) \subseteq Types
  BY <1>1, <1>2, <1>s, <1>4
<1>7. \E u \in PlainTypes(simplified) : u = AnyType \/ v \in u
  <2>1. CASE t = AnyType
    <3>1. PICK p \in flat : p.kind = "Plain" /\ p.args[1] = AnyType
      BY <1>1, <1>5, <2>1
    <3>2. p = PlainArm(AnyType)
      <4>1. p = [kind |-> "Plain", args |-> p.args] /\ p.args \in Seq(Types) /\ Len(p.args) = 1
        BY <1>a, <3>1 DEF Arms
      <4>2. p.args = <<AnyType>>
        BY <3>1, <4>1
      <4> QED
        BY <4>1, <4>2 DEF PlainArm
    <3>3. {} # AnyType /\ p # PlainArm({})
      <4>1. {} # AnyType
        OBVIOUS
      <4> QED
        BY <3>1, <4>1 DEF PlainArm
    <3>4. p \in simplified
      BY <1>3, <3>1, <3>2, <3>3 DEF IsProperSubtype
    <3>5. AnyType \in PlainTypes(simplified)
      BY <1>2, <3>1, <3>4
    <3> QED
      BY <3>5
  <2>2. CASE t # AnyType
    <3> DEFINE S == types \ {AnyType}
    <3>1. IsFiniteSet(S) /\ t \in S
      BY <1>4, <2>2, FS_Subset
    <3>2. PICK b \in S : t \subseteq b /\ \A c \in S : b \subseteq c => c = b
      <4> HIDE DEF S
      <4> QED
        BY <3>1, MaximalAbove
    <3>3. v \in b
      BY <1>5, <2>2, <3>2
    <3>4. PICK p \in flat : p.kind = "Plain" /\ p.args[1] = b
      BY <1>1
    <3>5. p \in simplified
      BY <3>2, <3>3, <3>4, PlainKept DEF flat, types, simplified
    <3> QED
      BY <1>2, <3>3, <3>4, <3>5
  <2> QED
    BY <2>1, <2>2
<1> QED
  BY <1>6, <1>7, UnionAdmits DEF simplified

-----------------------------------------------------------------------------
(* What a body may return. *)

\* Taking YieldType and SendType out of a flattened union leaves its plain types.
LEMMA OtherArmsKeepTypes ==
  ASSUME NEW members, NEW kept \in SUBSET Flattened(members),
         NEW inferred, inferred = [arm \in kept |-> arm]
  PROVE  /\ OtherArms(inferred) \in SUBSET kept
         /\ PlainTypes(OtherArms(inferred)) = PlainTypes(kept)
<1>1. OtherArms(inferred) = {a \in kept : a.kind \notin {"YieldType", "SendType"}}
  BY DEF OtherArms
<1> QED
  BY <1>1 DEF PlainTypes

\* What the body of a decorated function may return is of the return type that
\* the decorator gives its generator (plugin.py lines 141-146 and 171-182).
LEMMA ReturnsFit ==
  ASSUME NEW fn \in Functions, fn.kind = "compat", NEW v, Admits(BodyReturns(fn), v)
  PROVE  Admits(UnionType(Flattened(GeneratorTypes(fn).ret)), v)
<1> DEFINE all      == Items(fn.declared)
           kept     == MakeSimplifiedUnion(all)
           inferred == Inferred(fn.declared)
           others   == OtherArms(inferred)
           ret      == GeneratorTypes(fn).ret
<1>1. fn.declared \in Seq(Arms) /\ Len(fn.declared) > 0
  BY DEF FunctionDefs
<1>2. CASE ~ fn.annotated
  <2>1. ret = {PlainArm(AnyType)}
    BY <1>2 DEF GeneratorTypes, DecoratedTypes, DecodedType
  <2>2. PlainArm(AnyType) \in Flattened(ret)
    BY <2>1, FlattenedArms DEF PlainArm
  <2>3. AnyType \in PlainTypes(Flattened(ret))
    BY <2>2 DEF PlainTypes, PlainArm
  <2> QED
    BY <2>3 DEF UnionType, Admits
<1>3. CASE fn.annotated
  <2>1. Admits(UnionType(Flattened(all)), v)
    BY <1>3 DEF BodyReturns, Items
  <2>2. inferred = [arm \in kept |-> arm]
    BY DEF Inferred, Items
  <2>3. GeneratorTypes(fn) = Decoded(inferred, inferred)
    BY <1>3 DEF GeneratorTypes, DecoratedTypes
  <2>4. all \in SUBSET Arms /\ all \in SUBSET {fn.declared[i] : i \in DOMAIN fn.declared}
    BY <1>1 DEF Items
  <2> HIDE DEF all, inferred
  <2>5. kept \in SUBSET Flattened(all)
    BY DEF MakeSimplifiedUnion
  <2>6. kept \in SUBSET Arms
    BY <2>4, <2>5, FlattenedAreArms
  <2>7. IsFiniteSet(PlainTypes(Flattened(all)))
    BY <1>1, <2>4, PlainTypesFinite
  <2>8. Admits(UnionType(kept), v)
    BY <2>1, <2>4, <2>7, SimplifiedKeepsValues
  <2> HIDE DEF kept
  <2>9. Flattened(kept) = kept
    BY <2>5, FlattenedTwice
  <2>10. others \in SUBSET kept /\ PlainTypes(others) = PlainTypes(kept)
    BY <2>2, <2>5, OtherArmsKeepTypes
  <2>11. {inferred[i] : i \in DOMAIN inferred} = kept
    BY <2>2
  <2> HIDE DEF others
  <2>12. ret = kept \/ ret = MakeSimplifiedUnion(others)
    BY <2>3, <2>11 DEF Decoded, DecodedType, others
  <2>13. CASE ret = kept
    BY <2>8, <2>9, <2>13
  <2>14. CASE ret = MakeSimplifiedUnion(others)
    <3>1. Flattened(others) = others
      BY <2>5, <2>10, FlattenedTwice
    <3>2. others \in SUBSET Arms
      BY <2>6, <2>10
    <3>3. IsFiniteSet(PlainTypes(Flattened(others)))
      <4>1. PlainTypes(others) \subseteq PlainTypes(Flattened(all))
        BY <2>5, <2>10 DEF PlainTypes
      <4> QED
        BY <2>7, <3>1, <4>1, FS_Subset
    <3>4. Admits(UnionType(Flattened(others)), v)
      BY <2>8, <2>10, <3>1 DEF UnionType
    <3>5. Admits(UnionType(MakeSimplifiedUnion(others)), v)
      BY <3>2, <3>3, <3>4, SimplifiedKeepsValues
    <3>6. Flattened(ret) = ret
      <4>1. ret \in SUBSET Flattened(others)
        BY <2>14 DEF MakeSimplifiedUnion
      <4> QED
        BY <4>1, FlattenedTwice
    <3> QED
      BY <2>14, <3>5, <3>6
  <2> QED
    BY <2>12, <2>13, <2>14
<1> QED
  BY <1>2, <1>3

-----------------------------------------------------------------------------
(* The invariant. *)

\* A generator was passed to yield_from_() under a type it has.
LinksFit ==
  \A i \in 1..depth : stack[i].link \in DelegateForms => stack[i].link \in FormsOf(stack[i].fn)

ReturnInv == LinksFit /\ ReturnSound

LEMMA InitReturn == Init => ReturnInv
<1> SUFFICES ASSUME Init PROVE ReturnInv
  OBVIOUS
<1>1. event.what = "nothing"
  BY DEF Init, Nothing
<1>2. depth = 1 /\ stack[1].link = "root"
  BY DEF Init, depth
<1> QED
  BY <1>1, <1>2 DEF ReturnInv, ReturnSound, LinksFit, DelegateForms

\* Leaving a generator, or staying in it, leaves only links that fitted.
LEMMA LinksKept ==
  ASSUME TypeOK, LinksFit, NEW after, stack' = stack \/ Leave(after)
  PROVE  LinksFit'
<1>1. /\ depth' \in Nat /\ depth' <= depth
      /\ \A i \in 1..depth' : stack'[i] = stack[i]
  <2>1. stack \in Seq(Frames) /\ depth \in Nat /\ depth >= 1
    BY DEF TypeOK
  <2>2. CASE stack' = stack
    BY <2>1, <2>2 DEF depth
  <2>3. CASE stack' # stack
    <3>1. stack' = Popped /\ depth > 1
      BY <2>1, <2>3 DEF Leave
    <3> QED
      BY <2>1, <3>1, PoppedStack DEF depth
  <2> QED
    BY <2>2, <2>3
<1>2. \A i \in 1..depth' : i \in 1..depth
  BY <1>1 DEF TypeOK
<1> QED
  BY <1>1, <1>2 DEF LinksFit

\* A body returns only values of the type its delegator is given.
LEMMA ReturnStep ==
  ASSUME TypeOK, LinksFit, Return
  PROVE  ReturnSound'
<1>1. PICK v \in Values :
        /\ Admits(BodyReturns(top.fn), v)
        /\ event' = IF top.link \in DelegateForms
                    THEN [what |-> "returned", value |-> v, frame |-> top]
                    ELSE Nothing
  BY DEF Return
<1>2. top \in Frames /\ top.fn \in Functions
  BY TopFrame
<1>3. CASE top.link \notin DelegateForms
  BY <1>1, <1>3 DEF ReturnSound, Nothing
<1>4. CASE top.link \in DelegateForms
  <2>1. event'.value = v /\ event'.frame = top
    BY <1>1, <1>4
  <2>2. top.link \in FormsOf(top.fn)
    BY <1>4 DEF TypeOK, LinksFit, top
  <2> SUFFICES ASSUME top.link \in {"generator", "union", "any"}
               PROVE  Admits(YieldFromResult(top.link, top.fn.kind, GeneratorTypes(top.fn)), v)
    BY <2>1 DEF ReturnSound
  <2>3. CASE top.link = "any"
    BY <2>3 DEF YieldFromResult, Admits
  <2>4. CASE top.link = "union"
    BY <2>4 DEF YieldFromResult, Admits
  <2>5. CASE top.link = "generator" /\ top.fn.kind = "compat"
    BY <1>1, <1>2, <2>5, ReturnsFit DEF YieldFromResult
  <2>6. CASE top.link = "generator" /\ top.fn.kind = "native"
    <3>1. BodyReturns(top.fn) = NoneType
      BY <2>6 DEF BodyReturns
    <3>2. YieldFromResult(top.link, top.fn.kind, GeneratorTypes(top.fn)) = NoneType
      BY <2>6 DEF YieldFromResult
    <3> QED
      BY <1>1, <3>1, <3>2
  <2>7. top.fn.kind \in {"compat", "native", "helper", "iterable"}
    BY <1>2 DEF FunctionDefs, FunctionKinds
  <2>8. top.link = "generator" => top.fn.kind \in {"compat", "native"}
    BY <2>2, <2>7 DEF FormsOf
  <2> QED
    BY <2>3, <2>4, <2>5, <2>6, <2>8
<1> QED
  BY <1>3, <1>4

LEMMA StepReturn == TypeOK /\ TypeOK' /\ ReturnInv /\ [Next]_vars => ReturnInv'
<1> SUFFICES ASSUME TypeOK, TypeOK', ReturnInv, [Next]_vars PROVE ReturnInv'
  OBVIOUS
<1>1. LinksFit /\ ReturnSound
  BY DEF ReturnInv
<1>2. CASE YieldFrom
  <2>1. PICK f \in Functions, form \in DelegateForms :
          form \in FormsOf(f) /\ stack' = Append(stack, [fn |-> f, link |-> form])
    BY <1>2 DEF YieldFrom
  <2>2. LinksFit'
    <3>1. stack \in Seq(Frames)
      BY DEF TypeOK
    <3>2. /\ depth' = depth + 1 /\ depth \in Nat
          /\ stack'[depth + 1].fn = f /\ stack'[depth + 1].link = form
          /\ \A i \in 1..depth : stack'[i] = stack[i]
      BY <2>1, <3>1 DEF depth
    <3>3. \A i \in 1..depth' : i \in 1..depth \/ i = depth + 1
      BY <3>2
    <3> SUFFICES ASSUME NEW i \in 1..depth', stack'[i].link \in DelegateForms
                 PROVE  stack'[i].link \in FormsOf(stack'[i].fn)
      BY DEF LinksFit
    <3>4. CASE i \in 1..depth
      BY <1>1, <3>2, <3>4 DEF LinksFit
    <3>5. CASE i = depth + 1
      BY <2>1, <3>2, <3>5
    <3> QED
      BY <3>3, <3>4, <3>5
  <2>3. event' = Nothing
    BY <1>2 DEF YieldFrom
  <2> QED
    BY <2>2, <2>3 DEF ReturnInv, ReturnSound, Nothing
<1>3. CASE CallHelper
  <2>1. PICK f \in Functions : stack' = Append(stack, [fn |-> f, link |-> "helper"])
    BY <1>3 DEF CallHelper
  <2>2. LinksFit'
    <3>1. stack \in Seq(Frames)
      BY DEF TypeOK
    <3>2. /\ depth' = depth + 1 /\ depth \in Nat
          /\ stack'[depth + 1] = [fn |-> f, link |-> "helper"]
          /\ \A i \in 1..depth : stack'[i] = stack[i]
      BY <2>1, <3>1 DEF depth
    <3>3. \A i \in 1..depth' : i \in 1..depth \/ i = depth + 1
      BY <3>2
    <3> QED
      BY <1>1, <3>2, <3>3 DEF LinksFit, DelegateForms
  <2>3. event' = Nothing
    BY <1>3 DEF CallHelper
  <2> QED
    BY <2>2, <2>3 DEF ReturnInv, ReturnSound, Nothing
<1>4. CASE Return
  <2>1. LinksFit'
    BY <1>1, <1>4, LinksKept DEF Return
  <2> QED
    BY <1>1, <1>4, <2>1, ReturnStep DEF ReturnInv
<1>5. CASE Yield \/ Raise \/ Catch \/ Start
  <2>1. stack' = stack /\ event'.what # "returned"
    BY <1>5 DEF Yield, Raise, Catch, Start, Nothing
  <2> QED
    BY <1>1, <2>1, LinksKept DEF ReturnInv, ReturnSound
<1>6. CASE Propagate \/ Asend \/ Anext \/ Athrow
  <2>1. event'.what # "returned"
    BY <1>6 DEF Propagate, Asend, Anext, Athrow, Deliver, Nothing
  <2>2. stack' = stack \/ Leave("raising")
    BY <1>6 DEF Propagate, Asend, Anext, Athrow, Deliver
  <2> QED
    BY <1>1, <2>1, <2>2, LinksKept DEF ReturnInv, ReturnSound
<1>7. CASE UNCHANGED vars
  <2>1. stack' = stack /\ event' = event
    BY <1>7 DEF vars
  <2> QED
    BY <1>1, <2>1, LinksKept DEF ReturnInv, ReturnSound
<1> QED
  BY <1>2, <1>3, <1>4, <1>5, <1>6, <1>7 DEF Next

\* "await yield_from_(g)" is of the type the stub's overloads and the decorator
\* give it, for every declaration of g and every program: the union without its
\* YieldType and SendType, simplified, still holds all that the body returns.
THEOREM ReturnsAreSound == Spec => []ReturnSound
<1>1. Init => ReturnInv
  BY InitReturn
<1>2. TypeOK /\ TypeOK' /\ ReturnInv /\ [Next]_vars => ReturnInv'
  BY StepReturn
<1>3. ReturnInv => ReturnSound
  BY DEF ReturnInv
<1> QED
  BY <1>1, <1>2, <1>3, RuntimeTypeOK, PTL DEF Spec

=============================================================================
