-------------------------- MODULE StartCalls_proofs --------------------------
(***************************************************************************)
(* Proofs of the properties of StartCalls, for every subset of the stubs,  *)
(* all targets, all lists of arguments and any limit of the overloads.     *)
(***************************************************************************)
EXTENDS StartCalls, VariadicStubs_proofs

-----------------------------------------------------------------------------
(* What the plugin accepts. *)

\* One overload of the target takes what Trio passes and the arguments.
Accepts(overload) ==
  /\ TakesSoMany(overload, Len(TrioPasses) + Len(args))
  /\ \A k \in DOMAIN TrioPasses : IsSubtype(TrioPasses[k].type, TypeAt(overload, k))
  /\ \A k \in DOMAIN args : IsSubtype(args[k], TypeAt(overload, Len(TrioPasses) + k))
  /\ TakesNamed(overload, TrioNames)

LEMMA ArgumentTypes ==
  ASSUME TypeOK
  PROVE  /\ Len(args) \in Nat /\ DOMAIN args = 1..Len(args)
         /\ \A k \in DOMAIN args :
              args[k] = Any \/ \E of \in (SUBSET Values) \ {{}} : args[k] = Inst(of)
<1>1. IsSequence(args)
  BY StartCallsAssumption DEF TypeOK
<1> QED
  BY <1>1, StartCallsAssumption, SequenceDomain DEF TypeOK

\* A type variable that only one formal has is solved to the type of its argument.
LEMMA SolvedArgument ==
  ASSUME TypeOK, NEW ids \in Seq(Int), Len(ids) = Len(args),
         \A i, j \in 1..Len(ids) : ids[i] = ids[j] => i = j,
         NEW k \in 1..Len(ids)
  PROVE  Solved(PosFormals(ids), TypeVar(ids[k])) = args[k]
<1> DEFINE formals == PosFormals(ids)
           type == TypeVar(ids[k])
<1>1. /\ DOMAIN formals = 1..Len(ids)
      /\ \A j \in 1..Len(ids) : formals[j].type = TypeVar(ids[j])
  BY PosFormalsType
<1>2. \A i, j \in 1..Len(ids) : TypeVar(ids[i]) = TypeVar(ids[j]) => i = j
  <2>1. \A a, b : TypeVar(a) = TypeVar(b) => a = b
    BY DEF TypeVar
  <2> QED
    BY <2>1
<1>3. {j \in DOMAIN formals : formals[j].type = type} = {k}
  <2> HIDE DEF formals
  <2> QED
    BY <1>1, <1>2
<1>4. type.form = "tvar"
  BY DEF TypeVar
<1>5. Join({args[k]}) = args[k]
  <2>1. CASE args[k] = Any
    BY <2>1 DEF Join
  <2>2. CASE args[k] # Any
    <3>1. PICK of : args[k] = Inst(of)
      BY <2>2, ArgumentTypes
    <3>2. args[k].of = of
      BY <3>1 DEF Inst
    <3>3. UNION {t.of : t \in {args[k]}} = of
      BY <3>2
    <3> QED
      BY <2>2, <3>1, <3>3 DEF Join
  <2> QED
    BY <2>1, <2>2
<1>6. Solved(formals, type) = Join({args[i] : i \in {j \in DOMAIN formals : formals[j].type = type}})
  BY <1>4 DEF Solved
<1>7. {args[i] : i \in {k}} = {args[k]}
  OBVIOUS
<1> HIDE DEF formals, type
<1> QED
  BY <1>3, <1>5, <1>6, <1>7 DEF formals, type

\* What Trio passes to the callable of the stub.
LEMMA TrioParts ==
  ASSUME NEW lead, NEW others, NEW before, NEW after, NEW options,
         Shaped(stub, lead, others, before, after, options)
  PROVE  /\ TrioPasses = before
         /\ TrioNames = {after[i].type : i \in DOMAIN after}
BY SplattedSelections DEF TrioPasses, TrioNames, Names

\* A target fits the callable of the overload for that many arguments if one of its
\* overloads takes what it will be called with.
LEMMA FitsOverload ==
  ASSUME TypeOK, NEW lead, NEW others, NEW before, NEW after, NEW options,
         Shaped(stub, lead, others, before, after, options),
         NEW ids \in Seq(Int), Len(ids) = Len(args),
         \A i, j \in 1..Len(ids) : ids[i] = ids[j] => i = j,
         NEW overload
  PROVE  FitsCallable(overload, CallableType(before \o PosFormals(ids) \o after), PosFormals(ids))
           <=> Accepts(overload)
<1> DEFINE new == PosFormals(ids)
           wanted == CallableType(before \o new \o after)
           given == OfKinds(wanted.formals, {"pos"})
<1>1. /\ IsSequence(before) /\ IsSequence(after)
      /\ \A i \in 1..Len(before) : before[i].kind = "pos" /\ before[i].type.form # "tvar"
      /\ \A i \in 1..Len(after) : after[i].kind = "named"
  BY DEF Shaped
<1>2. /\ IsSequence(new) /\ Len(new) = Len(ids)
      /\ \A i \in 1..Len(ids) : new[i].kind = "pos" /\ new[i].type = TypeVar(ids[i])
  BY PosFormalsType
<1>3. wanted.ellipsis = FALSE /\ wanted.formals = before \o new \o after
  BY DEF CallableType
<1> HIDE DEF new, wanted
<1>4. OfKinds(new, {"pos"}) = new /\ OfKinds(new, {"star"}) = <<>>
  BY <1>2, OfKindsAll, OfKindsNone
<1>5. /\ given = before \o new
      /\ OfKinds(wanted.formals, {"star"}) = <<>>
      /\ OfKinds(wanted.formals, {"named"}) = after
  <2>1. \A i \in 1..Len(before) : before[i].kind = "pos"
    BY <1>1
  <2>2. IsSequence(new) /\ \A i \in 1..Len(new) : new[i].kind \in {"pos", "star"}
    BY <1>2
  <2>3. /\ OfKinds(before \o new \o after, {"pos"}) = before \o OfKinds(new, {"pos"})
        /\ OfKinds(before \o new \o after, {"star"}) = OfKinds(new, {"star"})
        /\ OfKinds(before \o new \o after, {"named"}) = after
    BY <1>1, <2>1, <2>2, CallableSelections
  <2> QED
    BY <1>3, <1>4, <2>3 DEF given
<1> HIDE DEF given
<1>6. /\ Len(given) = Len(before) + Len(args)
      /\ DOMAIN given = 1..(Len(before) + Len(args))
      /\ \A i \in 1..Len(before) : given[i] = before[i]
      /\ \A k \in 1..Len(args) : given[Len(before) + k] = new[k]
      /\ Len(before) \in Nat /\ DOMAIN before = 1..Len(before)
      /\ Len(args) \in Nat /\ DOMAIN args = 1..Len(args)
  <2>1. PICK T : before \in Seq(T) /\ new \in Seq(T)
    BY <1>1, <1>2, CommonElements
  <2>2. /\ Len(before \o new) = Len(before) + Len(new)
        /\ DOMAIN (before \o new) = 1..(Len(before) + Len(new))
        /\ \A i \in 1..Len(before) : (before \o new)[i] = before[i]
        /\ \A k \in 1..Len(new) : (before \o new)[Len(before) + k] = new[k]
    BY <2>1
  <2> QED
    BY <1>1, <1>2, <1>5, <2>2, SequenceDomain, ArgumentTypes
<1>7. \A i \in 1..Len(before) : Solved(new, given[i].type) = before[i].type
  BY <1>1, <1>6 DEF Solved
<1>8. \A k \in 1..Len(args) : Solved(new, given[Len(before) + k].type) = args[k]
  <2> TAKE k \in 1..Len(args)
  <2>1. given[Len(before) + k].type = TypeVar(ids[k])
    BY <1>2, <1>6
  <2> QED
    BY <2>1, SolvedArgument DEF new
<1>9. (\A i \in DOMAIN given : IsSubtype(Solved(new, given[i].type), TypeAt(overload, i)))
        <=> /\ \A i \in DOMAIN before : IsSubtype(before[i].type, TypeAt(overload, i))
            /\ \A k \in DOMAIN args : IsSubtype(args[k], TypeAt(overload, Len(before) + k))
  <2>1. ASSUME \A i \in DOMAIN given : IsSubtype(Solved(new, given[i].type), TypeAt(overload, i))
        PROVE  /\ \A i \in DOMAIN before : IsSubtype(before[i].type, TypeAt(overload, i))
               /\ \A k \in DOMAIN args : IsSubtype(args[k], TypeAt(overload, Len(before) + k))
    <3>1. ASSUME NEW i \in DOMAIN before PROVE IsSubtype(before[i].type, TypeAt(overload, i))
      <4>1. i \in DOMAIN given
        BY <1>6
      <4> QED
        BY <1>6, <1>7, <2>1, <4>1
    <3>2. ASSUME NEW k \in DOMAIN args PROVE IsSubtype(args[k], TypeAt(overload, Len(before) + k))
      <4>1. Len(before) + k \in DOMAIN given
        BY <1>6
      <4> QED
        BY <1>6, <1>8, <2>1, <4>1
    <3> QED
      BY <3>1, <3>2
  <2>2. ASSUME \A i \in DOMAIN before : IsSubtype(before[i].type, TypeAt(overload, i)),
               \A k \in DOMAIN args : IsSubtype(args[k], TypeAt(overload, Len(before) + k)),
               NEW i \in DOMAIN given
        PROVE  IsSubtype(Solved(new, given[i].type), TypeAt(overload, i))
    <3>1. CASE i \in 1..Len(before)
      BY <1>6, <1>7, <2>2, <3>1
    <3>2. CASE i \in (Len(before) + 1)..(Len(before) + Len(args))
      <4>1. i - Len(before) \in 1..Len(args) /\ Len(before) + (i - Len(before)) = i
        BY <1>6, <3>2
      <4> QED
        BY <1>6, <1>8, <2>2, <4>1
    <3> QED
      BY <1>6, <3>1, <3>2
  <2> QED
    BY <2>1, <2>2
<1>10. TrioPasses = before /\ TrioNames = Names(wanted.formals, {"named"})
  BY <1>5, TrioParts DEF Names
<1>11. ~ HasStar(wanted.formals)
  BY <1>5 DEF HasStar
<1> QED
  <2>1. FitsCallable(overload, wanted, new) <=>
          /\ TakesSoMany(overload, Len(given))
          /\ \A i \in DOMAIN given : IsSubtype(Solved(new, given[i].type), TypeAt(overload, i))
          /\ TakesNamed(overload, Names(wanted.formals, {"named"}))
    BY <1>3, <1>11 DEF FitsCallable, given
  <2> QED
    BY <1>6, <1>9, <1>10, <2>1 DEF Accepts, new, wanted

\* A call matches the overload for as many arguments, if the target accepts them.
LEMMA MatchesOverload ==
  ASSUME TypeOK, NEW n \in Nat
  PROVE  Matches(Expanded(stub, NewIds(stub, n)), CallableAt(stub))
           <=> n = Len(args) /\ \E i \in DOMAIN target : Accepts(target[i])
<1>1. PICK lead, others, before, after, options :
        Shaped(stub, lead, others, before, after, options)
  BY StartCallsAssumption, StubsAreShaped DEF TypeOK
<1> DEFINE ids == NewIds(stub, n)
           sig == Expanded(stub, ids)
           wanted == CallableType(before \o PosFormals(ids) \o after)
<1>2. ids \in Seq(Int) /\ Len(ids) = n /\ \A i, j \in 1..Len(ids) : ids[i] = ids[j] => i = j
  <2>1. Len(stub.variables) \in Nat
    BY <1>1 DEF Shaped
  <2>2. ids \in Seq(Int) /\ Len(ids) = n /\ \A i, j \in 1..n : ids[i] = ids[j] => i = j
    BY <2>1, NewIdsAreDistinct
  <2> QED
    BY <2>2
<1> HIDE DEF ids
<1>3. /\ ArgFormals(sig, CallableAt(stub)) = PosFormals(ids)
      /\ ~ HasStar(sig.formals)
      /\ sig.formals[CallableAt(stub)].type = wanted
  BY <1>1, <1>2, OverloadSelections DEF ArgFormals, HasStar
<1>4. wanted.form = "callable"
  BY DEF CallableType
<1> HIDE DEF sig, wanted
<1>5. CallableArms(sig.formals[CallableAt(stub)].type) = {wanted}
  BY <1>3, <1>4 DEF CallableArms
<1>6. Len(PosFormals(ids)) = n /\ Len(args) \in Nat
  BY <1>2, PosFormalsType, ArgumentTypes
<1>7. Matches(sig, CallableAt(stub)) <=>
        n = Len(args) /\ \E i \in DOMAIN target : FitsCallable(target[i], wanted, PosFormals(ids))
  BY <1>3, <1>5, <1>6 DEF Matches
<1>8. n = Len(args) =>
        \A i \in DOMAIN target :
          FitsCallable(target[i], wanted, PosFormals(ids)) <=> Accepts(target[i])
  BY <1>1, <1>2, FitsOverload DEF wanted
<1> QED
  BY <1>7, <1>8 DEF sig, ids

\* The plugin accepts the calls, up to its limit, whose target takes the arguments.
LEMMA AcceptedWithPlugin ==
  ASSUME TypeOK
  PROVE  AcceptedWith(TRUE) <=>
           Len(args) <= MaxArgs /\ \E i \in DOMAIN target : Accepts(target[i])
<1> DEFINE all == Overloads(stub, MaxArgs)
<1>1. /\ DOMAIN all = 1..(MaxArgs + 1)
      /\ \A n \in 1..(MaxArgs + 1) : all[n] = Expanded(stub, NewIds(stub, n - 1))
  BY DEF Overloads
<1>2. MaxArgs \in Nat /\ Len(args) \in Nat
  BY StartCallsAssumption, ArgumentTypes
<1> HIDE DEF all
<1>3. ASSUME NEW n \in 1..(MaxArgs + 1)
      PROVE  Matches(all[n], CallableAt(stub))
               <=> n - 1 = Len(args) /\ \E i \in DOMAIN target : Accepts(target[i])
  <2>1. n - 1 \in Nat
    BY <1>2
  <2> QED
    BY <1>1, <2>1, MatchesOverload
<1>4. AcceptedWith(TRUE) <=> \E n \in 1..(MaxArgs + 1) : Matches(all[n], CallableAt(stub))
  BY <1>1 DEF AcceptedWith, all
<1>5. (\E n \in 1..(MaxArgs + 1) : n - 1 = Len(args)) <=> Len(args) <= MaxArgs
  <2>1. Len(args) <= MaxArgs => Len(args) + 1 \in 1..(MaxArgs + 1) /\ (Len(args) + 1) - 1 = Len(args)
    BY <1>2
  <2>2. ASSUME NEW n \in 1..(MaxArgs + 1), n - 1 = Len(args) PROVE Len(args) <= MaxArgs
    BY <1>2, <2>2
  <2> QED
    BY <2>1, <2>2
<1> QED
  BY <1>3, <1>4, <1>5

-----------------------------------------------------------------------------
(* The inductive invariant: what mypy said, and what happened, are what the  *)
(* call deserves.                                                            *)

Outcomes ==
  /\ pc \in {"accepted", "ran", "TypeError"} => AcceptedWith(plugin)
  /\ pc = "rejected" => ~ AcceptedWith(plugin)
  /\ pc = "TypeError" => ~ Runs(passed)

IInv == TypeOK /\ Outcomes

THEOREM StartCallsInvariant == Spec => []IInv
<1>1. Init => IInv
  BY DEF Init, IInv, TypeOK, Outcomes
<1>2. IInv /\ [Next]_vars => IInv'
  <2> SUFFICES ASSUME IInv, [Next]_vars PROVE IInv'
    OBVIOUS
  <2>1. CASE Check
    <3>1. UNCHANGED <<plugin, stub, target, args, passed>> /\ pc = "written"
      BY <2>1 DEF Check
    <3>2. AcceptedWith(plugin)' <=> AcceptedWith(plugin)
      BY <3>1 DEF AcceptedWith, Matches, FitsCallable, Solved
    <3>3. TypeOK'
      BY <2>1 DEF IInv, TypeOK, Check
    <3>4. Outcomes'
      BY <2>1, <3>2 DEF Check, Outcomes
    <3> QED
      BY <3>3, <3>4 DEF IInv
  <2>2. CASE Invoke
    <3>1. UNCHANGED <<plugin, stub, target, args>> /\ pc = "accepted"
      BY <2>2 DEF Invoke
    <3>2. AcceptedWith(plugin)' <=> AcceptedWith(plugin)
      BY <3>1 DEF AcceptedWith, Matches, FitsCallable, Solved
    <3>3. TypeOK'
      BY <2>2 DEF IInv, TypeOK, Invoke, PossibleValues
    <3>4. Runs(passed)' <=> Runs(passed')
      BY <3>1 DEF Runs, TrioPasses, TrioNames
    <3>5. Outcomes'
      BY <2>2, <3>1, <3>2, <3>4 DEF IInv, Invoke, Outcomes
    <3> QED
      BY <3>3, <3>5 DEF IInv
  <2>3. CASE UNCHANGED vars
    <3>1. UNCHANGED <<plugin, stub, target, args, pc, passed>>
      BY <2>3 DEF vars
    <3>2. AcceptedWith(plugin)' <=> AcceptedWith(plugin)
      BY <3>1 DEF AcceptedWith, Matches, FitsCallable, Solved
    <3>3. Runs(passed)' <=> Runs(passed)
      BY <3>1 DEF Runs, TrioPasses, TrioNames
    <3>4. TypeOK'
      BY <3>1 DEF IInv, TypeOK, PossibleValues
    <3> QED
      BY <3>1, <3>2, <3>3, <3>4 DEF IInv, Outcomes
  <2> QED
    BY <2>1, <2>2, <2>3 DEF Next
<1> QED
  BY <1>1, <1>2, PTL DEF Spec

\* The arguments passed along keep their number and types, from the call to the
\* function that Trio calls.
THEOREM StartCallsTypeOK == Spec => []TypeOK
<1>1. IInv => TypeOK
  BY DEF IInv
<1> QED
  BY <1>1, StartCallsInvariant, PTL

-----------------------------------------------------------------------------
(* Accepted calls run, rejected ones may not. *)

\* What README.rst says of the plugin, for any limit of the overloads: a call that it
\* accepts, with no argument of type Any, calls the function as it may be called.
THEOREM AcceptedCallsAreRun == Spec => []AcceptedCallsRun
<1>1. IInv => AcceptedCallsRun
  <2> SUFFICES ASSUME IInv, plugin, pc = "TypeError", \A i \in DOMAIN args : args[i] # Any
               PROVE  FALSE
    BY DEF AcceptedCallsRun
  <2>1. /\ TypeOK /\ AcceptedWith(plugin) /\ ~ Runs(passed)
        /\ passed \in PossibleValues
    BY DEF IInv, TypeOK, Outcomes
  <2>2. PICK i \in DOMAIN target : Accepts(target[i])
    BY <2>1, AcceptedWithPlugin
  <2>3. DOMAIN passed = DOMAIN args /\ Len(passed) = Len(args)
    BY <2>1, ArgumentTypes DEF PossibleValues
  <2>4. ASSUME NEW k \in DOMAIN passed
        PROVE  Admits(TypeAt(target[i], Len(TrioPasses) + k), passed[k])
    <3>1. Admits(args[k], passed[k]) /\ args[k] # Any
      BY <2>1, <2>3 DEF PossibleValues
    <3>2. IsSubtype(args[k], TypeAt(target[i], Len(TrioPasses) + k))
      BY <2>2, <2>3 DEF Accepts
    <3> QED
      BY <3>1, <3>2 DEF Admits, IsSubtype
  <2>5. Runs(passed)
    BY <2>2, <2>3, <2>4 DEF Accepts, Runs
  <2> QED
    BY <2>1, <2>5
<1> QED
  BY <1>1, StartCallsInvariant, PTL

\* Some values have the types of the arguments, with any admissible one among them.
LEMMA SomeValues ==
  ASSUME TypeOK
  PROVE  /\ PossibleValues # {}
         /\ \A k \in DOMAIN args, v \in Values :
              Admits(args[k], v) => \E values \in PossibleValues : values[k] = v
<1>1. \A k \in DOMAIN args : \E v \in Values : Admits(args[k], v)
  <2> TAKE k \in DOMAIN args
  <2>1. CASE args[k] = Any
    BY <2>1, StartCallsAssumption DEF Admits
  <2>2. CASE args[k] # Any
    <3>1. PICK of \in (SUBSET Values) \ {{}} : args[k] = Inst(of)
      BY <2>2, ArgumentTypes
    <3> QED
      BY <3>1 DEF Admits, Inst
  <2> QED
    BY <2>1, <2>2
<1> DEFINE some == [k \in DOMAIN args |-> CHOOSE v \in Values : Admits(args[k], v)]
<1>2. some \in [DOMAIN args -> Values] /\ \A k \in DOMAIN args : Admits(args[k], some[k])
  BY <1>1
<1> HIDE DEF some
<1>3. PossibleValues # {}
  BY <1>2 DEF PossibleValues
<1>4. ASSUME NEW k \in DOMAIN args, NEW v \in Values, Admits(args[k], v)
      PROVE  \E values \in PossibleValues : values[k] = v
  <2> DEFINE values == [some EXCEPT ![k] = v]
  <2>1. values \in [DOMAIN args -> Values] /\ values[k] = v
    BY <1>2
  <2>2. \A i \in DOMAIN args : Admits(args[i], values[i])
    BY <1>2, <1>4
  <2> HIDE DEF values
  <2> QED
    BY <2>1, <2>2 DEF PossibleValues
<1> QED
  BY <1>3, <1>4

\* A call within the limit that the plugin rejects could fail, for a function that is
\* not itself overloaded: some values of the arguments' types raise a TypeError.
THEOREM RejectedCallsCanFail == Spec => []RejectedCallsFail
<1>1. IInv => RejectedCallsFail
  <2> SUFFICES ASSUME IInv, plugin, pc = "rejected", Len(args) <= MaxArgs, Len(target) = 1
               PROVE  \E values \in PossibleValues : ~ Runs(values)
    BY DEF RejectedCallsFail
  <2>1. TypeOK /\ ~ AcceptedWith(plugin)
    BY DEF IInv, Outcomes
  <2>2. DOMAIN target = {1}
    <3>1. IsSequence(target)
      BY <2>1, StartCallsAssumption DEF TypeOK
    <3> QED
      BY <3>1, SequenceDomain
  <2>3. ~ Accepts(target[1])
    BY <2>1, <2>2, AcceptedWithPlugin
  <2>4. \A values \in PossibleValues : DOMAIN values = DOMAIN args /\ Len(values) = Len(args)
    BY <2>1, ArgumentTypes DEF PossibleValues
  <2>5. CASE \A k \in DOMAIN args : IsSubtype(args[k], TypeAt(target[1], Len(TrioPasses) + k))
    <3>1. PICK values \in PossibleValues : TRUE
      BY <2>1, SomeValues
    <3>2. ~ Runs(values)
      BY <2>2, <2>3, <2>4, <2>5 DEF Accepts, Runs
    <3> QED
      BY <3>2
  <2>6. ASSUME NEW k \in DOMAIN args, ~ IsSubtype(args[k], TypeAt(target[1], Len(TrioPasses) + k))
        PROVE  \E values \in PossibleValues : ~ Runs(values)
    <3> DEFINE type == TypeAt(target[1], Len(TrioPasses) + k)
    <3>1. args[k] # Any /\ type # Any /\ ~ (args[k].of \subseteq type.of)
      BY <2>6 DEF IsSubtype
    <3>2. PICK of \in SUBSET Values : args[k] = Inst(of)
      BY <2>1, <3>1, ArgumentTypes
    <3>3. args[k].of = of
      BY <3>2 DEF Inst
    <3>4. PICK v \in Values : v \in args[k].of /\ v \notin type.of
      BY <3>1, <3>3
    <3>5. PICK values \in PossibleValues : values[k] = v
      BY <2>1, <3>4, SomeValues DEF Admits
    <3>6. ~ Admits(type, values[k])
      BY <3>1, <3>4, <3>5 DEF Admits
    <3>7. k \in DOMAIN values
      BY <2>4
    <3>8. ~ Runs(values)
      BY <2>2, <3>6, <3>7 DEF Runs
    <3> QED
      BY <3>8
  <2> QED
    BY <2>5, <2>6
<1> QED
  BY <1>1, StartCallsInvariant, PTL

-----------------------------------------------------------------------------
(* What mypy checks without the plugin. *)

\* The stub as it is takes any arguments, and one of the callables of its union.
LEMMA MatchesStub ==
  ASSUME TypeOK, NEW lead, NEW others, NEW before, NEW after, NEW options,
         Shaped(stub, lead, others, before, after, options)
  PROVE  AcceptedWith(FALSE) <=>
           \E i \in DOMAIN target :
             \/ FitsCallable(target[i], Splatted(before, after), <<>>)
             \/ \E n \in DOMAIN others : FitsCallable(target[i], others[n], <<>>)
<1> DEFINE c == Splatted(before, after)
           callables == CallableArms(stub.formals[CallableAt(stub)].type)
<1>1. ArgFormals(stub, CallableAt(stub)) = <<>> /\ HasStar(stub.formals)
  BY StubSelections DEF ArgFormals, HasStar
<1>2. stub.formals[CallableAt(stub)].type = Union(others \o <<c>>)
  <2>1. stub.formals[CallableAt(stub)] = CallableFormal(others, before, after)
    BY ShapedParts
  <2> QED
    BY <2>1 DEF CallableFormal, Pos, Formal
<1> HIDE DEF c
<1>3. callables = {c} \cup {others[n] : n \in DOMAIN others}
  <2> DEFINE items == others \o <<c>>
  <2>1. IsSequence(others)
    BY DEF Shaped
  <2>2. callables = {items[n] : n \in DOMAIN items}
    <3>1. Union(items).form = "union" /\ Union(items).items = items
      BY DEF Union
    <3> HIDE DEF items
    <3> QED
      BY <1>2, <3>1 DEF CallableArms, items
  <2>3. DOMAIN others = 1..Len(others)
    BY <2>1, SequenceDomain
  <2>4. /\ DOMAIN items = 1..(Len(others) + 1) /\ Len(others) \in Nat
        /\ items[Len(others) + 1] = c
        /\ \A n \in 1..Len(others) : items[n] = others[n]
    BY <2>1, EntriesBefore
  <2> HIDE DEF items, callables
  <2>5. ASSUME NEW n \in DOMAIN items PROVE items[n] \in {c} \cup {others[m] : m \in DOMAIN others}
    BY <2>3, <2>4
  <2>6. c \in {items[n] : n \in DOMAIN items}
    BY <2>3, <2>4
  <2>7. ASSUME NEW n \in DOMAIN others PROVE others[n] \in {items[m] : m \in DOMAIN items}
    <3>1. n \in DOMAIN items /\ others[n] = items[n]
      BY <2>3, <2>4
    <3> QED
      BY <3>1
  <2> QED
    BY <2>2, <2>5, <2>6, <2>7
<1>4. Len(args) >= Len(<<>>)
  <2>1. Len(<<>>) = 0
    OBVIOUS
  <2> QED
    BY <2>1, ArgumentTypes
<1> HIDE DEF callables
<1>5. Matches(stub, CallableAt(stub)) <=>
        \E i \in DOMAIN target, wanted \in callables : FitsCallable(target[i], wanted, <<>>)
  BY <1>1, <1>4 DEF Matches, callables
<1> QED
  BY <1>3, <1>5 DEF AcceptedWith, c

\* The comment of the plugin on overloads: without it, a call is accepted whenever it
\* is with it, but for calls of start_soon() and start() with more arguments than
\* their unions spell out.
THEOREM PluginOnlyRejectsMore == Spec => []WeakerWithoutPlugin
<1>1. IInv => WeakerWithoutPlugin
  <2> SUFFICES ASSUME IInv, plugin, pc = "accepted", Len(args) <= 4 PROVE AcceptedWith(FALSE)
    BY DEF WeakerWithoutPlugin
  <2>1. TypeOK /\ AcceptedWith(plugin)
    BY DEF IInv, Outcomes
  <2>2. PICK i \in DOMAIN target : Accepts(target[i])
    BY <2>1, AcceptedWithPlugin
  <2>3. stub \in TrioFunctions
    BY <2>1, StartCallsAssumption DEF TypeOK
  <2>4. CASE stub \in {start_soon, start}
    <3>1. PICK after, options : Shaped(stub, <<Self>>, SpelledOut(after), <<>>, after, options)
      BY <2>4, SpelledStubs
    <3>2. Len(args) \in 0..4
      BY <2>1, ArgumentTypes
    <3> DEFINE n == Len(args)
               wanted == TakingAny(n, after)
               given == OfKinds(wanted.formals, {"pos"})
    <3>3. n + 1 \in DOMAIN SpelledOut(after) /\ SpelledOut(after)[n + 1] = wanted
      BY <3>2 DEF SpelledOut
    <3>4. IsSequence(after) /\ \A k \in 1..Len(after) : after[k].kind = "named"
      BY <3>1 DEF Shaped
    <3>5. n \in Nat
      BY <3>2
    <3>6. /\ wanted.ellipsis = FALSE /\ Len(given) = n /\ DOMAIN given = 1..n
          /\ \A k \in 1..n : given[k].type = Any
          /\ OfKinds(wanted.formals, {"star"}) = <<>>
          /\ OfKinds(wanted.formals, {"named"}) = after
      <4> HIDE DEF n
      <4> QED
        BY <3>4, <3>5, TakingAnySelections
    <3>7. TrioPasses = <<>> /\ TrioNames = Names(wanted.formals, {"named"})
      BY <3>1, <3>6, TrioParts DEF Names
    <3>8. TakesSoMany(target[i], n) /\ TakesNamed(target[i], TrioNames)
      <4>1. Len(TrioPasses) + Len(args) = n
        BY <3>5, <3>7
      <4> QED
        BY <2>2, <4>1 DEF Accepts
    <3>9. \A k \in 1..n : IsSubtype(Solved(<<>>, given[k].type), TypeAt(target[i], k))
      BY <3>6 DEF Solved, IsSubtype, Any
    <3> HIDE DEF n, wanted
    <3>10. FitsCallable(target[i], wanted, <<>>)
      BY <3>6, <3>7, <3>8, <3>9 DEF FitsCallable, HasStar
    <3> QED
      BY <2>1, <3>1, <3>3, <3>10, MatchesStub
  <2>5. CASE stub \notin {start_soon, start}
    <3>1. PICK lead, before, options :
            Shaped(stub, lead, <<EllipsisCallable>>, before, <<>>, options)
      BY <2>3, <2>5, EllipsisStubs
    <3>2. 1 \in DOMAIN <<EllipsisCallable>> /\ <<EllipsisCallable>>[1] = EllipsisCallable
      OBVIOUS
    <3>3. FitsCallable(target[i], EllipsisCallable, <<>>)
      BY DEF FitsCallable, EllipsisCallable
    <3> DEFINE others == <<EllipsisCallable>>
    <3> HIDE DEF others
    <3>4. Shaped(stub, lead, others, before, <<>>, options)
      BY <3>1 DEF others
    <3>5. 1 \in DOMAIN others /\ FitsCallable(target[i], others[1], <<>>)
      BY <3>2, <3>3 DEF others
    <3> QED
      BY <2>1, <3>4, <3>5, MatchesStub
  <2> QED
    BY <2>4, <2>5
<1> QED
  BY <1>1, StartCallsInvariant, PTL

\* The comments of the stubs: with or without the plugin, start_soon() is passed no
\* function with required keyword-only parameters, and start() only one that takes
\* task_status and requires no other.
THEOREM KeywordsAreChecked == Spec => []KeywordsChecked
<1>1. IInv => KeywordsChecked
  <2> SUFFICES ASSUME IInv, pc = "accepted", stub \in {start_soon, start}
               PROVE  \E i \in DOMAIN target : TakesNamed(target[i], TrioNames)
    BY DEF KeywordsChecked
  <2>1. TypeOK /\ AcceptedWith(plugin) /\ plugin \in BOOLEAN
    BY DEF IInv, Outcomes, TypeOK
  <2>2. CASE plugin
    BY <2>1, <2>2, AcceptedWithPlugin DEF Accepts
  <2>3. CASE ~ plugin
    <3>1. PICK after, options : Shaped(stub, <<Self>>, SpelledOut(after), <<>>, after, options)
      BY SpelledStubs
    <3>2. IsSequence(after) /\ \A k \in 1..Len(after) : after[k].kind = "named"
      BY <3>1 DEF Shaped
    <3>3. ASSUME NEW overload, NEW wanted, wanted.ellipsis = FALSE,
                 OfKinds(wanted.formals, {"named"}) = after,
                 FitsCallable(overload, wanted, <<>>)
          PROVE  TakesNamed(overload, TrioNames)
      <4>1. TrioNames = Names(wanted.formals, {"named"})
        BY <3>1, <3>3, TrioParts DEF Names
      <4> QED
        BY <3>3, <4>1 DEF FitsCallable
    <3>4. /\ Splatted(<<>>, after).ellipsis = FALSE
          /\ OfKinds(Splatted(<<>>, after).formals, {"named"}) = after
      <4>1. SplattedOf(stub) = Splatted(<<>>, after)
        BY <3>1, ShapedParts
      <4>2. OfKinds(SplattedOf(stub).formals, {"named"}) = after
        BY <3>1, SplattedSelections
      <4> QED
        BY <4>1, <4>2 DEF Splatted, CallableType
    <3>5. ASSUME NEW n \in DOMAIN SpelledOut(after)
          PROVE  /\ SpelledOut(after)[n].ellipsis = FALSE
                 /\ OfKinds(SpelledOut(after)[n].formals, {"named"}) = after
      <4>1. n - 1 \in Nat /\ SpelledOut(after)[n] = TakingAny(n - 1, after)
        BY DEF SpelledOut
      <4> QED
        BY <3>2, <4>1, TakingAnySelections
    <3>6. PICK i \in DOMAIN target :
            \/ FitsCallable(target[i], Splatted(<<>>, after), <<>>)
            \/ \E n \in DOMAIN SpelledOut(after) :
                 FitsCallable(target[i], SpelledOut(after)[n], <<>>)
      BY <2>1, <2>3, <3>1, MatchesStub
    <3> QED
      BY <3>3, <3>4, <3>5, <3>6
  <2> QED
    BY <2>2, <2>3
<1> QED
  BY <1>1, StartCallsInvariant, PTL

=============================================================================
