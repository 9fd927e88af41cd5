------------------------ MODULE TakesCallable_proofs ------------------------
(***************************************************************************)
(* Proofs about TakesCallable, for every set of decorated signatures,      *)
(* every version of mypy and every maximal number of arguments: what the   *)
(* loop that builds the overloads has built, that the type variables it    *)
(* makes capture no other, that the plugin never calls mypy's TypeVarType  *)
(* in a way its version does not know, and that the scan refuses exactly   *)
(* the uses that are not valid.                                            *)
(***************************************************************************)
EXTENDS TakesCallable, VariadicStubs_proofs

USE TakesCallableAssumption

\* The overloads and type variables so far, as functions of how many there are.
OverloadSet == {OverloadFor(n) : n \in Nat}

Building ==
  /\ expanded_fns \in Seq(OverloadSet)
  /\ pc \notin {"expand", "overloaded"} => expanded_fns = <<>> /\ type_var_types = <<>>
  /\ pc \in {"expand", "overloaded"} => type_var_types = FreshIds(Len(expanded_fns))

\* The plugin class is the one for this version of mypy.
DefaultMatches ==
  pc \notin {"load", "RuntimeError"} => has_default = TypeVarTypeTakesDefault

IInv ==
  /\ TypeOK
  /\ OverloadsComplete
  /\ Building
  /\ DefaultMatches
  /\ NoCrash

-----------------------------------------------------------------------------
(* Lemmas about the operators. *)

\* The list of n ids, entry by entry.
LEMMA FreshIdsType ==
  ASSUME NEW n \in Nat, fn_type # NoFunction, fn_type \in Uses
  PROVE  /\ Len(fn_type.variables) \in Nat
         /\ FreshIds(n) \in Seq(Int)
         /\ Len(FreshIds(n)) = n
         /\ \A i \in 1..n : FreshIds(n)[i] = NewTypeVarId(fn_type, i)
<1>1. Len(fn_type.variables) \in Nat
  BY DEF IsSignature, IsSequence
<1>2. \A i \in 1..n : NewTypeVarId(fn_type, i) \in Int
  BY <1>1 DEF NewTypeVarId
<1> QED
  BY <1>1, <1>2 DEF FreshIds, NewIds

\* Appending an entry keeps the others.
LEMMA AppendEntries ==
  ASSUME NEW s \in Seq(Int), NEW e \in Int
  PROVE  /\ Append(s, e) \in Seq(Int)
         /\ Len(Append(s, e)) = Len(s) + 1
         /\ Append(s, e)[Len(s) + 1] = e
         /\ \A i \in 1..Len(s) : Append(s, e)[i] = s[i]
OBVIOUS

\* One more type variable makes the list of the next arity.
LEMMA NextFreshIds ==
  ASSUME NEW n \in Nat, fn_type # NoFunction, fn_type \in Uses
  PROVE  Append(FreshIds(n), NewTypeVarId(fn_type, n + 1)) = FreshIds(n + 1)
<1> DEFINE s == FreshIds(n)
           t == FreshIds(n + 1)
           e == NewTypeVarId(fn_type, n + 1)
<1>1. /\ s \in Seq(Int)
      /\ Len(s) = n
      /\ \A i \in 1..n : s[i] = NewTypeVarId(fn_type, i)
  BY FreshIdsType
<1>2. n + 1 \in Nat
  OBVIOUS
<1>3. /\ t \in Seq(Int)
      /\ Len(t) = n + 1
      /\ \A i \in 1..(n + 1) : t[i] = NewTypeVarId(fn_type, i)
  BY <1>2, FreshIdsType
<1>4. e \in Int
  BY FreshIdsType DEF NewTypeVarId
<1>5. t[n + 1] = e
  BY <1>3
<1>6. \A i \in 1..n : t[i] = s[i]
  BY <1>1, <1>3
<1> HIDE DEF s, t, e
<1> DEFINE a == Append(s, e)
<1>7. /\ a \in Seq(Int)
      /\ Len(a) = n + 1
      /\ a[n + 1] = e
      /\ \A i \in 1..n : a[i] = s[i]
  BY <1>1, <1>4, AppendEntries
<1> HIDE DEF a
<1>8. \A i \in 1..(n + 1) : a[i] = t[i]
  <2> TAKE i \in 1..(n + 1)
  <2>1. CASE i = n + 1
    BY <2>1, <1>5, <1>7
  <2>2. CASE i \in 1..n
    BY <2>2, <1>6, <1>7
  <2> QED
    BY <2>1, <2>2
<1>9. a = t
  BY <1>3, <1>7, <1>8, SeqEqual
<1> QED
  BY <1>9 DEF a, s, t, e

\* The ids the overload for n arguments binds: the function's own, counted down
\* from the enclosing functions', and n more from -Len(variables) - 2 down.
LEMMA BoundIds ==
  ASSUME NEW n \in Nat, fn_type # NoFunction, fn_type \in Uses
  PROVE  LET bound == OverloadFor(n).variables
             m     == Len(fn_type.variables)
         IN  /\ m \in Nat
             /\ Len(bound) = m + n
             /\ DOMAIN bound = 1..(m + n)
             /\ \A i \in 1..m : bound[i] = -(fn_type.outer_vars + i)
             /\ \A i \in (m + 1)..(m + n) : bound[i] = -i - 1
<1> DEFINE own   == fn_type.variables
           fresh == FreshIds(n)
           both  == own \o fresh
           m     == Len(own)
<1>1. IsSignature(fn_type)
  OBVIOUS
<1>2. own \in Seq({own[i] : i \in DOMAIN own})
  BY <1>1 DEF IsSignature, IsSequence
<1>3. m \in Nat /\ DOMAIN own = 1..m
  BY <1>2
<1>4. \A i \in 1..m : own[i] = -(fn_type.outer_vars + i) /\ own[i] \in Int
  BY <1>1, <1>3 DEF IsSignature
<1>5. own \in Seq(Int)
  BY <1>2, <1>3, <1>4
<1>6. fresh \in Seq(Int) /\ Len(fresh) = n
  BY FreshIdsType
<1>7. \A i \in 1..n : fresh[i] = -m - i - 1
  BY FreshIdsType DEF NewTypeVarId
<1>8. OverloadFor(n).variables = both
  BY <1>1 DEF OverloadFor, ExpandedFn, IsSignature, Signature
<1> HIDE DEF own, fresh
<1>9. /\ both \in Seq(Int)
      /\ Len(both) = m + n
      /\ \A i \in 1..(m + n) : both[i] = IF i <= m THEN own[i] ELSE fresh[i - m]
  BY <1>5, <1>6
<1> HIDE DEF both, m
<1>10. DOMAIN both = 1..(m + n)
  BY <1>9
<1>11. \A i \in 1..m : both[i] = own[i]
  BY <1>3, <1>9
<1>12. \A i \in (m + 1)..(m + n) : both[i] = fresh[i - m]
  BY <1>3, <1>9
<1>13. \A i \in (m + 1)..(m + n) : i - m \in 1..n /\ -m - (i - m) - 1 = -i - 1
  BY <1>3
<1>14. \A i \in (m + 1)..(m + n) : both[i] = -i - 1
  BY <1>7, <1>12, <1>13
<1>15. \A i \in 1..m : both[i] = -(fn_type.outer_vars + i)
  BY <1>4, <1>11
<1> QED
  BY <1>3, <1>8, <1>9, <1>10, <1>14, <1>15 DEF own, m

-----------------------------------------------------------------------------
(* The inductive invariant. *)

LEMMA InitInv == Init => IInv
<1> SUFFICES ASSUME Init PROVE IInv
  OBVIOUS
<1>1. TypeOK
  <2>1. fn_type # NoFunction => Len(fn_type.formals) \in Nat
    BY DEF Init, IsSignature, IsSequence
  <2> QED
    BY <2>1 DEF Init, TypeOK
<1>2. OverloadsComplete
  BY DEF Init, OverloadsComplete
<1>3. Building
  BY DEF Init, Building
<1> QED
  BY <1>1, <1>2, <1>3 DEF Init, IInv, DefaultMatches, NoCrash

\* A step that neither starts nor is part of the expansion leaves no overload.
LEMMA NotBuilding ==
  ASSUME IInv, pc \notin {"expand", "overloaded"}, UNCHANGED expansion,
         pc' # "overloaded"
  PROVE  OverloadsComplete' /\ Building'
<1>1. expanded_fns' = <<>> /\ type_var_types' = <<>>
  BY DEF IInv, Building, expansion
<1>2. \A k : k = 0 => FreshIds(k)' = <<>>
  BY DEF FreshIds, NewIds
<1>3. OverloadsComplete'
  BY <1>1 DEF OverloadsComplete
<1>4. Building'
  <2>1. Len(expanded_fns)' = 0
    BY <1>1
  <2>2. type_var_types' = FreshIds(Len(expanded_fns))'
    BY <1>1, <1>2, <2>1 DEF FreshIds, NewIds
  <2>3. expanded_fns' \in Seq(OverloadSet')
    BY <1>1
  <2> QED
    BY <1>1, <2>2, <2>3 DEF Building
<1> QED
  BY <1>3, <1>4

\* Every step of the callback preserves the invariant.
LEMMA StepInv == IInv /\ [Next]_vars => IInv'
<1> SUFFICES ASSUME IInv, [Next]_vars PROVE IInv'
  OBVIOUS
<1>0. fn_type # NoFunction => Len(fn_type.formals) \in Nat
  BY DEF IInv, TypeOK, IsSignature, IsSequence
<1>a. TypeOK /\ DefaultMatches /\ NoCrash
  BY DEF IInv
<1>b. version \in Nat
  BY DEF IInv, TypeOK
<1>1. CASE LoadPlugin
  <2>1. TypeOK'
    BY <1>0, <1>a, <1>1 DEF LoadPlugin, TypeOK, given, scan, expansion
  <2>2. DefaultMatches' /\ NoCrash'
    BY <1>b, <1>1 DEF LoadPlugin, DefaultMatches, NoCrash, ChoosesPlugin13,
       TypeVarTypeTakesDefault, given
  <2>3. OverloadsComplete' /\ Building'
    BY <1>1, NotBuilding DEF LoadPlugin
  <2> QED
    BY <2>1, <2>2, <2>3 DEF IInv
<1>2. CASE FailUsage \/ FailSecondCallable \/ FailMissing
  <2> USE <1>2 DEF FailUsage, FailSecondCallable, FailMissing, Fail, Scanning, Scanned
  <2>1. TypeOK'
    BY <1>0, <1>a DEF TypeOK, given, scan, expansion
  <2>2. DefaultMatches' /\ NoCrash'
    BY <1>a DEF DefaultMatches, NoCrash, TypeVarTypeTakesDefault, given
  <2>3. OverloadsComplete' /\ Building'
    BY NotBuilding
  <2> QED
    BY <2>1, <2>2, <2>3 DEF IInv
<1>3. CASE StartScan \/ StartExpansion
  <2> USE <1>3 DEF StartScan, StartExpansion, Scanned
  <2>1. TypeOK'
    BY <1>0, <1>a DEF TypeOK, given, scan, expansion
  <2>2. DefaultMatches' /\ NoCrash'
    BY <1>a DEF DefaultMatches, NoCrash, TypeVarTypeTakesDefault, given
  <2>3. OverloadsComplete' /\ Building'
    BY NotBuilding
  <2> QED
    BY <2>1, <2>2, <2>3 DEF IInv
<1>4. CASE ScanStarArgs \/ ScanCallable \/ ScanOther
  <2> USE <1>4 DEF ScanStarArgs, ScanCallable, ScanOther, Scanning
  <2>1. TypeOK'
    <3>1. fn_type # NoFunction /\ Len(fn_type.formals) \in Nat /\ idx \in 1..Len(fn_type.formals)
      BY <1>0, <1>a DEF TypeOK
    <3>2. idx' = idx + 1 /\ UNCHANGED <<version, has_default, fn_type, pc>>
      BY DEF given
    <3>3. args_idx' \in {args_idx, idx} /\ callable_idx' \in {callable_idx, idx}
      OBVIOUS
    <3>4. callable_idx' # 0 => (callable_args_idx \in AnyStars(callable_ty))'
      BY <1>a DEF TypeOK, AnyStars
    <3>5. UNCHANGED expansion
      OBVIOUS
    <3> QED
      BY <1>a, <3>1, <3>2, <3>3, <3>4, <3>5 DEF TypeOK, expansion
  <2>2. DefaultMatches' /\ NoCrash'
    BY <1>a DEF DefaultMatches, NoCrash, TypeVarTypeTakesDefault, given
  <2>3. OverloadsComplete' /\ Building'
    BY NotBuilding
  <2> QED
    BY <2>1, <2>2, <2>3 DEF IInv
<1>5. CASE Expand
  <2> DEFINE n == Len(expanded_fns)
  <2>1. /\ pc = "expand"
        /\ n + 1 <= MaxArgs + 1
        /\ UNCHANGED <<version, has_default, fn_type, idx, args_idx, callable_idx,
                       callable_args_idx, callable_ty>>
    BY <1>5 DEF Expand, InRange, arg_idx, given, scan
  <2>2. expanded_fns \in Seq(OverloadSet) /\ n \in Nat /\ type_var_types = FreshIds(n)
    BY <2>1 DEF IInv, Building
  <2>3. fn_type # NoFunction /\ fn_type \in Uses
    BY <1>a, <2>1 DEF TypeOK
  <2>4. /\ type_var_types' = Append(type_var_types, NewTypeVarId(fn_type, n + 1))
        /\ pc' = "expand"
    BY <1>5, <1>a, <2>1 DEF Expand, DefaultMatches, arg_idx
  <2>5. expanded_fns' = Append(expanded_fns, OverloadFor(n))
    BY <1>5, <2>2 DEF Expand, SplicedTypeVars, OverloadFor
  <2>6. type_var_types' = FreshIds(n + 1)
    BY <2>2, <2>3, <2>4, NextFreshIds
  <2>7. OverloadFor(n) \in OverloadSet
    BY <2>2 DEF OverloadSet
  <2>8. /\ expanded_fns' \in Seq(OverloadSet)
        /\ Len(expanded_fns') = n + 1
        /\ DOMAIN expanded_fns' = 1..(n + 1)
        /\ expanded_fns'[n + 1] = OverloadFor(n)
        /\ \A i \in 1..n : expanded_fns'[i] = expanded_fns[i]
    BY <2>2, <2>5, <2>7
  <2>9. \A k : FreshIds(k)' = FreshIds(k) /\ OverloadFor(k)' = OverloadFor(k)
    BY <2>1 DEF FreshIds, OverloadFor
  <2>10. TypeOK'
    <3>1. type_var_types' \in Seq(Int)
      BY <2>2, <2>3, <2>6, FreshIdsType
    <3>2. Len(expanded_fns)' \in 0..(MaxArgs + 1)
      BY <2>1, <2>2, <2>8
    <3> QED
      BY <1>a, <2>1, <2>3, <2>4, <3>1, <3>2 DEF TypeOK
  <2>11. OverloadsComplete'
    <3>1. \A i \in 1..n : expanded_fns[i] = OverloadFor(i - 1)
      BY <2>2 DEF IInv, OverloadsComplete
    <3>2. \A i \in 1..(n + 1) : expanded_fns'[i] = OverloadFor(i - 1)
      <4> TAKE i \in 1..(n + 1)
      <4>1. CASE i \in 1..n
        BY <4>1, <2>8, <3>1
      <4>2. CASE i = n + 1
        <5>1. i - 1 = n
          BY <4>2, <2>2
        <5> QED
          BY <4>2, <5>1, <2>8
      <4> QED
        BY <4>1, <4>2, <2>2
    <3>3. \A i \in DOMAIN expanded_fns' : expanded_fns'[i] = OverloadFor(i - 1)'
      BY <3>2, <2>8, <2>9
    <3> QED
      BY <2>4, <3>3 DEF OverloadsComplete
  <2>12. Building'
    <3>1. OverloadSet' = OverloadSet
      BY <2>9 DEF OverloadSet
    <3>2. type_var_types' = FreshIds(Len(expanded_fns))'
      BY <2>6, <2>8, <2>1 DEF FreshIds, NewIds
    <3> QED
      BY <2>4, <2>8, <3>1, <3>2 DEF Building
  <2>13. DefaultMatches' /\ NoCrash'
    BY <1>a, <2>1, <2>4 DEF DefaultMatches, NoCrash, TypeVarTypeTakesDefault
  <2> QED
    BY <2>10, <2>11, <2>12, <2>13 DEF IInv
<1>6. CASE ReturnOverloaded
  <2>1. pc = "expand" /\ pc' = "overloaded" /\ UNCHANGED <<given, has_default, scan, expansion>>
    BY <1>6 DEF ReturnOverloaded
  <2>2. Len(expanded_fns) = MaxArgs + 1
    BY <1>6, <1>a DEF ReturnOverloaded, InRange, arg_idx, TypeOK
  <2>3. TypeOK' /\ DefaultMatches' /\ NoCrash'
    BY <1>a, <2>1 DEF TypeOK, DefaultMatches, NoCrash, TypeVarTypeTakesDefault, given,
       scan, expansion
  <2>4. OverloadsComplete'
    BY <2>1, <2>2 DEF IInv, OverloadsComplete, OverloadFor, FreshIds, given, scan, expansion
  <2>5. Building'
    BY <2>1 DEF IInv, Building, OverloadSet, OverloadFor, FreshIds, given, scan, expansion
  <2> QED
    BY <2>3, <2>4, <2>5 DEF IInv
<1>7. CASE UNCHANGED vars
  BY <1>7 DEF vars, scan, expansion, IInv, TypeOK, OverloadsComplete, Building, OverloadSet,
     OverloadFor, FreshIds, DefaultMatches, TypeVarTypeTakesDefault, NoCrash
<1> QED
  BY <1>1, <1>2, <1>3, <1>4, <1>5, <1>6, <1>7 DEF Next

\* No type variable captures another: the ids of an overload count down from
\* below every one in scope.
LEMMA InvNoCapture == IInv => NoCapture
<1> SUFFICES ASSUME IInv, fn_type # NoFunction, fn_type.outer_vars <= 1,
                    NEW k \in DOMAIN expanded_fns
             PROVE  LET bound == expanded_fns[k].variables
                    IN  /\ \A i, j \in DOMAIN bound : bound[i] = bound[j] => i = j
                        /\ \A i \in (Len(fn_type.variables) + 1)..Len(bound) :
                             bound[i] \notin InScopeIds(fn_type)
  BY DEF NoCapture
<1> DEFINE n     == k - 1
           bound == expanded_fns[k].variables
           m     == Len(fn_type.variables)
           outer == fn_type.outer_vars
<1>1. k \in 1..Len(expanded_fns) /\ n \in Nat
  BY DEF IInv, Building
<1>2. fn_type \in Uses /\ IsSignature(fn_type)
  BY DEF IInv, TypeOK
<1>3. expanded_fns[k] = OverloadFor(n)
  BY DEF IInv, OverloadsComplete
<1>4. /\ m \in Nat
      /\ Len(bound) = m + n
      /\ DOMAIN bound = 1..(m + n)
      /\ \A i \in 1..m : bound[i] = -(outer + i)
      /\ \A i \in (m + 1)..(m + n) : bound[i] = -i - 1
  <2> HIDE DEF n
  <2>1. LET b == OverloadFor(n).variables
            l == Len(fn_type.variables)
        IN  /\ l \in Nat
            /\ Len(b) = l + n
            /\ DOMAIN b = 1..(l + n)
            /\ \A i \in 1..l : b[i] = -(fn_type.outer_vars + i)
            /\ \A i \in (l + 1)..(l + n) : b[i] = -i - 1
    BY <1>1, <1>2, BoundIds
  <2>2. bound = OverloadFor(n).variables
    BY <1>3
  <2> QED
    BY <2>1, <2>2
<1>5. outer \in {0, 1}
  BY <1>2 DEF IsSignature
<1>6. \A x \in InScopeIds(fn_type) : \E i \in 1..(outer + m) : x = -i
  <2>1. DOMAIN fn_type.variables = 1..m
    BY <1>2 DEF IsSignature, IsSequence
  <2>2. \A i \in 1..m : fn_type.variables[i] = -(outer + i)
    BY <1>2, <2>1 DEF IsSignature
  <2> HIDE DEF m, outer
  <2>3. \A i \in 1..m : outer + i \in 1..(outer + m)
    BY <1>4, <1>5
  <2>4. \A i \in 1..outer : i \in 1..(outer + m)
    BY <1>4, <1>5
  <2> QED
    BY <2>1, <2>2, <2>3, <2>4 DEF InScopeIds, outer
<1> HIDE DEF n, bound, m, outer
<1>7. ASSUME NEW i \in DOMAIN bound, NEW j \in DOMAIN bound, bound[i] = bound[j]
      PROVE  i = j
  BY <1>1, <1>4, <1>5, <1>7
<1>8. ASSUME NEW i \in (m + 1)..Len(bound)
      PROVE  bound[i] \notin InScopeIds(fn_type)
  <2>1. bound[i] = -i - 1 /\ i > m /\ i \in Int
    BY <1>1, <1>4
  <2>2. ASSUME NEW j \in 1..(outer + m) PROVE bound[i] # -j
    BY <2>1, <1>4, <1>5
  <2> QED
    BY <2>2, <1>6
<1> QED
  BY <1>7, <1>8 DEF bound, m

-----------------------------------------------------------------------------
(* The scan. *)

\* What the locals say of the formals passed so far: whether there was an
\* *args: Any, and which one is the callable, if any is.
Passed ==
  fn_type # NoFunction =>
    /\ args_idx # 0 => IsAnyStar(fn_type.formals[args_idx])
    /\ args_idx = 0 => \A i \in 1..(idx - 1) : ~ IsAnyStar(fn_type.formals[i])
    /\ \A i \in 1..(idx - 1) : CallablesOf(fn_type.formals[i]) # {} <=> i = callable_idx
    /\ callable_idx # 0 => callable_ty \in CallablesOf(fn_type.formals[callable_idx])

AllPassed ==
  pc \in {"expand", "overloaded", "crashed"} =>
    /\ fn_type # NoFunction
    /\ idx = Len(fn_type.formals) + 1
    /\ ~ SomethingMissing

NonePassed ==
  pc \in {"load", "RuntimeError", "usage"} => idx = 1 /\ args_idx = 0 /\ callable_idx = 0

ScanInv == Passed /\ AllPassed /\ NonePassed /\ FailsIffInvalid

\* *args: Any is not a callable that may be passed anything.
LEMMA StarIsNoCallable ==
  ASSUME NEW f, IsAnyStar(f)
  PROVE  CallablesOf(f) = {}
BY DEF IsAnyStar, CallablesOf, CandidatesOf

\* The locals are unchanged by a step that leaves the scan alone.
LEMMA PassedStays ==
  ASSUME Passed, UNCHANGED <<given, scan>>
  PROVE  Passed'
BY DEF Passed, given, scan, IsAnyStar

\* At the end of the formals, the locals say whether the use is valid.
LEMMA PassedAll ==
  ASSUME TypeOK, Passed, fn_type # NoFunction, idx = Len(fn_type.formals) + 1
  PROVE  ValidUse <=> ~ SomethingMissing
<1>1. fn_type.formals \in Seq({fn_type.formals[i] : i \in DOMAIN fn_type.formals})
  BY DEF TypeOK, IsSignature, IsSequence
<1>2. DOMAIN fn_type.formals = 1..(idx - 1) /\ idx \in Nat \ {0}
  BY <1>1
<1>3. args_idx \in 0..(idx - 1) /\ callable_idx \in 0..(idx - 1)
  BY DEF TypeOK
<1>4. (\E i \in DOMAIN fn_type.formals : IsAnyStar(fn_type.formals[i])) <=> args_idx # 0
  BY <1>2, <1>3 DEF Passed
<1>5. (\E i \in DOMAIN fn_type.formals : \A j \in DOMAIN fn_type.formals :
         CallablesOf(fn_type.formals[j]) # {} <=> i = j) <=> callable_idx # 0
  <2>1. \A j \in DOMAIN fn_type.formals :
          CallablesOf(fn_type.formals[j]) # {} <=> j = callable_idx
    BY <1>2 DEF Passed
  <2>2. callable_idx # 0 <=> callable_idx \in DOMAIN fn_type.formals
    BY <1>2, <1>3
  <2> QED
    BY <2>1, <2>2
<1> QED
  BY <1>4, <1>5 DEF ValidUse, SomethingMissing

\* A second callable makes the use invalid, whatever follows it.
LEMMA SecondCallableInvalid ==
  ASSUME TypeOK, Passed, FailSecondCallable
  PROVE  fn_type # NoFunction /\ ~ ValidUse
<1>1. fn_type # NoFunction /\ callable_idx # 0 /\ CallablesOf(fn_type.formals[idx]) # {}
  BY DEF FailSecondCallable, Scanning, formal, TypeOK
<1>2. fn_type.formals \in Seq({fn_type.formals[i] : i \in DOMAIN fn_type.formals})
  BY <1>1 DEF TypeOK, IsSignature, IsSequence
<1>3. /\ idx \in DOMAIN fn_type.formals /\ callable_idx \in DOMAIN fn_type.formals
      /\ callable_idx \in 1..(idx - 1) /\ callable_idx # idx
  <2>1. Len(fn_type.formals) \in Nat /\ DOMAIN fn_type.formals = 1..Len(fn_type.formals)
    BY <1>2
  <2>2. idx \in 1..Len(fn_type.formals) /\ callable_idx \in 0..(idx - 1)
    BY <1>1, <2>1 DEF FailSecondCallable, Scanning, TypeOK
  <2> QED
    BY <1>1, <2>1, <2>2
<1>4. CallablesOf(fn_type.formals[callable_idx]) # {}
  BY <1>1, <1>3 DEF Passed
<1> QED
  BY <1>1, <1>3, <1>4 DEF ValidUse

LEMMA InitScan == Init => ScanInv
BY DEF Init, ScanInv, Passed, AllPassed, NonePassed, FailsIffInvalid

\* Every step keeps what the locals say of the formals, and a step that fails
\* does so on an invalid use.
LEMMA StepScan == TypeOK /\ ScanInv /\ [Next]_vars => ScanInv'
<1> SUFFICES ASSUME TypeOK, ScanInv, [Next]_vars PROVE ScanInv'
  OBVIOUS
<1>0. Passed /\ AllPassed /\ NonePassed /\ FailsIffInvalid
  BY DEF ScanInv
<1>v. fn_type' = fn_type => (ValidUse' <=> ValidUse)
  BY DEF ValidUse, IsAnyStar
<1>1. CASE LoadPlugin
  <2> USE <1>1 DEF LoadPlugin, given, scan
  <2>1. Passed'
    BY <1>0, PassedStays
  <2> QED
    BY <1>0, <2>1 DEF ScanInv, AllPassed, NonePassed, FailsIffInvalid
<1>2. CASE FailUsage \/ FailSecondCallable \/ FailMissing
  <2> USE <1>2 DEF FailUsage, FailSecondCallable, FailMissing, Fail
  <2>1. Passed'
    BY <1>0, PassedStays
  <2>2. ~ ValidUse
    <3>1. CASE FailUsage
      BY <3>1 DEF ValidUse
    <3>2. CASE FailSecondCallable
      BY <3>2, <1>0, SecondCallableInvalid
    <3>3. CASE FailMissing
      <4>1. fn_type # NoFunction /\ idx = Len(fn_type.formals) + 1
        BY <3>3 DEF Scanned, TypeOK, IsSignature, IsSequence
      <4> QED
        BY <3>3, <4>1, <1>0, PassedAll
    <3> QED
      BY <3>1, <3>2, <3>3
  <2> QED
    BY <2>1, <2>2, <1>v DEF ScanInv, AllPassed, NonePassed, FailsIffInvalid, given
<1>3. CASE StartScan
  <2> USE <1>3 DEF StartScan
  <2>1. Passed'
    BY <1>0, PassedStays
  <2> QED
    BY <1>0, <2>1 DEF ScanInv, AllPassed, NonePassed, FailsIffInvalid
<1>4. CASE ScanStarArgs \/ ScanCallable \/ ScanOther
  <2> USE <1>4 DEF ScanStarArgs, ScanCallable, ScanOther, Scanning
  <2>1. fn_type # NoFunction /\ idx \in Nat \ {0} /\ args_idx \in 0..(idx - 1) /\ callable_idx \in 0..(idx - 1)
    BY DEF TypeOK, IsSignature, IsSequence
  <2>2. idx' = idx + 1 /\ UNCHANGED <<fn_type, pc>> /\ pc = "scan"
    BY DEF given
  <2>3. \A i \in 1..(idx' - 1) : i = idx \/ i \in 1..(idx - 1)
    BY <2>1, <2>2
  <2>4. \A i \in 1..(idx - 1) :
          /\ args_idx = 0 => ~ IsAnyStar(fn_type.formals[i])
          /\ CallablesOf(fn_type.formals[i]) # {} <=> i = callable_idx
    BY <1>0, <2>1 DEF Passed
  <2>5. args_idx # 0 => IsAnyStar(fn_type.formals[args_idx])
    BY <1>0, <2>1 DEF Passed
  <2>6. /\ args_idx' # 0 => IsAnyStar(fn_type.formals[args_idx'])
        /\ args_idx' = 0 => args_idx = 0 /\ ~ IsAnyStar(fn_type.formals[idx])
    BY <2>1, <2>5, StarIsNoCallable DEF formal
  <2>7. /\ \A i \in 1..(idx - 1) : i = callable_idx' <=> i = callable_idx
        /\ CallablesOf(fn_type.formals[idx]) # {} <=> idx = callable_idx'
    BY <2>1, StarIsNoCallable DEF formal
  <2>8. \A i \in 1..(idx' - 1) :
          /\ args_idx' = 0 => ~ IsAnyStar(fn_type.formals[i])
          /\ CallablesOf(fn_type.formals[i]) # {} <=> i = callable_idx'
    BY <2>3, <2>4, <2>6, <2>7
  <2>9. callable_idx' # 0 => callable_ty' \in CallablesOf(fn_type.formals[callable_idx'])
    BY <1>0, <2>1 DEF Passed, formal
  <2>10. Passed'
    BY <2>2, <2>6, <2>8, <2>9 DEF Passed, IsAnyStar
  <2> QED
    BY <2>2, <2>10, <1>0 DEF ScanInv, AllPassed, NonePassed, FailsIffInvalid
<1>5. CASE StartExpansion
  <2> USE <1>5 DEF StartExpansion, Scanned
  <2>1. Passed'
    BY <1>0, PassedStays
  <2>2. fn_type # NoFunction /\ idx = Len(fn_type.formals) + 1
    BY DEF TypeOK, IsSignature, IsSequence
  <2>3. ValidUse
    BY <1>0, <2>2, PassedAll
  <2>4. UNCHANGED <<fn_type, idx, args_idx, callable_idx>> /\ pc' = "expand"
    BY DEF given, scan
  <2> QED
    BY <1>v, <2>1, <2>2, <2>3, <2>4 DEF ScanInv, AllPassed, NonePassed, FailsIffInvalid,
       SomethingMissing
<1>6. CASE Expand \/ ReturnOverloaded \/ UNCHANGED vars
  <2>1. UNCHANGED <<given, scan>>
    BY <1>6 DEF Expand, ReturnOverloaded, vars, given
  <2>2. \/ pc = "expand" /\ pc' \in {"expand", "overloaded", "crashed"}
        \/ UNCHANGED pc
    BY <1>6 DEF Expand, ReturnOverloaded, vars
  <2>3. Passed'
    BY <1>0, <2>1, PassedStays
  <2>4. UNCHANGED <<fn_type, idx, args_idx, callable_idx>>
    BY <2>1 DEF given, scan
  <2> QED
    BY <1>0, <1>v, <2>2, <2>3, <2>4 DEF ScanInv, AllPassed, NonePassed, FailsIffInvalid,
       SomethingMissing
<1> QED
  BY <1>1, <1>2, <1>3, <1>4, <1>5, <1>6 DEF Next

-----------------------------------------------------------------------------
(* The theorems. *)

THEOREM CallbackInvariant == Spec => []IInv
<1>1. Init => IInv
  BY InitInv
<1>2. IInv /\ [Next]_vars => IInv'
  BY StepInv
<1> QED
  BY <1>1, <1>2, PTL DEF Spec

\* The locals of the callback stay within the signature it scans.
THEOREM CallbackTypeOK == Spec => []TypeOK
<1>1. IInv => TypeOK
  BY DEF IInv
<1> QED
  BY <1>1, CallbackInvariant, PTL

\* There is an overload for every number of arguments up to the limit, each with
\* the type variables of its own arity, although the loop builds all of them from
\* the one list it keeps appending to (plugin.py lines 412-488).
THEOREM OverloadsAreComplete == Spec => []OverloadsComplete
<1>1. IInv => OverloadsComplete
  BY DEF IInv
<1> QED
  BY <1>1, CallbackInvariant, PTL

\* The type variables the callback makes are distinct from one another and from
\* all those in scope, with at most one of an enclosing function (lines 467, 480).
THEOREM TypeVarsAreFresh == Spec => []NoCapture
<1>1. IInv => NoCapture
  BY InvNoCapture
<1> QED
  BY <1>1, CallbackInvariant, PTL

\* The plugin chosen by plugin(version) calls TypeVarType as that version of mypy
\* wants (lines 462-486 and 497-505).
THEOREM ConstructorMatchesVersion == Spec => []NoCrash
<1>1. IInv => NoCrash
  BY DEF IInv
<1> QED
  BY <1>1, CallbackInvariant, PTL

\* What the locals say of the formals they passed, at every step of the callback.
THEOREM ScanInvariant == Spec => []ScanInv
<1>1. Init => ScanInv
  BY InitScan
<1>2. TypeOK /\ ScanInv /\ [Next]_vars => ScanInv'
  BY StepScan
<1> QED
  BY <1>1, <1>2, CallbackTypeOK, PTL DEF Spec

\* The callback fails exactly on the uses that do not decorate a function with
\* one *args: Any and one callable to pass it to, for functions of any number of
\* formals in any order (lines 357-410).
THEOREM CallbackFailsIffInvalid == Spec => []FailsIffInvalid
<1>1. ScanInv => FailsIffInvalid
  BY DEF ScanInv
<1> QED
  BY <1>1, ScanInvariant, PTL

-----------------------------------------------------------------------------
(* What the callback returns. *)

\* A formal stands for one callable, which has one *args: Any.
LEMMA OneCallable ==
  ASSUME NEW sig, IsSignature(sig), NEW i \in DOMAIN sig.formals,
         NEW c \in CallablesOf(sig.formals[i]), NEW d \in CallablesOf(sig.formals[i])
  PROVE  c = d /\ \A j, k \in AnyStars(c) : j = k
<1> DEFINE f == sig.formals[i]
<1>1. c \in CandidatesOf(f) /\ d \in CandidatesOf(f)
  BY DEF CallablesOf
<1>2. f.type.form = "union" => IsSequence(f.type.items)
  BY DEF IsSignature
<1>3. OneStar(c.formals)
  BY <1>1 DEF IsSignature
<1> HIDE DEF f
<1>4. c = d
  <2>1. CASE f.type.form = "callable"
    BY <1>1, <2>1 DEF CandidatesOf
  <2>2. CASE f.type.form # "callable"
    <3> DEFINE arms == VarArgArms(f.type)
    <3>1. PICK m \in arms : c = f.type.items[m] /\ \A j \in arms : m <= j
      BY <1>1, <2>2 DEF CandidatesOf
    <3>2. PICK n \in arms : d = f.type.items[n] /\ \A j \in arms : n <= j
      BY <1>1, <2>2 DEF CandidatesOf
    <3>3. f.type.form = "union"
      BY <1>1, <2>2 DEF CandidatesOf
    <3>4. m \in Int /\ n \in Int
      <4>1. f.type.items \in Seq({f.type.items[j] : j \in DOMAIN f.type.items})
        BY <1>2, <3>3 DEF IsSequence
      <4>2. DOMAIN f.type.items \subseteq Int
        BY <4>1
      <4> QED
        BY <4>2 DEF VarArgArms
    <3>5. m <= n /\ n <= m
      BY <3>1, <3>2
    <3> HIDE DEF arms
    <3> QED
      BY <3>1, <3>2, <3>4, <3>5
  <2> QED
    BY <2>1, <2>2
<1>5. \A j, k \in AnyStars(c) : j = k
  BY <1>3 DEF AnyStars, IsAnyStar, OneStar
<1> QED
  BY <1>4, <1>5

\* The scan ends with the parts of the signature that the overloads are made of.
LEMMA ScannedParts ==
  ASSUME TypeOK, ScanInv, pc \in {"expand", "overloaded", "crashed"}
  PROVE  /\ args_idx = ArgsAt(fn_type) /\ callable_idx = CallableAt(fn_type)
         /\ callable_ty = SplattedOf(fn_type) /\ callable_args_idx = SplatAt(fn_type)
<1>1. /\ fn_type # NoFunction /\ IsSignature(fn_type)
      /\ idx = Len(fn_type.formals) + 1 /\ args_idx # 0 /\ callable_idx # 0
  BY DEF TypeOK, ScanInv, AllPassed, SomethingMissing
<1>2. /\ DOMAIN fn_type.formals = 1..(idx - 1)
      /\ args_idx \in DOMAIN fn_type.formals /\ callable_idx \in DOMAIN fn_type.formals
  <2>1. fn_type.formals \in Seq({fn_type.formals[i] : i \in DOMAIN fn_type.formals})
    BY <1>1 DEF IsSignature, IsSequence
  <2>2. DOMAIN fn_type.formals = 1..(idx - 1) /\ idx \in Nat \ {0}
    BY <1>1, <2>1
  <2> QED
    BY <1>1, <2>2 DEF TypeOK
<1>3. /\ IsAnyStar(fn_type.formals[args_idx])
      /\ \A i \in DOMAIN fn_type.formals : CallablesOf(fn_type.formals[i]) # {} <=> i = callable_idx
      /\ callable_ty \in CallablesOf(fn_type.formals[callable_idx])
      /\ callable_args_idx \in AnyStars(callable_ty)
  BY <1>1, <1>2 DEF TypeOK, ScanInv, Passed
<1>4. args_idx = ArgsAt(fn_type)
  <2>1. \A i \in DOMAIN fn_type.formals : IsAnyStar(fn_type.formals[i]) => i = args_idx
    BY <1>1, <1>2, <1>3 DEF IsSignature, OneStar, IsAnyStar
  <2> QED
    BY <1>2, <1>3, <2>1 DEF ArgsAt
<1>5. callable_idx = CallableAt(fn_type)
  BY <1>2, <1>3 DEF CallableAt
<1>6. callable_ty = SplattedOf(fn_type)
  <2>1. \A c \in CallablesOf(fn_type.formals[callable_idx]) : c = callable_ty
    BY <1>1, <1>2, <1>3, OneCallable
  <2> QED
    BY <1>3, <1>5, <2>1 DEF SplattedOf
<1>7. callable_args_idx = SplatAt(fn_type)
  <2>1. \A j \in AnyStars(callable_ty) : j = callable_args_idx
    BY <1>1, <1>2, <1>3, OneCallable
  <2> QED
    BY <1>3, <1>6, <2>1 DEF SplatAt
<1> QED
  BY <1>4, <1>5, <1>6, <1>7

\* What the callback returns depends on the decorated signature alone: the overloads
\* of the one callable and the one *args: Any the signature has, wherever they are
\* and whatever else is (lines 360-488).  StartCalls checks calls with them.
THEOREM CallbackExpandsSignature == Spec => []ExpandsSignature
<1>1. IInv /\ ScanInv => ExpandsSignature
  <2> SUFFICES ASSUME IInv, ScanInv, pc = "overloaded"
               PROVE  expanded_fns = Overloads(fn_type, MaxArgs)
    BY DEF ExpandsSignature
  <2>1. TypeOK /\ OverloadsComplete /\ expanded_fns \in Seq(OverloadSet)
    BY DEF IInv, Building
  <2>2. \A n : OverloadFor(n) = Expanded(fn_type, NewIds(fn_type, n))
    BY <2>1, ScannedParts DEF OverloadFor, Expanded, FreshIds
  <2>3. Len(expanded_fns) = MaxArgs + 1
    BY <2>1 DEF OverloadsComplete
  <2>4. \A n \in 1..(MaxArgs + 1) : expanded_fns[n] = Expanded(fn_type, NewIds(fn_type, n - 1))
    BY <2>1, <2>2, <2>3 DEF OverloadsComplete
  <2>5. expanded_fns = [n \in 1..(MaxArgs + 1) |-> expanded_fns[n]]
    BY <2>1, <2>3
  <2> QED
    BY <2>4, <2>5 DEF Overloads
<1> QED
  BY <1>1, CallbackInvariant, ScanInvariant, PTL

\* None of Trio's functions that the stubs decorate is refused: the plugin has
\* overloads for each of them, on every version of mypy that it supports.
StubsNotRefused == fn_type \in TrioFunctions \ {NoFunction} => pc # "failed"

THEOREM StubsAreNotRefused == Spec => []StubsNotRefused
<1>1. FailsIffInvalid => StubsNotRefused
  <2> SUFFICES ASSUME fn_type \in TrioFunctions, fn_type # NoFunction PROVE ValidUse
    BY DEF FailsIffInvalid, StubsNotRefused
  <2>1. OneCallableAndStar(fn_type)
    BY StubsAreValid
  <2>2. \E i \in DOMAIN fn_type.formals : IsAnyStar(fn_type.formals[i])
    BY <2>1 DEF OneCallableAndStar
  <2>3. \E i \in DOMAIN fn_type.formals : \A j \in DOMAIN fn_type.formals :
          CallablesOf(fn_type.formals[j]) # {} <=> i = j
    BY <2>1 DEF OneCallableAndStar
  <2> QED
    BY <2>2, <2>3 DEF ValidUse
<1> QED
  BY <1>1, CallbackFailsIffInvalid, PTL

=============================================================================
