------------------------ MODULE VariadicStubs_proofs ------------------------
(***************************************************************************)
(* Proofs about the signatures of the stubs and what the plugin makes of   *)
(* them: what OfKinds() selects from a sequence of formals, and what the   *)
(* overloads of a stub look like for any number of arguments.              *)
(***************************************************************************)
EXTENDS VariadicStubs, FiniteSetTheorems, SequenceTheorems, TLAPS

-----------------------------------------------------------------------------
(* Induction over the natural numbers, for a set in the place of a predicate. *)

LEMMA SetInduction ==
  ASSUME NEW S, 0 \in S, \A n \in Nat : n \in S => n + 1 \in S
  PROVE  Nat \subseteq S
<1> SUFFICES ASSUME NEW k \in Nat, k \notin S PROVE FALSE
  OBVIOUS
<1> DEFINE T == {1..n : n \in {m \in 0..k : m \notin S}}
<1>1. IsWellFoundedOn(StrictSubsetOrdering(1..k), SUBSET (1..k))
  <2>1. IsFiniteSet(1..k)
    BY FS_Interval
  <2> QED
    BY <2>1, FS_StrictSubsetOrderingWellFounded, FS_FiniteSubsetsOfFinite
<1>2. T \subseteq SUBSET (1..k) /\ T # {}
  <2>1. 1..k \in T
    OBVIOUS
  <2>2. ASSUME NEW n \in 0..k PROVE 1..n \subseteq 1..k
    OBVIOUS
  <2> QED
    BY <2>1, <2>2
<1>3. PICK M \in T : \A Y \in T : <<Y, M>> \notin StrictSubsetOrdering(1..k)
  <2> HIDE DEF T
  <2> QED
    BY <1>1, <1>2, WFMin
<1>4. PICK m \in 0..k : m \notin S /\ M = 1..m
  BY <1>3
<1>5. m # 0 /\ m - 1 \in 0..k /\ m - 1 \notin S
  <2>1. m # 0
    BY <1>4
  <2>2. m - 1 \in Nat /\ (m - 1) + 1 = m
    BY <2>1
  <2> QED
    BY <1>4, <2>1, <2>2
<1>6. 1..(m - 1) \in T
  BY <1>5
<1>7. 1..(m - 1) \subseteq 1..m /\ 1..(m - 1) # 1..m /\ 1..m \in SUBSET (1..k)
  <2>1. m \in 1..m /\ m \notin 1..(m - 1)
    BY <1>5
  <2> QED
    BY <2>1, <1>5
<1>8. <<1..(m - 1), M>> \in StrictSubsetOrdering(1..k)
  BY <1>4, <1>7 DEF StrictSubsetOrdering
<1> QED
  BY <1>3, <1>6, <1>8

-----------------------------------------------------------------------------
(* What OfKinds() selects. *)

\* The function by which OfKinds() is defined, on the first n formals.
Among(f, formals, kinds, n) ==
  f = [i \in 0..n |->
         IF i = 0 THEN <<>>
         ELSE IF formals[i].kind \in kinds THEN Append(f[i - 1], formals[i])
         ELSE f[i - 1]]

LEMMA AmongExists ==
  ASSUME NEW formals, NEW kinds
  PROVE  \A n \in Nat : \E f : Among(f, formals, kinds, n)
<1> DEFINE S == {n \in Nat : \E f : Among(f, formals, kinds, n)}
<1>1. 0 \in S
  <2> DEFINE f == [i \in 0..0 |-> <<>>]
  <2>1. Among(f, formals, kinds, 0)
    BY DEF Among
  <2> QED
    BY <2>1
<1>2. ASSUME NEW n \in Nat, n \in S PROVE n + 1 \in S
  <2>1. PICK f : Among(f, formals, kinds, n)
    BY <1>2
  <2> DEFINE last == IF formals[n + 1].kind \in kinds THEN Append(f[n], formals[n + 1]) ELSE f[n]
             g    == [i \in 0..(n + 1) |-> IF i = n + 1 THEN last ELSE f[i]]
  <2>2. DOMAIN g = 0..(n + 1) /\ g[n + 1] = last /\ \A i \in 0..n : g[i] = f[i]
    OBVIOUS
  <2>3. \A i \in 0..n : f[i] = IF i = 0 THEN <<>>
                               ELSE IF formals[i].kind \in kinds THEN Append(f[i - 1], formals[i])
                               ELSE f[i - 1]
    BY <2>1 DEF Among
  <2>4. ASSUME NEW i \in 0..(n + 1)
        PROVE  g[i] = IF i = 0 THEN <<>>
                      ELSE IF formals[i].kind \in kinds THEN Append(g[i - 1], formals[i])
                      ELSE g[i - 1]
    <3>1. i # 0 => i - 1 \in 0..n
      OBVIOUS
    <3>2. CASE i = n + 1
      <4>1. g[i - 1] = f[n]
        BY <2>2, <3>1, <3>2
      <4> QED
        BY <2>2, <3>2, <4>1
    <3>3. CASE i \in 0..n
      BY <2>2, <2>3, <3>1, <3>3
    <3> QED
      BY <3>2, <3>3
  <2>5. Among(g, formals, kinds, n + 1)
    <3> HIDE DEF last
    <3> QED
      BY <2>4 DEF Among
  <2> QED
    BY <2>5
<1>3. Nat \subseteq S
  <2> HIDE DEF S
  <2> QED
    BY <1>1, <1>2, SetInduction
<1> QED
  BY <1>3

LEMMA OfKindsIs ==
  ASSUME NEW T, NEW formals \in Seq(T), NEW kinds
  PROVE  \E f : /\ Among(f, formals, kinds, Len(formals))
                /\ OfKinds(formals, kinds) = f[Len(formals)]
<1> DEFINE f == CHOOSE g : Among(g, formals, kinds, Len(formals))
<1>1. Among(f, formals, kinds, Len(formals))
  BY AmongExists
<1>2. OfKinds(formals, kinds) = f[Len(formals)]
  BY DEF OfKinds, Among
<1> QED
  BY <1>1, <1>2

\* The entries of that function, without their definition.
LEMMA AmongEntries ==
  ASSUME NEW f, NEW formals, NEW kinds, NEW n \in Nat, Among(f, formals, kinds, n)
  PROVE  /\ f[0] = <<>>
         /\ \A i \in 1..n : f[i] = IF formals[i].kind \in kinds THEN Append(f[i - 1], formals[i])
                                  ELSE f[i - 1]
<1> DEFINE g == [i \in 0..n |->
                   IF i = 0 THEN <<>>
                   ELSE IF formals[i].kind \in kinds THEN Append(f[i - 1], formals[i])
                   ELSE f[i - 1]]
<1>1. f = g
  BY DEF Among
<1>2. g[0] = <<>>
  OBVIOUS
<1>3. \A i \in 1..n : i # 0 /\ i \in 0..n
  OBVIOUS
<1>4. \A i \in 1..n : g[i] = IF formals[i].kind \in kinds THEN Append(f[i - 1], formals[i])
                            ELSE f[i - 1]
  BY <1>3
<1> HIDE DEF g
<1> QED
  BY <1>1, <1>2, <1>4

\* It depends on those formals only.
LEMMA AmongAgree ==
  ASSUME NEW f, NEW g, NEW s, NEW t, NEW kinds, NEW n \in Nat, NEW m \in Nat, n <= m,
         Among(f, s, kinds, n), Among(g, t, kinds, m), \A i \in 1..n : s[i] = t[i]
  PROVE  f[n] = g[n]
<1> DEFINE S == {i \in Nat : i <= n => f[i] = g[i]}
<1>1. 0 \in S
  BY AmongEntries
<1>2. ASSUME NEW i \in Nat, i \in S PROVE i + 1 \in S
  <2>1. CASE i + 1 <= n
    <3>1. i + 1 \in 1..n /\ i + 1 \in 1..m /\ (i + 1) - 1 = i
      BY <2>1
    <3>2. f[i] = g[i] /\ s[i + 1] = t[i + 1]
      BY <1>2, <2>1, <3>1
    <3>3. f[i + 1] = IF s[i + 1].kind \in kinds THEN Append(f[i], s[i + 1]) ELSE f[i]
      BY <3>1, AmongEntries
    <3>4. g[i + 1] = IF t[i + 1].kind \in kinds THEN Append(g[i], t[i + 1]) ELSE g[i]
      BY <3>1, AmongEntries
    <3> QED
      BY <3>2, <3>3, <3>4
  <2> QED
    BY <2>1
<1>3. Nat \subseteq S
  <2> HIDE DEF S
  <2> QED
    BY <1>1, <1>2, SetInduction
<1> QED
  BY <1>3

LEMMA OfKindsEmpty ==
  ASSUME NEW kinds
  PROVE  OfKinds(<<>>, kinds) = <<>>
<1>1. <<>> \in Seq({}) /\ Len(<<>>) = 0
  OBVIOUS
<1>2. PICK f : Among(f, <<>>, kinds, 0) /\ OfKinds(<<>>, kinds) = f[0]
  BY <1>1, OfKindsIs
<1>3. f[0] = <<>>
  BY <1>2, AmongEntries
<1> QED
  BY <1>2, <1>3

\* One more formal is selected or is not.
LEMMA OfKindsAppend ==
  ASSUME NEW T, NEW formals \in Seq(T), NEW formal \in T, NEW kinds
  PROVE  OfKinds(Append(formals, formal), kinds) =
           IF formal.kind \in kinds THEN Append(OfKinds(formals, kinds), formal)
           ELSE OfKinds(formals, kinds)
<1> DEFINE n == Len(formals)
           longer == Append(formals, formal)
<1>1. /\ longer \in Seq(T) /\ Len(longer) = n + 1 /\ longer[n + 1] = formal
      /\ \A i \in 1..n : formals[i] = longer[i]
      /\ n \in Nat
  OBVIOUS
<1> HIDE DEF longer
<1>2. PICK f : Among(f, formals, kinds, n) /\ OfKinds(formals, kinds) = f[n]
  BY OfKindsIs
<1>3. PICK g : Among(g, longer, kinds, n + 1) /\ OfKinds(longer, kinds) = g[n + 1]
  BY <1>1, OfKindsIs
<1>4. f[n] = g[n]
  <2>1. n + 1 \in Nat /\ n <= n + 1
    BY <1>1
  <2> QED
    BY <1>1, <1>2, <1>3, <2>1, AmongAgree
<1>5. g[n + 1] = IF longer[n + 1].kind \in kinds THEN Append(g[n], longer[n + 1]) ELSE g[n]
  <2>1. n + 1 \in 1..(n + 1) /\ (n + 1) - 1 = n /\ n + 1 \in Nat
    BY <1>1
  <2> QED
    BY <1>3, <2>1, AmongEntries
<1> QED
  BY <1>1, <1>2, <1>3, <1>4, <1>5 DEF longer

\* A property of the empty sequence that appending preserves holds of every one.
LEMMA SequenceInduction ==
  ASSUME NEW T, NEW S, <<>> \in S,
         \A s \in Seq(T), e \in T : s \in S => Append(s, e) \in S
  PROVE  Seq(T) \subseteq S
<1> DEFINE N == {n \in Nat : \A s \in Seq(T) : Len(s) = n => s \in S}
<1>1. 0 \in N
  <2>1. \A s \in Seq(T) : Len(s) = 0 => s = <<>>
    OBVIOUS
  <2> QED
    BY <2>1
<1>2. ASSUME NEW n \in Nat, n \in N PROVE n + 1 \in N
  <2> SUFFICES ASSUME NEW s \in Seq(T), Len(s) = n + 1 PROVE s \in S
    OBVIOUS
  <2> DEFINE front == [i \in 1..n |-> s[i]]
  <2>1. front \in Seq(T) /\ Len(front) = n /\ s[n + 1] \in T
    OBVIOUS
  <2>2. s = Append(front, s[n + 1])
    OBVIOUS
  <2>3. front \in S
    BY <1>2, <2>1
  <2> HIDE DEF front
  <2> QED
    BY <2>1, <2>2, <2>3
<1>3. Nat \subseteq N
  <2> HIDE DEF N
  <2> QED
    BY <1>1, <1>2, SetInduction
<1> QED
  BY <1>3

LEMMA OfKindsType ==
  ASSUME NEW T, NEW formals \in Seq(T), NEW kinds
  PROVE  OfKinds(formals, kinds) \in Seq(T)
<1> DEFINE S == {s \in Seq(T) : OfKinds(s, kinds) \in Seq(T)}
<1>1. <<>> \in S
  <2>1. <<>> \in Seq(T)
    OBVIOUS
  <2> QED
    BY <2>1, OfKindsEmpty
<1>2. ASSUME NEW s \in Seq(T), NEW e \in T, s \in S PROVE Append(s, e) \in S
  <2>1. /\ Append(s, e) \in Seq(T)
        /\ OfKinds(s, kinds) \in Seq(T)
        /\ Append(OfKinds(s, kinds), e) \in Seq(T)
    BY <1>2
  <2>2. OfKinds(Append(s, e), kinds) =
          IF e.kind \in kinds THEN Append(OfKinds(s, kinds), e) ELSE OfKinds(s, kinds)
    BY OfKindsAppend
  <2> QED
    BY <2>1, <2>2
<1>3. Seq(T) \subseteq S
  <2> HIDE DEF S
  <2> QED
    BY <1>1, <1>2, SequenceInduction
<1> QED
  BY <1>3

LEMMA OfKindsConcatSame ==
  ASSUME NEW T, NEW s \in Seq(T), NEW t \in Seq(T), NEW kinds
  PROVE  OfKinds(s \o t, kinds) = OfKinds(s, kinds) \o OfKinds(t, kinds)
<1> DEFINE S == {u \in Seq(T) : OfKinds(s \o u, kinds) = OfKinds(s, kinds) \o OfKinds(u, kinds)}
<1>1. <<>> \in S
  <2>1. OfKinds(s, kinds) \in Seq(T)
    BY OfKindsType
  <2>2. s \o <<>> = s /\ OfKinds(s, kinds) \o <<>> = OfKinds(s, kinds)
    BY <2>1
  <2>3. <<>> \in Seq(T)
    OBVIOUS
  <2> QED
    BY <2>2, <2>3, OfKindsEmpty
<1>2. ASSUME NEW u \in Seq(T), NEW e \in T, u \in S PROVE Append(u, e) \in S
  <2>1. s \o u \in Seq(T) /\ s \o Append(u, e) = Append(s \o u, e)
    OBVIOUS
  <2>2. OfKinds(s, kinds) \in Seq(T) /\ OfKinds(u, kinds) \in Seq(T)
    BY OfKindsType
  <2>3. OfKinds(s, kinds) \o Append(OfKinds(u, kinds), e)
          = Append(OfKinds(s, kinds) \o OfKinds(u, kinds), e)
    BY <2>2
  <2>4. OfKinds(s \o Append(u, e), kinds) =
          IF e.kind \in kinds THEN Append(OfKinds(s \o u, kinds), e) ELSE OfKinds(s \o u, kinds)
    <3> HIDE DEF S
    <3>1. OfKinds(Append(s \o u, e), kinds) =
            IF e.kind \in kinds THEN Append(OfKinds(s \o u, kinds), e) ELSE OfKinds(s \o u, kinds)
      BY <2>1, OfKindsAppend
    <3> QED
      BY <2>1, <3>1
  <2>5. OfKinds(Append(u, e), kinds) =
          IF e.kind \in kinds THEN Append(OfKinds(u, kinds), e) ELSE OfKinds(u, kinds)
    BY OfKindsAppend
  <2>6. OfKinds(s \o u, kinds) = OfKinds(s, kinds) \o OfKinds(u, kinds)
    BY <1>2
  <2>7. OfKinds(s \o Append(u, e), kinds) = OfKinds(s, kinds) \o OfKinds(Append(u, e), kinds)
    BY <2>3, <2>4, <2>5, <2>6
  <2>8. Append(u, e) \in Seq(T)
    OBVIOUS
  <2> QED
    BY <2>7, <2>8
<1>3. Seq(T) \subseteq S
  <2> HIDE DEF S
  <2> QED
    BY <1>1, <1>2, SequenceInduction
<1> QED
  BY <1>3

\* Two sequences have elements in common to be taken from.
LEMMA CommonElements ==
  ASSUME NEW s, NEW t, IsSequence(s), IsSequence(t)
  PROVE  \E T : s \in Seq(T) /\ t \in Seq(T)
<1> DEFINE S == {s[i] : i \in DOMAIN s}
           T == {t[i] : i \in DOMAIN t}
<1>1. s \in Seq(S) /\ t \in Seq(T)
  BY DEF IsSequence
<1> HIDE DEF S, T
<1>2. s \in Seq(S \cup T) /\ t \in Seq(S \cup T)
  BY <1>1, SeqMonotonic
<1> QED
  BY <1>2

LEMMA HasElements ==
  ASSUME NEW T, NEW s \in Seq(T)
  PROVE  IsSequence(s)
BY DEF IsSequence

LEMMA ConcatIsSequence ==
  ASSUME NEW s, NEW t, IsSequence(s), IsSequence(t)
  PROVE  IsSequence(s \o t) /\ Len(s \o t) = Len(s) + Len(t)
<1>1. PICK T : s \in Seq(T) /\ t \in Seq(T)
  BY CommonElements
<1>2. s \o t \in Seq(T) /\ Len(s \o t) = Len(s) + Len(t)
  BY <1>1
<1> QED
  BY <1>2, HasElements

LEMMA SingleIsSequence ==
  ASSUME NEW e
  PROVE  IsSequence(<<e>>) /\ Len(<<e>>) = 1 /\ <<e>>[1] = e
<1>1. <<e>> \in Seq({e})
  OBVIOUS
<1> QED
  BY <1>1, HasElements

LEMMA ConcatIsAssociative ==
  ASSUME NEW s, NEW t, NEW u, IsSequence(s), IsSequence(t), IsSequence(u)
  PROVE  (s \o t) \o u = s \o (t \o u)
<1>1. PICK T : s \in Seq(T) /\ t \in Seq(T)
  BY CommonElements
<1>2. PICK U : u \in Seq(U)
  BY DEF IsSequence
<1>3. s \in Seq(T \cup U) /\ t \in Seq(T \cup U) /\ u \in Seq(T \cup U)
  BY <1>1, <1>2, SeqMonotonic
<1> QED
  BY <1>3, ConcatAssociative

\* Selecting from a concatenation.
LEMMA OfKindsConcat ==
  ASSUME NEW s, NEW t, NEW kinds, IsSequence(s), IsSequence(t)
  PROVE  OfKinds(s \o t, kinds) = OfKinds(s, kinds) \o OfKinds(t, kinds)
<1>1. PICK T : s \in Seq(T) /\ t \in Seq(T)
  BY CommonElements
<1> QED
  BY <1>1, OfKindsConcatSame

\* Formals that are all of these kinds, or none of which is.
LEMMA OfKindsAll ==
  ASSUME NEW formals, IsSequence(formals), NEW kinds,
         \A i \in 1..Len(formals) : formals[i].kind \in kinds
  PROVE  OfKinds(formals, kinds) = formals
<1> DEFINE U == {formals[i] : i \in 1..Len(formals)}
           S == {s \in Seq(U) : OfKinds(s, kinds) = s}
<1>1. <<>> \in S
  BY OfKindsEmpty
<1>2. ASSUME NEW s \in Seq(U), NEW e \in U, s \in S PROVE Append(s, e) \in S
  <2>1. e.kind \in kinds
    OBVIOUS
  <2>2. OfKinds(Append(s, e), kinds) = Append(s, e)
    <3> HIDE DEF U
    <3> QED
      BY <1>2, <2>1, OfKindsAppend
  <2> QED
    BY <2>2
<1>3. formals \in Seq(U)
  BY DEF IsSequence
<1>4. Seq(U) \subseteq S
  <2> HIDE DEF S, U
  <2> QED
    BY <1>1, <1>2, SequenceInduction
<1> QED
  BY <1>3, <1>4

LEMMA OfKindsNone ==
  ASSUME NEW formals, IsSequence(formals), NEW kinds,
         \A i \in 1..Len(formals) : formals[i].kind \notin kinds
  PROVE  OfKinds(formals, kinds) = <<>>
<1> DEFINE U == {formals[i] : i \in 1..Len(formals)}
           S == {s \in Seq(U) : OfKinds(s, kinds) = <<>>}
<1>1. <<>> \in S
  BY OfKindsEmpty
<1>2. ASSUME NEW s \in Seq(U), NEW e \in U, s \in S PROVE Append(s, e) \in S
  <2>1. e.kind \notin kinds
    OBVIOUS
  <2>2. OfKinds(Append(s, e), kinds) = <<>>
    <3> HIDE DEF U
    <3> QED
      BY <1>2, <2>1, OfKindsAppend
  <2> QED
    BY <2>2
<1>3. formals \in Seq(U)
  BY DEF IsSequence
<1>4. Seq(U) \subseteq S
  <2> HIDE DEF S, U
  <2> QED
    BY <1>1, <1>2, SequenceInduction
<1> QED
  BY <1>3, <1>4

-----------------------------------------------------------------------------
(* The shape of the stubs, and where its parts are. *)

\* A formal for callables of which one is declared with VarArg().
CallableFormal(others, before, after) == Pos(Union(others \o <<Splatted(before, after)>>))

\* What a stub takes: the callable, with *args right after it, some parameters
\* before and keyword-only ones behind them.  Trio passes the callable what it
\* declares before VarArg(), and what it declares by name behind it.
Shaped(sig, lead, others, before, after, options) ==
  /\ IsSequence(lead) /\ IsSequence(others) /\ IsSequence(before)
  /\ IsSequence(after) /\ IsSequence(options)
  /\ sig.formals = lead \o <<CallableFormal(others, before, after), StarAny>> \o options
  /\ Len(sig.variables) \in Nat
  /\ \A i \in 1..Len(lead) : lead[i].kind = "pos" /\ lead[i].type.form \notin {"callable", "union"}
  /\ \A i \in 1..Len(others) : \/ others[i].form = "callable" /\ others[i].ellipsis
                              \/ \A j \in DOMAIN others[i].formals :
                                   others[i].formals[j].kind # "star"
  /\ \A i \in 1..Len(before) : before[i].kind = "pos" /\ before[i].type.form # "tvar"
  /\ \A i \in 1..Len(after) : after[i].kind = "named"
  /\ \A i \in 1..Len(options) : /\ options[i].kind \in {"named", "named_opt"}
                               /\ options[i].type.form # "union"

LEMMA SequenceDomain ==
  ASSUME NEW s, IsSequence(s)
  PROVE  /\ Len(s) \in Nat /\ DOMAIN s = 1..Len(s)
         /\ \E T : s \in Seq(T)
BY DEF IsSequence

\* The only *args of a callable with VarArg() between "before" and "after".
LEMMA SplattedParts ==
  ASSUME NEW before, NEW after, IsSequence(before), IsSequence(after),
         \A i \in 1..Len(before) : before[i].kind = "pos",
         \A i \in 1..Len(after) : after[i].kind = "named"
  PROVE  LET c == Splatted(before, after)
         IN  /\ c.form = "callable" /\ c.ellipsis = FALSE
             /\ c.formals = before \o <<StarAny>> \o after
             /\ DOMAIN c.formals = 1..(Len(before) + 1 + Len(after))
             /\ c.formals[Len(before) + 1].kind = "star"
             /\ AnyStars(c) = {Len(before) + 1}
             /\ OneStar(c.formals)
<1> DEFINE c == Splatted(before, after)
<1>1. c.form = "callable" /\ c.ellipsis = FALSE /\ c.formals = before \o <<StarAny>> \o after
  BY DEF Splatted, CallableType
<1>2. /\ DOMAIN c.formals = 1..(Len(before) + 1 + Len(after))
      /\ c.formals[Len(before) + 1] = StarAny
      /\ \A i \in 1..Len(before) : c.formals[i] = before[i]
      /\ \A i \in (Len(before) + 2)..(Len(before) + 1 + Len(after)) :
           c.formals[i] = after[i - Len(before) - 1]
  BY <1>1 DEF IsSequence
<1>3. StarAny.kind = "star" /\ StarAny.type.form = "any"
  BY DEF StarAny, Formal, Any
<1>4. ASSUME NEW i \in DOMAIN c.formals, i # Len(before) + 1 PROVE c.formals[i].kind # "star"
  <2>1. Len(before) \in Nat /\ Len(after) \in Nat
    BY SequenceDomain
  <2>2. CASE i \in 1..Len(before)
    BY <1>2, <2>2
  <2>3. CASE i \in (Len(before) + 2)..(Len(before) + 1 + Len(after))
    <3>1. i - Len(before) - 1 \in 1..Len(after)
      BY <2>1, <2>3
    <3> QED
      BY <1>2, <2>3, <3>1
  <2> QED
    BY <1>2, <1>4, <2>1, <2>2, <2>3
<1>5. Len(before) + 1 \in DOMAIN c.formals
  BY <1>2, SequenceDomain
<1>6. AnyStars(c) = {Len(before) + 1}
  <2> HIDE DEF c
  <2> QED
    BY <1>2, <1>3, <1>4, <1>5 DEF AnyStars, IsAnyStar
<1>7. OneStar(c.formals)
  <2> HIDE DEF c
  <2> QED
    BY <1>4 DEF OneStar
<1> QED
  BY <1>1, <1>2, <1>3, <1>6, <1>7

\* The entries of a sequence with one more at its end.
LEMMA EntriesBefore ==
  ASSUME NEW a, IsSequence(a), NEW e
  PROVE  /\ DOMAIN (a \o <<e>>) = 1..(Len(a) + 1) /\ Len(a) \in Nat
         /\ (a \o <<e>>)[Len(a) + 1] = e
         /\ \A i \in 1..Len(a) : (a \o <<e>>)[i] = a[i]
<1> DEFINE last == <<e>>
<1>1. IsSequence(last) /\ Len(last) = 1 /\ last[1] = e
  BY SingleIsSequence
<1> HIDE DEF last
<1>2. PICK T : a \in Seq(T) /\ last \in Seq(T)
  BY <1>1, CommonElements
<1>3. /\ Len(a \o last) = Len(a) + Len(last) /\ DOMAIN (a \o last) = 1..Len(a \o last)
      /\ Len(a) \in Nat
  BY <1>2
<1>4. \A k \in 1..Len(last) : (a \o last)[Len(a) + k] = last[k]
  BY <1>2
<1>5. \A i \in 1..Len(a) : (a \o last)[i] = a[i]
  BY <1>2
<1> QED
  BY <1>1, <1>3, <1>4, <1>5 DEF last

\* Of a union of callables without *args, or of "...", and one with VarArg(), that
\* one is chosen.
LEMMA UnionCandidate ==
  ASSUME NEW others, NEW c, IsSequence(others), c.form = "callable", c.ellipsis = FALSE,
         NEW p \in DOMAIN c.formals, c.formals[p].kind = "star",
         \A i \in 1..Len(others) : \/ others[i].form = "callable" /\ others[i].ellipsis
                                 \/ \A j \in DOMAIN others[i].formals :
                                      others[i].formals[j].kind # "star"
  PROVE  CandidatesOf(Pos(Union(others \o <<c>>))) = {c}
<1> DEFINE union == Union(others \o <<c>>)
           n     == Len(others) + 1
<1>1. /\ union.form = "union" /\ union.items = others \o <<c>>
      /\ Pos(union).kind = "pos" /\ Pos(union).type = union
  BY DEF Union, Pos, Formal
<1>2. /\ DOMAIN union.items = 1..n /\ n \in Nat /\ union.items[n] = c
      /\ \A i \in 1..Len(others) : union.items[i] = others[i]
  BY <1>1, EntriesBefore
<1>3. n \in 1..n /\ \A i \in 1..n : i = n \/ i \in 1..Len(others)
  BY SequenceDomain
<1> HIDE DEF union, n
<1>4. VarArgArms(union) = {n}
  <2>1. n \in VarArgArms(union)
    BY <1>2, <1>3 DEF VarArgArms
  <2>2. ASSUME NEW i \in VarArgArms(union) PROVE i = n
    BY <1>2, <1>3, <2>2 DEF VarArgArms
  <2> QED
    BY <2>1, <2>2
<1>5. {k \in VarArgArms(union) : \A j \in VarArgArms(union) : k <= j} = {n}
  BY <1>2, <1>4
<1>6. CandidatesOf(Pos(union)) = {union.items[i] : i \in {n}}
  BY <1>1, <1>5 DEF CandidatesOf
<1> QED
  BY <1>2, <1>6 DEF union

\* The entries of a sequence with two in the middle.
LEMMA EntriesAround ==
  ASSUME NEW a, NEW b, NEW e, NEW d, IsSequence(a), IsSequence(b),
         NEW s, s = a \o <<e, d>> \o b
  PROVE  /\ DOMAIN s = 1..(Len(a) + 2 + Len(b))
         /\ s[Len(a) + 1] = e /\ s[Len(a) + 2] = d
         /\ \A i \in 1..Len(a) : s[i] = a[i]
         /\ \A i \in (Len(a) + 3)..(Len(a) + 2 + Len(b)) : s[i] = b[i - Len(a) - 2]
BY DEF IsSequence

\* What the plugin asks of a decorated function, and that it has no other *args.
OneCallableAndStar(sig) ==
  /\ CallableAt(sig) \in DOMAIN sig.formals /\ ArgsAt(sig) \in DOMAIN sig.formals
  /\ \A i \in DOMAIN sig.formals : CallablesOf(sig.formals[i]) # {} <=> i = CallableAt(sig)
  /\ IsAnyStar(sig.formals[ArgsAt(sig)])
  /\ \A i \in DOMAIN sig.formals : sig.formals[i].kind = "star" => i = ArgsAt(sig)

\* Each part of a stub is where the plugin looks for it.
LEMMA ShapedParts ==
  ASSUME NEW sig, NEW lead, NEW others, NEW before, NEW after, NEW options,
         Shaped(sig, lead, others, before, after, options)
  PROVE  /\ CallableAt(sig) = Len(lead) + 1
         /\ ArgsAt(sig) = Len(lead) + 2
         /\ SplattedOf(sig) = Splatted(before, after)
         /\ SplatAt(sig) = Len(before) + 1
         /\ sig.formals[Len(lead) + 1] = CallableFormal(others, before, after)
         /\ OneCallableAndStar(sig)
         /\ \A i \in DOMAIN sig.formals : \A d \in CandidatesOf(sig.formals[i]) : OneStar(d.formals)
         /\ \A i \in DOMAIN sig.formals :
              sig.formals[i].type.form = "union" => IsSequence(sig.formals[i].type.items)
<1> DEFINE c == Splatted(before, after)
           f == CallableFormal(others, before, after)
           n == Len(lead) + 1
<1>1. n \in Nat \ {0} /\ Len(options) \in Nat /\ Len(before) \in Nat
  BY SequenceDomain DEF Shaped
<1>2. /\ DOMAIN sig.formals = 1..(n + 1 + Len(options))
      /\ sig.formals[n] = f /\ sig.formals[n + 1] = StarAny
      /\ \A i \in 1..Len(lead) : sig.formals[i] = lead[i]
      /\ \A i \in (n + 2)..(n + 1 + Len(options)) : sig.formals[i] = options[i - n - 1]
  <2>1. sig.formals = lead \o <<f, StarAny>> \o options /\ IsSequence(lead) /\ IsSequence(options)
    BY DEF Shaped
  <2>2. n + 1 = Len(lead) + 2 /\ n + 2 = Len(lead) + 3
    BY <1>1
  <2>3. \A i \in Int : i - n - 1 = i - Len(lead) - 2
    BY <1>1
  <2> HIDE DEF f, n
  <2>4. /\ DOMAIN sig.formals = 1..(Len(lead) + 2 + Len(options))
        /\ sig.formals[Len(lead) + 1] = f /\ sig.formals[Len(lead) + 2] = StarAny
        /\ \A i \in 1..Len(lead) : sig.formals[i] = lead[i]
        /\ \A i \in (Len(lead) + 3)..(Len(lead) + 2 + Len(options)) :
             sig.formals[i] = options[i - Len(lead) - 2]
    BY <2>1, EntriesAround
  <2> QED
    BY <2>2, <2>3, <2>4 DEF n
<1>3. /\ c.form = "callable" /\ c.ellipsis = FALSE /\ Len(before) + 1 \in DOMAIN c.formals
      /\ c.formals[Len(before) + 1].kind = "star" /\ AnyStars(c) = {Len(before) + 1}
      /\ OneStar(c.formals)
  <2>1. /\ IsSequence(before) /\ IsSequence(after)
        /\ \A i \in 1..Len(before) : before[i].kind = "pos"
        /\ \A i \in 1..Len(after) : after[i].kind = "named"
    BY DEF Shaped
  <2>2. Len(before) + 1 \in 1..(Len(before) + 1 + Len(after))
    BY <2>1, SequenceDomain
  <2> QED
    BY <2>1, <2>2, SplattedParts
<1> HIDE DEF c
<1>4. CandidatesOf(f) = {c}
  <2>1. CandidatesOf(Pos(Union(others \o <<c>>))) = {c}
    BY <1>3, UnionCandidate DEF Shaped
  <2> QED
    BY <2>1 DEF c, CallableFormal
<1>5. f.kind = "pos"
  BY DEF CallableFormal, Pos, Formal
<1>6. StarAny.kind = "star" /\ StarAny.type.form = "any"
  BY DEF StarAny, Formal, Any
<1> HIDE DEF f
<1>7. ASSUME NEW i \in DOMAIN sig.formals, i # n
      PROVE  /\ CandidatesOf(sig.formals[i]) = {}
             /\ sig.formals[i].type.form # "union"
  <2>1. CASE i \in 1..Len(lead)
    BY <1>2, <2>1 DEF Shaped, CandidatesOf
  <2>2. CASE i = n + 1
    BY <1>2, <1>6, <2>2 DEF CandidatesOf
  <2>3. CASE i \in (n + 2)..(n + 1 + Len(options))
    <3>1. i - n - 1 \in 1..Len(options)
      BY <1>1, <2>3
    <3>2. sig.formals[i].kind \in {"named", "named_opt"} /\ sig.formals[i].type.form # "union"
      BY <1>2, <2>3, <3>1 DEF Shaped
    <3> QED
      BY <3>2 DEF CandidatesOf
  <2> QED
    BY <1>1, <1>2, <1>7, <2>1, <2>2, <2>3
<1>8. ASSUME NEW i \in DOMAIN sig.formals, i # n + 1
      PROVE  sig.formals[i].kind # "star"
  <2>1. CASE i \in 1..Len(lead)
    BY <1>2, <2>1 DEF Shaped
  <2>2. CASE i = n
    BY <1>2, <1>5, <2>2
  <2>3. CASE i \in (n + 2)..(n + 1 + Len(options))
    <3>1. i - n - 1 \in 1..Len(options)
      BY <1>1, <2>3
    <3>2. sig.formals[i].kind \in {"named", "named_opt"}
      BY <1>2, <2>3, <3>1 DEF Shaped
    <3> QED
      BY <3>2
  <2> QED
    BY <1>1, <1>2, <1>8, <2>1, <2>2, <2>3
<1>9. CallablesOf(f) = {c}
  BY <1>3, <1>4 DEF CallablesOf
<1>10. n \in DOMAIN sig.formals /\ n + 1 \in DOMAIN sig.formals
  BY <1>1, <1>2
<1>11. CallableAt(sig) = n
  <2>1. \A i \in DOMAIN sig.formals : CallablesOf(sig.formals[i]) # {} <=> i = n
    BY <1>2, <1>7, <1>9 DEF CallablesOf
  <2> HIDE DEF n
  <2> QED
    BY <1>10, <2>1 DEF CallableAt
<1>12. ArgsAt(sig) = n + 1
  <2>1. \A i \in DOMAIN sig.formals : IsAnyStar(sig.formals[i]) <=> i = n + 1
    BY <1>2, <1>6, <1>8 DEF IsAnyStar
  <2> HIDE DEF n
  <2> QED
    BY <1>10, <2>1 DEF ArgsAt
<1>13. SplattedOf(sig) = c
  BY <1>2, <1>9, <1>11 DEF SplattedOf
<1>14. SplatAt(sig) = Len(before) + 1
  BY <1>3, <1>13 DEF SplatAt
<1>15. OneCallableAndStar(sig)
  <2>1. \A i \in DOMAIN sig.formals : CallablesOf(sig.formals[i]) # {} <=> i = n
    BY <1>2, <1>7, <1>9 DEF CallablesOf
  <2>2. IsAnyStar(sig.formals[n + 1])
    BY <1>2, <1>6 DEF IsAnyStar
  <2> HIDE DEF n
  <2> QED
    BY <1>8, <1>10, <1>11, <1>12, <2>1, <2>2 DEF OneCallableAndStar
<1>16. \A i \in DOMAIN sig.formals : \A d \in CandidatesOf(sig.formals[i]) : OneStar(d.formals)
  BY <1>2, <1>3, <1>4, <1>7
<1>17. \A i \in DOMAIN sig.formals :
         sig.formals[i].type.form = "union" => IsSequence(sig.formals[i].type.items)
  <2>1. f.type.items = others \o <<c>>
    BY DEF f, c, CallableFormal, Pos, Formal, Union
  <2>2. IsSequence(<<c>>)
    BY SingleIsSequence
  <2> DEFINE last == <<c>>
  <2> HIDE DEF last
  <2>3. IsSequence(others \o last)
    BY <2>2, ConcatIsSequence DEF Shaped, last
  <2> QED
    BY <1>2, <1>7, <2>1, <2>3 DEF last
<1> QED
  BY <1>1, <1>2, <1>11, <1>12, <1>13, <1>14, <1>15, <1>16, <1>17 DEF c, f

-----------------------------------------------------------------------------
(* The overloads of a stub. *)

\* What follows a sequence.
LEMMA SubSeqBehind ==
  ASSUME NEW a, NEW b, IsSequence(a), IsSequence(b)
  PROVE  SubSeq(a \o b, Len(a) + 1, Len(a \o b)) = b
<1>1. PICK T : a \in Seq(T) /\ b \in Seq(T)
  BY CommonElements
<1> QED
  BY <1>1

\* What stands between two sequences is replaced.
LEMMA SpliceMiddle ==
  ASSUME NEW a, NEW mid, NEW b, NEW m, IsSequence(a), IsSequence(b),
         IsSequence(mid), Len(mid) = 1
  PROVE  Splice((a \o mid) \o b, Len(a) + 1, m) = (a \o m) \o b
<1> DEFINE s == a \o mid \o b
<1>1. PICK T : a \in Seq(T) /\ b \in Seq(T)
  BY CommonElements
<1> DEFINE U == T \cup {mid[i] : i \in DOMAIN mid}
<1>2. a \in Seq(U) /\ b \in Seq(U) /\ mid \in Seq(U)
  BY <1>1, SeqMonotonic DEF IsSequence
<1> HIDE DEF U
<1> DEFINE am == a \o mid
<1>3. am \in Seq(U) /\ Len(am) = Len(a) + 1
  BY <1>2, ConcatProperties
<1>4. Len(a) \in Nat /\ Len(b) \in Nat
  BY <1>2
<1> HIDE DEF am
<1>5. s = am \o b /\ Len(s) = Len(am) + Len(b)
  <2>1. Len(am \o b) = Len(am) + Len(b)
    BY <1>2, <1>3, ConcatProperties
  <2> QED
    BY <2>1 DEF am
<1>6. SubSeq(s, 1, Len(a)) = a
  BY <1>2
<1>7. SubSeq(s, Len(a) + 2, Len(s)) = b
  <2>1. SubSeq(am \o b, Len(am) + 1, Len(am) + Len(b)) = b
    BY <1>2, <1>3
  <2>2. Len(am) + 1 = Len(a) + 2
    BY <1>3, <1>4
  <2> HIDE DEF s
  <2> QED
    BY <1>5, <2>1, <2>2
<1>8. (Len(a) + 1) - 1 = Len(a) /\ (Len(a) + 1) + 1 = Len(a) + 2
  BY <1>2
<1> QED
  BY <1>6, <1>7, <1>8 DEF Splice

\* One of two entries in the middle is replaced.
LEMMA ExceptMiddle ==
  ASSUME NEW a, NEW b, NEW e, NEW d, NEW x, IsSequence(a), IsSequence(b)
  PROVE  [a \o <<e, d>> \o b EXCEPT ![Len(a) + 1] = x] = a \o <<x, d>> \o b
<1> DEFINE s == a \o <<e, d>> \o b
           t == a \o <<x, d>> \o b
           r == [s EXCEPT ![Len(a) + 1] = x]
<1>1. PICK T : a \in Seq(T) /\ b \in Seq(T)
  BY CommonElements
<1> DEFINE U == T \cup {e, d, x}
<1>2. a \in Seq(U) /\ b \in Seq(U) /\ <<e, d>> \in Seq(U) /\ <<x, d>> \in Seq(U) /\ x \in U
  BY <1>1, SeqMonotonic
<1> HIDE DEF U
<1>3. s \in Seq(U) /\ t \in Seq(U) /\ Len(s) = Len(a) + 2 + Len(b) /\ Len(t) = Len(s)
  BY <1>2
<1>4. Len(a) \in Nat /\ Len(b) \in Nat
  BY <1>2
<1>5. \A i \in 1..Len(s) : i # Len(a) + 1 => s[i] = t[i]
  BY <1>2, <1>4
<1>6. t[Len(a) + 1] = x
  BY <1>2, <1>4
<1>7. r \in Seq(U) /\ Len(r) = Len(s)
      /\ \A i \in 1..Len(s) : r[i] = IF i = Len(a) + 1 THEN x ELSE s[i]
  <2>1. Len(a) + 1 \in 1..Len(s)
    BY <1>3, <1>4
  <2> HIDE DEF s, t
  <2> QED
    BY <1>2, <1>3, <2>1, ExceptSeq
<1> HIDE DEF s, r, t
<1>8. r = t
  BY <1>3, <1>5, <1>6, <1>7, SeqEqual
<1> QED
  BY <1>8 DEF s, r, t

LEMMA PosFormalsType ==
  ASSUME NEW ids \in Seq(Int)
  PROVE  /\ IsSequence(PosFormals(ids))
         /\ Len(PosFormals(ids)) = Len(ids) /\ DOMAIN PosFormals(ids) = 1..Len(ids)
         /\ \A i \in 1..Len(ids) :
              PosFormals(ids)[i].kind = "pos" /\ PosFormals(ids)[i].type = TypeVar(ids[i])
<1>1. \A i \in DOMAIN ids : ids[i] \in Int
  OBVIOUS
<1>2. DOMAIN ids = 1..Len(ids) /\ Len(ids) \in Nat
  OBVIOUS
<1>3. PosFormals(ids) \in Seq({Formal("pos", TypeVar(id)) : id \in Int})
  BY <1>1, <1>2 DEF PosFormals
<1>4. IsSequence(PosFormals(ids))
  BY <1>3, HasElements
<1>5. DOMAIN PosFormals(ids) = 1..Len(ids) /\ Len(PosFormals(ids)) = Len(ids)
  BY <1>2 DEF PosFormals
<1>6. \A i \in 1..Len(ids) :
        PosFormals(ids)[i].kind = "pos" /\ PosFormals(ids)[i].type = TypeVar(ids[i])
  BY <1>2 DEF PosFormals, Formal
<1> QED
  BY <1>4, <1>5, <1>6

\* The formals of an overload: in the callable and in the function itself, the
\* type variables have taken the place of *args.
LEMMA ShapedExpansion ==
  ASSUME NEW sig, NEW lead, NEW others, NEW before, NEW after, NEW options,
         Shaped(sig, lead, others, before, after, options), NEW ids \in Seq(Int)
  PROVE  Expanded(sig, ids).formals =
           (lead \o <<Pos(CallableType(before \o PosFormals(ids) \o after))>>)
             \o PosFormals(ids) \o options
<1> DEFINE c == Splatted(before, after)
           f == CallableFormal(others, before, after)
           n == Len(lead) + 1
           new == PosFormals(ids)
           wanted == CallableType(before \o new \o after)
           spliced == Splice(c.formals, Len(before) + 1, new)
           expanded == [form |-> "callable", ellipsis |-> c.ellipsis, formals |-> spliced]
           replaced == [sig.formals EXCEPT ![n] = Formal(@.kind, expanded)]
<1>1. /\ IsSequence(lead) /\ IsSequence(before) /\ IsSequence(after) /\ IsSequence(options)
      /\ sig.formals = lead \o <<f, StarAny>> \o options
      /\ IsSequence(new)
  BY PosFormalsType DEF Shaped
<1>2. /\ CallableAt(sig) = n /\ SplattedOf(sig) = c /\ sig.formals[n] = f
      /\ SplatAt(sig) = Len(before) + 1 /\ ArgsAt(sig) = Len(lead) + 2
  BY ShapedParts
<1>3. Expanded(sig, ids).formals = Splice(replaced, Len(lead) + 2, new)
  <2>1. Expanded(sig, ids) = ExpandedFn(sig, n, c, Len(before) + 1, Len(lead) + 2, ids)
    BY <1>2 DEF Expanded
  <2> HIDE DEF c, n
  <2> QED
    BY <2>1 DEF ExpandedFn, Signature
<1>4. spliced = before \o new \o after
  <2>1. c.formals = before \o <<StarAny>> \o after
    BY DEF Splatted, CallableType
  <2> DEFINE star == <<StarAny>>
  <2>2. IsSequence(star) /\ Len(star) = 1
    BY SingleIsSequence
  <2> HIDE DEF c, new, star
  <2>3. Splice((before \o star) \o after, Len(before) + 1, new) = (before \o new) \o after
    BY <1>1, <2>2, SpliceMiddle
  <2> QED
    BY <2>1, <2>3 DEF star
<1>5. expanded = wanted
  <2>1. c.ellipsis = FALSE
    BY DEF Splatted, CallableType
  <2> HIDE DEF spliced, c, new
  <2> QED
    BY <1>4, <2>1 DEF CallableType
<1>6. Formal(f.kind, wanted) = Pos(wanted)
  BY DEF CallableFormal, Pos, Formal
<1>7. replaced = lead \o <<Pos(wanted), StarAny>> \o options
  <2> HIDE DEF wanted, f, c, spliced, expanded, new
  <2>1. replaced = [sig.formals EXCEPT ![n] = Pos(wanted)]
    BY <1>2, <1>5, <1>6
  <2> QED
    BY <1>1, <2>1, ExceptMiddle
<1>8. lead \o <<Pos(wanted), StarAny>> \o options
         = (lead \o <<Pos(wanted)>>) \o <<StarAny>> \o options
  <2>1. <<Pos(wanted), StarAny>> = <<Pos(wanted)>> \o <<StarAny>>
    OBVIOUS
  <2>2. IsSequence(<<Pos(wanted)>>) /\ IsSequence(<<StarAny>>)
    BY SingleIsSequence
  <2> HIDE DEF wanted
  <2> QED
    BY <1>1, <2>1, <2>2, ConcatIsAssociative
<1>9. Splice((lead \o <<Pos(wanted)>>) \o <<StarAny>> \o options, Len(lead) + 2, new)
        = (lead \o <<Pos(wanted)>>) \o new \o options
  <2> DEFINE a == lead \o <<Pos(wanted)>>
  <2>1. IsSequence(options) /\ IsSequence(new)
    BY <1>1
  <2>2. IsSequence(a) /\ Len(a) + 1 = Len(lead) + 2
    <3>1. IsSequence(<<Pos(wanted)>>) /\ Len(<<Pos(wanted)>>) = 1
      BY SingleIsSequence
    <3>2. Len(lead) \in Nat
      BY <1>1, SequenceDomain
    <3> HIDE DEF wanted
    <3> QED
      BY <1>1, <3>1, <3>2, ConcatIsSequence
  <2> DEFINE star == <<StarAny>>
  <2>3. IsSequence(star) /\ Len(star) = 1
    BY SingleIsSequence
  <2> HIDE DEF a, wanted, new, star, c, f, n
  <2>4. Splice((a \o star) \o options, Len(a) + 1, new) = (a \o new) \o options
    <3>1. IsSequence(a)
      BY <2>2
    <3> QED
      BY <2>1, <2>3, <3>1, SpliceMiddle
  <2> QED
    BY <2>2, <2>4 DEF a, star
<1> HIDE DEF wanted, replaced, new
<1> QED
  BY <1>3, <1>7, <1>8, <1>9 DEF wanted, new

-----------------------------------------------------------------------------
(* What is selected from a stub, from an overload and from their callables. *)

LEMMA OfKindsThree ==
  ASSUME NEW a, NEW b, NEW c, NEW kinds, IsSequence(a), IsSequence(b), IsSequence(c)
  PROVE  OfKinds(a \o b \o c, kinds) = OfKinds(a, kinds) \o OfKinds(b, kinds) \o OfKinds(c, kinds)
<1>1. IsSequence(a \o b) /\ OfKinds(a \o b, kinds) = OfKinds(a, kinds) \o OfKinds(b, kinds)
  BY OfKindsConcat, ConcatIsSequence
<1> DEFINE ab == a \o b
<1> HIDE DEF ab
<1>2. IsSequence(ab)
  BY <1>1 DEF ab
<1>3. OfKinds(ab \o c, kinds) = OfKinds(ab, kinds) \o OfKinds(c, kinds)
  BY <1>2, OfKindsConcat
<1> QED
  BY <1>1, <1>3 DEF ab

LEMMA EmptyConcat ==
  ASSUME NEW s, IsSequence(s)
  PROVE  /\ <<>> \o s = s /\ s \o <<>> = s
         /\ (<<>> \o s) \o <<>> = s /\ (<<>> \o <<>>) \o s = s
<1>1. <<>> \o s = s /\ s \o <<>> = s
  BY DEF IsSequence
<1>2. <<>> \o <<>> = <<>>
  OBVIOUS
<1> QED
  BY <1>1, <1>2

LEMMA OfKindsSingle ==
  ASSUME NEW e, NEW kinds
  PROVE  OfKinds(<<e>>, kinds) = IF e.kind \in kinds THEN <<e>> ELSE <<>>
<1>1. IsSequence(<<e>>) /\ Len(<<e>>) = 1 /\ <<e>>[1] = e
  BY SingleIsSequence
<1>2. \A i \in 1..Len(<<e>>) : <<e>>[i] = e
  BY <1>1
<1> QED
  BY <1>1, <1>2, OfKindsAll, OfKindsNone

\* What the callable of a stub, or of an overload with "new" for *args, takes.
LEMMA CallableSelections ==
  ASSUME NEW before, NEW new, NEW after,
         IsSequence(before), IsSequence(new), IsSequence(after),
         \A i \in 1..Len(before) : before[i].kind = "pos",
         \A i \in 1..Len(new) : new[i].kind \in {"pos", "star"},
         \A i \in 1..Len(after) : after[i].kind = "named"
  PROVE  /\ OfKinds(before \o new \o after, {"pos"}) = before \o OfKinds(new, {"pos"})
         /\ OfKinds(before \o new \o after, {"star"}) = OfKinds(new, {"star"})
         /\ OfKinds(before \o new \o after, {"named"}) = after
<1>1. /\ OfKinds(before, {"pos"}) = before /\ OfKinds(after, {"pos"}) = <<>>
      /\ OfKinds(before, {"star"}) = <<>> /\ OfKinds(after, {"star"}) = <<>>
      /\ OfKinds(before, {"named"}) = <<>> /\ OfKinds(after, {"named"}) = after
      /\ OfKinds(new, {"named"}) = <<>>
  BY OfKindsAll, OfKindsNone
<1>2. \A kinds : IsSequence(OfKinds(new, kinds))
  <2> TAKE kinds
  <2>1. PICK T : new \in Seq(T)
    BY SequenceDomain
  <2>2. OfKinds(new, kinds) \in Seq(T)
    BY <2>1, OfKindsType
  <2> QED
    BY <2>2, HasElements
<1>3. IsSequence(before \o OfKinds(new, {"pos"}))
  BY <1>2, ConcatIsSequence
<1>4. \A kinds : OfKinds(before \o new \o after, kinds)
                  = OfKinds(before, kinds) \o OfKinds(new, kinds) \o OfKinds(after, kinds)
  BY OfKindsThree
<1>5. OfKinds(before \o new \o after, {"pos"}) = before \o OfKinds(new, {"pos"})
  BY <1>1, <1>3, <1>4, EmptyConcat
<1>6. OfKinds(before \o new \o after, {"star"}) = OfKinds(new, {"star"})
  <2> DEFINE stars == OfKinds(new, {"star"})
  <2>1. OfKinds(before \o new \o after, {"star"}) = (<<>> \o stars) \o <<>>
    BY <1>1, <1>4
  <2>2. IsSequence(stars)
    BY <1>2
  <2> HIDE DEF stars
  <2>3. (<<>> \o stars) \o <<>> = stars
    BY <2>2, EmptyConcat
  <2> QED
    BY <2>1, <2>3 DEF stars
<1>7. OfKinds(before \o new \o after, {"named"}) = after
  <2>1. OfKinds(before \o new \o after, {"named"}) = (<<>> \o <<>>) \o after
    BY <1>1, <1>4
  <2>2. (<<>> \o <<>>) \o after = after
    BY EmptyConcat
  <2> QED
    BY <2>1, <2>2
<1> QED
  BY <1>5, <1>6, <1>7

\* What Trio passes to the callable of a stub.
LEMMA SplattedSelections ==
  ASSUME NEW sig, NEW lead, NEW others, NEW before, NEW after, NEW options,
         Shaped(sig, lead, others, before, after, options)
  PROVE  /\ OfKinds(SubSeq(SplattedOf(sig).formals, 1, SplatAt(sig) - 1), {"pos"}) = before
         /\ OfKinds(SplattedOf(sig).formals, {"named"}) = after
<1> DEFINE star == <<StarAny>>
<1>1. /\ IsSequence(before) /\ IsSequence(after)
      /\ \A i \in 1..Len(before) : before[i].kind = "pos"
      /\ \A i \in 1..Len(after) : after[i].kind = "named"
  BY DEF Shaped
<1>2. IsSequence(star) /\ \A i \in 1..Len(star) : star[i].kind \in {"pos", "star"}
  BY SingleIsSequence DEF StarAny, Formal
<1>3. SplattedOf(sig).formals = before \o star \o after
  <2>1. SplattedOf(sig) = Splatted(before, after)
    BY ShapedParts
  <2> QED
    BY <2>1 DEF Splatted, CallableType
<1> HIDE DEF star
<1>4. OfKinds(SplattedOf(sig).formals, {"named"}) = after
  BY <1>1, <1>2, <1>3, CallableSelections
<1>5. SubSeq(before \o star \o after, 1, Len(before)) = before
  <2>1. PICK S : before \in Seq(S) /\ star \in Seq(S)
    BY <1>1, <1>2, CommonElements
  <2>2. PICK T : after \in Seq(T)
    BY <1>1, SequenceDomain
  <2>3. before \in Seq(S \cup T) /\ star \in Seq(S \cup T) /\ after \in Seq(S \cup T)
    BY <2>1, <2>2, SeqMonotonic
  <2> QED
    BY <2>3
<1>6. SplatAt(sig) - 1 = Len(before)
  BY <1>1, ShapedParts, SequenceDomain
<1>7. OfKinds(before, {"pos"}) = before
  BY <1>1, OfKindsAll
<1> QED
  BY <1>3, <1>4, <1>5, <1>6, <1>7

\* What follows the callable in a stub: *args and parameters by name.
LEMMA StubSelections ==
  ASSUME NEW sig, NEW lead, NEW others, NEW before, NEW after, NEW options,
         Shaped(sig, lead, others, before, after, options)
  PROVE  /\ OfKinds(SubSeq(sig.formals, CallableAt(sig) + 1, Len(sig.formals)), {"pos"}) = <<>>
         /\ OfKinds(sig.formals, {"star"}) # <<>>
<1> DEFINE f == CallableFormal(others, before, after)
           leading == lead \o <<f>>
           star == <<StarAny>>
<1>1. /\ IsSequence(lead) /\ IsSequence(options)
      /\ \A i \in 1..Len(lead) : lead[i].kind = "pos"
      /\ \A i \in 1..Len(options) : options[i].kind \in {"named", "named_opt"}
  BY DEF Shaped
<1>2. StarAny.kind = "star" /\ f.kind = "pos"
  BY DEF StarAny, Formal, CallableFormal, Pos
<1> HIDE DEF f
<1>3. IsSequence(leading) /\ Len(leading) = Len(lead) + 1
  BY <1>1, SingleIsSequence, ConcatIsSequence
<1>4. IsSequence(star)
  BY SingleIsSequence
<1>5. sig.formals = leading \o star \o options
  <2>1. <<f, StarAny>> = <<f>> \o star
    OBVIOUS
  <2>2. IsSequence(<<f>>)
    BY SingleIsSequence
  <2> HIDE DEF star
  <2>3. lead \o (<<f>> \o star) = leading \o star
    BY <1>1, <1>4, <2>2, ConcatIsAssociative
  <2>4. sig.formals = lead \o <<f, StarAny>> \o options
    BY DEF Shaped, f
  <2> QED
    BY <2>1, <2>3, <2>4
<1>6. /\ OfKinds(star, {"pos"}) = <<>> /\ OfKinds(star, {"star"}) = star
      /\ OfKinds(options, {"pos"}) = <<>> /\ OfKinds(options, {"star"}) = <<>>
  <2>1. OfKinds(star, {"pos"}) = <<>> /\ OfKinds(star, {"star"}) = star
    BY <1>2, OfKindsSingle
  <2>2. \A i \in 1..Len(options) : options[i].kind \notin {"pos"} /\ options[i].kind \notin {"star"}
    BY <1>1
  <2> QED
    BY <1>1, <2>1, <2>2, OfKindsNone
<1>7. OfKinds(leading, {"star"}) = <<>>
  <2>1. OfKinds(<<f>>, {"star"}) = <<>>
    BY <1>2, OfKindsSingle
  <2>2. OfKinds(lead, {"star"}) = <<>>
    BY <1>1, OfKindsNone
  <2>3. IsSequence(<<f>>)
    BY SingleIsSequence
  <2> DEFINE last == <<f>>
  <2> HIDE DEF last
  <2>4. OfKinds(lead \o last, {"star"}) = OfKinds(lead, {"star"}) \o OfKinds(last, {"star"})
    BY <1>1, <2>3, OfKindsConcat DEF last
  <2> QED
    BY <2>1, <2>2, <2>4 DEF last
<1>8. star # <<>>
  OBVIOUS
<1> HIDE DEF leading, star
<1>9. OfKinds(sig.formals, {"star"}) = star
  <2>1. OfKinds(leading \o star \o options, {"star"})
          = OfKinds(leading, {"star"}) \o OfKinds(star, {"star"}) \o OfKinds(options, {"star"})
    BY <1>1, <1>3, <1>4, OfKindsThree
  <2>2. OfKinds(sig.formals, {"star"}) = (<<>> \o star) \o <<>>
    BY <1>5, <1>6, <1>7, <2>1
  <2>3. (<<>> \o star) \o <<>> = star
    BY <1>4, EmptyConcat
  <2> QED
    BY <2>2, <2>3
<1>10. OfKinds(star \o options, {"pos"}) = <<>>
  BY <1>1, <1>4, <1>6, OfKindsConcat
<1>11. SubSeq(sig.formals, Len(lead) + 2, Len(sig.formals)) = star \o options
  <2>1. IsSequence(star \o options) /\ leading \o (star \o options) = sig.formals
    BY <1>1, <1>3, <1>4, <1>5, ConcatIsSequence, ConcatIsAssociative
  <2> QED
    <3> DEFINE rest == star \o options
    <3>1. IsSequence(rest) /\ leading \o rest = sig.formals
      BY <2>1
    <3>2. Len(leading) + 1 = Len(lead) + 2
      BY <1>1, <1>3, SequenceDomain
    <3> HIDE DEF rest
    <3>3. SubSeq(leading \o rest, Len(leading) + 1, Len(leading \o rest)) = rest
      <4>1. IsSequence(leading)
        BY <1>3
      <4> QED
        BY <3>1, <4>1, SubSeqBehind
    <3> QED
      BY <3>1, <3>2, <3>3 DEF rest
<1>12. CallableAt(sig) + 1 = Len(lead) + 2
  BY <1>1, ShapedParts, SequenceDomain
<1> QED
  BY <1>8, <1>9, <1>10, <1>11, <1>12

\* What an overload takes: its type variables in the place of *args.
LEMMA OverloadSelections ==
  ASSUME NEW sig, NEW lead, NEW others, NEW before, NEW after, NEW options,
         Shaped(sig, lead, others, before, after, options), NEW ids \in Seq(Int)
  PROVE  LET formals == Expanded(sig, ids).formals
         IN  /\ OfKinds(SubSeq(formals, CallableAt(sig) + 1, Len(formals)), {"pos"}) = PosFormals(ids)
             /\ OfKinds(formals, {"star"}) = <<>>
             /\ formals[CallableAt(sig)].type = CallableType(before \o PosFormals(ids) \o after)
<1> DEFINE formals == Expanded(sig, ids).formals
           f == Pos(CallableType(before \o PosFormals(ids) \o after))
           last == <<f>>
           leading == lead \o last
           new == PosFormals(ids)
           rest == new \o options
<1>1. /\ IsSequence(lead) /\ IsSequence(options)
      /\ \A i \in 1..Len(lead) : lead[i].kind = "pos"
      /\ \A i \in 1..Len(options) : options[i].kind \in {"named", "named_opt"}
  BY DEF Shaped
<1>2. f.kind = "pos" /\ f.type = CallableType(before \o PosFormals(ids) \o after)
  BY DEF Pos, Formal
<1>3. formals = (leading \o new) \o options
  BY ShapedExpansion
<1>4. IsSequence(new) /\ \A i \in 1..Len(new) : new[i].kind = "pos"
  BY PosFormalsType
<1> HIDE DEF f, new, formals
<1>5. /\ OfKinds(options, {"pos"}) = <<>> /\ OfKinds(options, {"star"}) = <<>>
      /\ OfKinds(lead, {"star"}) = <<>>
      /\ OfKinds(new, {"pos"}) = new /\ OfKinds(new, {"star"}) = <<>>
  <2>1. /\ OfKinds(new, {"pos"}) = new /\ OfKinds(new, {"star"}) = <<>>
        /\ OfKinds(lead, {"star"}) = <<>>
    BY <1>1, <1>4, OfKindsAll, OfKindsNone
  <2>2. \A i \in 1..Len(options) : options[i].kind \notin {"pos"} /\ options[i].kind \notin {"star"}
    BY <1>1
  <2> QED
    BY <1>1, <2>1, <2>2, OfKindsNone
<1>6. IsSequence(last) /\ Len(last) = 1 /\ last[1] = f /\ OfKinds(last, {"star"}) = <<>>
  BY <1>2, SingleIsSequence, OfKindsSingle
<1>7. IsSequence(leading) /\ Len(leading) = Len(lead) + 1 /\ leading[Len(lead) + 1] = f
  <2>1. leading[Len(lead) + 1] = f
    BY <1>1 DEF IsSequence
  <2> HIDE DEF last
  <2> QED
    BY <1>1, <1>6, <2>1, ConcatIsSequence
<1>8. OfKinds(leading, {"star"}) = <<>>
  <2> HIDE DEF last
  <2>1. OfKinds(lead \o last, {"star"}) = OfKinds(lead, {"star"}) \o OfKinds(last, {"star"})
    BY <1>1, <1>6, OfKindsConcat
  <2> QED
    BY <1>5, <1>6, <2>1
<1> HIDE DEF leading, last
<1>9. OfKinds(formals, {"star"}) = <<>>
  <2>1. OfKinds((leading \o new) \o options, {"star"})
          = OfKinds(leading, {"star"}) \o OfKinds(new, {"star"}) \o OfKinds(options, {"star"})
    BY <1>1, <1>4, <1>7, OfKindsThree
  <2>2. (<<>> \o <<>>) \o <<>> = <<>>
    OBVIOUS
  <2> QED
    BY <1>3, <1>5, <1>8, <2>1, <2>2
<1>10. IsSequence(rest) /\ formals = leading \o rest
  <2>1. IsSequence(rest)
    BY <1>1, <1>4, ConcatIsSequence
  <2>2. IsSequence(leading) /\ IsSequence(new) /\ IsSequence(options)
    BY <1>1, <1>4, <1>7
  <2>3. (leading \o new) \o options = leading \o (new \o options)
    BY <2>2, ConcatIsAssociative
  <2> QED
    BY <1>3, <2>1, <2>3
<1>11. OfKinds(rest, {"pos"}) = new
  <2>1. OfKinds(new \o options, {"pos"}) = OfKinds(new, {"pos"}) \o OfKinds(options, {"pos"})
    BY <1>1, <1>4, OfKindsConcat
  <2> QED
    BY <1>4, <1>5, <2>1, EmptyConcat
<1> HIDE DEF rest
<1>12. SubSeq(formals, Len(leading) + 1, Len(formals)) = rest
  <2>1. IsSequence(leading)
    BY <1>7
  <2>2. SubSeq(leading \o rest, Len(leading) + 1, Len(leading \o rest)) = rest
    BY <1>10, <2>1, SubSeqBehind
  <2> QED
    BY <1>10, <2>2
<1>13. formals[Len(lead) + 1] = f
  <2>1. Len(lead) + 1 \in 1..Len(leading)
    BY <1>1, <1>7, SequenceDomain
  <2>2. PICK T : leading \in Seq(T) /\ rest \in Seq(T)
    BY <1>7, <1>10, CommonElements
  <2>3. (leading \o rest)[Len(lead) + 1] = leading[Len(lead) + 1]
    BY <2>1, <2>2
  <2> QED
    BY <1>7, <1>10, <2>3
<1>14. CallableAt(sig) = Len(lead) + 1 /\ CallableAt(sig) + 1 = Len(leading) + 1
  BY <1>7, ShapedParts
<1> QED
  BY <1>2, <1>9, <1>11, <1>12, <1>13, <1>14 DEF formals, new

-----------------------------------------------------------------------------
(* The stubs have this shape. *)

IsOptions(options) ==
  /\ IsSequence(options)
  /\ \A i \in 1..Len(options) : /\ options[i].kind \in {"named", "named_opt"}
                               /\ options[i].type.form # "union"

LEMMA NamedOptions ==
  ASSUME NEW names, IsSequence(names)
  PROVE  /\ IsSequence(Options(names))
         /\ \A i \in 1..Len(Options(names)) :
              /\ Options(names)[i].kind \in {"named", "named_opt"}
              /\ Options(names)[i].type.form # "union"
<1>1. DOMAIN names = 1..Len(names) /\ Len(names) \in Nat
  BY SequenceDomain
<1>2. Options(names) \in Seq({Optional(names[i]) : i \in DOMAIN names})
  BY <1>1 DEF Options
<1>3. IsSequence(Options(names))
  BY <1>2, HasElements
<1>4. \A i \in DOMAIN names :
        Options(names)[i].kind = "named_opt" /\ Options(names)[i].type.form = "inst"
  BY DEF Options, Optional, Formal, Inst
<1>5. Len(Options(names)) = Len(names)
  BY <1>1 DEF Options
<1> QED
  BY <1>1, <1>3, <1>4, <1>5

\* A stub that takes any callable, or one with VarArg().
LEMMA AnyCallableShape ==
  ASSUME NEW sig, NEW lead, NEW before, NEW options,
         IsSequence(lead), IsSequence(before), Len(sig.variables) \in Nat,
         sig.formals = lead \o <<AnyCallableOr(Splatted(before, <<>>)), StarAny>> \o options,
         \A i \in 1..Len(lead) : lead[i].kind = "pos" /\ lead[i].type.form \notin {"callable", "union"},
         \A i \in 1..Len(before) : before[i].kind = "pos" /\ before[i].type.form # "tvar",
         IsOptions(options)
  PROVE  Shaped(sig, lead, <<EllipsisCallable>>, before, <<>>, options)
<1>1. IsSequence(<<EllipsisCallable>>) /\ IsSequence(<<>>) /\ Len(<<>>) = 0
  <2>1. <<>> \in Seq({})
    OBVIOUS
  <2> QED
    BY <2>1, SingleIsSequence, HasElements
<1>2. \A i \in 1..Len(<<EllipsisCallable>>) :
        <<EllipsisCallable>>[i].form = "callable" /\ <<EllipsisCallable>>[i].ellipsis
  BY DEF EllipsisCallable
<1>3. AnyCallableOr(Splatted(before, <<>>)) = CallableFormal(<<EllipsisCallable>>, before, <<>>)
  <2> DEFINE c == Splatted(before, <<>>)
  <2> HIDE DEF c
  <2>1. <<EllipsisCallable, c>> = <<EllipsisCallable>> \o <<c>>
    OBVIOUS
  <2> QED
    BY <2>1 DEF AnyCallableOr, CallableFormal, c
<1>4. \A i \in 1..Len(<<>>) : <<>>[i].kind = "named"
  BY <1>1
<1> QED
  BY <1>1, <1>2, <1>3, <1>4 DEF Shaped, IsOptions

LEMMA EmptyIsSequence == IsSequence(<<>>) /\ Len(<<>>) = 0 /\ \A i \in 1..Len(<<>>) : FALSE
<1>1. <<>> \in Seq({}) /\ Len(<<>>) = 0
  OBVIOUS
<1>2. IsSequence(<<>>)
  BY <1>1, HasElements
<1> QED
  BY <1>1, <1>2

LEMMA PairIsSequence ==
  ASSUME NEW e, NEW d
  PROVE  IsSequence(<<e, d>>) /\ \A i \in 1..Len(<<e, d>>) : <<e, d>>[i] \in {e, d}
<1>1. IsSequence(<<e, d>>)
  BY DEF IsSequence
<1>2. \A i \in 1..Len(<<e, d>>) : <<e, d>>[i] \in {e, d}
  OBVIOUS
<1> QED
  BY <1>1, <1>2

\* A stub without other parameters before the callable, or with the ones named.
LEMMA StubLeads ==
  /\ IsSequence(<<Self>>) /\ IsSequence(<<Self, Pos(Any)>>)
  /\ \A i \in 1..Len(<<Self>>) :
       <<Self>>[i].kind = "pos" /\ <<Self>>[i].type.form \notin {"callable", "union"}
  /\ \A i \in 1..Len(<<Self, Pos(Any)>>) :
       /\ <<Self, Pos(Any)>>[i].kind = "pos"
       /\ <<Self, Pos(Any)>>[i].type.form \notin {"callable", "union"}
<1>1. Self.kind = "pos" /\ Self.type.form \notin {"callable", "union"}
  BY DEF Self, Pos, Formal, Inst
<1>2. Pos(Any).kind = "pos" /\ Pos(Any).type.form \notin {"callable", "union"}
  BY DEF Pos, Formal, Any
<1>3. IsSequence(<<Self>>) /\ \A i \in 1..Len(<<Self>>) : <<Self>>[i] = Self
  BY SingleIsSequence
<1>4. /\ IsSequence(<<Self, Pos(Any)>>)
      /\ \A i \in 1..Len(<<Self, Pos(Any)>>) : <<Self, Pos(Any)>>[i] \in {Self, Pos(Any)}
  BY PairIsSequence
<1> QED
  BY <1>1, <1>2, <1>3, <1>4

LEMMA StubOptions ==
  /\ \A name : IsOptions(<<Optional(name)>>)
  /\ IsOptions(<<Optional("abandon_on_cancel"), Optional("limiter")>>)
  /\ IsOptions(Options(<<"clock", "instruments", "restrict_keyboard_interrupt_to_checkpoints",
                         "strict_exception_groups">>))
  /\ IsOptions(<<Required("run_sync_soon_threadsafe"), Required("done_callback")>> \o
               Options(<<"run_sync_soon_not_threadsafe", "host_uses_signal_set_wakeup_fd",
                         "clock", "instruments", "restrict_keyboard_interrupt_to_checkpoints",
                         "strict_exception_groups">>))
<1>1. ASSUME NEW name PROVE IsOptions(<<Optional(name)>>)
  BY SingleIsSequence DEF IsOptions, Optional, Formal, Inst
<1>2. ASSUME NEW e, NEW d, e.kind \in {"named", "named_opt"}, d.kind \in {"named", "named_opt"},
             e.type.form # "union", d.type.form # "union"
      PROVE  IsOptions(<<e, d>>)
  BY <1>2, PairIsSequence DEF IsOptions
<1>3. ASSUME NEW names, IsSequence(names) PROVE IsOptions(Options(names))
  BY <1>3, NamedOptions DEF IsOptions
<1>4. ASSUME NEW a, NEW b, IsOptions(a), IsOptions(b) PROVE IsOptions(a \o b)
  <2>1. IsSequence(a) /\ IsSequence(b)
    BY <1>4 DEF IsOptions
  <2>2. IsSequence(a \o b)
    BY <2>1, ConcatIsSequence
  <2>3. PICK T : a \in Seq(T) /\ b \in Seq(T)
    BY <2>1, CommonElements
  <2>4. /\ Len(a \o b) = Len(a) + Len(b) /\ Len(a) \in Nat /\ Len(b) \in Nat
        /\ \A i \in 1..Len(a) : (a \o b)[i] = a[i]
        /\ \A i \in (Len(a) + 1)..(Len(a) + Len(b)) : (a \o b)[i] = b[i - Len(a)]
    BY <2>3
  <2>5. ASSUME NEW i \in 1..Len(a \o b)
        PROVE  (a \o b)[i].kind \in {"named", "named_opt"} /\ (a \o b)[i].type.form # "union"
    <3>1. CASE i \in 1..Len(a)
      BY <1>4, <2>4, <3>1 DEF IsOptions
    <3>2. CASE i \in (Len(a) + 1)..(Len(a) + Len(b))
      <4>1. i - Len(a) \in 1..Len(b)
        BY <2>4, <3>2
      <4> QED
        BY <1>4, <2>4, <3>2, <4>1 DEF IsOptions
    <3> QED
      BY <2>4, <3>1, <3>2
  <2> QED
    BY <2>2, <2>5 DEF IsOptions
<1>5. \A name : /\ Optional(name).kind = "named_opt" /\ Required(name).kind = "named"
               /\ Optional(name).type.form = "inst" /\ Required(name).type.form = "inst"
  BY DEF Optional, Required, Formal, Inst
<1>6. IsOptions(<<Optional("abandon_on_cancel"), Optional("limiter")>>)
  BY <1>2, <1>5
<1>7. IsOptions(<<Required("run_sync_soon_threadsafe"), Required("done_callback")>>)
  BY <1>2, <1>5
<1>8. IsSequence(<<"clock", "instruments", "restrict_keyboard_interrupt_to_checkpoints",
                   "strict_exception_groups">>)
  BY DEF IsSequence
<1>9. IsSequence(<<"run_sync_soon_not_threadsafe", "host_uses_signal_set_wakeup_fd",
                   "clock", "instruments", "restrict_keyboard_interrupt_to_checkpoints",
                   "strict_exception_groups">>)
  BY DEF IsSequence
<1> QED
  BY <1>1, <1>3, <1>4, <1>6, <1>7, <1>8, <1>9

\* The stubs other than start_soon() and start() take any callable.
LEMMA EllipsisStubs ==
  ASSUME NEW sig \in TrioFunctions \ {start_soon, start}
  PROVE  \E lead, before, options :
           Shaped(sig, lead, <<EllipsisCallable>>, before, <<>>, options)
<1> DEFINE c == AnyCallable
           channel == Pos(Inst({"DTLSChannel"}))
           d == AnyCallableOr(Splatted(<<channel>>, <<>>))
<1>1. OwnT \in Seq(Int) /\ <<>> \in Seq(Int)
  BY DEF OwnT
<1>2. Len(OwnT) \in Nat /\ Len(<<>>) \in Nat
  BY <1>1
<1>3. c = AnyCallableOr(Splatted(<<>>, <<>>))
  BY DEF AnyCallable
<1>4. /\ IsSequence(<<channel>>)
      /\ \A i \in 1..Len(<<channel>>) :
           <<channel>>[i].kind = "pos" /\ <<channel>>[i].type.form # "tvar"
  BY SingleIsSequence DEF Pos, Formal, Inst
<1> HIDE DEF c
<1>5. ASSUME NEW options, IsOptions(options), Len(sig.variables) \in Nat,
             sig.formals = (<<>> \o <<c, StarAny>>) \o options
      PROVE  Shaped(sig, <<>>, <<EllipsisCallable>>, <<>>, <<>>, options)
  BY <1>3, <1>5, EmptyIsSequence, AnyCallableShape
<1>6. ASSUME NEW options, IsOptions(options), Len(sig.variables) \in Nat,
             sig.formals = (<<Self>> \o <<c, StarAny>>) \o options
      PROVE  Shaped(sig, <<Self>>, <<EllipsisCallable>>, <<>>, <<>>, options)
  BY <1>3, <1>6, StubLeads, EmptyIsSequence, AnyCallableShape
<1>7. ASSUME NEW options, IsOptions(options), Len(sig.variables) \in Nat,
             sig.formals = (<<Self, Pos(Any)>> \o <<d, StarAny>>) \o options
      PROVE  Shaped(sig, <<Self, Pos(Any)>>, <<EllipsisCallable>>, <<channel>>, <<>>, options)
  <2> HIDE DEF channel
  <2> QED
    BY <1>4, <1>7, StubLeads, AnyCallableShape
<1>8. CASE sig = run
  <2>1. PICK options : IsOptions(options) /\ sig = Signature(<<c, StarAny>> \o options, OwnT, 0)
    BY <1>8, StubOptions DEF run, c
  <2>2. sig.formals = <<c, StarAny>> \o options /\ sig.variables = OwnT
    BY <2>1 DEF Signature
  <2>3. <<>> \o <<c, StarAny>> = <<c, StarAny>>
    OBVIOUS
  <2>4. sig.formals = (<<>> \o <<c, StarAny>>) \o options
    BY <2>2, <2>3
  <2> QED
    BY <1>2, <1>5, <2>1, <2>2, <2>4
<1>9. CASE sig = serve
  <2>1. sig.formals = <<Self, Pos(Any), d, StarAny, Optional("task_status")>> /\ sig.variables = <<>>
    BY <1>9 DEF serve, Signature, d
  <2> HIDE DEF d
  <2>2. <<Self, Pos(Any), d, StarAny, Optional("task_status")>> = (<<Self, Pos(Any)>> \o <<d, StarAny>>) \o <<Optional("task_status")>>
    OBVIOUS
  <2>3. sig.formals = (<<Self, Pos(Any)>> \o <<d, StarAny>>) \o <<Optional("task_status")>>
    BY <2>1, <2>2
  <2>4. IsOptions(<<Optional("task_status")>>)
    BY StubOptions
  <2> QED
    BY <1>2, <1>7, <2>1, <2>3, <2>4
<1>10. CASE sig \in {from_thread_run, from_thread_run_sync}
  <2>1. sig.formals = <<c, StarAny, Optional("trio_token")>> /\ sig.variables = OwnT
    BY <1>10 DEF from_thread_run, from_thread_run_sync, Signature, c
  <2> HIDE DEF c
  <2>2. <<c, StarAny, Optional("trio_token")>> = (<<>> \o <<c, StarAny>>) \o <<Optional("trio_token")>>
    OBVIOUS
  <2>3. sig.formals = (<<>> \o <<c, StarAny>>) \o <<Optional("trio_token")>>
    BY <2>1, <2>2
  <2>4. IsOptions(<<Optional("trio_token")>>)
    BY StubOptions
  <2> QED
    BY <1>2, <1>5, <2>1, <2>3, <2>4
<1>11. CASE sig = to_thread_run_sync
  <2>1. sig.formals = <<c, StarAny, Optional("abandon_on_cancel"), Optional("limiter")>> /\ sig.variables = OwnT
    BY <1>11 DEF to_thread_run_sync, Signature, c
  <2> HIDE DEF c
  <2>2. <<c, StarAny, Optional("abandon_on_cancel"), Optional("limiter")>> = (<<>> \o <<c, StarAny>>) \o <<Optional("abandon_on_cancel"), Optional("limiter")>>
    OBVIOUS
  <2>3. sig.formals = (<<>> \o <<c, StarAny>>) \o <<Optional("abandon_on_cancel"), Optional("limiter")>>
    BY <2>1, <2>2
  <2>4. IsOptions(<<Optional("abandon_on_cancel"), Optional("limiter")>>)
    BY StubOptions
  <2> QED
    BY <1>2, <1>5, <2>1, <2>3, <2>4
<1>12. CASE sig = run_sync_soon
  <2>1. sig.formals = <<Self, c, StarAny, Optional("idempotent")>> /\ sig.variables = <<>>
    BY <1>12 DEF run_sync_soon, Signature, c
  <2> HIDE DEF c
  <2>2. <<Self, c, StarAny, Optional("idempotent")>> = (<<Self>> \o <<c, StarAny>>) \o <<Optional("idempotent")>>
    OBVIOUS
  <2>3. sig.formals = (<<Self>> \o <<c, StarAny>>) \o <<Optional("idempotent")>>
    BY <2>1, <2>2
  <2>4. IsOptions(<<Optional("idempotent")>>)
    BY StubOptions
  <2> QED
    BY <1>2, <1>6, <2>1, <2>3, <2>4
<1>13. CASE sig = spawn_system_task
  <2>1. sig.formals = <<c, StarAny, Optional("name")>> /\ sig.variables = <<>>
    BY <1>13 DEF spawn_system_task, Signature, c
  <2> HIDE DEF c
  <2>2. <<c, StarAny, Optional("name")>> = (<<>> \o <<c, StarAny>>) \o <<Optional("name")>>
    OBVIOUS
  <2>3. sig.formals = (<<>> \o <<c, StarAny>>) \o <<Optional("name")>>
    BY <2>1, <2>2
  <2>4. IsOptions(<<Optional("name")>>)
    BY StubOptions
  <2> QED
    BY <1>2, <1>5, <2>1, <2>3, <2>4
<1>14. CASE sig = start_guest_run
  <2> DEFINE required == <<Required("run_sync_soon_threadsafe"), Required("done_callback")>>
             optional == Options(<<"run_sync_soon_not_threadsafe", "host_uses_signal_set_wakeup_fd",
                                   "clock", "instruments",
                                   "restrict_keyboard_interrupt_to_checkpoints",
                                   "strict_exception_groups">>)
             pair == <<c, StarAny>>
  <2>1. IsOptions(required \o optional) /\ IsSequence(required) /\ IsSequence(optional)
    <3>1. IsOptions(required \o optional)
      BY StubOptions
    <3>2. IsSequence(required)
      BY PairIsSequence
    <3>3. IsSequence(<<"run_sync_soon_not_threadsafe", "host_uses_signal_set_wakeup_fd",
                       "clock", "instruments", "restrict_keyboard_interrupt_to_checkpoints",
                       "strict_exception_groups">>)
      BY DEF IsSequence
    <3>4. IsSequence(optional)
      BY <3>3, NamedOptions
    <3> QED
      BY <3>1, <3>2, <3>4
  <2>2. <<c, StarAny, Required("run_sync_soon_threadsafe"), Required("done_callback")>>
          = pair \o required
    OBVIOUS
  <2>3. IsSequence(pair) /\ <<>> \o pair = pair
    BY PairIsSequence
  <2> HIDE DEF optional
  <2>4. /\ sig.formals = <<c, StarAny, Required("run_sync_soon_threadsafe"),
                           Required("done_callback")>> \o optional
        /\ sig.variables = OwnT
    BY <1>14 DEF start_guest_run, Signature, c, optional
  <2> HIDE DEF required, pair
  <2>5. (pair \o required) \o optional = pair \o (required \o optional)
    <3>1. IsSequence(required) /\ IsSequence(optional) /\ IsSequence(pair)
      BY <2>1, <2>3
    <3> QED
      BY <3>1, ConcatIsAssociative
  <2>6. sig.formals = (<<>> \o pair) \o (required \o optional)
    BY <2>2, <2>3, <2>4, <2>5
  <2> QED
    BY <1>2, <1>5, <2>1, <2>4, <2>6 DEF pair
<1> QED
  BY <1>8, <1>9, <1>10, <1>11, <1>12, <1>13, <1>14 DEF TrioFunctions

\* What start_soon() and start() spell out takes so many parameters of any type.
LEMMA TakingAnySelections ==
  ASSUME NEW n \in Nat, NEW after, IsSequence(after),
         \A i \in 1..Len(after) : after[i].kind = "named"
  PROVE  LET formals == TakingAny(n, after).formals
             given == OfKinds(formals, {"pos"})
         IN  /\ TakingAny(n, after).form = "callable" /\ TakingAny(n, after).ellipsis = FALSE
             /\ \A i \in DOMAIN formals : formals[i].kind # "star"
             /\ given = [i \in 1..n |-> Pos(Any)] /\ Len(given) = n /\ DOMAIN given = 1..n
             /\ \A i \in 1..n : given[i].type = Any
             /\ OfKinds(formals, {"star"}) = <<>>
             /\ OfKinds(formals, {"named"}) = after
<1> DEFINE new == [i \in 1..n |-> Pos(Any)]
           formals == TakingAny(n, after).formals
<1>1. /\ TakingAny(n, after).form = "callable" /\ TakingAny(n, after).ellipsis = FALSE
      /\ formals = new \o after
  BY DEF TakingAny, CallableType
<1>2. new \in Seq({Pos(Any)}) /\ Len(new) = n /\ DOMAIN new = 1..n
  OBVIOUS
<1>3. Pos(Any).kind = "pos" /\ Pos(Any).type = Any
  BY DEF Pos, Formal
<1>4. IsSequence(new) /\ \A i \in 1..Len(new) : new[i].kind = "pos" /\ new[i].type = Any
  BY <1>2, <1>3, HasElements
<1> HIDE DEF new, formals
<1>5. /\ OfKinds(new, {"pos"}) = new /\ OfKinds(new, {"star"}) = <<>> /\ OfKinds(new, {"named"}) = <<>>
      /\ OfKinds(after, {"pos"}) = <<>> /\ OfKinds(after, {"star"}) = <<>>
      /\ OfKinds(after, {"named"}) = after
  BY <1>4, OfKindsAll, OfKindsNone
<1>6. \A kinds : OfKinds(formals, kinds) = OfKinds(new, kinds) \o OfKinds(after, kinds)
  BY <1>1, <1>4, OfKindsConcat
<1>7. OfKinds(formals, {"pos"}) = new
  BY <1>4, <1>5, <1>6, EmptyConcat
<1>8. OfKinds(formals, {"star"}) = <<>>
  <2>1. <<>> \o <<>> = <<>>
    OBVIOUS
  <2> QED
    BY <1>5, <1>6, <2>1
<1>9. OfKinds(formals, {"named"}) = after
  BY <1>5, <1>6, EmptyConcat
<1>10. \A i \in DOMAIN formals : formals[i].kind # "star"
  <2>1. PICK T : new \in Seq(T) /\ after \in Seq(T)
    BY <1>4, CommonElements
  <2>2. /\ DOMAIN formals = 1..(Len(new) + Len(after))
        /\ Len(new) \in Nat /\ Len(after) \in Nat
        /\ \A i \in 1..Len(new) : formals[i] = new[i]
        /\ \A i \in (Len(new) + 1)..(Len(new) + Len(after)) : formals[i] = after[i - Len(new)]
    BY <1>1, <2>1
  <2> TAKE i \in DOMAIN formals
  <2>3. CASE i \in 1..Len(new)
    BY <1>4, <2>2, <2>3
  <2>4. CASE i \in (Len(new) + 1)..(Len(new) + Len(after))
    <3>1. i - Len(new) \in 1..Len(after)
      BY <2>2, <2>4
    <3> QED
      BY <2>2, <2>4, <3>1
  <2> QED
    BY <2>2, <2>3, <2>4
<1> QED
  BY <1>1, <1>2, <1>4, <1>7, <1>8, <1>9, <1>10 DEF new, formals

SpelledOut(after) == [n \in 1..5 |-> TakingAny(n - 1, after)]

\* start_soon() and start() spell callables out instead, and start() requires the
\* callable to take task_status.
LEMMA SpelledStubs ==
  ASSUME NEW sig \in {start_soon, start}
  PROVE  \E after, options : Shaped(sig, <<Self>>, SpelledOut(after), <<>>, after, options)
<1> DEFINE after == IF sig = start_soon THEN <<>> ELSE <<Required("task_status")>>
           options == <<Optional("name")>>
           others == SpelledOut(after)
           c == UpToFour(after)
<1>1. sig.formals = <<Self, c, StarAny, Optional("name")>> /\ Len(sig.variables) \in Nat
  <2>1. CASE sig = start_soon
    BY <2>1 DEF start_soon, Signature
  <2>2. CASE sig # start_soon
    BY <2>2 DEF start, Signature, OwnT
  <2> QED
    BY <2>1, <2>2
<1>2. IsSequence(after) /\ \A i \in 1..Len(after) : after[i].kind = "named"
  <2>1. CASE sig = start_soon
    BY <2>1, EmptyIsSequence
  <2>2. CASE sig # start_soon
    BY <2>2, SingleIsSequence DEF Required, Formal
  <2> QED
    BY <2>1, <2>2
<1> HIDE DEF after
<1>3. c = CallableFormal(others, <<>>, after)
  BY DEF UpToFour, CallableFormal, SpelledOut
<1> HIDE DEF c
<1>4. sig.formals = (<<Self>> \o <<c, StarAny>>) \o options
  <2>1. <<Self, c, StarAny, Optional("name")>> = (<<Self>> \o <<c, StarAny>>) \o options
    OBVIOUS
  <2> QED
    BY <1>1, <2>1
<1>5. /\ IsSequence(others)
      /\ \A i \in 1..Len(others) : \A j \in DOMAIN others[i].formals : others[i].formals[j].kind # "star"
  <2>1. others \in Seq({TakingAny(n - 1, after) : n \in 1..5}) /\ Len(others) = 5
    BY DEF SpelledOut
  <2>2. ASSUME NEW i \in 1..5, NEW j \in DOMAIN others[i].formals
        PROVE  others[i].formals[j].kind # "star"
    <3>1. others[i] = TakingAny(i - 1, after) /\ i - 1 \in Nat
      BY DEF SpelledOut
    <3>2. \A k \in DOMAIN TakingAny(i - 1, after).formals :
            TakingAny(i - 1, after).formals[k].kind # "star"
      BY <1>2, <3>1, TakingAnySelections
    <3> QED
      BY <3>1, <3>2
  <2> QED
    BY <2>1, <2>2, HasElements
<1>6. IsOptions(options)
  BY StubOptions
<1> HIDE DEF others, options
<1>7. IsSequence(<<>>) /\ \A i \in 1..Len(<<>>) : FALSE
  BY EmptyIsSequence
<1>8. Shaped(sig, <<Self>>, others, <<>>, after, options)
  BY <1>1, <1>2, <1>3, <1>4, <1>5, <1>6, <1>7, StubLeads DEF Shaped, IsOptions
<1> QED
  BY <1>8 DEF others

\* Every decorated function of the stubs has one callable with VarArg(), or more
\* that leave *args to it.
LEMMA StubsAreShaped ==
  ASSUME NEW sig \in TrioFunctions
  PROVE  \E lead, others, before, after, options :
           Shaped(sig, lead, others, before, after, options)
BY EllipsisStubs, SpelledStubs

\* The type variables of an overload are all different.
LEMMA NewIdsAreDistinct ==
  ASSUME NEW sig, Len(sig.variables) \in Nat, NEW n \in Nat
  PROVE  /\ NewIds(sig, n) \in Seq(Int) /\ Len(NewIds(sig, n)) = n
         /\ \A i, j \in 1..n : NewIds(sig, n)[i] = NewIds(sig, n)[j] => i = j
<1>1. \A i \in 1..n : NewTypeVarId(sig, i) \in Int
  BY DEF NewTypeVarId
<1>2. NewIds(sig, n) \in Seq(Int) /\ Len(NewIds(sig, n)) = n
  BY <1>1 DEF NewIds
<1>3. \A i, j \in 1..n : NewTypeVarId(sig, i) = NewTypeVarId(sig, j) => i = j
  BY DEF NewTypeVarId
<1>4. \A i \in 1..n : NewIds(sig, n)[i] = NewTypeVarId(sig, i)
  BY DEF NewIds
<1> QED
  BY <1>2, <1>3, <1>4

\* The type variables the stubs bind are those of mypy for functions at the top.
LEMMA StubVariables ==
  ASSUME NEW sig \in TrioFunctions
  PROVE  /\ sig = Signature(sig.formals, sig.variables, sig.outer_vars)
         /\ sig.variables \in {<<>>, OwnT} /\ sig.outer_vars = 0
<1>1. \A formals, variables :
        LET s == Signature(formals, variables, 0)
        IN  /\ s = Signature(s.formals, s.variables, s.outer_vars)
            /\ s.variables = variables /\ s.outer_vars = 0
  BY DEF Signature
<1>2. \E formals : \E variables \in {<<>>, OwnT} : sig = Signature(formals, variables, 0)
  <2>1. CASE sig \in {start_soon, serve, run_sync_soon, spawn_system_task}
    BY <2>1 DEF start_soon, serve, run_sync_soon, spawn_system_task
  <2>2. CASE sig \in {start, run, from_thread_run, from_thread_run_sync, to_thread_run_sync,
                      start_guest_run}
    BY <2>2 DEF start, run, from_thread_run, from_thread_run_sync, to_thread_run_sync,
       start_guest_run
  <2> QED
    BY <2>1, <2>2 DEF TrioFunctions
<1> QED
  BY <1>1, <1>2

\* The stubs are used as the plugin wants: each is a signature as mypy makes them,
\* with one *args: Any and one callable with VarArg() to pass it to, so that what
\* is proved of the callback holds for all of them and none is refused.
THEOREM StubsAreValid ==
  \A sig \in TrioFunctions : IsSignature(sig) /\ OneCallableAndStar(sig)
<1> TAKE sig \in TrioFunctions
<1>1. PICK lead, others, before, after, options :
        Shaped(sig, lead, others, before, after, options)
  BY StubsAreShaped
<1>2. /\ OneCallableAndStar(sig)
      /\ \A i \in DOMAIN sig.formals : \A c \in CandidatesOf(sig.formals[i]) : OneStar(c.formals)
      /\ \A i \in DOMAIN sig.formals :
           sig.formals[i].type.form = "union" => IsSequence(sig.formals[i].type.items)
  BY <1>1, ShapedParts
<1>3. IsSequence(sig.formals)
  <2> DEFINE middle == <<CallableFormal(others, before, after), StarAny>>
  <2>1. IsSequence(lead) /\ IsSequence(middle) /\ IsSequence(options)
    BY <1>1, PairIsSequence DEF Shaped
  <2>2. sig.formals = lead \o middle \o options
    BY <1>1 DEF Shaped
  <2> HIDE DEF middle
  <2>3. IsSequence(lead \o middle)
    BY <2>1, ConcatIsSequence
  <2> QED
    BY <2>1, <2>2, <2>3, ConcatIsSequence
<1>4. OneStar(sig.formals)
  BY <1>2 DEF OneCallableAndStar, OneStar
<1>5. sig = Signature(sig.formals, sig.variables, sig.outer_vars)
  BY StubVariables
<1>6. /\ IsSequence(sig.variables) /\ sig.outer_vars \in Nat
      /\ \A i \in DOMAIN sig.variables : sig.variables[i] = -(sig.outer_vars + i)
  <2>1. sig.outer_vars = 0 /\ sig.variables \in {<<>>, OwnT}
    BY StubVariables
  <2>2. CASE sig.variables = <<>>
    BY <2>1, <2>2, EmptyIsSequence
  <2>3. CASE sig.variables = OwnT
    <3>1. IsSequence(OwnT) /\ DOMAIN OwnT = {1} /\ OwnT[1] = -1
      BY DEF OwnT, IsSequence
    <3> QED
      BY <2>1, <2>3, <3>1
  <2> QED
    BY <2>1, <2>2, <2>3
<1> QED
  BY <1>2, <1>3, <1>4, <1>5, <1>6 DEF IsSignature

=============================================================================
