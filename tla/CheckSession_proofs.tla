------------------------- MODULE CheckSession_proofs -------------------------
(***************************************************************************)
(* TypeOK, EnclosingFound, NoSpuriousErrors and the steps of CheckContract *)
(* for all programs, nestings of scopes and numbers of passes.  IInv says  *)
(* what makes them true: what is around each scope of the stack, that the  *)
(* first pass leaves no definition unvisited, and that every bad place not *)
(* reported yet is still ahead of the walk, in a node of this pass or of   *)
(* the next.                                                               *)
(***************************************************************************)
EXTENDS CheckSession, SequenceTheorems, TLAPS

\* s and the scopes nested in it, however deep.
Inside(s) ==
  {x \in Scopes : \A S \in SUBSET Scopes :
     s \in S /\ (\A c \in Scopes : Enclosing[c] \in S => c \in S) => x \in S}

Frames == [scope : Scopes, next : Nat]

Live(i) == stack[i].next <= Len(body[stack[i].scope])

Nodes == {Module} \cup {s \in Scopes : Kind[s] = "FuncDef"}

Typed == TypeOK /\ body \in Bodies /\ todo \in Seq(Nodes)

\* f is the innermost function or lambda among the first n scopes, or Module.
Innermost(n, f) ==
  \/ f = Module /\ \A i \in 1..n : ~ FunctionKind(Kind[stack[i].scope])
  \/ /\ FunctionKind(Kind[f])
     /\ \E i \in 1..n : /\ stack[i].scope = f
                        /\ \A j \in (i + 1)..n : ~ FunctionKind(Kind[stack[j].scope])

Found == \A n \in 1..depth : Live(n) => Innermost(n, Within[stack[n].scope])

\* A scope with something left to walk is at the definition of the next scope.
Nested == \A i \in 1..(depth - 1) :
  Live(i) => body[stack[i].scope][stack[i].next] = Definition(stack[i + 1].scope)

\* The functions on the stack are around the scopes above them.
Around == \A n \in 1..depth, i \in 1..depth :
  i <= n /\ Kind[stack[i].scope] = "FuncDef" => stack[n].scope \in Inside(stack[i].scope)

Visited(s) == signature[s] # Unknown

\* The definitions among the first items of a scope were visited.
VisitedBefore(s, next) ==
  \A j \in DOMAIN body[s] :
    j < next /\ body[s][j].what = "define" => Visited(body[s][j].scope)

AllVisited == \A s \in Scopes \ {Module} : Visited(s)

\* The first pass has not begun, or walks through the module, or left no
\* definition unvisited.
FirstPass ==
  /\ \A s \in Scopes : Visited(s) => VisitedBefore(s, Len(body[s]) + 1)
  /\ \/ AllVisited
     \/ pass_num = 0 /\ stack = <<>> /\ todo = <<Module>>
     \/ /\ pass_num = 0 /\ stack # <<>> /\ todo = <<>>
        /\ stack[1].scope = Module
        /\ \A i \in 1..(depth - 1) : Live(i)
        /\ \A i \in 1..depth : VisitedBefore(stack[i].scope, stack[i].next)

\* Nothing is deferred in the last pass.
DeferredInTime == deferred_nodes # <<>> => pass_num < LastPass

DecoratorsReported == \A g \in BadDecorators : Visited(g) => <<g, 0>> \in errors

Pending(s) ==
  \/ \E i \in DOMAIN todo : s \in Inside(todo[i])
  \/ \E i \in DOMAIN deferred_nodes : s \in Inside(deferred_nodes[i])

\* The walk of the node on the stack has item j of scope s still before it.
Ahead(s, j) ==
  \E i \in 1..depth :
    \/ s = stack[i].scope /\ j >= stack[i].next
    \/ \E k \in DOMAIN body[stack[i].scope] :
         /\ k >= stack[i].next /\ (i < depth => k > stack[i].next)
         /\ body[stack[i].scope][k].what = "define"
         /\ s \in Inside(body[stack[i].scope][k].scope)

CallsCovered ==
  \A s \in Scopes : \A j \in DOMAIN body[s] :
    IsBad(s, body[s][j]) => <<s, j>> \in errors \/ Pending(s) \/ Ahead(s, j)

Ending == finished => stack = <<>> /\ todo = <<>> /\ deferred_nodes = <<>>

IInv ==
  /\ Typed /\ SignaturesDecoded /\ NoSpuriousErrors
  /\ Found /\ Nested /\ Around
  /\ FirstPass /\ DeferredInTime
  /\ DecoratorsReported /\ CallsCovered /\ Ending

-----------------------------------------------------------------------------
(* The program. *)

LEMMA ScopesTyped ==
  ASSUME NEW s \in Scopes
  PROVE  /\ Enclosing[s] \in Scopes
         /\ Kind[s] \in {"MypyFile", "TypeInfo", "FuncDef", "LambdaExpr"}
         /\ Kind[s] = "MypyFile" <=> s = Module
         /\ Module \in Scopes /\ Enclosing[Module] = Module
BY ScopesAssumption, TreeAssumption DEF ScopesAssumption, TreeAssumption

LEMMA BodiesTyped ==
  ASSUME NEW b \in Bodies, NEW s \in Scopes
  PROVE  /\ b[s] \in Seq(Items) /\ Len(b[s]) \in Nat /\ DOMAIN b[s] = 1..Len(b[s])
         /\ \A i \in DOMAIN b[s] :
              /\ b[s][i] \in Items
              /\ b[s][i].what = "define" =>
                   /\ b[s][i].scope \in Scopes \ {Module}
                   /\ b[s][i] = Definition(b[s][i].scope)
                   /\ Enclosing[b[s][i].scope] = s
              /\ b[s][i].what = "yield_from_" => b[s][i].scope \in Generators
<1>1. b[s] \in Seq(Items)
  BY BodiesAssumption DEF BodiesAssumption
<1>2. Len(b[s]) \in Nat /\ DOMAIN b[s] = 1..Len(b[s]) /\ \A i \in DOMAIN b[s] : b[s][i] \in Items
  BY <1>1
<1>3. \A i \in DOMAIN b[s] :
        b[s][i].what = "define" => b[s][i].scope # Module /\ Enclosing[b[s][i].scope] = s
  BY BodiesAssumption DEF BodiesAssumption
<1>4. \A it \in Items :
        /\ it.what = "define" => it.scope \in Scopes /\ it = Definition(it.scope)
        /\ it.what = "yield_from_" => it.scope \in Generators
  BY DEF Items, Definition
<1> QED BY <1>1, <1>2, <1>3, <1>4

LEMMA DefinedSomewhere ==
  ASSUME NEW b \in Bodies, NEW s \in Scopes \ {Module}
  PROVE  \E i \in DOMAIN b[Enclosing[s]] : b[Enclosing[s]][i] = Definition(s)
BY BodiesAssumption, TreeAssumption DEF BodiesAssumption, TreeAssumption

\* A scope is inside itself and inside what is around it.
LEMMA InsideClosed ==
  ASSUME NEW s \in Scopes
  PROVE  /\ Inside(s) \subseteq Scopes
         /\ s \in Inside(s)
         /\ \A c \in Scopes : Enclosing[c] \in Inside(s) => c \in Inside(s)
BY ScopesTyped DEF Inside

\* What is inside a scope and not the scope itself is inside one of its own.
LEMMA InsideSplits ==
  ASSUME NEW s \in Scopes, NEW x \in Inside(s), x # s
  PROVE  \E c \in Scopes \ {s} : Enclosing[c] = s /\ x \in Inside(c)
<1> DEFINE Below == {y \in Scopes : \E c \in Scopes \ {s} : Enclosing[c] = s /\ y \in Inside(c)}
           S == {s} \cup Below
<1>1. ASSUME NEW c \in Scopes, Enclosing[c] \in S PROVE c \in S
  <2>1. CASE Enclosing[c] = s
    BY <2>1, InsideClosed
  <2>2. CASE Enclosing[c] # s
    <3>1. PICK d \in Scopes \ {s} : Enclosing[d] = s /\ Enclosing[c] \in Inside(d)
      BY <1>1, <2>2
    <3> QED BY <3>1, InsideClosed
  <2> QED BY <2>1, <2>2
<1>2. S \in SUBSET Scopes /\ s \in S
  OBVIOUS
<1> HIDE DEF S
<1>3. x \in S
  BY <1>1, <1>2 DEF Inside
<1> QED BY <1>3 DEF S

\* So it is inside a scope that one of the items defines.
LEMMA InsideDefined ==
  ASSUME NEW b \in Bodies, NEW s \in Scopes, NEW x \in Inside(s), x # s
  PROVE  \E k \in DOMAIN b[s] : b[s][k].what = "define" /\ x \in Inside(b[s][k].scope)
<1>1. PICK c \in Scopes \ {s} : Enclosing[c] = s /\ x \in Inside(c)
  BY InsideSplits
<1>2. c # Module
  BY <1>1, ScopesTyped
<1>3. PICK k \in DOMAIN b[s] : b[s][k] = Definition(c)
  BY <1>1, <1>2, DefinedSomewhere
<1> QED BY <1>1, <1>3 DEF Definition

LEMMA AllInsideModule == Inside(Module) = Scopes
BY TreeAssumption DEF TreeAssumption, Inside

-----------------------------------------------------------------------------
(* What each action does to the stack. *)

Pushed ==
  /\ Running /\ item.what = "define"
  /\ depth' = depth + 1
  /\ \A i \in 1..depth : stack'[i] = stack[i]
  /\ stack'[depth + 1] = At(item.scope, 1)
  /\ stack' \in Seq(Frames)

Stepped ==
  /\ Running /\ item.what # "define"
  /\ depth' = depth
  /\ \A i \in 1..(depth - 1) : stack'[i] = stack[i]
  /\ stack'[depth] = At(top.scope, top.next + 1)
  /\ stack' \in Seq(Frames)

Popped ==
  /\ depth > 0 /\ ~ Live(depth)
  /\ depth' = depth - 1
  /\ \A i \in 1..(depth - 2) : stack'[i] = stack[i]
  /\ depth > 1 =>
       stack'[depth - 1] = At(stack[depth - 1].scope,
                              stack[depth - 1].next + IF Live(depth - 1) THEN 1 ELSE 0)
  /\ stack' \in Seq(Frames)

Started ==
  /\ depth = 0 /\ todo # <<>> /\ Head(todo) \in Nodes
  /\ depth' \in 1..3
  /\ Head(todo) = Module => depth' = 1
  /\ stack'[depth'] = At(Head(todo), 1)
  /\ \A i \in 1..(depth' - 1) :
       /\ stack'[i].scope \in Scopes
       /\ ~ FunctionKind(Kind[stack'[i].scope])
       /\ stack'[i] = Ended(stack'[i].scope)
  /\ stack' \in Seq(Frames)

LEMMA StackTyped ==
  ASSUME Typed
  PROVE  /\ depth \in Nat /\ DOMAIN stack = 1..depth /\ depth = Len(stack)
         /\ stack \in Seq(Frames)
         /\ \A i \in 1..depth :
              /\ stack[i] \in Frames
              /\ stack[i] = At(stack[i].scope, stack[i].next)
              /\ stack[i].scope \in Scopes
              /\ stack[i].next \in Nat /\ stack[i].next >= 1
              /\ stack[i].next <= Len(body[stack[i].scope]) + 1
              /\ Live(i) <=> stack[i].next \in DOMAIN body[stack[i].scope]
<1>1. depth \in Nat /\ DOMAIN stack = 1..depth /\ depth = Len(stack) /\ stack \in Seq(Frames)
  BY DEF Typed, TypeOK, depth, Frames
<1>2. \A i \in 1..depth : stack[i] \in Frames
  BY <1>1, ElementOfSeq
<1>3. \A i \in 1..depth : stack[i].next \in 1..(Len(body[stack[i].scope]) + 1)
  BY <1>1 DEF Typed, TypeOK
<1>4. \A i \in 1..depth : DOMAIN body[stack[i].scope] = 1..Len(body[stack[i].scope])
                          /\ Len(body[stack[i].scope]) \in Nat
  BY <1>2, BodiesTyped DEF Typed, Frames
<1> QED BY <1>1, <1>2, <1>3, <1>4 DEF At, Live, Frames

\* The item the walk is at.
LEMMA ItemTyped ==
  ASSUME Typed, Running
  PROVE  /\ depth \in Nat \ {0} /\ Live(depth)
         /\ top = stack[depth] /\ top.scope \in Scopes
         /\ top.next \in DOMAIN body[top.scope] /\ top.next \in Nat
         /\ item = body[top.scope][top.next] /\ item \in Items
         /\ item.what = "define" =>
              /\ item.scope \in Scopes \ {Module}
              /\ item = Definition(item.scope)
              /\ Enclosing[item.scope] = top.scope
         /\ item.what = "yield_from_" => item.scope \in Generators
<1>1. depth \in Nat \ {0} /\ Live(depth) /\ top = stack[depth]
  BY StackTyped DEF Running, top, Live
<1>2. top.scope \in Scopes /\ top.next \in DOMAIN body[top.scope] /\ top.next \in Nat
  BY <1>1, StackTyped
<1>3. item = body[top.scope][top.next]
  BY DEF item
<1> QED BY <1>1, <1>2, <1>3, BodiesTyped DEF Typed

LEMMA EnterPushes == Typed /\ Enter => Pushed
<1> SUFFICES ASSUME Typed, Enter PROVE Pushed
  OBVIOUS
<1>1. stack \in Seq(Frames) /\ stack' = Append(stack, At(item.scope, 1))
  BY StackTyped DEF Enter
<1>2. At(item.scope, 1) \in Frames
  BY ItemTyped DEF Enter, At, Frames
<1>3. stack' \in Seq(Frames)
  BY <1>1, <1>2, AppendProperties
<1> QED BY <1>1, <1>3 DEF Enter, Pushed, depth

LEMMA CallSteps == Typed /\ (CallYield \/ CallYieldFrom \/ CallYieldFromUnknown) => Stepped
<1> SUFFICES ASSUME Typed, CallYield \/ CallYieldFrom \/ CallYieldFromUnknown PROVE Stepped
  OBVIOUS
<1>1. /\ Running /\ item.what # "define"
      /\ stack' = [stack EXCEPT ![depth].next = @ + 1]
  BY DEF CallYield, CallYieldFrom, CallYieldFromUnknown, Advanced
<1>2. depth \in Nat \ {0} /\ stack \in Seq(Frames) /\ DOMAIN stack = 1..depth
  BY <1>1, ItemTyped, StackTyped
<1>3. stack[depth] \in Frames
  BY <1>2, StackTyped
<1>4. Len(stack') = Len(stack) /\ \A i \in 1..(depth - 1) : stack'[i] = stack[i]
  BY <1>1, <1>2 DEF depth
<1>5. stack'[depth] = At(top.scope, top.next + 1)
  BY <1>1, <1>2, <1>3 DEF At, top, Frames
<1>6. [stack[depth] EXCEPT !.next = @ + 1] \in Frames
  BY <1>3 DEF Frames
<1>7. stack' \in Seq(Frames)
  BY <1>1, <1>2, <1>6, ExceptSeq
<1> QED BY <1>1, <1>4, <1>5, <1>7 DEF Stepped, depth

LEMMA LeavePops == Typed /\ LeaveScope => Popped
<1> SUFFICES ASSUME Typed, LeaveScope PROVE Popped
  OBVIOUS
<1> DEFINE popped == SubSeq(stack, 1, depth - 1)
           below == popped[depth - 1]
<1>1. depth \in Nat \ {0} /\ ~ Live(depth) /\ stack \in Seq(Frames)
  BY StackTyped DEF LeaveScope, Running, Live, top
<1>2. Len(popped) = depth - 1 /\ DOMAIN popped = 1..(depth - 1)
      /\ \A i \in 1..(depth - 1) : popped[i] = stack[i]
  BY <1>1, SubSeqProperties, StackTyped
<1>3. IF depth > 1 /\ below.next <= Len(body[below.scope])
      THEN stack' = [popped EXCEPT ![depth - 1].next = @ + 1]
      ELSE stack' = popped
  BY DEF LeaveScope
<1>7. popped \in Seq(Frames)
  BY <1>1, SubSeqProperties, StackTyped
<1> HIDE DEF popped
<1>4. \A i \in 1..depth : stack[i] \in Frames
  BY StackTyped
<1>5. CASE depth > 1 /\ below.next <= Len(body[below.scope])
  <2>1. below = stack[depth - 1] /\ Live(depth - 1)
    BY <1>1, <1>2, <1>5 DEF Live
  <2>2. Len(stack') = depth - 1 /\ \A i \in 1..(depth - 2) : stack'[i] = stack[i]
    BY <1>1, <1>2, <1>3, <1>5
  <2>3. stack'[depth - 1] = At(below.scope, below.next + 1)
    BY <1>1, <1>2, <1>3, <1>4, <1>5, <2>1 DEF At, Frames
  <2>4. [below EXCEPT !.next = @ + 1] \in Frames
    BY <1>1, <1>4, <1>5, <2>1 DEF Frames
  <2>5. stack' \in Seq(Frames)
    <3>1. depth - 1 \in 1..Len(popped)
      BY <1>1, <1>2, <1>5
    <3>2. stack' = [popped EXCEPT ![depth - 1] = [below EXCEPT !.next = @ + 1]]
      BY <1>3, <1>5
    <3> QED BY <1>7, <2>4, <3>1, <3>2, ExceptSeq
  <2> QED BY <1>1, <2>1, <2>2, <2>3, <2>5 DEF Popped, depth
<1>6. CASE ~ (depth > 1 /\ below.next <= Len(body[below.scope]))
  <2>1. depth > 1 => below = stack[depth - 1] /\ ~ Live(depth - 1)
    BY <1>1, <1>2, <1>6 DEF Live
  <2>2. Len(stack') = depth - 1 /\ \A i \in 1..(depth - 1) : stack'[i] = stack[i]
    BY <1>2, <1>3, <1>6
  <2>3. depth > 1 => stack[depth - 1] = At(stack[depth - 1].scope, stack[depth - 1].next + 0)
    BY <1>1, <1>4 DEF At, Frames
  <2> QED BY <1>1, <1>3, <1>6, <1>7, <2>1, <2>2, <2>3 DEF Popped, depth
<1> QED BY <1>5, <1>6

LEMMA StartStarts == Typed /\ StartNode => Started
<1> SUFFICES ASSUME Typed, StartNode PROVE Started
  OBVIOUS
<1> DEFINE node == Head(todo)
<1>1. depth = 0 /\ todo # <<>> /\ node \in Nodes /\ stack' = StackFor(node)
  BY DEF StartNode, Typed
<1>2. node \in Scopes /\ Module \in Scopes /\ Enclosing[node] \in Scopes
  BY <1>1, ScopesTyped, TreeAssumption, ScopesAssumption DEF Nodes, ScopesAssumption
<1>3. ~ FunctionKind(Kind[Module])
  BY ScopesTyped, <1>2 DEF FunctionKind
<1>4. At(node, 1) \in Frames /\ \A s \in Scopes : Ended(s) \in Frames
  BY <1>2, BodiesTyped DEF Ended, At, Frames, Typed
<1> HIDE DEF node
<1>7. CASE node = Module
  BY <1>1, <1>4, <1>7 DEF Started, StackFor, depth, node
<1>5. CASE node # Module /\ Kind[Enclosing[node]] = "TypeInfo"
  <2>1. stack' = <<Ended(Module), Ended(Enclosing[node]), At(node, 1)>>
    BY <1>1, <1>5 DEF StackFor
  <2>2. ~ FunctionKind(Kind[Enclosing[node]])
    BY <1>5 DEF FunctionKind
  <2>3. \A i \in 1..2 : stack'[i].scope \in Scopes /\ ~ FunctionKind(Kind[stack'[i].scope])
                        /\ stack'[i] = Ended(stack'[i].scope)
    BY <2>1, <2>2, <1>2, <1>3 DEF Ended, At
  <2>4. depth' = 3 /\ stack'[3] = At(node, 1)
    BY <2>1 DEF depth
  <2>5. \A i \in 1..(depth' - 1) : i \in 1..2
    BY <2>4
  <2>6. stack' \in Seq(Frames)
    BY <2>1, <1>2, <1>4
  <2> QED BY <1>1, <1>5, <2>3, <2>4, <2>5, <2>6 DEF Started, node
<1>6. CASE node # Module /\ Kind[Enclosing[node]] # "TypeInfo"
  <2>1. stack' = <<Ended(Module), At(node, 1)>>
    BY <1>1, <1>6 DEF StackFor
  <2>2. stack'[1].scope \in Scopes /\ ~ FunctionKind(Kind[stack'[1].scope])
        /\ stack'[1] = Ended(stack'[1].scope)
    BY <2>1, <1>2, <1>3 DEF Ended, At
  <2>3. stack' \in Seq(Frames)
    BY <2>1, <1>2, <1>4
  <2>4. depth' = 2 /\ stack'[2] = At(node, 1)
    BY <2>1 DEF depth
  <2>5. \A i \in 1..(depth' - 1) : i = 1
    BY <2>4
  <2> QED BY <1>1, <1>6, <2>2, <2>3, <2>4, <2>5 DEF Started, node
<1> QED BY <1>5, <1>6, <1>7

\* Every step does one of these, or leaves the stack alone between two nodes.
LEMMA StackStep ==
  ASSUME Typed, Next
  PROVE  /\ body' = body
         /\ \/ Pushed \/ Stepped \/ Popped \/ Started
            \/ stack' = stack /\ depth = 0
<1>1. body' = body
  BY DEF Next, Enter, CallYield, CallYieldFrom, CallYieldFromUnknown, LeaveScope, StartNode,
         NextPass, Finish, given
<1>2. NextPass \/ Finish => stack' = stack /\ depth = 0
  BY DEF NextPass, Finish
<1> QED BY <1>1, <1>2, EnterPushes, CallSteps, LeavePops, StartStarts DEF Next

-----------------------------------------------------------------------------
(* Types, and the last pass. *)

LEMMA StackStaysTyped ==
  ASSUME Typed, Next
  PROVE  /\ stack' \in Seq(Frames)
         /\ \A i \in 1..depth' : stack'[i].next \in 1..(Len(body[stack'[i].scope]) + 1)
<1>1. \A s \in Scopes : Len(body[s]) \in Nat
  BY BodiesTyped DEF Typed
<1>2. CASE Pushed
  <2>1. \A i \in 1..depth' : i \in 1..depth \/ i = depth + 1
    BY <1>2, StackTyped DEF Pushed
  <2> QED BY <1>1, <1>2, <2>1, StackTyped, ItemTyped DEF Pushed, At
<1>3. CASE Stepped
  <2>1. \A i \in 1..depth' : i \in 1..depth /\ (i \in 1..(depth - 1) \/ i = depth)
    BY <1>3, StackTyped DEF Stepped
  <2>2. ASSUME NEW i \in 1..depth', i # depth
        PROVE  stack'[i].next \in 1..(Len(body[stack'[i].scope]) + 1)
    BY <1>3, <2>1, <2>2, StackTyped DEF Stepped
  <2>3. ASSUME NEW i \in 1..depth', i = depth
        PROVE  stack'[i].next \in 1..(Len(body[stack'[i].scope]) + 1)
    <3>1. Running /\ stack'[i] = At(top.scope, top.next + 1)
      BY <1>3, <2>3 DEF Stepped
    <3>2. stack'[i].scope = top.scope /\ stack'[i].next = top.next + 1
      BY <3>1 DEF At
    <3>3. top.scope \in Scopes /\ top.next \in 1..Len(body[top.scope])
      BY <3>1, ItemTyped
    <3> QED BY <1>1, <3>2, <3>3
  <2> QED BY <1>3, <2>2, <2>3 DEF Stepped
<1>4. CASE Popped
  <2>1. \A i \in 1..depth' : i \in 1..depth /\ (i \in 1..(depth - 2) \/ (i = depth - 1 /\ depth > 1))
    BY <1>4, StackTyped DEF Popped
  <2>2. depth > 1 => depth - 1 \in 1..depth
    BY StackTyped
  <2>3. ASSUME NEW i \in 1..depth', i = depth - 1
        PROVE  stack'[i].next \in 1..(Len(body[stack'[i].scope]) + 1)
    <3>1. depth > 1 /\ i \in 1..depth /\ stack[i].scope \in Scopes
      BY <2>1, <2>3, StackTyped
    <3>2. stack'[i] = At(stack[i].scope, stack[i].next + IF Live(i) THEN 1 ELSE 0)
      BY <1>4, <2>3, <3>1 DEF Popped
    <3>3. stack'[i].scope = stack[i].scope
          /\ stack'[i].next = stack[i].next + IF Live(i) THEN 1 ELSE 0
      BY <3>2 DEF At
    <3> QED BY <1>1, <3>1, <3>3, StackTyped DEF Live
  <2>4. ASSUME NEW i \in 1..depth', i # depth - 1
        PROVE  stack'[i].next \in 1..(Len(body[stack'[i].scope]) + 1)
    BY <1>1, <1>4, <2>1, <2>4, StackTyped DEF Popped
  <2> QED BY <1>4, <2>3, <2>4 DEF Popped
<1>5. CASE Started
  <2>1. depth' \in 1..3
    BY <1>5 DEF Started
  <2>2. \A i \in 1..depth' : i \in 1..(depth' - 1) \/ i = depth'
    BY <2>1 DEF depth
  <2>3. Head(todo) \in Scopes
    BY <1>5, ScopesAssumption DEF Started, Nodes, ScopesAssumption
  <2>4. stack'[depth'].scope = Head(todo) /\ stack'[depth'].next = 1
    BY <1>5 DEF Started, At
  <2>5. ASSUME NEW i \in 1..(depth' - 1)
        PROVE  /\ stack'[i].scope \in Scopes
               /\ stack'[i].next = Len(body[stack'[i].scope]) + 1
    <3>1. stack'[i].scope \in Scopes /\ stack'[i] = Ended(stack'[i].scope)
      BY <1>5 DEF Started
    <3> QED BY <3>1 DEF Ended, At
  <2>6. stack' \in Seq(Frames)
    BY <1>5 DEF Started
  <2> QED BY <1>1, <2>2, <2>3, <2>4, <2>5, <2>6
<1>6. CASE stack' = stack /\ depth = 0
  BY <1>6, StackTyped DEF depth
<1> QED BY <1>2, <1>3, <1>4, <1>5, <1>6, StackStep

LEMMA TypedStep ==
  ASSUME Typed, DeferredInTime, Next
  PROVE  Typed' /\ DeferredInTime'
<1> DEFINE Functions == {s \in Scopes : Kind[s] = "FuncDef"}
<1>1. Functions \subseteq Nodes /\ Nodes \subseteq Scopes
  BY ScopesAssumption DEF Nodes, ScopesAssumption
<1>2. /\ body' = body /\ plugin' = plugin /\ body \in Bodies
      /\ plugin \in {"TrioPlugin", "TrioPlugin13"}
  BY StackStep DEF Typed, TypeOK, Next, Enter, CallYield, CallYieldFrom, CallYieldFromUnknown,
     LeaveScope, StartNode, NextPass, Finish, given
<1>3. deferred_nodes' \in Seq(Functions)
  <2>1. deferred_nodes \in Seq(Functions)
    BY DEF Typed, TypeOK
  <2>2. CASE CallYieldFromUnknown
    <3>1. CASE MayDefer
      <4>1. PICK f \in Deferrable : deferred_nodes' = Deferring(f)
        BY <2>2, <3>1 DEF CallYieldFromUnknown
      <4>2. f \in Functions
        BY StackTyped DEF Deferrable, Frames
      <4> QED BY <2>1, <4>1, <4>2 DEF Deferring
    <3> QED BY <2>1, <2>2, <3>1 DEF CallYieldFromUnknown
  <2>3. CASE NextPass
    BY <2>3 DEF NextPass
  <2>4. CASE ~ CallYieldFromUnknown /\ ~ NextPass
    BY <2>1, <2>4 DEF Next, Enter, CallYield, CallYieldFrom, LeaveScope, StartNode, Finish
  <2> QED BY <2>2, <2>3, <2>4
<1>4. todo' \in Seq(Nodes)
  <2>1. todo \in Seq(Nodes) /\ deferred_nodes \in Seq(Nodes)
    BY <1>1 DEF Typed, TypeOK
  <2>2. CASE StartNode
    BY <2>1, <2>2, HeadTailProperties DEF StartNode
  <2>3. CASE ~ StartNode
    BY <2>1, <2>3 DEF Next, Enter, CallYield, CallYieldFrom, CallYieldFromUnknown, LeaveScope,
       NextPass, Finish, passes
  <2> QED BY <2>2, <2>3
<1>5. pass_num' \in 0..LastPass /\ DeferredInTime'
  <2>1. pass_num \in 0..LastPass /\ LastPass \in Nat
    BY PassesAssumption DEF Typed, TypeOK, PassesAssumption
  <2>2. CASE NextPass
    BY <2>1, <2>2 DEF NextPass, DeferredInTime
  <2>3. CASE CallYieldFromUnknown
    BY <2>1, <2>3 DEF CallYieldFromUnknown, MayDefer, DeferredInTime, passes
  <2>4. CASE ~ NextPass /\ ~ CallYieldFromUnknown
    BY <2>1, <2>4 DEF Next, Enter, CallYield, CallYieldFrom, LeaveScope, StartNode, Finish, passes,
       DeferredInTime
  <2> QED BY <2>2, <2>3, <2>4
<1>6. errors' \subseteq Scopes \X Nat
  <2>1. errors \subseteq Scopes \X Nat
    BY DEF Typed, TypeOK
  <2>2. CASE CallYield \/ CallYieldFrom \/ CallYieldFromUnknown
    <3>1. place \in Scopes \X Nat
      BY <2>2, ItemTyped DEF place, CallYield, CallYieldFrom, CallYieldFromUnknown
    <3> QED BY <2>1, <2>2, <3>1 DEF CallYield, CallYieldFrom, CallYieldFromUnknown, Reported
  <2>3. CASE LeaveScope
    <3>1. <<top.scope, 0>> \in Scopes \X Nat
      BY <2>3, StackTyped DEF LeaveScope, top
    <3> QED BY <2>1, <2>3, <3>1 DEF LeaveScope
  <2>4. CASE Enter \/ StartNode \/ NextPass \/ Finish
    BY <2>1, <2>4 DEF Enter, StartNode, NextPass, Finish
  <2> QED BY <2>2, <2>3, <2>4 DEF Next
<1>7. finished' \in BOOLEAN
  BY DEF Typed, TypeOK, Next, Enter, CallYield, CallYieldFrom, CallYieldFromUnknown, LeaveScope,
     StartNode, NextPass, Finish, passes
<1>8. todo' \in Seq(Scopes) /\ DOMAIN signature' = Scopes
  <2>1. signature' = signature \/ signature' = [signature EXCEPT ![top.scope] = Defined(top.scope)]
    BY DEF Next, Enter, CallYield, CallYieldFrom, CallYieldFromUnknown, LeaveScope, StartNode,
       NextPass, Finish
  <2> QED BY <2>1, <1>1, <1>4 DEF Typed, TypeOK
<1>9. stack' \in Seq(Frames) /\ DOMAIN stack' = 1..depth'
      /\ \A i \in 1..depth' : stack'[i].next \in 1..(Len(body[stack'[i].scope]) + 1)
  BY StackStaysTyped DEF depth
<1> QED BY <1>2, <1>3, <1>4, <1>5, <1>6, <1>7, <1>8, <1>9 DEF Typed, TypeOK, Frames

-----------------------------------------------------------------------------
(* The signatures of the definitions that were visited. *)

LEMMA Hooks ==
  /\ get_function_hook("async_generator.yield_") = "yield_callback"
  /\ get_function_hook("async_generator.yield_from_") = "yield_from_callback"
  /\ get_function_hook("async_generator.async_generator") = "async_generator_callback"
BY DEF get_function_hook, TrioPlugin13Hook, TrioPluginHook

LEMMA DefinedKnown ==
  /\ \A g \in Generators : Defined(g) = DecoratedTypes(Fn[g])
  /\ \A s \in Scopes : Defined(s) # Unknown
<1>1. \A g \in Generators : Defined(g) = DecoratedTypes(Fn[g])
  BY Hooks DEF Defined, Generators
<1>2. ASSUME NEW s \in Scopes PROVE Defined(s) # Unknown
  <2> DEFINE hook == get_function_hook(Decorator[s])
  <2>1. hook \in {"takes_callable_and_args_callback",
                  "takes_callable_and_args_callback without default",
                  "async_generator_callback", "yield_callback", "yield_from_callback", "None"}
    BY DEF get_function_hook, TrioPlugin13Hook, TrioPluginHook
  <2>2. hook = "async_generator_callback" => Defined(s) = DecoratedTypes(Fn[s])
    BY DEF Defined
  <2>3. hook = "None" => Defined(s) = DefaultReturnType(s)
    BY DEF Defined
  <2>4. hook \notin {"async_generator_callback", "None"} => Defined(s) = hook
    BY DEF Defined
  <2> QED BY <2>1, <2>2, <2>3, <2>4, UnknownAssumption DEF UnknownAssumption
<1> QED BY <1>1, <1>2

\* A signature once known stays, and changes when a definition is left only.
LEMMA SignatureStep ==
  ASSUME Typed, Next
  PROVE  /\ \A s \in Scopes :
              \/ signature'[s] = signature[s]
              \/ LeaveScope /\ s = top.scope /\ signature'[s] = Defined(s)
         /\ \A s \in Scopes : Visited(s) => Visited(s)'
<1>1. CASE LeaveScope
  <2>1. signature' = signature \/ signature' = [signature EXCEPT ![top.scope] = Defined(top.scope)]
    BY <1>1 DEF LeaveScope
  <2> QED BY <1>1, <2>1, DefinedKnown DEF Visited, Typed, TypeOK
<1>2. CASE ~ LeaveScope
  BY <1>2 DEF Next, Enter, CallYield, CallYieldFrom, CallYieldFromUnknown, StartNode, NextPass,
     Finish, Visited
<1> QED BY <1>1, <1>2

-----------------------------------------------------------------------------
(* What is around each scope of the stack. *)

LEMMA FoundStep ==
  ASSUME Typed, Found, Next
  PROVE  Found'
<1> SUFFICES ASSUME NEW n \in 1..depth', Live(n)'
             PROVE  Innermost(n, Within[stack[n].scope])'
  BY DEF Found
<1>1. body' = body
  BY StackStep
\* A frame that was there and was live keeps the frames below it.
<1>2. ASSUME n \in 1..depth, Live(n), stack'[n].scope = stack[n].scope,
             \A i \in 1..n : stack'[i].scope = stack[i].scope
      PROVE  Innermost(n, Within[stack[n].scope])'
  <2>1. Innermost(n, Within[stack[n].scope])
    BY <1>2 DEF Found
  <2>2. \A i \in 1..n : \A j \in (i + 1)..n : j \in 1..n
    OBVIOUS
  <2> QED BY <1>2, <2>1, <2>2 DEF Innermost
<1>3. CASE Pushed
  <2>1. CASE n \in 1..depth
    <3>1. \A i \in 1..n : i \in 1..depth
      BY <2>1, StackTyped
    <3>2. \A i \in 1..n : stack'[i] = stack[i]
      BY <1>3, <3>1 DEF Pushed
    <3> QED BY <1>1, <1>2, <2>1, <3>2, StackTyped DEF Live
  <2>2. CASE n = depth + 1
    <3>1. /\ item.scope \in Scopes \ {Module} /\ Enclosing[item.scope] = top.scope
          /\ stack'[n].scope = item.scope /\ top = stack[depth] /\ Live(depth) /\ depth \in Nat \ {0}
      BY <1>3, <2>2, ItemTyped DEF Pushed, At
    <3>2. \A i \in 1..depth : stack'[i] = stack[i]
      BY <1>3 DEF Pushed
    <3>3. CASE FunctionKind(Kind[item.scope])
      <4>1. Within[item.scope] = item.scope
        BY <3>1, <3>3, ScopesAssumption DEF ScopesAssumption
      <4>2. n \in 1..n /\ \A j \in (n + 1)..n : FALSE
        BY <3>1, <2>2
      <4> QED BY <3>1, <3>3, <4>1, <4>2 DEF Innermost
    <3>4. CASE ~ FunctionKind(Kind[item.scope])
      <4>1. Within[item.scope] = Within[top.scope]
        BY <3>1, <3>4, ScopesAssumption DEF ScopesAssumption
      <4>2. Innermost(depth, Within[top.scope])
        BY <3>1 DEF Found
      <4>3. \A i \in 1..n : i \in 1..depth \/ i = n
        BY <3>1, <2>2
      <4>4. CASE Within[top.scope] = Module /\ \A i \in 1..depth : ~ FunctionKind(Kind[stack[i].scope])
        BY <3>1, <3>2, <3>4, <4>1, <4>3, <4>4 DEF Innermost
      <4>5. ASSUME NEW i \in 1..depth, FunctionKind(Kind[Within[top.scope]]),
                   stack[i].scope = Within[top.scope],
                   \A j \in (i + 1)..depth : ~ FunctionKind(Kind[stack[j].scope])
            PROVE  Innermost(n, Within[stack[n].scope])'
        <5>1. i \in 1..n /\ \A j \in (i + 1)..n : (j \in (i + 1)..depth /\ j \in 1..depth) \/ j = n
          BY <3>1, <2>2
        <5>2. stack'[i].scope = Within[top.scope]
          BY <3>2, <4>5
        <5>3. \A j \in (i + 1)..n : ~ FunctionKind(Kind[stack'[j].scope])
          BY <3>1, <3>2, <3>4, <4>5, <5>1
        <5> QED BY <3>1, <4>1, <4>5, <5>1, <5>2, <5>3 DEF Innermost
      <4> QED BY <4>2, <4>4, <4>5 DEF Innermost
    <3> QED BY <3>3, <3>4
  <2> QED BY <1>3, <2>1, <2>2, StackTyped DEF Pushed
<1>4. CASE Stepped
  <2>1. \A i \in 1..depth : stack'[i].scope = stack[i].scope /\ stack'[i].next >= stack[i].next
    <3>1. \A i \in 1..depth : i \in 1..(depth - 1) \/ i = depth
      BY StackTyped
    <3>2. \A i \in 1..depth : stack[i].next >= stack[i].next
      BY StackTyped
    <3>3. stack'[depth].scope = top.scope /\ stack'[depth].next = top.next + 1
      BY <1>4 DEF Stepped, At
    <3>4. top = stack[depth] /\ top.next \in Nat
      BY <1>4, ItemTyped DEF Stepped
    <3> QED BY <1>4, <3>1, <3>2, <3>3, <3>4 DEF Stepped
  <2>2. n \in 1..depth /\ \A i \in 1..n : i \in 1..depth
    BY <1>4, StackTyped DEF Stepped
  <2>3. stack'[n].next \in Nat /\ Len(body[stack[n].scope]) \in Nat
    BY <2>1, <2>2, StackTyped, StackStaysTyped, BodiesTyped DEF Typed
  <2>4. Live(n)
    BY <1>1, <2>1, <2>2, <2>3, StackTyped DEF Live
  <2> QED BY <1>2, <2>1, <2>2, <2>4
<1>5. CASE Popped
  <2>1. \A i \in 1..(depth - 1) : stack'[i].scope = stack[i].scope
    <3>1. \A i \in 1..(depth - 1) : i \in 1..(depth - 2) \/ (i = depth - 1 /\ depth > 1)
      BY StackTyped
    <3> QED BY <1>5, <3>1 DEF Popped, At
  <2>2. n \in 1..(depth - 1) /\ n \in 1..depth /\ \A i \in 1..n : i \in 1..(depth - 1)
    BY <1>5, StackTyped DEF Popped
  <2>3. Live(n)
    <3>1. CASE n \in 1..(depth - 2)
      BY <1>1, <1>5, <3>1 DEF Popped, Live
    <3>2. CASE n = depth - 1
      <4>1. depth > 1
        BY <2>2, <3>2, StackTyped
      <4>2. SUFFICES ASSUME ~ Live(n) PROVE FALSE
        OBVIOUS
      <4>3. stack'[n] = At(stack[n].scope, stack[n].next + 0)
        BY <1>5, <3>2, <4>1, <4>2 DEF Popped
      <4>4. stack'[n].next = stack[n].next
        BY <2>2, <4>3, StackTyped DEF At
      <4> QED BY <1>1, <2>1, <2>2, <4>2, <4>4 DEF Live
    <3> QED BY <2>2, <3>1, <3>2, StackTyped
  <2> QED BY <1>2, <2>1, <2>2, <2>3
<1>6. CASE Started
  <2> DEFINE node == Head(todo)
  <2>1. depth' \in 1..3 /\ node \in Nodes /\ stack'[depth'].scope = node
    BY <1>6 DEF Started, At
  <2>2. n = depth'
    <3>1. SUFFICES ASSUME n # depth' PROVE FALSE
      OBVIOUS
    <3>2. n \in 1..(depth' - 1)
      BY <2>1, <3>1 DEF depth
    <3>3. stack'[n] = Ended(stack'[n].scope) /\ stack'[n].scope \in Scopes
      BY <1>6, <3>2 DEF Started
    <3>4. stack'[n].next = Len(body[stack'[n].scope]) + 1 /\ Len(body[stack'[n].scope]) \in Nat
      BY <3>3, BodiesTyped DEF Ended, At, Typed
    <3> QED BY <1>1, <3>4 DEF Live
  <2>3. \A i \in 1..(depth' - 1) : ~ FunctionKind(Kind[stack'[i].scope])
    BY <1>6 DEF Started
  <2>4. CASE node = Module
    <3>1. depth' = 1 /\ \A i \in 1..1 : i = 1
      BY <1>6, <2>4 DEF Started
    <3>2. Within[Module] = Module /\ ~ FunctionKind(Kind[Module])
      BY ScopesAssumption DEF ScopesAssumption, FunctionKind
    <3> QED BY <2>1, <2>2, <2>4, <3>1, <3>2 DEF Innermost
  <2>5. CASE node # Module
    <3>1. node \in Scopes /\ FunctionKind(Kind[node])
      BY <2>1, <2>5 DEF Nodes, FunctionKind
    <3>2. Within[node] = node
      BY <3>1, ScopesAssumption DEF ScopesAssumption
    <3>3. n \in 1..n /\ \A j \in (n + 1)..n : FALSE
      BY <2>1, <2>2 DEF depth
    <3> QED BY <2>1, <2>2, <3>1, <3>2, <3>3 DEF Innermost
  <2> QED BY <2>4, <2>5
<1>7. CASE stack' = stack /\ depth = 0
  BY <1>7 DEF depth
<1> QED BY <1>3, <1>4, <1>5, <1>6, <1>7, StackStep

\* The scope stack gives the function a call is written in.
LEMMA FoundEncloses ==
  ASSUME Typed, Found, Running
  PROVE  TopFunction = Within[top.scope]
<1> DEFINE functions == {i \in DOMAIN stack : FunctionKind(Kind[stack[i].scope])}
<1>1. Innermost(depth, Within[top.scope]) /\ depth \in Nat \ {0} /\ DOMAIN stack = 1..depth
  BY ItemTyped, StackTyped DEF Found
<1>2. CASE Within[top.scope] = Module /\ \A i \in 1..depth : ~ FunctionKind(Kind[stack[i].scope])
  BY <1>1, <1>2 DEF TopFunction
<1>3. ASSUME NEW i \in 1..depth, stack[i].scope = Within[top.scope],
             FunctionKind(Kind[Within[top.scope]]),
             \A j \in (i + 1)..depth : ~ FunctionKind(Kind[stack[j].scope])
      PROVE  TopFunction = Within[top.scope]
  <2>1. i \in functions
    BY <1>1, <1>3
  <2>2. \A j \in functions : i >= j
    BY <1>1, <1>3
  <2>3. \A k \in functions : (\A j \in functions : k >= j) => k = i
    BY <1>1, <2>1, <2>2
  <2>4. (CHOOSE k \in functions : \A j \in functions : k >= j) = i
    BY <2>1, <2>2, <2>3
  <2> QED BY <1>3, <2>1, <2>4 DEF TopFunction
<1> QED BY <1>1, <1>2, <1>3 DEF Innermost

LEMMA ScopesStay ==
  ASSUME Typed, Stepped \/ Popped
  PROVE  /\ \A i \in 1..depth' : i \in 1..depth /\ stack'[i].scope = stack[i].scope
         /\ \A i \in 1..(depth' - 1) : stack'[i] = stack[i]
<1>1. CASE Stepped
  <2>1. \A i \in 1..depth' : i \in 1..depth /\ (i \in 1..(depth - 1) \/ i = depth)
    BY <1>1, StackTyped DEF Stepped
  <2>2. top = stack[depth]
    BY DEF top
  <2> QED BY <1>1, <2>1, <2>2 DEF Stepped, At
<1>2. CASE Popped
  <2>1. \A i \in 1..depth' : i \in 1..depth /\ (i \in 1..(depth - 2) \/ (i = depth - 1 /\ depth > 1))
    BY <1>2, StackTyped DEF Popped
  <2>2. \A i \in 1..(depth' - 1) : i \in 1..(depth - 2)
    BY <1>2, StackTyped DEF Popped
  <2> QED BY <1>2, <2>1, <2>2 DEF Popped, At
<1> QED BY <1>1, <1>2

LEMMA NestedStep ==
  ASSUME Typed, Nested, Next
  PROVE  Nested'
<1> SUFFICES ASSUME NEW i \in 1..(depth' - 1), Live(i)'
             PROVE  (body[stack[i].scope][stack[i].next] = Definition(stack[i + 1].scope))'
  BY DEF Nested
<1>1. body' = body
  BY StackStep
<1>2. CASE Pushed
  <2>1. CASE i \in 1..(depth - 1)
    <3>1. i \in 1..depth /\ i + 1 \in 1..depth
      BY <2>1, StackTyped
    <3>2. stack'[i] = stack[i] /\ stack'[i + 1] = stack[i + 1]
      BY <1>2, <3>1 DEF Pushed
    <3> QED BY <1>1, <2>1, <3>2 DEF Nested, Live
  <2>2. CASE i = depth
    <3>1. depth \in Nat \ {0} /\ top = stack[depth] /\ item = Definition(item.scope)
          /\ item = body[top.scope][top.next]
      BY <1>2, ItemTyped DEF Pushed
    <3>2. stack'[i] = stack[i] /\ stack'[i + 1].scope = item.scope
      BY <1>2, <2>2, <3>1 DEF Pushed, At
    <3> QED BY <1>1, <2>2, <3>1, <3>2
  <2> QED BY <1>2, <2>1, <2>2, StackTyped DEF Pushed
<1>3. CASE Stepped \/ Popped
  <2>1. i \in 1..depth' /\ i + 1 \in 1..depth' /\ i \in 1..(depth - 1)
    BY <1>3, StackTyped DEF Stepped, Popped
  <2>2. stack'[i] = stack[i] /\ stack'[i + 1].scope = stack[i + 1].scope
    BY <1>3, <2>1, ScopesStay
  <2> QED BY <1>1, <2>1, <2>2 DEF Nested, Live
<1>4. CASE Started
  <2>1. stack'[i].scope \in Scopes /\ stack'[i] = Ended(stack'[i].scope)
    BY <1>4 DEF Started
  <2>2. stack'[i].next = Len(body[stack'[i].scope]) + 1 /\ Len(body[stack'[i].scope]) \in Nat
    BY <2>1, BodiesTyped DEF Ended, At, Typed
  <2> QED BY <1>1, <2>2 DEF Live
<1>5. CASE stack' = stack /\ depth = 0
  BY <1>5 DEF depth
<1> QED BY <1>2, <1>3, <1>4, <1>5, StackStep

LEMMA AroundStep ==
  ASSUME Typed, Around, Next
  PROVE  Around'
<1> SUFFICES ASSUME NEW n \in 1..depth', NEW i \in 1..depth', i <= n,
                    Kind[stack'[i].scope] = "FuncDef"
             PROVE  stack'[n].scope \in Inside(stack'[i].scope)
  BY DEF Around
<1>1. CASE Pushed
  <2>1. \A k \in 1..depth : stack'[k] = stack[k]
    BY <1>1 DEF Pushed
  <2>2. /\ depth \in Nat \ {0} /\ depth' = depth + 1 /\ top = stack[depth] /\ item.scope \in Scopes
        /\ Enclosing[item.scope] = top.scope /\ stack'[depth + 1].scope = item.scope
    BY <1>1, ItemTyped DEF Pushed, At
  <2>3. CASE n \in 1..depth
    BY <2>1, <2>2, <2>3 DEF Around
  <2>4. CASE n = depth + 1 /\ i \in 1..depth
    <3>1. top.scope \in Inside(stack[i].scope)
      BY <2>1, <2>2, <2>4 DEF Around
    <3> QED BY <2>1, <2>2, <2>4, <3>1, InsideClosed, StackTyped
  <2>5. CASE n = depth + 1 /\ i = n
    BY <2>2, <2>5, InsideClosed
  <2> QED BY <2>2, <2>3, <2>4, <2>5
<1>2. CASE Stepped \/ Popped
  BY <1>2, ScopesStay DEF Around
<1>3. CASE Started
  <2>1. i = depth' /\ n = depth'
    BY <1>3 DEF Started, FunctionKind, depth
  <2>2. stack'[depth'] = At(Head(todo), 1) /\ Head(todo) \in Scopes
    BY <1>3, ScopesAssumption DEF Started, Nodes, ScopesAssumption
  <2> QED BY <2>1, <2>2, InsideClosed DEF At
<1>4. CASE stack' = stack /\ depth = 0
  BY <1>4 DEF depth
<1> QED BY <1>1, <1>2, <1>3, <1>4, StackStep

-----------------------------------------------------------------------------
(* The first pass visits every definition. *)

\* A module all of whose items were walked leaves nothing unvisited.
LEMMA WalkedModule ==
  ASSUME Typed, VisitedBefore(Module, Len(body[Module]) + 1),
         \A s \in Scopes : Visited(s) => VisitedBefore(s, Len(body[s]) + 1)
  PROVE  AllVisited
<1> DEFINE S == {Module} \cup {s \in Scopes : Visited(s)}
<1>1. ASSUME NEW c \in Scopes, Enclosing[c] \in S PROVE c \in S
  <2>1. CASE c = Module
    BY <2>1
  <2>2. CASE c # Module
    <3> DEFINE e == Enclosing[c]
    <3>1. e \in Scopes /\ body \in Bodies
      BY ScopesTyped DEF Typed
    <3>2. PICK k \in DOMAIN body[e] : body[e][k] = Definition(c)
      BY <2>2, <3>1, DefinedSomewhere
    <3>3. k < Len(body[e]) + 1
      BY <3>1, BodiesTyped
    <3>4. VisitedBefore(e, Len(body[e]) + 1)
      BY <1>1
    <3> QED BY <3>2, <3>3, <3>4 DEF VisitedBefore, Definition
  <2> QED BY <2>1, <2>2
<1>2. S \in SUBSET Scopes /\ Module \in S
  BY ScopesAssumption DEF ScopesAssumption
<1> HIDE DEF S
<1>3. S = Scopes
  BY <1>1, <1>2, TreeAssumption DEF TreeAssumption
<1> QED BY <1>3 DEF S, AllVisited

LEMMA FirstPassStep ==
  ASSUME Typed, Nested, FirstPass, Next
  PROVE  FirstPass'
<1> DEFINE Closed == \A s \in Scopes : Visited(s) => VisitedBefore(s, Len(body[s]) + 1)
           Walking == /\ pass_num = 0 /\ stack # <<>> /\ todo = <<>>
                      /\ stack[1].scope = Module
                      /\ \A i \in 1..(depth - 1) : Live(i)
                      /\ \A i \in 1..depth : VisitedBefore(stack[i].scope, stack[i].next)
<1>1. body' = body /\ body \in Bodies /\ Module \in Scopes
  BY StackStep, ScopesAssumption DEF Typed, ScopesAssumption
<1>2. \A s \in Scopes : Visited(s) => Visited(s)'
  BY SignatureStep
<1>3. \A s \in Scopes : \A n \in Nat : VisitedBefore(s, n) => VisitedBefore(s, n)'
  BY <1>1, <1>2, BodiesTyped DEF VisitedBefore
<1>4. \A s \in Scopes : Len(body[s]) \in Nat /\ DOMAIN body[s] = 1..Len(body[s])
  BY <1>1, BodiesTyped
<1>5. AllVisited => AllVisited'
  BY <1>2 DEF AllVisited
<1>6. AllVisited => \A s \in Scopes : \A n \in Nat : VisitedBefore(s, n)
  BY <1>1, BodiesTyped DEF AllVisited, VisitedBefore
<1>7. Closed'
  <2> SUFFICES ASSUME NEW s \in Scopes, Visited(s)'
               PROVE  VisitedBefore(s, Len(body[s]) + 1)
    BY <1>1, <1>3, <1>4
  <2>1. CASE Visited(s)
    BY <2>1 DEF FirstPass
  <2>2. CASE ~ Visited(s)
    <3>1. LeaveScope /\ s = top.scope
      BY <2>2, SignatureStep DEF Visited
    <3>2. depth > 0 /\ depth \in 1..depth /\ stack # <<>> /\ top = stack[depth] /\ ~ Live(depth)
      BY <3>1, StackTyped DEF LeaveScope, Running, Live, top
    <3>3. AllVisited \/ VisitedBefore(s, top.next)
      BY <3>1, <3>2 DEF FirstPass
    <3>4. top.next \in Nat /\ top.next >= Len(body[s]) + 1
      BY <3>1, <3>2, <1>4, StackTyped DEF Live
    <3> QED BY <1>4, <1>6, <3>3, <3>4 DEF VisitedBefore
  <2> QED BY <2>1, <2>2
<1>8. CASE AllVisited
  BY <1>5, <1>7, <1>8 DEF FirstPass
<1>9. CASE pass_num = 0 /\ stack = <<>> /\ todo = <<Module>>
  <2>1. depth = 0
    BY <1>9 DEF depth
  <2>2. StartNode
    BY <1>9, <2>1 DEF Next, Enter, CallYield, CallYieldFrom, CallYieldFromUnknown, LeaveScope,
       NextPass, Finish, Running
  <2>3. stack' = <<At(Module, 1)>> /\ todo' = <<>> /\ pass_num' = 0
    BY <1>9, <2>2 DEF StartNode, StackFor
  <2>4. depth' = 1 /\ stack'[1].scope = Module /\ stack'[1].next = 1 /\ stack' # <<>>
    BY <2>3 DEF depth, At
  <2>5. VisitedBefore(Module, 1)'
    BY <1>1, <1>4 DEF VisitedBefore
  <2>6. (\A i \in 1..(depth' - 1) : FALSE) /\ (\A i \in 1..depth' : i = 1)
    BY <2>4
  <2>7. Walking'
    BY <2>3, <2>4, <2>5, <2>6
  <2> QED BY <1>7, <2>7 DEF FirstPass
<1>10. CASE Walking
  <2>1. depth \in Nat \ {0}
    BY <1>10, StackTyped DEF depth
  <2>2. ~ StartNode /\ ~ NextPass /\ ~ Finish
    BY <2>1 DEF StartNode, NextPass, Finish
  <2>3. pass_num' = 0 /\ todo' = <<>>
    BY <1>10, <2>2 DEF Next, Enter, CallYield, CallYieldFrom, CallYieldFromUnknown, LeaveScope, passes
  <2>4. CASE Pushed
    <3>1. depth' = depth + 1 /\ \A i \in 1..depth' : i \in 1..depth \/ i = depth + 1
      BY <2>1, <2>4 DEF Pushed
    <3>2. (\A i \in 1..depth : stack'[i] = stack[i]) /\ stack'[depth + 1].next = 1
          /\ stack'[depth + 1].scope \in Scopes /\ Live(depth)
      BY <2>4, ItemTyped DEF Pushed, At
    <3>3. \A i \in 1..(depth' - 1) : Live(i)'
      <4>1. \A i \in 1..(depth' - 1) : i \in 1..depth /\ (i \in 1..(depth - 1) \/ i = depth)
        BY <2>1, <3>1
      <4> QED BY <1>1, <1>10, <3>2, <4>1 DEF Live
    <3>4. \A i \in 1..depth : VisitedBefore(stack[i].scope, stack[i].next)'
      BY <1>3, <1>10, <3>2, StackTyped
    <3>5. \A i : i = depth + 1 => VisitedBefore(stack[i].scope, stack[i].next)'
      BY <1>1, <1>4, <3>2 DEF VisitedBefore
    <3>6. stack' # <<>> /\ stack'[1].scope = Module
      BY <1>10, <2>1, <3>1, <3>2 DEF depth
    <3>7. Walking'
      BY <2>3, <3>1, <3>3, <3>4, <3>5, <3>6
    <3> QED BY <1>7, <3>7 DEF FirstPass
  <2>5. CASE Stepped
    <3>1. depth' = depth /\ \A i \in 1..depth : i \in 1..(depth - 1) \/ i = depth
      BY <2>1, <2>5 DEF Stepped
    <3>2. (\A i \in 1..(depth - 1) : stack'[i] = stack[i])
          /\ stack'[depth].scope = top.scope /\ stack'[depth].next = top.next + 1
          /\ item.what # "define"
      BY <2>5 DEF Stepped, At
    <3>3. top = stack[depth] /\ item = body[top.scope][top.next] /\ top.scope \in Scopes
          /\ top.next \in Nat
      BY <2>5, ItemTyped DEF Stepped
    <3>4. \A i : i = depth => VisitedBefore(stack[i].scope, stack[i].next)'
      <4>1. \A s \in Scopes, m \in Nat : s = top.scope /\ m = top.next => VisitedBefore(s, m)'
        BY <1>3, <1>10, <2>1, <3>3
      <4>2. \A j \in Nat : j < top.next + 1 => j < top.next \/ j = top.next
        BY <3>3
      <4> QED BY <1>1, <1>4, <3>2, <3>3, <4>1, <4>2 DEF VisitedBefore
    <3>5. \A i \in 1..(depth - 1) : VisitedBefore(stack[i].scope, stack[i].next)' /\ Live(i)'
      <4>1. \A i \in 1..(depth - 1) : i \in 1..depth
        BY <2>1
      <4> QED BY <1>1, <1>3, <1>10, <3>2, <4>1, StackTyped DEF Live
    <3>6. stack' # <<>> /\ stack'[1].scope = Module
      <4>1. 1 \in 1..depth
        BY <2>1
      <4> QED BY <1>10, <2>1, <3>1, <3>2, <3>3, <4>1 DEF depth
    <3>7. Walking'
      BY <2>3, <3>1, <3>2, <3>4, <3>5, <3>6
    <3> QED BY <1>7, <3>7 DEF FirstPass
  <2>6. CASE Popped /\ depth = 1
    <3>1. VisitedBefore(Module, stack[1].next) /\ ~ Live(1)
      BY <1>10, <2>6 DEF Popped
    <3>2. VisitedBefore(Module, Len(body[Module]) + 1)
      BY <1>1, <1>4, <1>10, <2>6, <3>1, StackTyped DEF VisitedBefore, Live
    <3>3. AllVisited
      BY <3>2, WalkedModule DEF FirstPass
    <3> QED BY <1>5, <1>7, <3>3 DEF FirstPass
  <2>7. CASE Popped /\ depth # 1
    <3> DEFINE n == depth - 1
    <3>1. n \in Nat \ {0} /\ depth' = n /\ n \in 1..depth /\ Live(n)
          /\ \A i \in 1..n : i \in 1..(depth - 2) \/ i = n
      BY <1>10, <2>1, <2>7 DEF Popped
    <3>2. (\A i \in 1..(depth - 2) : stack'[i] = stack[i])
          /\ stack'[n].scope = stack[n].scope /\ stack'[n].next = stack[n].next + 1
      BY <2>1, <2>7, <3>1 DEF Popped, At
    <3>3. LeaveScope /\ body[stack[n].scope][stack[n].next] = Definition(top.scope)
      <4>1. depth > 0 /\ ~ Running
        BY <2>7 DEF Popped, Running, Live, top
      <4>2. LeaveScope
        BY <2>2, <4>1 DEF Next, Enter, CallYield, CallYieldFrom, CallYieldFromUnknown
      <4> QED BY <2>1, <3>1, <4>2 DEF Nested, top
    <3>4. signature'[top.scope] = Defined(top.scope) /\ top.scope \in Scopes
      <4>1. SubSeq(stack, 1, n)[n] = stack[n]
        BY <3>1, SubSeqProperties, StackTyped
      <4>2. signature' = [signature EXCEPT ![top.scope] = Defined(top.scope)]
        BY <2>1, <3>1, <3>3, <4>1 DEF LeaveScope, Live
      <4> QED BY <2>1, <4>2, StackTyped DEF top, Typed, TypeOK
    <3>5. \A i : i = n => VisitedBefore(stack[i].scope, stack[i].next)'
      <4>1. \A s \in Scopes, m \in Nat :
              s = stack[n].scope /\ m = stack[n].next => VisitedBefore(s, m)'
        BY <1>3, <1>10, <3>1, StackTyped
      <4>2. \A s : s = top.scope => Visited(s)'
        BY <3>4, DefinedKnown DEF Visited
      <4>3. \A j \in Nat : j < stack[n].next + 1 => j < stack[n].next \/ j = stack[n].next
        BY <3>1, StackTyped
      <4>4. stack[n].scope \in Scopes
        BY <3>1, StackTyped
      <4>5. Definition(top.scope).scope = top.scope /\ stack[n].next \in Nat
        BY <3>1, StackTyped DEF Definition
      <4>6. \A s \in Scopes, m \in Nat :
              s = stack[n].scope /\ m = stack[n].next => VisitedBefore(s, m + 1)'
        BY <1>1, <1>4, <3>3, <4>1, <4>2, <4>3, <4>5 DEF VisitedBefore
      <4> QED BY <3>2, <4>4, <4>5, <4>6
    <3>6. \A i \in 1..(depth - 2) : VisitedBefore(stack[i].scope, stack[i].next)' /\ Live(i)'
      <4>1. \A i \in 1..(depth - 2) : i \in 1..depth /\ i \in 1..(depth - 1)
        BY <2>1
      <4> QED BY <1>1, <1>3, <1>10, <3>2, <4>1, StackTyped DEF Live
    <3>7. stack' # <<>> /\ stack'[1].scope = Module
      <4>1. 1 \in 1..n
        BY <3>1
      <4> QED BY <1>10, <3>1, <3>2, <4>1 DEF depth
    <3>8. \A i \in 1..(depth' - 1) : i \in 1..(depth - 2)
      BY <3>1
    <3>9. Walking'
      BY <2>3, <3>1, <3>2, <3>5, <3>6, <3>7, <3>8
    <3> QED BY <1>7, <3>9 DEF FirstPass
  <2> QED BY <2>1, <2>4, <2>5, <2>6, <2>7, StackStep DEF Started
<1> QED BY <1>8, <1>9, <1>10 DEF FirstPass

-----------------------------------------------------------------------------
(* The errors reported. *)

LEMMA BadPlace ==
  ASSUME Typed
  PROVE  /\ \A g \in BadDecorators : <<g, 0>> \in BadPlaces(body)
         /\ \A s \in Scopes : \A j \in DOMAIN body[s] :
              IsBad(s, body[s][j]) => <<s, j>> \in BadPlaces(body)
         /\ \A p \in BadPlaces(body) :
              \/ \E g \in BadDecorators : p = <<g, 0>>
              \/ \E s \in Scopes : \E j \in DOMAIN body[s] :
                   p = <<s, j>> /\ IsBad(s, body[s][j])
<1>1. \A s \in Scopes : \A j \in DOMAIN body[s] : body[s][j] \in Items
  BY BodiesTyped DEF Typed
<1>2. \A s \in Scopes : \A j \in DOMAIN body[s] :
        <<s, body[s][j]>> \in BadCalls <=> IsBad(s, body[s][j])
  BY <1>1 DEF BadCalls
<1> DEFINE Calls(s) == {<<s, i>> : i \in {j \in DOMAIN body[s] : <<s, body[s][j]>> \in BadCalls}}
<1>3. \A s \in Scopes : Calls(s) = {<<s, i>> : i \in {j \in DOMAIN body[s] : IsBad(s, body[s][j])}}
  BY <1>2
<1>4. BadPlaces(body) = {<<g, 0>> : g \in BadDecorators} \cup UNION {Calls(s) : s \in Scopes}
  BY DEF BadPlaces
<1>5. \A p : p \in UNION {Calls(s) : s \in Scopes} <=>
        \E s \in Scopes : \E j \in DOMAIN body[s] : p = <<s, j>> /\ IsBad(s, body[s][j])
  BY <1>3
<1> QED BY <1>4, <1>5

LEMMA NotFinished ==
  ASSUME Typed, Ending, Next
  PROVE  finished = FALSE
<1> SUFFICES ASSUME finished PROVE FALSE
  BY DEF Typed, TypeOK
<1>1. depth = 0 /\ todo = <<>> /\ deferred_nodes = <<>>
  BY DEF Ending, depth
<1> QED BY <1>1 DEF Next, Enter, CallYield, CallYieldFrom, CallYieldFromUnknown, LeaveScope,
     StartNode, NextPass, Finish, Running

\* Without a function around it, a call is refused anyway.
LEMMA NoFunctionFails ==
  ASSUME Typed, Found, Running, Deferrable = {}
  PROVE  EnclosingTypes(Fn[Within[top.scope]]).failed
<1> DEFINE f == Within[top.scope]
<1>1. depth \in Nat \ {0} /\ Innermost(depth, f) /\ DOMAIN stack = 1..depth
  BY ItemTyped, StackTyped DEF Found
<1>2. \A i \in 1..depth : stack[i].scope \in Scopes /\ Kind[stack[i].scope] # "FuncDef"
  BY <1>1, StackTyped DEF Deferrable
<1>3. f \in Scopes /\ Kind[f] # "FuncDef"
  BY <1>1, <1>2, ScopesAssumption DEF Innermost, ScopesAssumption
<1>4. ~ CouldBeDecorated(Fn[f])
  <2>1. Fn[f].node = IF FunctionKind(Kind[f]) THEN Kind[f] ELSE "None"
    BY <1>3, ScopesAssumption DEF ScopesAssumption
  <2> QED BY <1>3, <2>1 DEF CouldBeDecorated
<1> QED BY <1>4 DEF EnclosingTypes, DecodedType

\* A call reports an error if it is a bad place and only then, unless a function
\* around it is deferred.
LEMMA CallStep ==
  ASSUME Typed, Found, SignaturesDecoded, FirstPass, Around,
         CallYield \/ CallYieldFrom \/ CallYieldFromUnknown
  PROVE  /\ \/ errors' = errors
            \/ IsBad(top.scope, item) /\ errors' = errors \cup {place}
         /\ IsBad(top.scope, item) =>
              place \in errors' \/ \A s : s = top.scope => Pending(s)'
<1> DEFINE fn == Fn[Within[top.scope]]
<1>1. Running /\ TopFunction = Within[top.scope]
  BY FoundEncloses DEF CallYield, CallYieldFrom, CallYieldFromUnknown
<1>2. CASE CallYield
  <2>1. IsBad(top.scope, item) <=> ~ YieldAccepted(fn, item.arg)
    BY <1>2 DEF CallYield, IsBad
  <2>2. errors' = IF ~ YieldAccepted(fn, item.arg) THEN errors \cup {place} ELSE errors
    BY <1>1, <1>2, Hooks DEF CallYield, Reported
  <2> QED BY <2>1, <2>2
<1>3. CASE CallYieldFrom
  <2>1. signature[item.scope] = DecoratedTypes(Fn[item.scope])
    BY <1>1, <1>3, ItemTyped DEF CallYieldFrom, SignaturesDecoded
  <2>2. IsBad(top.scope, item) <=> ~ YieldFromChecked("generator", signature[item.scope])
    BY <1>1, <1>3, <2>1, Hooks DEF CallYieldFrom, IsBad, YieldFromChecked
  <2> QED BY <1>3, <2>2 DEF CallYieldFrom, Reported
<1>4. CASE CallYieldFromUnknown
  <2>1. EnclosingTypes(fn).failed => IsBad(top.scope, item)
    BY <1>4 DEF CallYieldFromUnknown, IsBad, YieldFromAccepted
  <2>2. CASE MayDefer
    <3>1. PICK f \in Deferrable : deferred_nodes' = Deferring(f)
      BY <1>4, <2>2 DEF CallYieldFromUnknown
    <3>2. YieldFromChecked("any", AnyGenerator) <=> ~ EnclosingTypes(fn).failed
      BY <1>1, Hooks DEF YieldFromChecked, YieldFromAccepted
    <3>3. Reported(EnclosingTypes(fn).failed)
      BY <1>4, <2>2, <3>2 DEF CallYieldFromUnknown, Reported
    <3>4. \A s : s = top.scope => Pending(s)'
      <4>1. PICK i \in 1..depth : f = stack[i].scope /\ Kind[f] = "FuncDef"
        BY StackTyped DEF Deferrable
      <4>2. top.scope \in Inside(f)
        BY <1>1, <4>1, ItemTyped DEF Around
      <4>3. \E k \in DOMAIN deferred_nodes' : deferred_nodes'[k] = f
        <5>1. deferred_nodes \in Seq({s \in Scopes : Kind[s] = "FuncDef"})
              /\ f \in {s \in Scopes : Kind[s] = "FuncDef"}
          BY <4>1, StackTyped DEF Typed, TypeOK
        <5>2. CASE \E k \in DOMAIN deferred_nodes : deferred_nodes[k] = f
          BY <3>1, <5>2 DEF Deferring
        <5>3. CASE ~ \E k \in DOMAIN deferred_nodes : deferred_nodes[k] = f
          <6>1. deferred_nodes' = Append(deferred_nodes, f)
            BY <3>1, <5>3 DEF Deferring
          <6> QED BY <5>1, <6>1
        <5> QED BY <5>2, <5>3
      <4> QED BY <4>2, <4>3 DEF Pending
    <3> QED BY <2>1, <3>3, <3>4 DEF Reported
  <2>3. CASE ~ MayDefer
    <3>1. errors' = errors \cup {place}
      BY <1>4, <2>3 DEF CallYieldFromUnknown, Reported
    <3>2. IsBad(top.scope, item)
      <4>1. CASE Deferrable = {}
        BY <1>1, <2>1, <4>1, NoFunctionFails
      <4>2. CASE Deferrable # {}
        <5>1. pass_num # 0
          BY <2>3, <4>2, PassesAssumption DEF MayDefer, PassesAssumption
        <5>2. AllVisited
          BY <5>1 DEF FirstPass
        <5>3. item.scope \in Scopes \ {Module}
          <6>1. item.scope \in Generators
            BY <1>1, <1>4, ItemTyped DEF CallYieldFromUnknown
          <6>2. CouldBeDecorated(Fn[item.scope]) /\ item.scope \in Scopes
            BY <6>1, ScopesAssumption DEF ScopesAssumption, Generators
          <6>3. Fn[Module].node = "None"
            BY ScopesAssumption DEF ScopesAssumption, FunctionKind
          <6> QED BY <6>2, <6>3 DEF CouldBeDecorated
        <5> QED BY <1>4, <5>2, <5>3 DEF CallYieldFromUnknown, AllVisited, Visited
      <4> QED BY <4>1, <4>2
    <3> QED BY <3>1, <3>2
  <2> QED BY <2>2, <2>3
<1> QED BY <1>2, <1>3, <1>4

\* Every step reports nothing or one bad place.
LEMMA ReportStep ==
  ASSUME Typed, Found, SignaturesDecoded, FirstPass, Around, Next
  PROVE  errors' = errors \/ \E p \in BadPlaces(body) : errors' = errors \cup {p}
<1>1. CASE CallYield \/ CallYieldFrom \/ CallYieldFromUnknown
  <2>1. Running
    BY <1>1 DEF CallYield, CallYieldFrom, CallYieldFromUnknown
  <2>2. IsBad(top.scope, item) => place \in BadPlaces(body)
    BY <2>1, BadPlace, ItemTyped DEF place
  <2> QED BY <1>1, <2>2, CallStep
<1>2. CASE LeaveScope
  <2>1. \/ errors' = errors
        \/ /\ top.scope \in Generators /\ Defined(top.scope).failed
           /\ errors' = errors \cup {<<top.scope, 0>>}
    BY <1>2 DEF LeaveScope
  <2>2. top.scope \in Generators /\ Defined(top.scope).failed => top.scope \in BadDecorators
    BY DefinedKnown DEF BadDecorators
  <2> QED BY <2>1, <2>2, BadPlace
<1>3. CASE Enter \/ StartNode \/ NextPass \/ Finish
  BY <1>3 DEF Enter, StartNode, NextPass, Finish
<1> QED BY <1>1, <1>2, <1>3 DEF Next

LEMMA DecoratorsStep ==
  ASSUME Typed, DecoratorsReported, Next, errors \subseteq errors'
  PROVE  DecoratorsReported'
<1> SUFFICES ASSUME NEW g \in BadDecorators, Visited(g)' PROVE <<g, 0>> \in errors'
  BY DEF DecoratorsReported, BadDecorators
<1>1. g \in Generators /\ g \in Scopes /\ DecoratedTypes(Fn[g]).failed
  BY DEF BadDecorators, Generators
<1>2. CASE Visited(g)
  BY <1>2 DEF DecoratorsReported
<1>3. CASE ~ Visited(g)
  <2>1. LeaveScope /\ g = top.scope /\ signature' # signature
    BY <1>1, <1>3, SignatureStep DEF Visited
  <2>2. errors' = errors \cup {<<g, 0>>}
    BY <1>1, <2>1, DefinedKnown DEF LeaveScope
  <2> QED BY <2>2
<1> QED BY <1>2, <1>3

-----------------------------------------------------------------------------
(* Every bad call is reported, or still ahead. *)

\* What the next node to check, or a later one, covers stays covered until it
\* is taken from the stack.
LEMMA PendingStays ==
  ASSUME Typed, Next, ~ StartNode, NEW s \in Scopes, Pending(s)
  PROVE  Pending(s)'
<1>1. deferred_nodes \in Seq(Scopes) /\ todo \in Seq(Scopes)
  BY DEF Typed, TypeOK
<1>2. CASE CallYieldFromUnknown
  <2>1. \/ deferred_nodes' = deferred_nodes
        \/ \E f \in Scopes : deferred_nodes' = Append(deferred_nodes, f)
    BY <1>2, StackTyped DEF CallYieldFromUnknown, Deferring, Deferrable
  <2>2. \A i \in DOMAIN deferred_nodes :
          i \in DOMAIN deferred_nodes' /\ deferred_nodes'[i] = deferred_nodes[i]
    BY <1>1, <2>1
  <2> QED BY <1>2, <2>2 DEF CallYieldFromUnknown, passes, Pending
<1>3. CASE NextPass
  BY <1>3 DEF NextPass, Pending
<1>4. CASE ~ CallYieldFromUnknown /\ ~ NextPass
  BY <1>4 DEF Next, Enter, CallYield, CallYieldFrom, LeaveScope, Finish, passes, Pending
<1> QED BY <1>2, <1>3, <1>4

\* A call inside a scope that the walk begins with, or enters, is ahead of it.
LEMMA EnteredAhead ==
  ASSUME Typed, body' = body, NEW n \in 1..depth', NEW c \in Scopes, n = depth',
         stack'[n].scope = c, stack'[n].next = 1,
         NEW s \in Inside(c), NEW j \in DOMAIN body[s]
  PROVE  Ahead(s, j)'
<1>1. s \in Scopes
  BY InsideClosed
<1>2. CASE s = c
  <2>1. j >= 1
    BY <1>1, BodiesTyped DEF Typed
  <2> QED BY <1>2, <2>1 DEF Ahead
<1>3. CASE s # c
  <2>1. PICK k \in DOMAIN body[c] : body[c][k].what = "define" /\ s \in Inside(body[c][k].scope)
    BY <1>3, InsideDefined DEF Typed
  <2>2. k >= 1
    BY BodiesTyped DEF Typed
  <2>3. ~ (n < depth')
    BY DEF depth
  <2> QED BY <2>1, <2>2, <2>3 DEF Ahead
<1> QED BY <1>2, <1>3

LEMMA AheadStep ==
  ASSUME Typed, Nested, Next, ~ StartNode,
         NEW s \in Scopes, NEW j \in DOMAIN body[s], IsBad(s, body[s][j]), Ahead(s, j)
  PROVE  Ahead(s, j)' \/ (Stepped /\ s = top.scope /\ j = top.next)
<1>1. body' = body /\ body \in Bodies /\ j \in Nat /\ j <= Len(body[s]) /\ Len(body[s]) \in Nat
  BY StackStep, BodiesTyped DEF Typed
<1>2. body[s][j].what # "define"
  BY DEF IsBad
<1>3. PICK i \in 1..depth :
        \/ s = stack[i].scope /\ j >= stack[i].next
        \/ \E k \in DOMAIN body[stack[i].scope] :
             /\ k >= stack[i].next /\ (i < depth => k > stack[i].next)
             /\ body[stack[i].scope][k].what = "define"
             /\ s \in Inside(body[stack[i].scope][k].scope)
  BY DEF Ahead
<1>4. /\ depth \in Nat \ {0} /\ i \in Nat /\ stack[i].next \in Nat /\ stack[i].scope \in Scopes
      /\ Len(body[stack[i].scope]) \in Nat
      /\ DOMAIN body[stack[i].scope] = 1..Len(body[stack[i].scope])
  BY <1>1, <1>3, StackTyped, BodiesTyped
\* A frame that stays as it is, below the top, has the same ahead of it.
<1>5. ASSUME i < depth, i \in 1..depth', stack'[i] = stack[i]
      PROVE  Ahead(s, j)'
  BY <1>1, <1>3, <1>5 DEF Ahead
\* So has one that moves on to the next item, but for the item itself.
<1>6. ASSUME i \in 1..depth', i = depth', stack'[i].scope = stack[i].scope,
             stack'[i].next = stack[i].next + 1,
             s = stack[i].scope => j # stack[i].next,
             i = depth => body[stack[i].scope][stack[i].next].what # "define"
      PROVE  Ahead(s, j)'
  <2>1. CASE s = stack[i].scope /\ j >= stack[i].next
    <3>1. j >= stack'[i].next
      BY <1>1, <1>4, <1>6, <2>1
    <3> QED BY <1>6, <2>1, <3>1 DEF Ahead
  <2>2. ASSUME NEW k \in DOMAIN body[stack[i].scope],
               k >= stack[i].next, i < depth => k > stack[i].next,
               body[stack[i].scope][k].what = "define",
               s \in Inside(body[stack[i].scope][k].scope)
        PROVE  Ahead(s, j)'
    <3>1. k # stack[i].next
      BY <1>3, <1>4, <1>6, <2>2
    <3>2. k >= stack'[i].next
      BY <1>4, <1>6, <2>2, <3>1
    <3>3. ~ (i < depth')
      BY <1>6 DEF depth
    <3> QED BY <1>1, <1>6, <2>2, <3>2, <3>3 DEF Ahead
  <2> QED BY <1>3, <2>1, <2>2
<1>7. CASE Pushed
  <2>1. /\ depth' = depth + 1 /\ i \in 1..depth' /\ i < depth' /\ stack'[i] = stack[i]
        /\ depth + 1 \in 1..depth'
    BY <1>3, <1>4, <1>7 DEF Pushed
  <2>2. /\ item.scope \in Scopes /\ top = stack[depth] /\ item = body[top.scope][top.next]
        /\ stack'[depth + 1].scope = item.scope /\ stack'[depth + 1].next = 1
    BY <1>7, ItemTyped DEF Pushed, At
  <2>3. CASE s = stack[i].scope /\ j >= stack[i].next
    BY <2>1, <2>3 DEF Ahead
  <2>4. ASSUME NEW k \in DOMAIN body[stack[i].scope],
               k >= stack[i].next, i < depth => k > stack[i].next,
               body[stack[i].scope][k].what = "define",
               s \in Inside(body[stack[i].scope][k].scope)
        PROVE  Ahead(s, j)'
    <3>1. CASE k > stack[i].next
      BY <1>1, <2>1, <2>4, <3>1 DEF Ahead
    <3>2. CASE ~ (k > stack[i].next)
      <4>1. k = stack[i].next /\ i = depth
        BY <1>3, <1>4, <2>4, <3>2
      <4>2. s \in Inside(item.scope)
        BY <2>2, <2>4, <4>1
      <4> QED BY <1>1, <2>1, <2>2, <4>2, EnteredAhead
    <3> QED BY <3>1, <3>2
  <2> QED BY <1>3, <2>3, <2>4
<1>8. CASE Stepped
  <2>1. depth' = depth /\ top = stack[depth] /\ item = body[top.scope][top.next] /\ item.what # "define"
    BY <1>8, ItemTyped DEF Stepped
  <2>2. CASE i = depth
    <3>1. stack'[i].scope = stack[i].scope /\ stack'[i].next = stack[i].next + 1
      BY <1>8, <2>1, <2>2 DEF Stepped, At
    <3>2. CASE s = top.scope /\ j = top.next
      BY <1>8, <3>2
    <3>3. CASE ~ (s = top.scope /\ j = top.next)
      BY <1>3, <1>6, <2>1, <2>2, <3>1, <3>3
    <3> QED BY <3>2, <3>3
  <2>3. CASE i # depth
    <3>1. i \in 1..(depth - 1) /\ i < depth /\ i \in 1..depth'
      BY <1>3, <1>4, <2>1, <2>3
    <3> QED BY <1>5, <1>8, <3>1 DEF Stepped
  <2> QED BY <2>2, <2>3
<1>9. CASE Popped
  <2>1. depth' = depth - 1 /\ ~ Live(depth)
    BY <1>9 DEF Popped
  <2>2. i # depth
    <3>1. SUFFICES ASSUME i = depth PROVE FALSE
      OBVIOUS
    <3> QED BY <1>1, <1>3, <1>4, <2>1, <3>1 DEF Live
  <2>3. i < depth /\ i \in 1..depth' /\ i \in 1..(depth - 1)
    BY <1>3, <1>4, <2>1, <2>2
  <2>4. CASE i = depth - 1
    <3>1. CASE Live(i)
      <4>1. stack'[i].scope = stack[i].scope /\ stack'[i].next = stack[i].next + 1
        <5>1. depth > 1
          BY <1>4, <2>3
        <5>2. stack'[depth - 1] = At(stack[depth - 1].scope, stack[depth - 1].next + 1)
          BY <1>9, <2>4, <3>1, <5>1 DEF Popped, Live
        <5> QED BY <2>4, <5>2 DEF At
      <4>2. body[stack[i].scope][stack[i].next].what = "define"
        <5>1. body[stack[i].scope][stack[i].next] = Definition(stack[i + 1].scope)
          BY <2>3, <3>1 DEF Nested, Live
        <5> QED BY <5>1 DEF Definition
      <4>3. i = depth'
        BY <2>1, <2>4
      <4> QED BY <1>2, <1>6, <2>2, <2>3, <4>1, <4>2, <4>3
    <3>2. CASE ~ Live(i)
      BY <1>1, <1>3, <1>4, <3>2 DEF Live
    <3> QED BY <3>1, <3>2
  <2>5. CASE i # depth - 1
    <3>1. i \in 1..(depth - 2)
      BY <1>4, <2>3, <2>5
    <3> QED BY <1>5, <1>9, <2>3, <3>1 DEF Popped
  <2> QED BY <2>4, <2>5
<1>10. CASE stack' = stack /\ depth = 0
  BY <1>4, <1>10
<1> QED BY <1>4, <1>7, <1>8, <1>9, <1>10, StackStep DEF Started

LEMMA CoveredStep ==
  ASSUME Typed, Found, Nested, Around, SignaturesDecoded, FirstPass, CallsCovered, Next,
         errors \subseteq errors'
  PROVE  CallsCovered'
<1>1. body' = body
  BY StackStep
<1> SUFFICES ASSUME NEW s \in Scopes, NEW j \in DOMAIN body[s], IsBad(s, body[s][j])
             PROVE  <<s, j>> \in errors' \/ Pending(s)' \/ Ahead(s, j)'
  BY <1>1 DEF CallsCovered, IsBad
<1>2. <<s, j>> \in errors \/ Pending(s) \/ Ahead(s, j)
  BY DEF CallsCovered
<1>3. CASE <<s, j>> \in errors
  BY <1>3
<1>4. CASE ~ StartNode /\ Pending(s)
  BY <1>4, PendingStays
<1>5. CASE ~ StartNode /\ Ahead(s, j)
  <2>1. CASE Stepped /\ s = top.scope /\ j = top.next
    <3>1. item = body[s][j] /\ place = <<s, j>>
      BY <2>1 DEF item, place
    <3>2. CallYield \/ CallYieldFrom \/ CallYieldFromUnknown
      BY <1>5, <2>1 DEF Stepped, Next, Enter, LeaveScope, NextPass, Finish, Running
    <3> QED BY <2>1, <3>1, <3>2, CallStep
  <2> QED BY <1>5, <2>1, AheadStep
<1>6. CASE StartNode
  <2> DEFINE node == Head(todo)
  <2>1. Started /\ todo' = Tail(todo) /\ deferred_nodes' = deferred_nodes
    BY <1>6, StartStarts DEF StartNode
  <2>2. depth = 0 /\ todo # <<>> /\ todo \in Seq(Nodes)
    BY <2>1 DEF Started, Typed
  <2>3. ~ Ahead(s, j)
    BY <2>2 DEF Ahead
  <2>4. CASE s \in Inside(node)
    <3>1. stack'[depth'] = At(node, 1) /\ node \in Scopes
      BY <2>1, ScopesAssumption DEF Started, Nodes, ScopesAssumption
    <3>2. depth' \in 1..3
      BY <2>1 DEF Started
    <3>3. depth' \in 1..depth'
      <4>1. \A d \in 1..3 : d \in 1..d
        OBVIOUS
      <4> QED BY <3>2, <4>1
    <3> QED BY <1>1, <2>4, <3>1, <3>3, EnteredAhead DEF At
  <2>5. CASE s \notin Inside(node)
    <3>1. CASE \E i \in DOMAIN deferred_nodes : s \in Inside(deferred_nodes[i])
      BY <2>1, <3>1 DEF Pending
    <3>2. ASSUME NEW i \in DOMAIN todo, s \in Inside(todo[i])
          PROVE  Pending(s)'
      <4>1. i # 1 /\ i \in 1..Len(todo) /\ Len(todo) \in Nat
        BY <2>2, <2>5, <3>2
      <4>2. i - 1 \in DOMAIN Tail(todo) /\ Tail(todo)[i - 1] = todo[i]
        BY <2>2, <4>1, HeadTailProperties
      <4> QED BY <2>1, <3>2, <4>2 DEF Pending
    <3> QED BY <1>2, <1>3, <2>3, <3>1, <3>2 DEF Pending
  <2> QED BY <2>4, <2>5
<1> QED BY <1>2, <1>3, <1>4, <1>5, <1>6

-----------------------------------------------------------------------------
(* The invariant, and what follows from it. *)

LEMMA InitHolds == Init => IInv
<1> SUFFICES ASSUME Init PROVE IInv
  OBVIOUS
<1> USE DEF Init
<1>1. Module \in Scopes /\ LastPass \in Nat \ {0} /\ depth = 0
  BY ScopesAssumption, PassesAssumption DEF ScopesAssumption, PassesAssumption, depth
<1>2. Typed
  <2>1. todo \in Seq(Nodes) /\ todo \in Seq(Scopes)
    BY <1>1 DEF Nodes
  <2>2. stack \in Seq(Frames) /\ DOMAIN stack = {}
    OBVIOUS
  <2>3. DOMAIN signature = Scopes /\ deferred_nodes \in Seq({s \in Scopes : Kind[s] = "FuncDef"})
    OBVIOUS
  <2>4. pass_num \in 0..LastPass
    BY <1>1
  <2>5. errors \subseteq Scopes \X Nat /\ finished \in BOOLEAN
    OBVIOUS
  <2> QED BY <2>1, <2>2, <2>3, <2>4, <2>5 DEF Typed, TypeOK, Frames
<1>3. \A s \in Scopes : ~ Visited(s)
  BY DEF Visited
<1>4. SignaturesDecoded /\ NoSpuriousErrors /\ DeferredInTime /\ Ending
  BY DEF SignaturesDecoded, NoSpuriousErrors, DeferredInTime, Ending, Generators
<1>5. Found /\ Nested /\ Around
  BY <1>1 DEF Found, Nested, Around
<1>6. FirstPass /\ DecoratorsReported
  BY <1>3 DEF FirstPass, DecoratorsReported, BadDecorators, Generators
<1>7. CallsCovered
  <2>1. \A s \in Scopes : Pending(s)
    BY AllInsideModule DEF Pending
  <2> QED BY <2>1 DEF CallsCovered
<1> QED BY <1>2, <1>4, <1>5, <1>6, <1>7 DEF IInv

LEMMA StepHolds == IInv /\ [Next]_vars => IInv'
<1> SUFFICES ASSUME IInv, [Next]_vars PROVE IInv'
  OBVIOUS
<1> USE DEF IInv
<1>1. CASE Next
  <2>1. Typed' /\ DeferredInTime'
    BY <1>1, TypedStep
  <2>2. SignaturesDecoded'
    BY <1>1, SignatureStep, DefinedKnown DEF SignaturesDecoded, Generators
  <2>3. body' = body
    BY <1>1, StackStep
  <2>4. errors \subseteq errors' /\ NoSpuriousErrors'
    BY <1>1, <2>3, ReportStep DEF NoSpuriousErrors, BadPlaces, BadCalls, BadDecorators
  <2>5. Found' /\ Nested' /\ Around' /\ FirstPass'
    BY <1>1, FoundStep, NestedStep, AroundStep, FirstPassStep
  <2>6. DecoratorsReported' /\ CallsCovered'
    BY <1>1, <2>4, DecoratorsStep, CoveredStep
  <2>7. Ending'
    <3>1. finished = FALSE
      BY <1>1, NotFinished
    <3>2. CASE Finish
      BY <3>2, StackTyped DEF Finish, Ending, depth
    <3>3. CASE ~ Finish
      BY <1>1, <3>1, <3>3 DEF Next, Enter, CallYield, CallYieldFrom, CallYieldFromUnknown,
         LeaveScope, StartNode, NextPass, passes, Ending
    <3> QED BY <3>2, <3>3
  <2> QED BY <2>1, <2>2, <2>4, <2>5, <2>6, <2>7
<1>2. CASE UNCHANGED vars
  <2> USE <1>2 DEF vars, given, passes, depth, Live, Visited, VisitedBefore, AllVisited
  <2>1. Typed' /\ SignaturesDecoded' /\ DeferredInTime' /\ Ending'
    BY DEF Typed, TypeOK, SignaturesDecoded, Generators, DeferredInTime, Ending
  <2>2. NoSpuriousErrors' /\ DecoratorsReported'
    BY DEF NoSpuriousErrors, BadPlaces, BadCalls, BadDecorators, Generators, DecoratorsReported
  <2>3. Found' /\ Nested' /\ Around' /\ FirstPass'
    BY DEF Found, Nested, Around, FirstPass, Innermost
  <2>4. CallsCovered'
    BY DEF CallsCovered, Pending, Ahead, IsBad
  <2> QED BY <2>1, <2>2, <2>3, <2>4
<1> QED BY <1>1, <1>2

THEOREM SessionInvariant == Spec => []IInv
BY InitHolds, StepHolds, PTL DEF Spec

\* mypy's scope stack, passes and deferred functions keep their types, for every
\* program.
THEOREM SessionTypeOK == Spec => []TypeOK
<1>1. IInv => TypeOK
  BY DEF IInv, Typed
<1> QED BY <1>1, SessionInvariant, PTL

\* decode_enclosing_agen_types() finds the function that a call is written in,
\* through any nesting of functions, lambdas and classes and in every pass.
THEOREM EnclosingIsFound == Spec => []EnclosingFound
<1>1. IInv => EnclosingFound
  BY FoundEncloses DEF IInv, EnclosingFound
<1> QED BY <1>1, SessionInvariant, PTL

\* Nothing is reported that is not an error, whatever was not known yet when a
\* hook ran.
THEOREM NoErrorIsSpurious == Spec => []NoSpuriousErrors
<1>1. IInv => NoSpuriousErrors
  BY DEF IInv
<1> QED BY <1>1, SessionInvariant, PTL

\* When nothing is left to check, all that is bad was reported.
LEMMA NothingLeft ==
  ASSUME IInv, depth = 0, todo = <<>>, deferred_nodes = <<>>
  PROVE  errors = BadPlaces(body)
<1> USE DEF IInv
<1>1. stack = <<>>
  BY StackTyped DEF depth
<1>2. AllVisited
  BY <1>1 DEF FirstPass
<1>3. \A s \in Scopes : \A j \in DOMAIN body[s] : IsBad(s, body[s][j]) => <<s, j>> \in errors
  BY DEF CallsCovered, Pending, Ahead
<1>4. \A g \in BadDecorators : <<g, 0>> \in errors
  <2>1. ASSUME NEW g \in BadDecorators PROVE g \in Scopes \ {Module}
    <3>1. CouldBeDecorated(Fn[g]) /\ g \in Scopes
      BY ScopesAssumption DEF ScopesAssumption, BadDecorators, Generators
    <3>2. Fn[Module].node = "None"
      BY ScopesAssumption DEF ScopesAssumption, FunctionKind
    <3> QED BY <3>1, <3>2 DEF CouldBeDecorated
  <2> QED BY <1>2, <2>1 DEF AllVisited, DecoratorsReported
<1>5. \A p \in BadPlaces(body) : p \in errors
  BY <1>3, <1>4, BadPlace
<1> QED BY <1>5 DEF NoSpuriousErrors

LEMMA StepRefines == IInv /\ [Next]_vars => [Contract!Next]_Contract!vars
<1> SUFFICES ASSUME IInv, [Next]_vars PROVE [Contract!Next]_Contract!vars
  OBVIOUS
<1> USE DEF Contract!Next, Contract!Report, Contract!Settle, Contract!vars
<1>1. CASE Next /\ ~ Finish
  <2>1. finished = FALSE
    BY <1>1, NotFinished DEF IInv
  <2>2. body' = body /\ finished' = finished
    BY <1>1, StackStep DEF IInv, Next, Enter, CallYield, CallYieldFrom, CallYieldFromUnknown,
       LeaveScope, StartNode, NextPass, passes
  <2>3. errors' = errors \/ \E p \in BadPlaces(body) : errors' = errors \cup {p}
    BY <1>1, ReportStep DEF IInv
  <2>4. CASE \E p \in BadPlaces(body) \ errors : errors' = errors \cup {p}
    BY <2>1, <2>2, <2>4
  <2>5. CASE errors' = errors
    BY <2>2, <2>5
  <2> QED BY <2>3, <2>4, <2>5
<1>2. CASE Finish
  <2>1. errors = BadPlaces(body)
    BY <1>2, NothingLeft DEF Finish
  <2> QED BY <1>2, <2>1 DEF Finish, given
<1>3. CASE UNCHANGED vars
  BY <1>3 DEF vars, given, passes
<1> QED BY <1>1, <1>2, <1>3

\* Checking a module reports the bad places one by one and is done only when it
\* reported them all, for every program and number of passes (that it gets done
\* is checked by TLC only).
THEOREM SessionImplementsContract ==
  Spec => Contract!Init /\ [][Contract!Next]_Contract!vars
<1>1. Init => Contract!Init
  BY DEF Init, Contract!Init
<1> QED BY <1>1, StepRefines, SessionInvariant, PTL DEF Spec
=============================================================================
