--------------------------- MODULE Handoff_proofs ---------------------------
(***************************************************************************)
(* StartResultSound and ReceivedSound for all tasks, values, type          *)
(* arguments and capacities.  Neither is inductive: they speak of the      *)
(* moment of a receipt only.  IInv says what makes them true: every        *)
(* reference that values can be put in through is declared with a subtype  *)
(* of the carrier's own type argument, every one that values can be taken  *)
(* out through with a supertype, and all that is inside is of that type.   *)
(***************************************************************************)
EXTENDS Handoff, SequenceTheorems, TLAPS

Givers == {"TaskStatus", "MemorySendChannel", "UnboundedQueue", "RunVar"}
Takers == {"MemoryReceiveChannel", "UnboundedQueue", "RunVar", "RunVarToken", "Value"}

\* A reference of a class with type argument "type" to a carrier of "element".
Between(class, type, element) ==
  /\ type # AnyType
  /\ class \in Givers => type \subseteq element
  /\ class \in Takers => element \subseteq type

RefsSound ==
  \A t \in Tasks, c \in Classes :
    view[t][c] # Unset => Between(c, view[t][c], carrier.element)

AwaitedSound == \A t \in Tasks : awaited[t] # Unset => awaited[t] = carrier.element

InsideSound ==
  /\ contents \in Seq(carrier.element)
  /\ previous \in Seq(carrier.element) \cup {Unset}
  /\ carrier.default \in Seq(carrier.element)

Fresh == carrier.kind = "none" => contents = <<>> /\ previous = Unset

EventSound ==
  event # Nothing => \A v \in event.values : Admits(event.type, v)

Sound ==
  /\ carrier.kind # "none" => carrier.element # AnyType
  /\ RefsSound
  /\ AwaitedSound
  /\ InsideSound
  /\ EventSound

IInv ==
  /\ TypeOK
  /\ Fresh
  /\ ~ erased => Sound

-----------------------------------------------------------------------------
(* Types and variance. *)

LEMMA TypeCases ==
  /\ \A t \in Types : t # Unset
  /\ \A t \in Types : t # AnyType => t \in SUBSET Values
  /\ NoneType \in Types
  /\ NoneType # AnyType
BY TypesAssumption DEF TypesAssumption, Types, NoneType

\* What the variance of its class lets mypy accept keeps a reference between.
LEMMA AssignableStaysBetween ==
  ASSUME NEW class \in Classes, NEW from, NEW to, NEW element,
         Between(class, from, element), IsAssignable(class, from, to), to # AnyType
  PROVE  Between(class, to, element)
<1>1. CASE class \in Contravariant
  <2>1. class \in Givers /\ class \notin Takers
    BY <1>1 DEF Contravariant, Givers, Takers
  <2>2. class \notin Covariant
    BY <1>1 DEF Contravariant, Covariant
  <2>. QED BY <2>1, <2>2 DEF Between, IsAssignable, IsSubtype
<1>2. CASE class \in Covariant
  <2>1. class \in Takers /\ class \notin Givers
    BY <1>2 DEF Covariant, Givers, Takers
  <2>2. class \notin Contravariant
    BY <1>2 DEF Contravariant, Covariant
  <2>. QED BY <2>1, <2>2 DEF Between, IsAssignable, IsSubtype
<1>3. CASE class \notin Contravariant /\ class \notin Covariant
  BY <1>3 DEF Between, IsAssignable, IsSubtype
<1>. QED BY <1>1, <1>2, <1>3

\* The values of a type that is not Any are its elements.
LEMMA ValuesAreElements ==
  ASSUME NEW t \in Types, t # AnyType
  PROVE  ValuesOf(t) = t
BY TypeCases DEF ValuesOf, Admits

LEMMA ValuesAreValues ==
  ASSUME NEW t
  PROVE  ValuesOf(t) \subseteq Values
BY DEF ValuesOf

\* An optional value is a sequence.
LEMMA OptionalIsSequence ==
  ASSUME NEW S, NEW s \in Optional(S)
  PROVE  s \in Seq(S)
<1>1. CASE s = <<>>
  BY <1>1
<1>2. ASSUME NEW v \in S, s = <<v>> PROVE s \in Seq(S)
  BY <1>2
<1>. QED BY <1>1, <1>2 DEF Optional

LEMMA SingletonSequence ==
  ASSUME NEW S, NEW v \in S
  PROVE  <<v>> \in Seq(S)
OBVIOUS

\* The parts of a non-empty sequence.
LEMMA HeadAndTail ==
  ASSUME NEW S, NEW s \in Seq(S), s # <<>>
  PROVE  Head(s) \in S /\ Tail(s) \in Seq(S)
BY HeadTailProperties

-----------------------------------------------------------------------------
(* Type correctness. *)

Step == [Next]_vars

\* How the views change when a task gets or loses references.
LEMMA ViewUpdate ==
  ASSUME TypeOK, NEW u \in Tasks, NEW class \in Classes, NEW to \in Types,
         class \in ClassesOf[carrier'.kind], carrier'.kind = carrier.kind,
         view' = [view EXCEPT ![u][class] = to]
  PROVE  /\ view' \in [Tasks -> [Classes -> Types \cup {Unset}]]
         /\ \A t \in Tasks, c \in Classes :
              view'[t][c] # Unset => c \in ClassesOf[carrier'.kind]
BY DEF TypeOK

\* What carrier and default are.
LEMMA CarrierTypes ==
  ASSUME TypeOK
  PROVE  /\ carrier.kind \in Kinds \cup {"none"}
         /\ carrier.element \in Types
         /\ carrier.default \in Seq(Values)
<1>1. CASE carrier = NoCarrier
  BY <1>1 DEF NoCarrier, Types
<1>2. CASE carrier \in Carriers
  BY <1>2 DEF Carriers
<1>. QED BY <1>1, <1>2 DEF TypeOK

\* The made carrier and the references to it have their types.
LEMMA MakeTypes ==
  ASSUME TypeOK, NEW t \in Tasks, NEW kind \in Kinds, NEW element \in Declared,
         NEW default \in Seq(Values), NEW classes \in SUBSET ClassesOf[kind],
         Make(t, kind, element, default, classes),
         contents' \in Seq(Values), UNCHANGED <<child, awaited, previous>>
  PROVE  TypeOK'
<1>1. element \in Types
  BY HandoffAssumption DEF HandoffAssumption
<1>2. carrier' \in Carriers /\ carrier'.kind = kind
  BY <1>1 DEF Make, Carriers
<1>3. \A u \in Tasks, c \in Classes : view[u][c] = Unset
  BY DEF Make, TypeOK, ClassesOf
<1>4. view' = [view EXCEPT ![t] = [c \in Classes |-> IF c \in classes THEN element ELSE view[t][c]]]
  BY DEF Make
<1>5. view' \in [Tasks -> [Classes -> Types \cup {Unset}]]
  BY <1>1, <1>4 DEF TypeOK
<1>6. \A u \in Tasks, c \in Classes : view'[u][c] # Unset => c \in classes
  BY <1>3, <1>4 DEF TypeOK
<1>7. \A u \in Tasks : awaited[u] = Unset
  BY DEF Make, TypeOK
<1>. QED BY <1>2, <1>5, <1>6, <1>7 DEF TypeOK, Make, NothingReceived

\* What a reference of type "type" receives makes a well-typed event.
LEMMA EventTypes ==
  ASSUME NEW type \in Types, NEW values \in SUBSET Values,
         NEW what \in {"start", "channel", "queue", "runvar", "token",
                       "outcome", "generator"},
         ReceiveAs(type, values, what)
  PROVE  event' \in {Nothing} \cup [what : {"start", "channel", "queue", "runvar", "token",
                                            "outcome", "generator"},
                                    type : Types, values : SUBSET Values]
BY DEF ReceiveAs

LEMMA InitType == Init => TypeOK
<1>. SUFFICES ASSUME Init PROVE TypeOK
  OBVIOUS
<1>1. <<>> \in Seq(Values)
  OBVIOUS
<1>. QED BY <1>1 DEF Init, TypeOK

\* Every step keeps the types.
LEMMA TypeStep == TypeOK /\ Step => TypeOK'
<1>. SUFFICES ASSUME TypeOK, Step PROVE TypeOK'
  OBVIOUS
<1>. USE DEF TypeOK
<1>1. CASE UNCHANGED vars
  BY <1>1 DEF vars
<1>2. ASSUME NEW t \in Tasks, OpenMemoryChannel(t) PROVE TypeOK'
  <2>1. PICK T \in Declared :
          Make(t, "channel", T, <<>>, {"MemorySendChannel", "MemoryReceiveChannel"})
    BY <1>2 DEF OpenMemoryChannel
  <2>2. /\ "channel" \in Kinds /\ <<>> \in Seq(Values)
        /\ {"MemorySendChannel", "MemoryReceiveChannel"} \in SUBSET ClassesOf["channel"]
    BY DEF Kinds, ClassesOf
  <2>3. contents' \in Seq(Values) /\ UNCHANGED <<child, awaited, previous>>
    BY <1>2 DEF OpenMemoryChannel
  <2>. QED BY ONLY TypeOK, <2>1, <2>2, <2>3, MakeTypes
<1>3. ASSUME NEW t \in Tasks, NewUnboundedQueue(t) PROVE TypeOK'
  <2>1. PICK T \in Declared : Make(t, "queue", T, <<>>, {"UnboundedQueue"})
    BY <1>3 DEF NewUnboundedQueue
  <2>2. /\ "queue" \in Kinds /\ <<>> \in Seq(Values)
        /\ {"UnboundedQueue"} \in SUBSET ClassesOf["queue"]
    BY DEF Kinds, ClassesOf
  <2>3. contents' \in Seq(Values) /\ UNCHANGED <<child, awaited, previous>>
    BY <1>3 DEF NewUnboundedQueue
  <2>. QED BY ONLY TypeOK, <2>1, <2>2, <2>3, MakeTypes
<1>4. ASSUME NEW t \in Tasks, NewRunVar(t) PROVE TypeOK'
  <2>1. PICK T \in Declared : \E default \in Optional(ValuesOf(T)) :
          Make(t, "runvar", T, default, {"RunVar"})
    BY <1>4 DEF NewRunVar
  <2>2. PICK default \in Optional(ValuesOf(T)) : Make(t, "runvar", T, default, {"RunVar"})
    BY <2>1
  <2>3. default \in Seq(Values)
    BY ValuesAreValues, OptionalIsSequence, SeqMonotonic
  <2>4. "runvar" \in Kinds /\ {"RunVar"} \in SUBSET ClassesOf["runvar"]
    BY DEF Kinds, ClassesOf
  <2>5. contents' \in Seq(Values) /\ UNCHANGED <<child, awaited, previous>>
    BY <1>4 DEF NewRunVar
  <2>. QED BY ONLY TypeOK, <2>2, <2>3, <2>4, <2>5, MakeTypes
<1>5. ASSUME NEW t \in Tasks, Capture(t) PROVE TypeOK'
  <2>1. PICK T \in Declared :
          Make(t, "outcome", T, <<>>, {"Value"}) /\ contents' \in Optional(ValuesOf(T))
    BY <1>5 DEF Capture
  <2>2. /\ "outcome" \in Kinds /\ <<>> \in Seq(Values)
        /\ {"Value"} \in SUBSET ClassesOf["outcome"]
    BY DEF Kinds, ClassesOf
  <2>3. contents' \in Seq(Values)
    BY <2>1, ValuesAreValues, OptionalIsSequence, SeqMonotonic
  <2>4. UNCHANGED <<child, awaited, previous>>
    BY <1>5 DEF Capture
  <2>. QED BY ONLY TypeOK, <2>1, <2>2, <2>3, <2>4, MakeTypes
<1>6. ASSUME NEW t \in Tasks, NEW u \in Tasks, Start(t, u) PROVE TypeOK'
  <2>1. PICK T \in Declared, X \in Declared :
          /\ carrier' = [kind |-> "status", element |-> T, default |-> <<>>]
          /\ view' = [view EXCEPT ![u]["TaskStatus"] = X]
          /\ awaited' = [awaited EXCEPT ![t] = T]
          /\ erased' = (AnyType \in {T, X})
    BY <1>6 DEF Start
  <2>2. T \in Types /\ X \in Types
    BY HandoffAssumption DEF HandoffAssumption
  <2>3. carrier' \in Carriers /\ carrier'.kind = "status"
    BY <2>1, <2>2 DEF Carriers, Kinds
  <2>4. \A s \in Tasks, c \in Classes : view[s][c] = Unset
    BY <1>6 DEF Start, ClassesOf
  <2>5. view' \in [Tasks -> [Classes -> Types \cup {Unset}]]
    BY <2>1, <2>2
  <2>6. \A s \in Tasks, c \in Classes : view'[s][c] # Unset => c \in ClassesOf[carrier'.kind]
    BY <2>1, <2>3, <2>4 DEF ClassesOf
  <2>. QED BY <1>6, <2>1, <2>2, <2>3, <2>5, <2>6 DEF Start, NothingReceived
<1>7. ASSUME NEW t \in Tasks, NEW u \in Tasks, NEW class \in Classes, HandOver(t, u, class)
      PROVE  TypeOK'
  <2>1. PICK to \in Declared :
          /\ view' = [view EXCEPT ![u][class] = to]
          /\ erased' = (erased \/ to = AnyType)
    BY <1>7 DEF HandOver
  <2>2. class \in ClassesOf[carrier.kind] /\ carrier' = carrier
    BY <1>7 DEF HandOver, Holds
  <2>3. to \in Types
    BY HandoffAssumption DEF HandoffAssumption
  <2>. QED BY <1>7, <2>1, <2>2, <2>3, ViewUpdate DEF HandOver, NothingReceived
<1>8. ASSUME NEW t \in Tasks, Exit(t) PROVE TypeOK'
  BY <1>8 DEF Exit, NothingReceived
<1>9. ASSUME NEW t \in Tasks, StartedWithoutValue(t) \/ Started(t) PROVE TypeOK'
  <2>1. \E v \in Values : contents' = <<v>>
    BY <1>9, TypesAssumption, ValuesAreValues
       DEF StartedWithoutValue, Started, TypesAssumption
  <2>. QED BY <1>9, <2>1 DEF StartedWithoutValue, Started, NothingReceived
<1>10. ASSUME NEW t \in Tasks, StartReturns(t) PROVE TypeOK'
  <2>1. Head(contents) \in Values
    BY <1>10, HeadAndTail DEF StartReturns
  <2>. QED BY <1>10, <2>1, EventTypes DEF StartReturns
<1>11. ASSUME NEW t \in Tasks, NEW class \in Classes, Put(t, class) PROVE TypeOK'
  <2>1. contents' \in Seq(Values)
    BY <1>11, ValuesAreValues DEF Put
  <2>. QED BY <1>11, <2>1 DEF Put, NothingReceived
<1>12. ASSUME NEW t \in Tasks, Receive(t) PROVE TypeOK'
  <2>1. Head(contents) \in Values /\ contents' \in Seq(Values)
    BY <1>12, HeadAndTail DEF Receive
  <2>2. view[t]["MemoryReceiveChannel"] \in Types
    BY <1>12 DEF Receive, Holds, Classes, Covariant
  <2>. QED BY <1>12, <2>1, <2>2, EventTypes DEF Receive
<1>13. ASSUME NEW t \in Tasks, GetBatch(t) PROVE TypeOK'
  <2>1. {contents[i] : i \in DOMAIN contents} \subseteq Values /\ contents' \in Seq(Values)
    BY <1>13 DEF GetBatch
  <2>2. view[t]["UnboundedQueue"] \in Types
    BY <1>13 DEF GetBatch, Holds, Classes, Invariant
  <2>. QED BY <1>13, <2>1, <2>2, EventTypes DEF GetBatch
<1>14. ASSUME NEW t \in Tasks, RunVarGet(t) PROVE TypeOK'
  <2>1. PICK argument \in Optional(ValuesOf(view[t]["RunVar"])) :
          /\ contents \o argument \o carrier.default # <<>>
          /\ ReceiveAs(view[t]["RunVar"],
                       {Head(contents \o argument \o carrier.default)}, "runvar")
    BY <1>14 DEF RunVarGet
  <2>2. argument \in Seq(Values)
    BY ValuesAreValues, OptionalIsSequence, SeqMonotonic
  <2>3. carrier.default \in Seq(Values)
    BY CarrierTypes
  <2>4. contents \o argument \o carrier.default \in Seq(Values)
    BY <2>2, <2>3
  <2>5. Head(contents \o argument \o carrier.default) \in Values
    BY <2>1, <2>4, HeadAndTail
  <2>6. view[t]["RunVar"] \in Types
    BY <1>14 DEF RunVarGet, Holds, Classes, Invariant
  <2>. QED BY <1>14, <2>1, <2>5, <2>6, EventTypes DEF RunVarGet
<1>15. ASSUME NEW t \in Tasks, RunVarSet(t) PROVE TypeOK'
  <2>1. contents' \in Seq(Values)
    BY <1>15, ValuesAreValues DEF RunVarSet
  <2>2. view[t]["RunVar"] \in Types /\ carrier.kind = "runvar"
    <3>1. "RunVar" \in Classes /\ view[t]["RunVar"] # Unset
      BY <1>15 DEF RunVarSet, Holds, Classes, Invariant
    <3>2. view[t]["RunVar"] \in Types /\ "RunVar" \in ClassesOf[carrier.kind]
      BY <3>1
    <3>. QED BY <3>2, CarrierTypes DEF ClassesOf, Kinds
  <2>3. "RunVarToken" \in Classes /\ "RunVarToken" \in ClassesOf["runvar"]
    BY DEF Classes, Invariant, ClassesOf
  <2>4. carrier' = carrier /\ view' = [view EXCEPT ![t]["RunVarToken"] = view[t]["RunVar"]]
    BY <1>15 DEF RunVarSet
  <2>5. /\ view' \in [Tasks -> [Classes -> Types \cup {Unset}]]
        /\ \A s \in Tasks, c \in Classes :
             view'[s][c] # Unset => c \in ClassesOf[carrier'.kind]
    BY <2>2, <2>3, <2>4, ViewUpdate
  <2>. QED BY <1>15, <2>1, <2>5 DEF RunVarSet, NothingReceived
<1>16. ASSUME NEW t \in Tasks, RunVarReset(t) PROVE TypeOK'
  BY <1>16 DEF RunVarReset, NothingReceived
<1>17. ASSUME NEW t \in Tasks, PreviousValue(t) PROVE TypeOK'
  <2>1. Head(previous) \in Values
    BY <1>17, HeadAndTail DEF PreviousValue
  <2>2. view[t]["RunVarToken"] \in Types
    BY <1>17 DEF PreviousValue, Holds, Classes, Invariant
  <2>. QED BY <1>17, <2>1, <2>2, EventTypes DEF PreviousValue
<1>18. ASSUME NEW t \in Tasks, Unwrap(t) \/ OutcomeSend(t) PROVE TypeOK'
  <2>1. Head(contents) \in Values
    BY <1>18, HeadAndTail DEF Unwrap, OutcomeSend
  <2>2. view[t]["Value"] \in Types
    BY <1>18 DEF Unwrap, OutcomeSend, Holds, Classes, Invariant
  <2>3. Declared \subseteq Types
    BY HandoffAssumption DEF HandoffAssumption
  <2>. QED BY <1>18, <2>1, <2>2, <2>3, EventTypes DEF Unwrap, OutcomeSend
<1>. QED
  BY <1>1, <1>2, <1>3, <1>4, <1>5, <1>6, <1>7, <1>8, <1>9, <1>10, <1>11, <1>12, <1>13,
     <1>14, <1>15, <1>16, <1>17, <1>18
     DEF Step, Next, Send, PutNowait, Classes, Contravariant, Invariant

-----------------------------------------------------------------------------
(* Soundness. *)

\* A reference exists only to a carrier that has been made.
LEMMA HeldIsMade ==
  ASSUME TypeOK, NEW t \in Tasks, NEW class \in Classes, Holds(t, class)
  PROVE  carrier.kind # "none" /\ view[t][class] \in Types
BY DEF TypeOK, Holds, ClassesOf

\* What a reference gives is of the carrier's type, and what the carrier has is
\* of the type of a reference it is taken through.
LEMMA Given ==
  ASSUME TypeOK, RefsSound, NEW t \in Tasks, NEW class \in Classes \cap Givers,
         Holds(t, class)
  PROVE  ValuesOf(view[t][class]) \subseteq carrier.element
<1>1. view[t][class] \in Types /\ Between(class, view[t][class], carrier.element)
  BY HeldIsMade DEF RefsSound, Holds
<1>. QED BY <1>1, ValuesAreElements DEF Between

LEMMA Taken ==
  ASSUME TypeOK, RefsSound, NEW t \in Tasks, NEW class \in Classes \cap Takers,
         Holds(t, class)
  PROVE  carrier.element \subseteq view[t][class]
BY HeldIsMade DEF RefsSound, Holds, Between

\* A step that makes and hands over nothing keeps what it puts in sound.
LEMMA QuietStep ==
  ASSUME Sound, carrier.kind # "none", UNCHANGED <<carrier, view>>,
         \A t \in Tasks : awaited'[t] \in {awaited[t], Unset},
         contents' \in Seq(carrier.element),
         previous' \in Seq(carrier.element) \cup {Unset},
         EventSound'
  PROVE  Fresh' /\ Sound'
<1>1. AwaitedSound'
  BY DEF Sound, AwaitedSound
<1>2. RefsSound'
  BY DEF Sound, RefsSound
<1>. QED BY <1>1, <1>2 DEF Sound, InsideSound, Fresh

LEMMA ReceiptSound ==
  ASSUME NEW type, NEW values, NEW what, ReceiveAs(type, values, what),
         values \subseteq type
  PROVE  EventSound'
BY DEF ReceiveAs, EventSound, Admits

LEMMA NoReceiptSound == NothingReceived => EventSound'
BY DEF NothingReceived, EventSound

\* A carrier is sound when it is made.
LEMMA MakeSound ==
  ASSUME TypeOK, Fresh, NEW t \in Tasks, NEW kind \in Kinds, NEW element \in Declared,
         NEW default, NEW classes \in SUBSET Classes,
         Make(t, kind, element, default, classes), ~ erased',
         default \in Seq(element), contents' \in Seq(element),
         UNCHANGED <<awaited, previous>>
  PROVE  Sound'
<1>1. element \in Types /\ element # AnyType
  BY HandoffAssumption DEF HandoffAssumption, Make
<1>2. carrier'.element = element /\ carrier'.default = default
  BY DEF Make
<1>3. RefsSound'
  <2>1. \A u \in Tasks, c \in Classes : view[u][c] = Unset
    BY DEF Make, TypeOK, ClassesOf
  <2>2. view' = [view EXCEPT ![t] = [c \in Classes |-> IF c \in classes THEN element ELSE view[t][c]]]
    BY DEF Make
  <2>3. \A u \in Tasks, c \in Classes : view'[u][c] \in {element, Unset}
    BY <2>1, <2>2 DEF TypeOK
  <2>. QED BY <1>1, <1>2, <2>3 DEF RefsSound, Between
<1>4. AwaitedSound'
  BY DEF Make, TypeOK, AwaitedSound
<1>5. InsideSound'
  BY <1>2 DEF Make, Fresh, InsideSound
<1>6. EventSound'
  BY NoReceiptSound DEF Make
<1>. QED BY <1>1, <1>2, <1>3, <1>4, <1>5, <1>6 DEF Sound

LEMMA StartSound ==
  ASSUME TypeOK, Fresh, NEW t \in Tasks, NEW u \in Tasks, Start(t, u), ~ erased'
  PROVE  Sound'
<1>1. PICK T \in Declared, X \in Declared :
        /\ IsAssignable("TaskStatus", T, X)
        /\ carrier' = [kind |-> "status", element |-> T, default |-> <<>>]
        /\ view' = [view EXCEPT ![u]["TaskStatus"] = X]
        /\ awaited' = [awaited EXCEPT ![t] = T]
        /\ erased' = (AnyType \in {T, X})
  BY DEF Start
<1>2. T # AnyType /\ X # AnyType
  BY <1>1
<1>3. "TaskStatus" \in Classes /\ Between("TaskStatus", T, T)
  BY <1>2 DEF Between, Classes, Contravariant
<1>4. Between("TaskStatus", X, T)
  BY <1>1, <1>2, <1>3, AssignableStaysBetween
<1>5. RefsSound'
  <2>1. \A s \in Tasks, c \in Classes : view[s][c] = Unset
    BY DEF Start, TypeOK, ClassesOf
  <2>2. \A s \in Tasks, c \in Classes :
          view'[s][c] # Unset => c = "TaskStatus" /\ view'[s][c] = X
    BY <1>1, <2>1 DEF TypeOK
  <2>3. carrier'.element = T
    BY <1>1
  <2>. QED BY <1>4, <2>2, <2>3 DEF RefsSound
<1>6. AwaitedSound'
  <2>1. \A s \in Tasks : awaited[s] = Unset
    BY DEF Start, TypeOK
  <2>. QED BY <1>1, <2>1 DEF AwaitedSound, TypeOK
<1>7. InsideSound'
  BY <1>1 DEF Start, Fresh, InsideSound
<1>8. EventSound'
  BY NoReceiptSound DEF Start
<1>. QED BY <1>1, <1>2, <1>5, <1>6, <1>7, <1>8 DEF Sound

LEMMA HandOverSound ==
  ASSUME TypeOK, Sound, NEW t \in Tasks, NEW u \in Tasks, NEW class \in Classes,
         HandOver(t, u, class), ~ erased'
  PROVE  Sound'
<1>1. PICK to \in Declared :
        /\ IsAssignable(class, view[t][class], to)
        /\ view' = [view EXCEPT ![u][class] = to]
        /\ erased' = (erased \/ to = AnyType)
  BY DEF HandOver
<1>2. Between(class, view[t][class], carrier.element)
  BY DEF Sound, RefsSound, HandOver, Holds
<1>3. Between(class, to, carrier.element)
  BY <1>1, <1>2, AssignableStaysBetween
<1>4. RefsSound'
  <2>1. \A s \in Tasks, c \in Classes :
          \/ view'[s][c] = view[s][c]
          \/ c = class /\ view'[s][c] = to
    BY <1>1 DEF TypeOK
  <2>2. carrier' = carrier
    BY DEF HandOver
  <2>. QED BY <1>3, <2>1, <2>2 DEF Sound, RefsSound
<1>5. EventSound'
  BY NoReceiptSound DEF HandOver
<1>. QED BY <1>4, <1>5 DEF HandOver, Sound, AwaitedSound, InsideSound

LEMMA ExitSound ==
  ASSUME TypeOK, Sound, NEW t \in Tasks, Exit(t)
  PROVE  Sound'
<1>1. RefsSound'
  <2>1. view' = [view EXCEPT ![t] = [c \in Classes |-> Unset]] /\ carrier' = carrier
    BY DEF Exit
  <2>2. \A s \in Tasks, c \in Classes : view'[s][c] \in {view[s][c], Unset}
    BY <2>1 DEF TypeOK
  <2>. QED BY <2>1, <2>2 DEF Sound, RefsSound
<1>2. AwaitedSound'
  BY DEF Exit, Sound, AwaitedSound
<1>3. EventSound'
  BY NoReceiptSound DEF Exit
<1>. QED BY <1>1, <1>2, <1>3 DEF Exit, Sound, InsideSound

-----------------------------------------------------------------------------
(* Steps that put values in or take them out. *)

LEMMA StartedSound ==
  ASSUME TypeOK, Sound, NEW t \in Tasks, StartedWithoutValue(t) \/ Started(t)
  PROVE  Fresh' /\ Sound'
<1>1. Holds(t, "TaskStatus")
  BY DEF StartedWithoutValue, Started
<1>2. "TaskStatus" \in Classes \cap Givers /\ "TaskStatus" \in Contravariant
  BY DEF Classes, Contravariant, Givers
<1>3. carrier.kind # "none" /\ view[t]["TaskStatus"] \in Types
  BY <1>1, <1>2, HeldIsMade
<1>4. ValuesOf(view[t]["TaskStatus"]) \subseteq carrier.element
  BY <1>1, <1>2, Given DEF Sound
<1>5. view[t]["TaskStatus"] # AnyType
  BY <1>1, <1>2 DEF Sound, RefsSound, Holds, Between
<1>6. contents' \in Seq(carrier.element)
  <2>1. CASE Started(t)
    <3>1. PICK v \in ValuesOf(view[t]["TaskStatus"]) : contents' = <<v>>
      BY <2>1 DEF Started
    <3>. QED BY <1>4, <3>1
  <2>2. CASE StartedWithoutValue(t)
    <3>1. IsSubtype(NoneType, view[t]["TaskStatus"])
      BY <1>2, <2>2 DEF StartedWithoutValue, IsAssignable, Contravariant, Covariant
    <3>2. NoneType \subseteq view[t]["TaskStatus"]
      BY <1>5, <3>1, TypeCases DEF IsSubtype
    <3>3. NoneValue \in ValuesOf(view[t]["TaskStatus"])
      BY <1>3, <1>5, <3>2, ValuesAreElements DEF NoneType
    <3>4. contents' = <<NoneValue>> /\ NoneValue \in carrier.element
      BY <1>4, <2>2, <3>3 DEF StartedWithoutValue
    <3>. QED BY <3>4
  <2>. QED BY <2>1, <2>2
<1>7. EventSound'
  BY NoReceiptSound DEF StartedWithoutValue, Started
<1>. QED BY <1>3, <1>6, <1>7, QuietStep DEF StartedWithoutValue, Started, Sound, InsideSound

LEMMA StartReturnsSound ==
  ASSUME TypeOK, Sound, NEW t \in Tasks, StartReturns(t)
  PROVE  Fresh' /\ Sound'
<1>1. carrier.kind # "none" /\ awaited[t] = carrier.element
  BY DEF StartReturns, TypeOK, Sound, AwaitedSound
<1>2. Head(contents) \in carrier.element
  BY HeadAndTail DEF StartReturns, Sound, InsideSound
<1>3. EventSound'
  BY <1>1, <1>2, ReceiptSound DEF StartReturns
<1>4. \A s \in Tasks : awaited'[s] \in {awaited[s], Unset}
  BY DEF StartReturns, TypeOK
<1>. QED BY <1>1, <1>3, <1>4, QuietStep DEF StartReturns, Sound, InsideSound

LEMMA PutSound ==
  ASSUME TypeOK, Sound, NEW t \in Tasks, NEW class \in Classes \cap Givers, Put(t, class)
  PROVE  Fresh' /\ Sound'
<1>1. carrier.kind # "none"
  BY HeldIsMade DEF Put
<1>2. contents' \in Seq(carrier.element)
  BY Given DEF Put, Sound, InsideSound
<1>3. EventSound'
  BY NoReceiptSound DEF Put
<1>. QED BY <1>1, <1>2, <1>3, QuietStep DEF Put, Sound, InsideSound

LEMMA ReceiveSound ==
  ASSUME TypeOK, Sound, NEW t \in Tasks, Receive(t)
  PROVE  Fresh' /\ Sound'
<1>1. "MemoryReceiveChannel" \in Classes \cap Takers
  BY DEF Classes, Covariant, Takers
<1>2. carrier.kind # "none"
  BY <1>1, HeldIsMade DEF Receive
<1>3. carrier.element \subseteq view[t]["MemoryReceiveChannel"]
  BY <1>1, Taken DEF Receive, Sound
<1>4. Head(contents) \in carrier.element /\ Tail(contents) \in Seq(carrier.element)
  BY HeadAndTail DEF Receive, Sound, InsideSound
<1>5. EventSound'
  BY <1>3, <1>4, ReceiptSound DEF Receive
<1>. QED BY <1>2, <1>4, <1>5, QuietStep DEF Receive, Sound, InsideSound

LEMMA GetBatchSound ==
  ASSUME TypeOK, Sound, NEW t \in Tasks, GetBatch(t)
  PROVE  Fresh' /\ Sound'
<1>1. "UnboundedQueue" \in Classes \cap Takers
  BY DEF Classes, Invariant, Takers
<1>2. carrier.kind # "none"
  BY <1>1, HeldIsMade DEF GetBatch
<1>3. carrier.element \subseteq view[t]["UnboundedQueue"]
  BY <1>1, Taken DEF GetBatch, Sound
<1>4. {contents[i] : i \in DOMAIN contents} \subseteq carrier.element
  BY DEF Sound, InsideSound
<1>5. EventSound'
  BY <1>3, <1>4, ReceiptSound DEF GetBatch
<1>6. contents' \in Seq(carrier.element)
  BY DEF GetBatch
<1>. QED BY <1>2, <1>5, <1>6, QuietStep DEF GetBatch, Sound, InsideSound

LEMMA RunVarGetSound ==
  ASSUME TypeOK, Sound, NEW t \in Tasks, RunVarGet(t)
  PROVE  Fresh' /\ Sound'
<1>1. "RunVar" \in Classes \cap Takers /\ "RunVar" \in Classes \cap Givers
  BY DEF Classes, Invariant, Takers, Givers
<1>2. carrier.kind # "none"
  BY <1>1, HeldIsMade DEF RunVarGet
<1>3. carrier.element \subseteq view[t]["RunVar"]
  BY <1>1, Taken DEF RunVarGet, Sound
<1>4. PICK argument \in Optional(ValuesOf(view[t]["RunVar"])) :
        /\ contents \o argument \o carrier.default # <<>>
        /\ ReceiveAs(view[t]["RunVar"],
                     {Head(contents \o argument \o carrier.default)}, "runvar")
  BY DEF RunVarGet
<1>5. argument \in Seq(carrier.element)
  <2>1. ValuesOf(view[t]["RunVar"]) \subseteq carrier.element
    BY <1>1, Given DEF RunVarGet, Sound
  <2>. QED BY <2>1, OptionalIsSequence, SeqMonotonic
<1>6. contents \o argument \o carrier.default \in Seq(carrier.element)
  BY <1>5, ConcatProperties DEF Sound, InsideSound
<1>7. Head(contents \o argument \o carrier.default) \in carrier.element
  BY <1>4, <1>6, HeadAndTail
<1>8. EventSound'
  <2>. DEFINE got == Head(contents \o argument \o carrier.default)
  <2>1. {got} \subseteq view[t]["RunVar"]
    BY <1>3, <1>7
  <2>2. ReceiveAs(view[t]["RunVar"], {got}, "runvar")
    BY <1>4
  <2>. HIDE DEF got
  <2>. QED BY <2>1, <2>2, ReceiptSound
<1>. QED BY <1>2, <1>8, QuietStep DEF RunVarGet, Sound, InsideSound

LEMMA RunVarSetSound ==
  ASSUME TypeOK, Sound, NEW t \in Tasks, RunVarSet(t)
  PROVE  Fresh' /\ Sound'
<1>1. "RunVar" \in Classes \cap Givers /\ "RunVar" \in Takers /\ "RunVarToken" \in Classes
  BY DEF Classes, Invariant, Takers, Givers
<1>2. carrier.kind # "none"
  BY <1>1, HeldIsMade DEF RunVarSet
<1>3. contents' \in Seq(carrier.element)
  <2>1. PICK v \in ValuesOf(view[t]["RunVar"]) : contents' = <<v>>
    BY DEF RunVarSet
  <2>2. v \in carrier.element
    BY <1>1, Given DEF RunVarSet, Sound
  <2>3. <<v>> \in Seq(carrier.element)
    BY <2>2, SingletonSequence
  <2>. QED BY <2>1, <2>3
<1>4. Between("RunVar", view[t]["RunVar"], carrier.element)
  BY <1>1 DEF RunVarSet, Holds, Sound, RefsSound
<1>5. Between("RunVarToken", view[t]["RunVar"], carrier.element)
  BY <1>1, <1>4 DEF Between, Givers
<1>6. RefsSound'
  <2>1. carrier' = carrier /\ view' = [view EXCEPT ![t]["RunVarToken"] = view[t]["RunVar"]]
    BY DEF RunVarSet
  <2>2. \A s \in Tasks, c \in Classes :
          \/ view'[s][c] = view[s][c]
          \/ c = "RunVarToken" /\ view'[s][c] = view[t]["RunVar"]
    BY <2>1 DEF TypeOK
  <2>. QED BY <1>5, <2>1, <2>2 DEF Sound, RefsSound
<1>7. EventSound'
  BY NoReceiptSound DEF RunVarSet
<1>. QED BY <1>2, <1>3, <1>6, <1>7 DEF RunVarSet, Sound, AwaitedSound, InsideSound, Fresh

LEMMA RunVarResetSound ==
  ASSUME TypeOK, Sound, NEW t \in Tasks, RunVarReset(t)
  PROVE  Fresh' /\ Sound'
<1>1. "RunVar" \in Classes
  BY DEF Classes, Invariant
<1>2. carrier.kind # "none"
  BY <1>1, HeldIsMade DEF RunVarReset
<1>3. EventSound'
  BY NoReceiptSound DEF RunVarReset
<1>. QED BY <1>2, <1>3, QuietStep DEF RunVarReset, Sound, InsideSound

LEMMA PreviousValueSound ==
  ASSUME TypeOK, Sound, NEW t \in Tasks, PreviousValue(t)
  PROVE  Fresh' /\ Sound'
<1>1. "RunVarToken" \in Classes \cap Takers
  BY DEF Classes, Invariant, Takers
<1>2. carrier.kind # "none"
  BY <1>1, HeldIsMade DEF PreviousValue
<1>3. carrier.element \subseteq view[t]["RunVarToken"]
  BY <1>1, Taken DEF PreviousValue, Sound
<1>4. Head(previous) \in carrier.element
  BY HeadAndTail DEF PreviousValue, Sound, InsideSound
<1>5. EventSound'
  BY <1>3, <1>4, ReceiptSound DEF PreviousValue
<1>. QED BY <1>2, <1>5, QuietStep DEF PreviousValue, Sound, InsideSound

LEMMA OutcomeSound ==
  ASSUME TypeOK, Sound, NEW t \in Tasks, Unwrap(t) \/ OutcomeSend(t)
  PROVE  Fresh' /\ Sound'
<1>1. "Value" \in Classes \cap Takers /\ Holds(t, "Value") /\ contents # <<>>
  BY DEF Classes, Invariant, Takers, Unwrap, OutcomeSend
<1>2. carrier.kind # "none" /\ view[t]["Value"] # AnyType
  BY <1>1, HeldIsMade DEF Holds, Sound, RefsSound, Between
<1>3. carrier.element \subseteq view[t]["Value"]
  BY <1>1, Taken DEF Sound
<1>4. Head(contents) \in carrier.element
  BY <1>1, HeadAndTail DEF Sound, InsideSound
<1>5. EventSound'
  <2>1. CASE Unwrap(t)
    BY <1>3, <1>4, <2>1, ReceiptSound DEF Unwrap
  <2>2. CASE OutcomeSend(t)
    <3>1. PICK S \in Declared :
            /\ IsSubtype(view[t]["Value"], S)
            /\ ReceiveAs(S, {Head(contents)}, "generator")
      BY <2>2 DEF OutcomeSend
    <3>2. CASE S = AnyType
      BY <3>1, <3>2 DEF ReceiveAs, EventSound, Admits
    <3>3. CASE S # AnyType
      BY <1>2, <1>3, <1>4, <3>1, <3>3, ReceiptSound DEF IsSubtype
    <3>. QED BY <3>2, <3>3
  <2>. QED BY <2>1, <2>2
<1>. QED BY <1>2, <1>5, QuietStep DEF Unwrap, OutcomeSend, Sound, InsideSound

-----------------------------------------------------------------------------
(* The invariant and the theorems. *)

LEMMA IInit == Init => IInv
<1>. SUFFICES ASSUME Init PROVE IInv
  OBVIOUS
<1>1. carrier.kind = "none" /\ carrier.default = <<>>
  BY DEF Init, NoCarrier
<1>2. RefsSound /\ AwaitedSound /\ EventSound
  BY DEF Init, RefsSound, AwaitedSound, EventSound
<1>3. InsideSound
  BY <1>1, EmptySeq DEF Init, InsideSound
<1>. QED BY <1>1, <1>2, <1>3, InitType DEF Init, IInv, Fresh, Sound

LEMMA IStep == IInv /\ Step => IInv'
<1>. SUFFICES ASSUME IInv, Step PROVE Fresh' /\ (~ erased' => Sound')
  BY TypeStep DEF IInv
<1>0. TypeOK /\ Fresh /\ (~ erased => Sound) /\ erased \in BOOLEAN
  BY DEF IInv, TypeOK
<1>1. CASE UNCHANGED vars
  BY <1>0, <1>1 DEF vars, Fresh, Sound, RefsSound, AwaitedSound, InsideSound, EventSound
<1>2. ASSUME NEW t \in Tasks,
             OpenMemoryChannel(t) \/ NewUnboundedQueue(t) \/ NewRunVar(t) \/ Capture(t)
      PROVE  Fresh' /\ (~ erased' => Sound')
  <2>1. UNCHANGED <<awaited, previous>>
    BY <1>2 DEF OpenMemoryChannel, NewUnboundedQueue, NewRunVar, Capture
  <2>2. PICK kind \in Kinds, element \in Declared, classes \in SUBSET Classes :
          \E default \in Seq(Values) :
            /\ Make(t, kind, element, default, classes)
            /\ element # AnyType => default \in Seq(element) /\ contents' \in Seq(element)
    <3>. USE DEF Kinds, Classes, Contravariant, Covariant, Invariant
    <3>1. CASE OpenMemoryChannel(t)
      <4>1. PICK T \in Declared :
              Make(t, "channel", T, <<>>, {"MemorySendChannel", "MemoryReceiveChannel"})
        BY <3>1 DEF OpenMemoryChannel
      <4>2. contents' = <<>>
        BY <1>0, <3>1, <4>1 DEF OpenMemoryChannel, Make, Fresh
      <4>. QED BY <4>1, <4>2, EmptySeq
    <3>2. CASE NewUnboundedQueue(t)
      <4>1. PICK T \in Declared : Make(t, "queue", T, <<>>, {"UnboundedQueue"})
        BY <3>2 DEF NewUnboundedQueue
      <4>2. contents' = <<>>
        BY <1>0, <3>2, <4>1 DEF NewUnboundedQueue, Make, Fresh
      <4>. QED BY <4>1, <4>2, EmptySeq
    <3>3. CASE NewRunVar(t)
      <4>1. PICK T \in Declared : \E default \in Optional(ValuesOf(T)) :
              Make(t, "runvar", T, default, {"RunVar"})
        BY <3>3 DEF NewRunVar
      <4>2. PICK default \in Optional(ValuesOf(T)) :
              Make(t, "runvar", T, default, {"RunVar"})
        BY <4>1
      <4>3. default \in Seq(Values)
        BY ValuesAreValues, OptionalIsSequence, SeqMonotonic
      <4>4. T # AnyType => default \in Seq(T)
        BY HandoffAssumption, ValuesAreElements, OptionalIsSequence DEF HandoffAssumption
      <4>5. contents' = <<>>
        BY <1>0, <3>3, <4>2 DEF NewRunVar, Make, Fresh
      <4>. QED BY <4>2, <4>3, <4>4, <4>5, EmptySeq
    <3>4. CASE Capture(t)
      <4>1. PICK T \in Declared :
              Make(t, "outcome", T, <<>>, {"Value"}) /\ contents' \in Optional(ValuesOf(T))
        BY <3>4 DEF Capture
      <4>2. T # AnyType => contents' \in Seq(T)
        BY <4>1, HandoffAssumption, ValuesAreElements, OptionalIsSequence DEF HandoffAssumption
      <4>. QED BY <4>1, <4>2, EmptySeq
    <3>. QED BY <1>2, <3>1, <3>2, <3>3, <3>4
  <2>3. PICK default \in Seq(Values) :
          /\ Make(t, kind, element, default, classes)
          /\ element # AnyType => default \in Seq(element) /\ contents' \in Seq(element)
    BY <2>2
  <2>4. Fresh'
    BY <2>3 DEF Make, Fresh, Kinds
  <2>5. ASSUME ~ erased' PROVE Sound'
    <3>1. element # AnyType
      BY <2>3, <2>5 DEF Make
    <3>. QED BY <1>0, <2>1, <2>3, <2>5, <3>1, MakeSound
  <2>. QED BY <2>4, <2>5
<1>3. ASSUME NEW t \in Tasks, NEW u \in Tasks, Start(t, u)
      PROVE  Fresh' /\ (~ erased' => Sound')
  BY <1>0, <1>3, StartSound DEF Start, Fresh
<1>4. ASSUME NEW t \in Tasks, NEW u \in Tasks, NEW class \in Classes, HandOver(t, u, class)
      PROVE  Fresh' /\ (~ erased' => Sound')
  <2>1. ~ erased' => ~ erased
    BY <1>4 DEF HandOver
  <2>. QED BY <1>0, <1>4, <2>1, HandOverSound DEF HandOver, Fresh
<1>5. ASSUME NEW t \in Tasks, Exit(t)
      PROVE  Fresh' /\ (~ erased' => Sound')
  BY <1>0, <1>5, ExitSound DEF Exit, Fresh
<1>6. ASSUME NEW t \in Tasks,
             \/ StartedWithoutValue(t) \/ Started(t) \/ StartReturns(t)
             \/ Send(t) \/ PutNowait(t) \/ Receive(t) \/ GetBatch(t)
             \/ RunVarGet(t) \/ RunVarSet(t) \/ RunVarReset(t) \/ PreviousValue(t)
             \/ Unwrap(t) \/ OutcomeSend(t)
      PROVE  Fresh' /\ (~ erased' => Sound')
  <2>1. carrier' = carrier /\ erased' = erased /\ carrier.kind # "none"
    <3>1. \/ awaited[t] # Unset
          \/ \E class \in Classes : Holds(t, class)
      BY <1>6 DEF StartedWithoutValue, Started, StartReturns, Send, PutNowait, Put, Receive,
                  GetBatch, RunVarGet, RunVarSet, RunVarReset, PreviousValue, Unwrap,
                  OutcomeSend, Classes, Contravariant, Covariant, Invariant
    <3>2. carrier.kind # "none"
      BY <1>0, <3>1, HeldIsMade DEF TypeOK
    <3>3. carrier' = carrier /\ erased' = erased
      BY <1>6 DEF StartedWithoutValue, Started, StartReturns, Send, PutNowait, Put, Receive,
                  GetBatch, RunVarGet, RunVarSet, RunVarReset, PreviousValue, Unwrap,
                  OutcomeSend
    <3>. QED BY <3>2, <3>3
  <2>2. "MemorySendChannel" \in Classes \cap Givers /\ "UnboundedQueue" \in Classes \cap Givers
    BY DEF Classes, Contravariant, Invariant, Givers
  <2>3. CASE erased
    BY <2>1, <2>3 DEF Fresh
  <2>4. CASE ~ erased
    <3>1. TypeOK /\ Sound
      BY <1>0, <2>4
    <3>2. CASE StartedWithoutValue(t) \/ Started(t)
      BY ONLY <3>1, <3>2, StartedSound
    <3>3. CASE StartReturns(t)
      BY ONLY <3>1, <3>3, StartReturnsSound
    <3>4. CASE Send(t) \/ PutNowait(t)
      BY <2>2, <3>1, <3>4, PutSound DEF Send, PutNowait
    <3>5. CASE Receive(t)
      BY <3>1, <3>5, ReceiveSound
    <3>6. CASE GetBatch(t)
      BY <3>1, <3>6, GetBatchSound
    <3>7. CASE RunVarGet(t)
      BY <3>1, <3>7, RunVarGetSound
    <3>8. CASE RunVarSet(t)
      BY <3>1, <3>8, RunVarSetSound
    <3>9. CASE RunVarReset(t)
      BY <3>1, <3>9, RunVarResetSound
    <3>10. CASE PreviousValue(t)
      BY <3>1, <3>10, PreviousValueSound
    <3>11. CASE Unwrap(t) \/ OutcomeSend(t)
      BY <3>1, <3>11, OutcomeSound
    <3>. QED BY <1>6, <3>2, <3>3, <3>4, <3>5, <3>6, <3>7, <3>8, <3>9, <3>10, <3>11
  <2>. QED BY <2>3, <2>4
<1>. QED BY <1>1, <1>2, <1>3, <1>4, <1>5, <1>6 DEF Step, Next

\* The invariant makes every receipt sound.
LEMMA Receipts == IInv => StartResultSound /\ ReceivedSound
BY DEF IInv, Sound, EventSound, StartResultSound, ReceivedSound, Received, Nothing

\* Carriers, references and receipts are always what their names say
\* (stubs of trio, trio_typing and outcome).
THEOREM HandoffTypeOK == Spec => []TypeOK
<1>1. TypeOK /\ [Next]_vars => TypeOK'
  BY TypeStep DEF Step
<1>. QED BY InitType, <1>1, PTL DEF Spec

\* "await nursery.start(f)" returns a value of the type mypy gives it, for every
\* program, through however many hands the TaskStatus goes.
THEOREM StartResultsAreSound == Spec => []StartResultSound
<1>1. IInv /\ [Next]_vars => IInv'
  BY IStep DEF Step
<1>. QED BY IInit, <1>1, Receipts, PTL DEF Spec

\* What is taken out of a channel, queue, RunVar or outcome is of the type that
\* the reference it is taken through declares.
THEOREM ReceiptsAreSound == Spec => []ReceivedSound
<1>1. IInv /\ [Next]_vars => IInv'
  BY IStep DEF Step
<1>. QED BY IInit, <1>1, Receipts, PTL DEF Spec

=============================================================================
