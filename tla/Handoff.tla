------------------------------ MODULE Handoff ------------------------------
(***************************************************************************)
(* Values that go from task to task.  A carrier is the object they go      *)
(* through: the task_status of a nursery.start(), a memory channel, an     *)
(* UnboundedQueue, a RunVar or a captured Outcome.  Tasks hold references  *)
(* to it, and hand them on to code that declares them with other type      *)
(* arguments, as far as the variance the stubs give each class lets mypy   *)
(* accept that.  Each reference is checked only against the one it was     *)
(* made from; the question is whether a value is of the type its receiver  *)
(* expects, wherever it was put in.  What Trio does at run time is         *)
(* external; carriers share nothing, so there is one of them.              *)
(***************************************************************************)
EXTENDS AgenTypes

CONSTANTS
  Tasks,     \* the tasks of the program
  Declared,  \* the type arguments it is written with
  Capacity   \* the most values in a channel or a queue

ASSUME HandoffAssumption ==
  /\ Declared \subseteq Types
  /\ Capacity \in Nat \ {0}

VARIABLES
  carrier,   \* its kind, the type argument it is made with, a RunVar's default
  child,     \* the task that nursery.start() started
  view,      \* the type argument with which each task refers to each class
  awaited,   \* the type of the start() that a task awaits
  contents,  \* the values in the carrier
  previous,  \* what the token of the last RunVar.set() has kept
  erased,    \* a reference has had the type argument Any
  event      \* what the last step received, and as what type

vars == <<carrier, child, view, awaited, contents, previous, erased, event>>

-----------------------------------------------------------------------------
(* The generic classes of the stubs. *)

Contravariant == {"TaskStatus", "MemorySendChannel"}

\* Mutant: RunVar's type variable is declared covariant.
CovariantRunVar == {"MemoryReceiveChannel", "RunVar"}

Covariant == {"MemoryReceiveChannel"}
Invariant == {"UnboundedQueue", "RunVar", "RunVarToken", "Value"}
Classes == Contravariant \cup Covariant \cup Invariant

Kinds == {"status", "channel", "queue", "runvar", "outcome"}
NoCarrier == [kind |-> "none", element |-> AnyType, default |-> <<>>]
Carriers == [kind : Kinds, element : Types, default : Seq(Values)]

Nothing == [what |-> "nothing"]

\* Whether mypy lets a "class[from]" be used as a "class[to]".
IsAssignable(class, from, to) ==
  /\ class \notin Contravariant => IsSubtype(from, to)
  /\ class \notin Covariant => IsSubtype(to, from)

\* A task that refers to the carrier by one of its classes and can run.
Holds(t, class) == awaited[t] = Unset /\ view[t][class] # Unset

\* The values an expression of type t may have.
ValuesOf(t) == {v \in Values : Admits(t, v)}

Optional(values) == {<<>>} \cup {<<v>> : v \in values}

\* A task receives values as the type argument of its reference.
ReceiveAs(type, values, what) ==
  event' = [what |-> what, type |-> type, values |-> values]

NothingReceived == event' = Nothing

-----------------------------------------------------------------------------
(* How a carrier is made. *)

Make(t, kind, element, default, classes) ==
  /\ carrier.kind = "none"
  /\ awaited[t] = Unset
  /\ carrier' = [kind |-> kind, element |-> element, default |-> default]
  /\ view' = [view EXCEPT ![t] = [c \in Classes |-> IF c \in classes THEN element ELSE @[c]]]
  /\ erased' = (element = AnyType)
  /\ NothingReceived

\* open_memory_channel[T](n), one reference for each end.
OpenMemoryChannel(t) ==
  /\ \E T \in Declared :
       Make(t, "channel", T, <<>>, {"MemorySendChannel", "MemoryReceiveChannel"})
  /\ UNCHANGED <<child, awaited, contents, previous>>

NewUnboundedQueue(t) ==
  /\ \E T \in Declared : Make(t, "queue", T, <<>>, {"UnboundedQueue"})
  /\ UNCHANGED <<child, awaited, contents, previous>>

NewRunVar(t) ==
  /\ \E T \in Declared :
       \E default \in Optional(ValuesOf(T)) : Make(t, "runvar", T, default, {"RunVar"})
  /\ UNCHANGED <<child, awaited, contents, previous>>

\* outcome.capture() of a function that returns a T, or raises: then the
\* outcome is an Error and holds no value.
Capture(t) ==
  /\ \E T \in Declared :
       /\ Make(t, "outcome", T, <<>>, {"Value"})
       /\ contents' \in Optional(ValuesOf(T))
  /\ UNCHANGED <<child, awaited, previous>>

\* "await nursery.start(f)" of an f whose task_status is a TaskStatus[X]: mypy
\* solves _T so that the TaskStatus[_T] that f is to take is one.
Start(t, u) ==
  /\ carrier.kind = "none"
  /\ t # u
  /\ \E T, X \in Declared :
       /\ IsAssignable("TaskStatus", T, X)
       /\ carrier' = [kind |-> "status", element |-> T, default |-> <<>>]
       /\ view' = [view EXCEPT ![u]["TaskStatus"] = X]
       /\ awaited' = [awaited EXCEPT ![t] = T]
       /\ erased' = (AnyType \in {T, X})
  /\ child' = u
  /\ NothingReceived
  /\ UNCHANGED <<contents, previous>>

-----------------------------------------------------------------------------
(* How references to it get about. *)

\* A task hands a reference to code that declares it with another argument: a
\* function it calls, or a task, a thread or a callback it passes it to.
HandOver(t, u, class) ==
  /\ Holds(t, class)
  /\ awaited[u] = Unset
  /\ \E to \in Declared :
       /\ IsAssignable(class, view[t][class], to)
       /\ view' = [view EXCEPT ![u][class] = to]
       /\ erased' = (erased \/ to = AnyType)
  /\ NothingReceived
  /\ UNCHANGED <<carrier, child, awaited, contents, previous>>

\* A task ends.  If it is the one start() waits for and nobody has called
\* started(), start() raises.
Exit(t) ==
  /\ awaited[t] = Unset
  /\ view' = [view EXCEPT ![t] = [c \in Classes |-> Unset]]
  /\ awaited' = IF t = child /\ contents = <<>> THEN [u \in Tasks |-> Unset] ELSE awaited
  /\ NothingReceived
  /\ UNCHANGED <<carrier, child, contents, previous, erased>>

-----------------------------------------------------------------------------
(* How values are put in and taken out. *)

\* Mutant: started() has one signature, in which the value has a default.
StartedUnconstrained(t) ==
  /\ Holds(t, "TaskStatus")
  /\ contents = <<>>
  /\ contents' = <<NoneValue>>
  /\ NothingReceived
  /\ UNCHANGED <<carrier, child, view, awaited, previous, erased>>

\* started() without a value, whose self is to be a TaskStatus[None].  The
\* second call of started() raises, whichever it is.
StartedWithoutValue(t) ==
  /\ Holds(t, "TaskStatus")
  /\ IsAssignable("TaskStatus", view[t]["TaskStatus"], NoneType)
  /\ contents = <<>>
  /\ contents' = <<NoneValue>>
  /\ NothingReceived
  /\ UNCHANGED <<carrier, child, view, awaited, previous, erased>>

Started(t) ==
  /\ Holds(t, "TaskStatus")
  /\ contents = <<>>
  /\ \E v \in ValuesOf(view[t]["TaskStatus"]) : contents' = <<v>>
  /\ NothingReceived
  /\ UNCHANGED <<carrier, child, view, awaited, previous, erased>>

StartReturns(t) ==
  /\ awaited[t] # Unset
  /\ contents # <<>>
  /\ ReceiveAs(awaited[t], {Head(contents)}, "start")
  /\ awaited' = [awaited EXCEPT ![t] = Unset]
  /\ UNCHANGED <<carrier, child, view, contents, previous, erased>>

\* send(), send_nowait(), put_nowait().
Put(t, class) ==
  /\ Holds(t, class)
  /\ Len(contents) < Capacity
  /\ \E v \in ValuesOf(view[t][class]) : contents' = Append(contents, v)
  /\ NothingReceived
  /\ UNCHANGED <<carrier, child, view, awaited, previous, erased>>

Send(t) == Put(t, "MemorySendChannel")
PutNowait(t) == Put(t, "UnboundedQueue")

\* receive(), receive_nowait() and iteration.
Receive(t) ==
  /\ Holds(t, "MemoryReceiveChannel")
  /\ contents # <<>>
  /\ ReceiveAs(view[t]["MemoryReceiveChannel"], {Head(contents)}, "channel")
  /\ contents' = Tail(contents)
  /\ UNCHANGED <<carrier, child, view, awaited, previous, erased>>

\* get_batch(), get_batch_nowait() and iteration.
GetBatch(t) ==
  /\ Holds(t, "UnboundedQueue")
  /\ contents # <<>>
  /\ ReceiveAs(view[t]["UnboundedQueue"], {contents[i] : i \in DOMAIN contents}, "queue")
  /\ contents' = <<>>
  /\ UNCHANGED <<carrier, child, view, awaited, previous, erased>>

\* get(), with or without a default of its own; without any it raises.
RunVarGet(t) ==
  /\ Holds(t, "RunVar")
  /\ \E argument \in Optional(ValuesOf(view[t]["RunVar"])) :
       LET found == contents \o argument \o carrier.default
       IN  /\ found # <<>>
           /\ ReceiveAs(view[t]["RunVar"], {Head(found)}, "runvar")
  /\ UNCHANGED <<carrier, child, view, awaited, contents, previous, erased>>

\* set() returns a token; only the last one is kept.
RunVarSet(t) ==
  /\ Holds(t, "RunVar")
  /\ \E v \in ValuesOf(view[t]["RunVar"]) : contents' = <<v>>
  /\ previous' = contents
  /\ view' = [view EXCEPT ![t]["RunVarToken"] = view[t]["RunVar"]]
  /\ NothingReceived
  /\ UNCHANGED <<carrier, child, awaited, erased>>

\* Mutant: a token may be redeemed more than once.
RunVarResetTwice(t) ==
  /\ Holds(t, "RunVar") /\ Holds(t, "RunVarToken")
  /\ IsAssignable("RunVarToken", view[t]["RunVarToken"], view[t]["RunVar"])
  /\ contents' = previous
  /\ previous' = Unset
  /\ NothingReceived
  /\ UNCHANGED <<carrier, child, view, awaited, erased>>

\* reset() puts back what the token has kept, if it is not yet redeemed.
RunVarReset(t) ==
  /\ Holds(t, "RunVar") /\ Holds(t, "RunVarToken")
  /\ IsAssignable("RunVarToken", view[t]["RunVarToken"], view[t]["RunVar"])
  /\ previous # Unset
  /\ contents' = previous
  /\ previous' = Unset
  /\ NothingReceived
  /\ UNCHANGED <<carrier, child, view, awaited, erased>>

\* token.previous_value, when it is not the class _NoValue.
PreviousValue(t) ==
  /\ Holds(t, "RunVarToken")
  /\ previous \notin {Unset, <<>>}
  /\ ReceiveAs(view[t]["RunVarToken"], {Head(previous)}, "token")
  /\ UNCHANGED <<carrier, child, view, awaited, contents, previous, erased>>

\* unwrap() of a Value; that of an Error raises.
Unwrap(t) ==
  /\ Holds(t, "Value")
  /\ contents # <<>>
  /\ ReceiveAs(view[t]["Value"], {Head(contents)}, "outcome")
  /\ UNCHANGED <<carrier, child, view, awaited, contents, previous, erased>>

\* send() and asend() give the value to a generator that is sent an S.
OutcomeSend(t) ==
  /\ Holds(t, "Value")
  /\ contents # <<>>
  /\ \E S \in Declared :
       /\ IsSubtype(view[t]["Value"], S)
       /\ ReceiveAs(S, {Head(contents)}, "generator")
  /\ UNCHANGED <<carrier, child, view, awaited, contents, previous, erased>>

-----------------------------------------------------------------------------
Init ==
  /\ carrier = NoCarrier
  /\ child = Unset
  /\ view = [t \in Tasks |-> [c \in Classes |-> Unset]]
  /\ awaited = [t \in Tasks |-> Unset]
  /\ contents = <<>>
  /\ previous = Unset
  /\ erased = FALSE
  /\ event = Nothing

Next ==
  \E t \in Tasks :
    \/ OpenMemoryChannel(t) \/ NewUnboundedQueue(t) \/ NewRunVar(t) \/ Capture(t)
    \/ \E u \in Tasks : Start(t, u) \/ \E class \in Classes : HandOver(t, u, class)
    \/ Exit(t)
    \/ StartedWithoutValue(t) \/ Started(t) \/ StartReturns(t)
    \/ Send(t) \/ PutNowait(t) \/ Receive(t) \/ GetBatch(t)
    \/ RunVarGet(t) \/ RunVarSet(t) \/ RunVarReset(t) \/ PreviousValue(t)
    \/ Unwrap(t) \/ OutcomeSend(t)

Spec == Init /\ [][Next]_vars

-----------------------------------------------------------------------------
(***************************************************************************)
(* Properties.                                                             *)
(***************************************************************************)

\* References exist only to a carrier, under the classes of its kind, and a
\* start() is awaited only while the carrier is its status.
ClassesOf ==
  [none |-> {}, status |-> {"TaskStatus"},
   channel |-> {"MemorySendChannel", "MemoryReceiveChannel"},
   queue |-> {"UnboundedQueue"}, runvar |-> {"RunVar", "RunVarToken"},
   outcome |-> {"Value"}]

TypeOK ==
  /\ carrier \in {NoCarrier} \cup Carriers
  /\ child \in Tasks \cup {Unset}
  /\ view \in [Tasks -> [Classes -> Types \cup {Unset}]]
  /\ \A t \in Tasks, c \in Classes : view[t][c] # Unset => c \in ClassesOf[carrier.kind]
  /\ awaited \in [Tasks -> Types \cup {Unset}]
  /\ \A t \in Tasks : awaited[t] # Unset => carrier.kind = "status"
  /\ contents \in Seq(Values)
  /\ previous \in Seq(Values) \cup {Unset}
  /\ erased \in BOOLEAN
  /\ event \in {Nothing} \cup [what : {"start", "channel", "queue", "runvar", "token",
                                       "outcome", "generator"},
                               type : Types, values : SUBSET Values]

Received(whats) ==
  (event.what \in whats /\ ~ erased) => \A v \in event.values : Admits(event.type, v)

\* What "await nursery.start(f)" returns is of the type mypy gave it, whichever
\* task calls started(), with or without a value, and through however many
\* functions the task_status went (README.rst lines 99-103), unless one of
\* them declared it a TaskStatus[Any].
StartResultSound == Received({"start"})

\* What a task takes out of a channel, a queue, a RunVar, its token or an
\* outcome is of the type argument of its own reference, although the value was
\* put in through another, made from the carrier by other hands.
ReceivedSound == Received({"channel", "queue", "runvar", "token", "outcome", "generator"})

=============================================================================
