---------------------------- MODULE VariadicStubs ----------------------------
(***************************************************************************)
(* The functions of the trio stubs that are decorated with                 *)
(* @takes_callable_and_args, as the signatures the plugin gets for them.   *)
(* Keyword-only parameters are told apart by their names alone, and the    *)
(* first parameter of a method is left in.                                 *)
(***************************************************************************)
EXTENDS Signatures

Pos(type) == Formal("pos", type)
Required(name) == Formal("named", Inst({name}))
Optional(name) == Formal("named_opt", Inst({name}))
StarAny == Formal("star", Any)

\* Callable[[before, VarArg(), after], ...]
Splatted(before, after) == CallableType(before \o <<StarAny>> \o after)

\* Callable[[Any, ..., Any, after], ...] with n times Any.
TakingAny(n, after) == CallableType([i \in 1..n |-> Pos(Any)] \o after)

Self == Pos(Inst({"self"}))
Options(names) == [i \in DOMAIN names |-> Optional(names[i])]

\* The union most stubs take, which any callable matches without the plugin.
AnyCallableOr(splatted) == Pos(Union(<<EllipsisCallable, splatted>>))
AnyCallable == AnyCallableOr(Splatted(<<>>, <<>>))

\* Mutant: as the other stubs have it.
AnyCallableInstead(after) == AnyCallableOr(Splatted(<<>>, after))

\* Mutant: the unions stop at three parameters.
UpToThree(after) ==
  Pos(Union([n \in 1..4 |-> TakingAny(n - 1, after)] \o <<Splatted(<<>>, after)>>))

\* The unions of start_soon() and start() spell out up to four parameters.
UpToFour(after) ==
  Pos(Union([n \in 1..5 |-> TakingAny(n - 1, after)] \o <<Splatted(<<>>, after)>>))

\* _T, when the function binds it.
OwnT == <<-1>>

start_soon ==
  Signature(<<Self, UpToFour(<<>>), StarAny, Optional("name")>>, <<>>, 0)

start ==
  Signature(<<Self, UpToFour(<<Required("task_status")>>), StarAny, Optional("name")>>, OwnT, 0)

run ==
  Signature(<<AnyCallable, StarAny>> \o
              Options(<<"clock", "instruments", "restrict_keyboard_interrupt_to_checkpoints",
                        "strict_exception_groups">>), OwnT, 0)

serve ==
  Signature(<<Self, Pos(Any), AnyCallableOr(Splatted(<<Pos(Inst({"DTLSChannel"}))>>, <<>>)),
              StarAny, Optional("task_status")>>, <<>>, 0)

from_thread_run ==
  Signature(<<AnyCallable, StarAny, Optional("trio_token")>>, OwnT, 0)

from_thread_run_sync ==
  Signature(<<AnyCallable, StarAny, Optional("trio_token")>>, OwnT, 0)

to_thread_run_sync ==
  Signature(<<AnyCallable, StarAny, Optional("abandon_on_cancel"), Optional("limiter")>>,
            OwnT, 0)

run_sync_soon ==
  Signature(<<Self, AnyCallable, StarAny, Optional("idempotent")>>, <<>>, 0)

spawn_system_task ==
  Signature(<<AnyCallable, StarAny, Optional("name")>>, <<>>, 0)

start_guest_run ==
  Signature(<<AnyCallable, StarAny, Required("run_sync_soon_threadsafe"),
              Required("done_callback")>> \o
              Options(<<"run_sync_soon_not_threadsafe", "host_uses_signal_set_wakeup_fd",
                        "clock", "instruments", "restrict_keyboard_interrupt_to_checkpoints",
                        "strict_exception_groups">>), OwnT, 0)

TrioFunctions ==
  {start_soon, start, run, serve, from_thread_run, from_thread_run_sync, to_thread_run_sync,
   run_sync_soon, spawn_system_task, start_guest_run}

=============================================================================
