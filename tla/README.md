# TLA+ models of trio-typing

trio-typing ships three things: a mypy plugin (`trio_typing/plugin.py`), type
stubs for `trio`, `outcome` and `async_generator`, and a small runtime package
(`trio_typing/__init__.py`). Nothing in it runs concurrently by itself. What is
hard about it lies elsewhere: hooks that mypy calls piecemeal and that must
agree with one another, loops with early exits over the parts of a type, a list
that is shared between iterations, overloads whose order decides, and above all
the promise of a type checker: that whatever a program it accepted does, over
many steps and between several generators or tasks, each value is of the type
that was declared for it. These modules state that promise for the parts where
the code computes it, check it with TLC on small instances, and prove the core
of it with TLAPS.

## The system

| Part | State it keeps | Operations | Interaction |
|---|---|---|---|
| Decoding of return types, `decode_agen_types_from_return_type` | the locals of one call: arms, `yield_type`, `send_type`, `other_arms` | the loop over the arms, three ways to return | called by the decorator's hook with mypy's solution of `_T`, and by every `yield_()` hook with the declaration as written |
| `async_generator` hooks | none; they read mypy's scope stack | `async_generator_callback`, `decode_enclosing_agen_types`, `yield_callback`, `yield_from_callback` | mypy calls them per call expression; the results type the program that then runs on the `async_generator` library |
| `@takes_callable_and_args`, `takes_callable_and_args_callback` | the locals of one call: indices, the callable, the overloads and type variables so far | usage check, scan, errors, expansion | its result is what later calls of the decorated function are matched with |
| Plugin entry points, `plugin(version)` and `get_function_hook` | the plugin class, hence `has_type_var_default` | choose by version; dispatch by full name, which the class for old versions overrides | fixed at load time, used at each decorated function and each call |
| The check of a module (mypy, external) | scope stack, pass, deferred functions, what each name is known as | walk, call a hook at each call and decorator, check a function again | the hooks read the stack and the types as they are when they are called |
| Stubs of variadic functions | – | ten decorated signatures in four files | with the plugin, replaced by overloads; without it, matched as they are |
| Stubs of files | – | overloads of `open_file`, `Path.open`, `wrap_file`; the async I/O classes | what mypy infers is used on the object that `io.open` makes |
| Stubs of task communication | – | `nursery.start()` and `TaskStatus`, memory channels, `UnboundedQueue`, `RunVar`, `outcome` | the variance of each generic class decides which references mypy lets tasks hand to one another |
| Subprocess stubs | – | one signature per platform | not modelled, see below |
| Remaining stubs, tests, packaging | – | – | single declarations without behaviour; not modelled |

## Modules

| Module | Models | Depends on |
|---|---|---|
| `AgenTypes` | types, arms of a declaration, what the decoding returns for them in one step | – |
| `DecodeContract` | the decoding as one step: the abstract specification | `AgenTypes` |
| `DecodeAgen` | the decoding as the code has it; implements `DecodeContract` | `AgenTypes`, `DecodeContract` |
| `AgenCallbacks` | the four hooks, as operators: they keep no state | `AgenTypes` |
| `AgenRuntime` | a program that the hooks accepted, running: a consumer, a chain of delegating generators, helper coroutines | `AgenCallbacks` |
| `CheckContract` | what is reported in a module, without passes or scopes: the abstract specification | – |
| `CheckSession` | mypy checking a module with the plugin: dispatch, scope stack, passes; implements `CheckContract` | `AgenCallbacks`, `CheckContract` |
| `Signatures` | function signatures, their parts, the overloads a signature stands for | – |
| `TakesCallable` | loading the plugin, then the callback of `@takes_callable_and_args` | `Signatures` |
| `VariadicStubs` | the ten decorated signatures of the stubs | `Signatures` |
| `StartCalls` | a call of a decorated function: mypy's check, then Trio's call | `VariadicStubs` |
| `Handoff` | tasks that hand references to a carrier to one another and pass values through it | `AgenTypes` |
| `OpenFile` | overload choice for files, opening, `detach()`, use | – |
| `*_proofs` | theorems about the module they are named after; those of `VariadicStubs` and `Signatures`, in `VariadicStubs_proofs`, serve `TakesCallable_proofs` and `StartCalls_proofs` | that module, `TLAPS` |
| `MC*` | the values of the constants for TLC | that module |

### How they correspond to the code

**Types.** A static type is the set of runtime values it admits, so subtyping is
inclusion and a join is a union; `Any` is apart from these and is compatible
with everything. This keeps exactly what `check_subtype` is asked. Lines,
columns, messages and the `TypeOfAny` reasons are left out.

**DecodeAgen.** Its variables are the function's locals and its actions the
branches of the loop body and the ways out. An arm is a `YieldType`, a
`SendType`, a plain type, or an alias for `Union[None, YieldType[X]]`;
`get_proper_type` expands such an alias when it is the whole declaration but not
when it is an item. Wrong numbers of arguments are modelled although mypy's
semantic analysis fills them in before the plugin runs, since the code handles
them. The empty set of return members stands for `NoReturn`.

**AgenCallbacks.** The two callers of the decoding pass it different types, and
the model keeps them apart. `EnclosingTypes`, for calls in the body, decodes the
declaration as it is written (`DecodedFor`). `DecoratedTypes`, for consumers,
decodes what mypy solved `_T` of the stub `async_generator(Callable[_P,
Awaitable[_T]])` to (`Inferred`): inference simplifies the union, so that the
items of a nested alias stand by themselves, and an item beneath another one (a
narrower `YieldType`, anything beneath `object`) is gone. The type of all values
is `object`. With `Alias = Union[None, YieldType[X]]`, consumers of a generator
declared `Union[Alias, SendType[Y]]` see the yield type `X`, while its body may
yield `None` only; for `Union[Z, Alias]` the body is not checked at all.

**AgenRuntime.** `stack` is the generator the consumer drives, then what each
delegates to with `yield_from_()` or awaits as a helper coroutine. Bodies
yield, delegate, return, raise and catch in any order; the consumer calls
`asend`, `__anext__` and `athrow` in any order. `Yield` and `YieldFrom` are
guarded by what `AgenCallbacks` accepts, with static types taken exactly as
strong as mypy may have them: the least type of the value, or `Any`. That
the library passes sends and throws down a delegation and yields and returns up,
and that a plain iterable has no `asend`, is external: it is the behaviour the
stubs and the plugin's checks describe.

**CheckSession.** A program is a tree of scopes (the module, classes, functions,
lambdas) and what each body consists of: definitions, `yield_()` with an argument
type, `yield_from_()` of a generator of the program. The walk is mypy's and
external; what it is checked for is what the hooks make of its state.
`TopFunction` is `scope.top_function()`. `signature` is what visiting a definition
gave its name: the hook's answer where `get_function_hook` finds one, the stub's
`CompatAsyncGenerator[Any, Any, ...]` where it does not. Until then it is
`Unknown`: mypy gives a call of that generator the type `Any`, and defers a
function around the call (which of them is left open) or, in the last pass,
reports that it cannot determine the type. A deferred function is checked again
from its start, with only its module and class below it on the stack
(`StackFor`), so that local functions are seen twice. Errors are kept as a set of
places, since mypy drops repeated messages. Overloads and the signatures that
`@takes_callable_and_args` builds are the subject of `TakesCallable` and opaque
here.

**TakesCallable.** The parallel lists of kinds, types and names are one sequence
of formals. Names are left out, because the callback only pads that list with
`None`. Python's indices are shifted by one, with 0 for the code's -1. The
locals survive in the final state, so that properties can relate the result to
the signature.

**StartCalls.** A signature's overloads are `Overloads` of `Signatures`, read off the
signature alone; that the callback's loop builds exactly these is the property
`ExpandsSignature` of `TakesCallable`, checked and proved. A type variable is solved to the join of the arguments bound to it,
as mypy's messages in the tests show. Return types are not modelled.
Arguments passed as `*sequence` are not modelled.

**Handoff.** A carrier is the object values go through, made with a type
argument; `view[t][c]` is the type argument with which task `t` declares its
reference of class `c` to it. Handing a reference on is checked against the
reference it is made from, by the variance that the stubs' type variables give
its class (`Contravariant`, `Covariant`, `Invariant`). `Start` solves `_T` of
`nursery.start()` from the `TaskStatus[X]` its function takes; the two actions
for `started()` are its two overloads. A captured outcome with no contents is an
`Error`. That a status is set once, that a start() whose task ends without it
raises, and the order of a channel, are Trio's and external. Once a reference
has had the argument `Any` the carrier is `erased` and nothing is claimed of it.

`clone()` of a channel returns the type it is called on, which handing a
reference to oneself covers.

**OpenFile.** Each overload is the set of argument forms it takes. Only the
methods in which io's classes differ are told apart.

## Properties

Every module has one type invariant. The others:

* `ScanInv`, `ImplementsContract` (decode): whatever the order of the arms and
  wherever the error strikes, the result is the documented triple; nothing that
  was decoded before an error escapes.
* `YieldSound`, `SendSound`, `ReturnSound` (runtime): a value that moves through
  a chain of generators is of the type that the decorator gave each of them, and
  a sent one of the type its receiving body awaits, although every
  `yield_from_()` was checked against its neighbour only, and decorator and body
  decode different types. The first two exclude chains with a link that the plugin
  cannot see through (`Any`, a union, for sends a plain `AsyncIterable`, a helper
  coroutine), declarations with a nested alias, on which the two decodings
  disagree, and a `None` that `__anext__` sends to a generator that does not take
  one; the violation runs show what happens there. `ReturnSound` holds for nested
  aliases too.
* `EnclosingFound` (check_session): however scopes are nested, the function a hook
  finds on the stack is the one the call is written in, also when a function is
  checked again alone.
* `NoSpuriousErrors`, `ImplementsContract` (check_session): what is reported is
  what is wrong by the hooks' rules with every type known, no more at any time and
  no less at the end, although a call may be looked at before the generator it
  names is decorated, or twice, and on either plugin class; and the end comes.
* `OverloadsComplete`, `ExpandsSignature`, `NoCapture`, `NoCrash`, `FailsIffInvalid`
  (takes_callable): one overload for each arity with its own type variables
  although all come from one growing list; the overloads that the signature alone
  determines, whatever indices the scan went through; ids that collide with no other; a
  constructor call that suits the version of mypy; errors exactly for what is
  not a valid use.
* `AcceptedCallsRun`, `RejectedCallsFail`, `WeakerWithoutPlugin`,
  `KeywordsChecked` (start_calls): an accepted call runs, a rejected one could
  fail, dropping the plugin only accepts more, and keyword-only parameters are
  caught even then.
* `StartResultSound`, `ReceivedSound` (handoff): what `await nursery.start()`
  returns, and what is taken out of a channel, a queue, a `RunVar`, its token or
  an outcome, is of the type its receiver declares, whichever task put it in and
  through however many differently declared references.
* `ClassSound`, `ConstantsInferred` (open_file): the inferred class is one the
  file belongs to, whatever the arguments turn out to be, and the best one for
  constants.

`NoCapture` is stated for at most one type variable of an enclosing function.
With two or more, the ids computed in lines 467 and 480 of `plugin.py` do collide
with the function's own or the enclosing functions'.

## Runs

| Run | Bounds | Why they are enough |
|---|---|---|
| `decode` | every sequence of one to four arms out of nine, two values | an error needs two arms, a stored one before it three; a fourth allows one between; two nested plain types exercise the simplification |
| `check_session` | nine scopes: two generators, one of them with a lambda, a local class, a nested generator with a helper in it, and a class with a generator method; 216 combinations of bodies, both plugin classes, `LastPass` 1 as in mypy | lambda, class and function occur inside one another; generators delegate to themselves, to earlier and later ones, from a lambda and from a nested function; one declaration is invalid. Every definition is visited in the first pass, so a further pass would find nothing more unknown (`FirstPass` and `DeferredInTime` in the proof) |
| `runtime` | fifteen functions, three values, chains of three | three generators have a middle one, which is both ends of a check; the functions agree and disagree in yield, send and return types, leave each of them out, and are declared with an alias, alone and nested, and with items that simplification removes |
| `takes_callable` | three versions, the stubs and all heads, seconds and tails in `MCTakesCallable`, four nestings of generics; `MaxArgs` is the source's 5 | both orders of `*args` and callable, none, one and two of each, every kind of union in the stubs |
| `start_calls` | nine distinct stubs, 21 functions, all calls of up to three arguments of three types and some of four to six | one argument past the limit of five; three types suffice for a type variable that is too narrow, too wide or `Any` |
| `handoff` | three tasks, five type arguments over three values, two values in a buffer | three tasks let a status reach a task other than the one started, while the first waits; two values tell a batch from a value; a reference may be handed on any number of times, also within a task |
| `open_file` | every combination of forms of mode, buffering and encoding | complete for these forms |
| `runtime_alias`, `runtime_anext`, `runtime_union`, `takes_callable_ellipsis`, `open_file_methods` | as above | each shows one thing that a comment or the README says and the code does not do |

`CHECK_DEADLOCK FALSE` stands where a behaviour ends: a call that returned, a
generator that is exhausted, a file that could not be opened. `handoff` has a
constraint: nothing follows a state in which the carrier is erased, because its
properties hold trivially from then on, and a symmetry of the tasks, which no
definition tells apart.

**Fairness.** `DecodeAgen` has weak fairness of `Next`: it is one Python function,
whose next step is always enabled until it returns and which nothing else can stop;
its contract asks that it returns. So has `CheckSession`: mypy checks a module in one
thread, from the first statement to the end. `TakesCallable` has none, as nothing
is claimed of it that needs it. `AgenRuntime`, `StartCalls`, `Handoff` and `OpenFile`
have none, because programs need not take another step.

### What the violation runs show

* `runtime_alias`: a `YieldType` in an alias nested in the declared union is decoded
  by the decorator, and not in the body. The generator's consumer is promised
  values of its type, while the body's calls of `yield_()` are checked against
  `None` or `Any`.
* `runtime_anext`: `await yield_(x)` in a generator of send type `int` is `None`
  if the consumer iterates.
* `runtime_union`: `yield_from_()` of a union of generators is unchecked.
* `takes_callable_ellipsis`: `Callable[..., T]` beside a `VarArg()` callable is
  reported as a second `VarArg()`.
* `open_file_methods`: `AsyncBufferedFileIO` offers `readall()`, and `peek()` on
  a writer, which the wrapped object does not have.

## Proofs

All theorems hold for every value of the constants that satisfies the named
`ASSUME`s of the modules: `TypesAssumption` (the markers `Any` and `Unset` are
not sets of values), `DecodeAssumption` (a declaration has an arm),
`RuntimeAssumption` (a generator is decorated and a coroutine, the
others are annotated), `TakesCallableAssumption` (own type variables are
numbered on from the enclosing functions', as mypy numbers them, and a function or
a callable has one `*args` at most, which is Python's syntax),
`StartCallsAssumption` (the functions called are among Trio's ten, and the type of
an argument is `Any` or a type that some value has),
`OpenFileAssumption` (the buffer sizes the stubs name are among those possible)
and, for `CheckSession`, `ScopesAssumption`, `TreeAssumption` (scopes are a tree
with the module as its root, stated as the induction principle for it),
`BodiesAssumption` (a scope is defined once, in the scope around it),
`PassesAssumption` (there is a second pass) and `UnknownAssumption` (no type is the
marker for an unknown one).

* `DecodeAgen_proofs`: `DecodeTypeOK`, `DecodeScan` and
  `DecodeImplementsContract`. The invariant `IInv` adds to `ScanInv` that a
  result, once there, is the contract's. The heart is that `ScanInv` at the end
  of the arms says the declaration is well formed and the locals are its
  arguments, and at an invalid arm that it is not well formed, however the loop
  came there. Every step is a contract step or a stutter; that the contract's
  own fairness is met is left to TLC.
* `AgenRuntime_proofs`: `RuntimeTypeOK`, `YieldsAreSound`, `SendsAreSound`.
  They start from `DecodingsAgree`: without a nested alias, decorator and body
  decode the same yield and send types, or the decorator gives `Any`. The items of
  the two unions are the same before simplification (`FlattenedIsResolved`), and
  that takes a `YieldType` or `SendType` out of a well-formed declaration only
  beneath `object`, which takes all of them out (`SimplifiedKeepsKinds`).
  `YieldSound` is not inductive, as it speaks of the moment of a yield only. `IInv`
  adds `YieldChain` and `SendChain`: between any two generators of the chain
  with only checked links between them, yield types include one another upwards and
  send types downwards. They hold for neighbours by the hook's check, for
  others by the composition of inclusions, and survive because the stack
  only changes at its end.
  `ReturnsAreSound` has an invariant of its own, that each generator was passed
  under a type it has; the work is in the operators. A union has finitely many
  members, in a finite set every member is below a maximal one (`MaximalAbove`,
  from the well-foundedness of strict inclusion), and maximal members are the ones
  that `make_simplified_union` keeps (`PlainKept`), so it loses no value, neither in
  inferring `_T` nor in the hook; nor does leaving out the `YieldType` and the
  `SendType`. This needs no condition on aliases.
* `CheckSession_proofs`: `SessionTypeOK`, `EnclosingIsFound`, `NoErrorIsSpurious`,
  `SessionImplementsContract`, for every tree of scopes, every program and every
  number of passes. `EnclosingFound` follows from `Nested`, each scope on the stack
  is defined in the one beneath it but for the two at the bottom in a later pass,
  and `Found`, the innermost function up to a live scope is the one around it.
  That nothing bad is missed at the end needs to know where every call is: `Around`
  and `CallsCovered` say that a bad call that is not reported is still ahead, in
  the scopes on the stack, in ones not entered yet or in a function that was
  deferred, and `FirstPass`, `DeferredInTime` that once the module was walked every
  generator is known and nothing is deferred any more.
* `OpenFile_proofs`: `OpenFileTypeOK`, `ClassesAreSound`, `ConstantsAreInferred`.
  `OpenClassChosen` and `WrapClassChosen` say what the first fitting overload is,
  read off the arguments alone; `OpenedRepresented` compares that with what is
  opened.
* `TakesCallable_proofs`: `CallbackTypeOK`, `OverloadsAreComplete`,
  `TypeVarsAreFresh`, `ConstructorMatchesVersion`, `CallbackFailsIffInvalid`,
  `CallbackExpandsSignature`, `StubsAreNotRefused`, for
  every limit of arguments and every signature. `IInv` adds `Building`: after n iterations the
  list of type variables is that of arity n, so the next overload, spliced before
  the append, is the one for n arguments. Freshness follows from the lemma
  `BoundIds`, which computes the ids an overload binds. The last three rest on
  a second invariant, `ScanInv`: the indices say of all formals passed so far
  whether one is `*args: Any` and which one is the callable, so that at the end they
  are the only indices there can be (`ScannedParts`).
* `VariadicStubs_proofs`: `StubsAreValid`, each of the ten decorated functions is a
  valid use, whatever it takes in its other positions. Selecting the formals of
  some kinds is a recursive function; its lemmas (`OfKinds...`: of a concatenation,
  of formals of one kind, that nothing is selected where there is nothing to
  select) need induction, for which `SetInduction` is proved from the
  well-foundedness of the naturals, with a set of numbers in the place of a
  predicate. `SpelledOut` says what the arms of the unions of `start_soon()` and
  `start()` are.
* `StartCalls_proofs`: `StartCallsTypeOK`, `AcceptedCallsAreRun`,
  `RejectedCallsCanFail`, `PluginOnlyRejectsMore`, `KeywordsAreChecked`, for every
  set of functions passed, every number of arguments and every limit. By
  `FitsOverload`, a call matches the overload for n type variables exactly if it
  passes n arguments and the target takes what Trio passes followed by them
  (`Accepts`): each type variable is solved to its own argument. So the plugin
  accepts a call exactly if it is within the limit and the target accepts it
  (`AcceptedWithPlugin`), and the target's arity and types decide both ways whether
  the call fails. The invariant `Outcomes` ties what happened to that.
* `Handoff_proofs`: `HandoffTypeOK`, `StartResultsAreSound`, `ReceiptsAreSound`
  (with `HandoffAssumption`: type arguments are types, a buffer has room).
  The two properties speak of the moment of a receipt. `IInv` adds what makes
  them true: every reference that values are put in through is declared with a
  subtype of the carrier's own argument (`Between`), every one that they are taken
  out through with a supertype, and the carrier holds only values of its
  argument. Variance is used once, in `AssignableStaysBetween`.

Checked by TLC only: the fairness of the two contracts, that a decoding returns and
that a check ends, since liveness is out of the prover's reach.

## Not modelled

* mypy: its options (`--no-warn-no-return` among them), joins of the return types of
  a union of generators (taken to be `object`), `*sequence` and `**mapping`
  arguments, return types of spliced callables, instances of `YieldType` as returned
  values.
* `run_process` and `open_process`: for each platform one plain signature with
  keyword arguments, chosen by `sys.platform` when the stub is read. Nothing is
  computed from anything else and no two of them can disagree at run time.
* The runtime package beyond the methods of `CompatAsyncGenerator`: it declares empty
  generic classes, registers Trio's and async_generator's classes with them and
  assigns names, once, at import.
* Closing channels, statistics, the untyped traps of `trio.lowlevel`, and plain
  declarations of the stubs, each a single signature.
* The test harness, which runs mypy on files, and packaging.

## Plan

1. Done: decoding and its contract; the hooks and programs under them; the check
   of a module with its scopes and passes, and its contract; the decorator's
   callback; calls of decorated functions; values handed from task to task; files.
2. Done: theorems for every module with state, among them every invariant that a
   passing run checks and both refinements.
3. Left: the lemmas of `VariadicStubs_proofs` stated for any decorated signature
   rather than Trio's, so that `AcceptedCallsAreRun` covers functions users decorate.
