# Verification of the ohos-rs runtime

ohos-rs binds Rust to JavaScript (ArkTS) through N-API. This project models the
parts of it where things can go wrong that a unit test would hardly reach: native
threads, a thread pool, the tokio runtime and several JavaScript environments that
meet on the event loop; memory that Rust and the garbage collector own together;
calls, exceptions and conversions that cross between two languages; and the build
tool, whose steps can be stopped anywhere.

Line numbers refer to `src/crates/napi/src/` unless a path says otherwise.

## 1. The system

### Components

**Thread-safe functions** (`threadsafe_function.rs`). A `ThreadsafeFunction` owns
a handle with the raw N-API function and `aborted: RwLock<bool>`. It has no `Clone`:
threads share it in an `Arc`, and any of them calls it by reference (`call`,
`call_with_return_value`, `call_async`, `call_with_priority`); `call_js_cb` runs on the JS
thread for each payload; `abort`, which takes the function by value, the drop by its last
owner and `thread_finalize_cb` end it. Hard: the raw pointer is
valid only as long as the protocol of lock, flag and reference count says so, a
refused call changes a counter in N-API, and the end of the environment comes
uninvited. Correct when no call touches a deleted function, the release in the
destructor succeeds, the status returned is the truth about the payload,
`call_async` is answered, and every dropped function is freed.

**Async work and abort signals** (`async_work.rs`,
`bindgen_runtime/js_values/task.rs`). An `AsyncWork` box holds the task, the
deferred, an uninitialised value and a status cell (0, 1 completed, 2 canceled)
which it shares with the `AbortSignal`s it was given. `execute` runs on the pool,
`complete_impl` on the JS thread. Hard: cancelling races with the pool, user code
in `resolve` can run JavaScript that fires the very signal, and the box is freed
while signals still hold a pointer to its work. Correct when the value is read
only after it was written, the promise is settled once, `finally` runs once, no
signal cancels deleted work, and an aborted task does not produce a value.

**Tokio futures and deferreds** (`tokio_runtime.rs`, `js_values/deferred.rs`,
`sendable_resolver.rs`). `execute_tokio_future` makes a `JsDeferred` (a thread-safe
function of its own with a finalize callback in a cell) and spawns two tasks: one
drives the future and answers, the other awaits the first and rejects if it
panicked. Hard: two holders of one deferred; a runtime that can be shut down
between any two steps; answers after the end of the environment. Correct when
one answer is given, the promise is settled once, the finalize callback runs with
the settlement, and every future that ends or panics is reported.

**Promises in Rust** (`js_values/promise.rs`, `promise_raw.rs`). A future can await a
JavaScript promise through a `then` and a `catch` callback that share the sender of a
channel; each callback is a box that it takes itself or that a finalizer frees. Correct
when the future is told of every settlement and each box is dropped once.

**Module registration and the runtime** (`bindgen_runtime/module_register.rs`,
`tokio_runtime.rs`). Process-wide statics: `MODULE_COUNT`,
`FIRST_MODULE_REGISTERED`, `ENV_CLEANUP_HOOK_ADDED`, `CUSTOM_GC_TSFN` and its
destroyed flag, the thread-local `THREADS_CAN_ACCESS_ENV`, `RT`, and the tables of
classes and exports. Every environment runs `napi_register_module_v1` on its own
thread. Hard: simultaneous registration, registration during an exit, `block_on`
holding the lock of `RT`. Correct when there is one CustomGC function, each
registered environment has a runtime, and registration comes to an end.

**Buffers and typed arrays** (`js_values/buffer.rs`, `arraybuffer.rs`). A value taken
from JavaScript holds an N-API reference and may be dropped on any thread: off the JS
threads the reference is sent to the CustomGC function. A value made in Rust owns its
data until it is converted, and then shares it with an ArrayBuffer whose finalizer
frees it. Correct when each reference is deleted once, in its own environment, the
data is freed once and not in use, and a view lies within its buffer.

**Streams** (`js_values/stream/`). `ReadableStream::new` wraps a Rust stream behind a
pull source whose futures race with `cancel`; `Reader` polls a ReadableStream from any
thread through a thread-safe function, with one slot for a result. Correct when chunks
keep their order, the end means that all came, and a consumer that reads on comes to
the end.

**References and externals** (`js_values/value_ref.rs`, `external.rs`, `object.rs`).
`Reference`, `WeakReference` and `SharedReference` count in Rust and in N-API at once and
find the wrap of a class through `REFERENCE_MAP`; wrapped values, externals, finalizers,
closures and strong references tie native data to objects by untyped pointers with a
type tag. Correct when data is alive while it can be reached, read as what it is, and
freed once by its carrier.

**Env and its cleanup hooks** (`env.rs`, `async_cleanup_hook.rs`): instance data and
hooks that live as long as the environment. **Iterators** (`iterator.rs`,
`async_iterator.rs`): next, return and throw of a generator object whose state is a
property. **Classes, functions and callbacks** (`callback_info.rs`, `class.rs`,
`function.rs`): constructors, factories with a flag that is raised around JavaScript,
and calls in both directions.

**Errors** (`error.rs`): an `Error` that came from JavaScript keeps the thrown value by
reference, shared by its clones; an exception pends, is cleared, or is thrown again.
**Value conversions** (`bindgen_runtime/js_values/`, `js_values/ser.rs`, `de.rs`):
stateless, but every type composes with every other one.

**Macros and code generation** (`src/crates/macro`, `backend`, `build`): the glue around
functions and structs, the TypeScript types it declares for them in a file, and tables
of names filled in whatever order items are expanded. **cargo-ohrs** (`src/cli`): builds
packages for several architectures, turns the files of types into `index.d.ts`, and
copies the libraries they need. **ArkTS shims** (`src/third_party`): the ReadableStream
behind the streams.

**N-API bindings** (`src/crates/sys`), **OpenHarmony modules** (`ohos/`, one
native call per method), tests, examples and scripts complete the repository.

### How they interact

- A call travels: native thread, read lock, N-API queue, `call_js_cb` on the JS
  thread, and for `call_async` back through a oneshot channel.
- A deferred is a thread-safe function with a single payload. `JsDeferred` uses
  the raw API, without the handle and its lock.
- Tokio futures need `RT`, which registration starts and thread cleanup shuts
  down; `block_on` and `spawn` read it, start and shutdown write it. A future that
  awaits a promise depends on callbacks of the JS thread.
- Buffers dropped elsewhere use the CustomGC function that registration made.
- An async method of a class holds references to its `this` and arguments until its
  future has settled; an async generator object holds one to its instance.
- A stream that Rust reads may be one that Rust produces: pull source, polyfill, pipe
  and reader then run on three threads.
- The macro leaves lines of types while cargo compiles; ohrs reads them afterwards.
- The end of an environment runs its cleanup hooks, then closes its thread-safe
  functions: what is queued is handed to the callbacks with a null environment; then
  the finalizers of what JavaScript still holds run.

## 2. Modules

| module | models | composed with |
|---|---|---|
| `ThreadsafeFunction`, `_proof` | the handle, its lock and calls, and the raw function | |
| `Settlement` | abstract: what a promise handed out by Rust promises | |
| `AsyncTask`, `_proof` | async work, completion, abort signals | implements `Settlement` |
| `TokioFuture` | futures, deferreds and their resolvers, shutdown and restart of the runtime | implements `Settlement`; proofs in `PromiseFuture_proof` |
| `PromiseFuture`, `_proof` | a future that awaits a JavaScript promise | extends `TokioFuture` |
| `ModuleRegister` | environments, process-wide statics, the lock of `RT` | proofs in `BufferRefs_proof` |
| `BufferRefs`, `_proof` | references dropped on any thread | extends `ModuleRegister` |
| `WebStreams` | the ReadableStream of the polyfill | |
| `StreamSource` | a Rust stream behind a ReadableStream | extends `WebStreams` |
| `StreamReader` | a ReadableStream read by Rust | extends `WebStreams` |
| `StreamPipe`, `_proof` | both, with a pipe between them and the end of the environment | extends the two |
| `TypedArrays` | who owns the memory of one buffer | proofs in `NativeMemory_proof` |
| `Attachments` | native values tied to objects, functions and environments | proofs in `NativeMemory_proof` |
| `ClassInstances`, `_proof` | T behind an object of a class, and everything that refers to it | |
| `Generators` | next, return and throw of generators | proofs in `ClassInstances_proof` |
| `NativeCall` | calls in both directions, exceptions and Errors | proofs in `ClassInstances_proof` |
| `Numbers` | how integers cross, with the widths as parameters | proofs in `BufferRefs_proof` |
| `JsValues`, `Conversions` | what JavaScript values the other conversions make and take | |
| `SerdeValues` | the same through serde | extends `Conversions` |
| `TypeDefs` | the TypeScript types declared for Rust types | extends `Conversions` |
| `Passing` | values passed in calls | extends the five and `NativeCall` |
| `OhrsBuild`, `_proof` | builds, and the files that outlive them | |
| `RuntimeLibraries` | which shared libraries are copied | proofs in `OhrsBuild_proof` |
| `CrateExports` | what a crate exports and what `index.d.ts` says | proofs in `OhrsBuild_proof` |
| `MC*` | TLC instances, and compositions of modules that share one run | |

What is not in the repository (N-API, the garbage collector, the pool, cargo, the
loader) is modelled from the statuses and callbacks this code handles, and marked
`external` in `PROJECT.json`. Facts used of thread-safe functions: one starts with the
thread count it is given; a call on a closing one is refused and takes a thread off the
count (`invalid_arg` when none is left); an abort-mode release closes at once; the loop
closes an unused function once its queue is empty; a closing function is finalized, what
is left in its queue is handed to the callback with a null environment, and it is deleted.
Facts used of the collector: a strong reference keeps its object, an object that nothing
reaches may be collected at any later moment, and what is left at the end of the
environment is finalized then.

### ThreadsafeFunction

| in the module | in `threadsafe_function.rs` |
|---|---|
| `Create`, `CreateFailed` | `create`, including a failing `unref` of a weak function, which drops the handle |
| `CallBegin`, `CallEnter` | building the payload; `with_read_aborted` and the aborted check |
| `NapiAccept`, `NapiRefuse`, `NapiClosing` | `napi_call_threadsafe_function`, still under the read lock, and what each call variant makes of its status |
| `Clone` | another thread gets a part of the `Arc<ThreadsafeFunction>` |
| `DropFuture` | dropping the future of `call_async` at its await |
| `AbortBegin`, `AbortLocked` | `abort`, which takes `self`, so that nobody shares the function: the write lock, the release |
| `DropClone` | the drop of a part of the `Arc`, or of the function at the end of `abort` |
| `DropHandle` | `Drop` of the handle, with the status its assertion looks at in `dropStatus` |
| `Deliver` | `call_js_cb`: the boxed callback, the JS function, conversion of the result and the payload's callback may each fail |
| `FinalizeBegin`, `FinalizeLocked`, `EmptyQueueAndDelete` | `thread_finalize_cb`: upgrade of the `Weak`, write lock, drop of the callback; then the queue is emptied |

`owners` is who shares the function, `pc` where each process is. `abort` meets neither a
call nor an owner of the same function; it still races with the finalizer and the end of
the environment. The JS thread is a process like the others, and while it is inside an
operation its event loop does not run (`JsIdle`). `WriterPreferring` says whether a
waiting writer keeps new readers out, as the standard lock of the targets does; FALSE
allows every order and so is the stronger setting for safety.

### AsyncTask

`TakeSignal` is `AbortSignal::from_napi_value`, `Run` is `async_work::run`,
`OnAbort` is `on_abort_impl`, `ExecuteBegin`/`ExecuteEnd` are the two ends of `execute`,
and `complete_impl` is split where user code can run JavaScript: `CompleteAborted`,
or `ResolveBegin`, `ResolveEnd`, `ConvertEnd`. While `completing` is a task, other JavaScript
actions may happen but no other completion does. `NapiCancel` may fail for any
queued work, as the comment in `on_abort_impl` allows; the OHOS build, where the call
is compiled out, is the case where it always does. `EnvFails` lets the N-API calls
of `run` and `complete_impl` fail from some moment on, with their early returns.

### TokioFuture and PromiseFuture

`Start` and `StartWatcher` are the two spawns, between which another thread may shut
the runtime down. `FutureEnds`, `FuturePanics`, `FutureDropped` are the ends of the inner
task, `WatcherSees` that of the second. `HandOver` is where the `SendableResolver` goes: to the
JS thread with a value, or down with the task. `Resolve` is `napi_resolve_deferred` with an
environment, where the resolver runs with the `dispose` of an `AsyncBlock` in it, `Finalize`
its run with a null one. A deferred that cannot be made drops future and resolver. Tasks of a runtime that was shut down
are in `doomed`: they may be dropped at an await, or go on for a while.

In `PromiseFuture` a future ends only when the promise it awaits has answered.
`StartAwaiting` is `then` and `catch`, the second on what the first returned;
`ThenReacts` and `CatchReacts` are the reactions, with a value that may not convert;
`Collect` is a promise whose finalizer frees a callback that never ran. `source` is the
promise itself, settled or dropped by JavaScript as it likes (`SourceMoves`).

### ModuleRegister and BufferRefs

`Enter` is the fetch_add, `WaitFirst` the spin, then `CreateCustomGc`, `StartRuntime`,
`AddHook` and `Registered` follow the order of `napi_register_module_v1`. `BlockOn` to
`BlockOnEnds` is one `block_on` whose future may call `spawn`. `Cleanup` (fetch_sub) and
`Shutdown` (the write lock) are the two steps of `thread_cleanup`; `CloseFunctions` is
`custom_gc_finalize`. A thread runs another environment once its first is gone, as
with a window that reloads.

In `BufferRefs`, `Take` is `from_napi_value`, `DropInCall` a drop on a JS thread, in a call
of the value's own environment or of another one. `DropElsewhere` and `CallCustomGc` are
the two steps of a drop on any other thread: the look at `CUSTOM_GC_TSFN_DESTROYED`
and the call. `CustomGc` is the callback, on the thread of the function's environment.

### Streams

`WebStreams` has the ReadableStream as a record and its methods as functions on it
(`Enqueued`, `Closed`, `Errored`, `Cancelled`, `ReadFrom`). In `StreamSource`, `PullLocks` to
`Answer` are the future of a pull, which holds the mutex across its await; `Resolve` is
its resolver on the JS thread, which looks at the cancelled flag again; `CancelSource` is
the cancel callback. In `StreamReader`, `PollBegin` calls `read` through the function and
`PollEnd` looks into the slot; `Store` and `Wake` are the two reactions. `StreamPipe`
puts `pipeTo` between them (`PumpRead`, `PumpWrites`, `PumpEnds`), lets JavaScript cancel
either stream, and lets the environment end. `Places` names the seven places where a chunk
can be, from the consumer back to the pull in flight.

### TypedArrays

`rust`, `raw`, `hasData` are the fields of one value, `box` what its ArrayBuffer's finalizer
was given, `frees` how often the data was freed. `New`, `FromJs` make it; `Return*` convert it
by value: by its reference, by an external ArrayBuffer, by a copy if the runtime allows no
external buffers, or with an error; `Lend*` are the conversion through `&mut`, of which
`LendHalfway` fails after the external ArrayBuffer was made; `Slice*` are slices, which hand
their data over at once (`SliceStray` leaves a stray ArrayBuffer behind); `BorrowSlice` is a
slice read in place, `CopyFrom` the constructor that copies. `Drop`, `Forget`, `Collect` end it.
`ByteLength` is `normalize_typed_array_lengths`.

### Attachments

Each native value has a way it was given to JavaScript (`Wrap`, `NewExternal`,
`CreateExternal`, `AddFinalizer`, `CreateFunctionFromClosure`, `DefineProperties`,
`DefineClass`, `SetInstanceData`, `AddEnvCleanupHook`, `AddAsyncCleanupHook`), the objects
that carry it, and how often it was freed. `Unwrap`, `FromNapiMutRef`, `GetValueExternal`
read it by a type tag; `Trampoline` and `TrampolineAccessor` call it; `TakeRef`, `GetValue`,
`DropRef` are the strong references (`ExternalRef`, `Ref`, `ObjectRef`, `FunctionRef`).
A value that Rust borrowed in a call stays borrowed until `FunctionReturns`.

### ClassInstances and Generators

`Wrap`/`WrapFails` are `_construct`, `FactoryBegins`/`FactoryEnds` the flag around a factory,
during which JavaScript may construct other objects; `NewInstance` is an instance made by
Rust. `AddRef`, `IntoReference`, `FromValue`, `CloneReference`, `Downgrade`, `Upgrade`,
`ShareWith`, `Release`, `ReferenceToJs`, `WeakToJs` are the operations on references,
`MakeGenerator`/`DropGenerator` and `AsyncCall`/`AsyncEnds` those that hold one. `Collect` runs
`Finalize`; an object may be made at the address of one that was freed.

`Generators` has the three functions of an iterator, for a `Generator` (`NextOfT`,
`NextCompleted`, `Complete`, `ReturnRefused`, `Throw`) and an `AsyncGenerator` (`NextAsync`,
`ReturnAsync`, `ThrowAsync`, `Settle`); `calls` is what JavaScript asked and was told.

### NativeCall and the conversions

`who` runs, on a stack of Rust functions; `pending` is the exception of N-API, `errors` the
Errors Rust holds, each at a place of its own, `errorRefs` the N-API references they share. `CallRust` checks arguments as
the macro writes it; `CallJs`/`JsReturns`/`JsThrows`/`Receive` are `Function::call`, `apply` and
`bind`; `ReturnErr` is `throw_into`, `Panic` the unwinding that the macro catches;
`CloneError`, `SetCause`, `DropError` are what Rust does with an Error.

`Conversions` gives, for a type built of 18 kinds, `ToJs`, `FromJs` and `Valid`; `SerdeValues`
the serializer and deserializer for a shape; `Numbers` each numeric conversion with its
widths as parameters; `TypeDefs` the TypeScript type and the parameter list that the macro
declares, and which JavaScript values belong to it. `Passing` passes a value of each.

### OhrsBuild, RuntimeLibraries, CrateExports

In `OhrsBuild` a command line runs through `Begin`, `StartArch`, cargo's `Dirty`,
`ExpandFirst`, `ExpandAll`, then `CopyLibs`, `StartTypes`, `WriteTypes`, for each package
that the command line selects (`Selected`) and each architecture it names (`SkipArch` passes
over the others); `Stop` ends it anywhere; `Edit` changes sources between two of them.
`Packages` are all members, as `--skip-napi-check` is always on; `Uses` says which crates a
crate is built with, members too; only those of `NapiCrates` have types, and a `build.rs`
that watches the folder and the name (`HasTypes`, `Wanted`). `ohrs build` finds the package of
`-p` where it is run or fails at once (`build/mod.rs:104`); `ohrs cargo` in the directory of a
package hands it on, and the other package is compiled under this one's name (`TargetName`).
Versions of files are abstracted to what they were made from and whether that is current.

`RuntimeLibraries` scans the ELF files of a build in every order (`ScanFile`).
`CrateExports` expands the items of a crate in every order (`Expand*`), over the tables
`ALIAS`, `STRUCTS` and `CLASS_STRUCTS`; makes `index.d.ts` of the lines (`Declare`: `ImplLines`,
`Kept`, `PrettyPrint`); and registers the items in every order (`Register*`), from which
`RegisterModule` makes the exports.

### Settlement

Per job a promise and the outcome of its work: pending, then settled at most
once, and fulfilled only after work that ended. `AsyncTask` maps an AbortError to
`rejected` and its value to the outcome; `TokioFuture` uses its own two variables.

## 3. Runs

| run | question | instance | states |
|---|---|---|---|
| `tsfn_safety` | is the thread-safe function safe | a caller and a thread or the JS thread that may abort, 3 calls, queue of 2 | 125,092 |
| `tsfn_live` | does everybody get out | 2 callers, 1 call each, queue of 1, abort by the last owner | 56,196 |
| `tsfn_release_assert` | can the destructor's assertion fail (it can) | a thread and the JS thread, one call each | |
| `async_task` | tasks and signals | 2 tasks, 1 signal | 35,216 |
| `tokio_future` | futures that may await a promise | 1 future, 1 shutdown | 15,244 |
| `module_register` | registration, runtime, CustomGC, references | 3 environments, 2 threads, 1 buffer | 98,485 |
| `stream_pipe` | a Rust stream read by Rust through JavaScript | 2 chunks, 1 spurious poll | 313,778 |
| `stream_cancel` | is a cancelled Rust stream let go of (not always) | the same | |
| `native_memory` | who frees native memory, and when | 1 typed array of up to 8 bytes; 2 values, 2 objects, 2 types | 346,926 |
| `class_instances` | T behind an object; generators | 2 objects, 2 holders each; 3 items, 4 calls | 901,592 |
| `ohrs_build` | builds, libraries, declarations | 2 packages, one of which uses the other, and a plain crate, 2 architectures, 8 command lines; 3 libraries; 17 items | 1,095,320 |
| `native_call` | exceptions, Errors, conversions | 2 Rust functions deep, 2 Errors, 3 references | 1,039,892 |

### What they show

*`tsfn_safety`.* `NoCallAfterFinalize`: no caller is inside the raw function when it
is deleted. `ReleaseSucceedsInLiveEnv`: the assertion of the destructor.
`CallersAreTold`: a refused payload never reaches JavaScript, an accepted one is
queued, delivered, or lost with the function, and a future that waits has its sender
in the queue. `IndInv` is the invariant the proofs use.

*`tsfn_live`.* `CallsReturn`: no call waits for ever, with its lock or for it. `AsyncSettles` (unless the function
closes: senders of payloads drained at teardown leak). `DroppedIsFreed`.

*`async_task`.* `OutcomeIsRight`: a signal cancels no deleted work, a task that an abort
got to in time never yields a value or error of its own, and when the work is deleted
`finally` has run and the promise is settled (except for a task aborted in the middle of its
own resolve, which the code leaves pending). `RunSettles`, with the same exception.
`SettlesOnce` (refinement of `Settlement`). `TypeOK` includes that `complete_impl` does not
read a value that `compute` did not write.

*`tokio_future`.* `AnswersAreSingle`: in a live environment a deferred is answered once, its
finalize callback runs with the settlement, the resolver runs with a value and with nothing
else, and each callback put on the awaited promise is dropped once. `SettlesOnce`. `FutureSettles`: the promise settles when what the future
awaits does (unless the runtime was shut down or the environment ended: tokio drops such
a future, its watcher sees a cancellation, not a panic, and the promise stays pending).

*`module_register`.* `RegisteredIsReady`: one CustomGC function, and a runtime for every
registered environment (except for one that came in during a shutdown). `RegistrationEnds`
(except behind the lock of `RT`, the state `Stuck`). `BuffersAreDeleted`: a reference is
deleted on the thread of its environment (except for a value that met two environments)
and, once dropped, in the end (unless the environment of the CustomGC function is gone).

*`stream_pipe`.* `ChunksArrive`: chunks come in order, no resolver enqueues on a closed
stream, and an end that is reported means that all came, but for chunks overwritten in the
slot of the reader and what a cancel discards. What is overwritten is never the newest
chunk, unless the stream failed. `ReaderEnds`: a consumer that reads on comes
to the end or to an error, while the environment lives. `TypeOK` includes that the stream
has at most one pull at a time.

*`native_memory`.* `FreedOnceUnused` and `FreedInTheEnd`: data shared with an ArrayBuffer is
freed once, when neither side can reach it, and in the end (not after a `&mut` conversion
that failed halfway, and not in the leaks listed below). `TypeOK`: the bytes Rust sees lie
in the ArrayBuffer. `AttachmentsAreFreed`: other native data is read by its own type only,
is not used after it was freed, and is freed by its carrier, with the exceptions the
property names. Each exception was removed in turn, and TLC then found a behaviour.

*`class_instances`.* `InUseIsAlive`: T is not freed under a Reference, an upgrade, a generator
object or an async method. `LetGoIsFreed`: an object nobody holds is not pinned by its
reference, and what was shared from it goes with it. `TypeOK` has the account of each
wrap: the N-API count is the number of References, and one more where the code took one
too many. `FailuresAreKnown`: the drop of a Reference uses a deleted reference, and a
constructor returns without T, only after the named failures. `GeneratorsKeepProtocol`:
items come in the order they were asked for, one that does not arrive is an exception
or a rejection, and a closed generator gives no more.

*`ohrs_build`.* `BuildIsAsAsked`: a build that succeeds leaves the libraries that were asked
for, and in `index.d.ts` nothing older than the sources of what it compiled. `TypeOK`
includes that an unpacked libatomic archive is whole. `ResolvesClosure`: the libraries
copied are exactly those needed that the device does not have, and the build fails
exactly if one is nowhere. `IndexIsTrue`: names in `index.d.ts` are declared there, what is
declared is exported and what is exported is declared, with the exceptions listed below.

*`native_call`.* `RefsAreHeld`: the N-API reference of an Error is counted by its clones,
alive while one of them is, and deleted with the last. `ErrorsAreTold`: JavaScript catches
what was thrown, through all layers, and no exception pends that Rust was not told of.
`DataComesBack`: what went to JavaScript is read back as it was, by the library, the macro
and serde, and no integer is cut, wrapped or called exact when it is not, but in the named
cases. `TypesAreTrue`: a value that a declared TypeScript type admits is taken, and a value
that is given belongs to its declared type, but in the named cases.

### Disagreements found

By a run:

1. `threadsafe_function.rs:131`: the release asserted in the destructor fails when the
   last owner drops the function during or after the teardown of the environment
   (`tsfn_release_assert`). Within a living environment it holds, which is proved.
2. `js_values/stream/read.rs:836`: a cancel that finds a pull in progress leaves the inner
   stream to the pull ("pull will see the cancelled flag and handle cleanup", `:770`), which
   skips the cleanup with the enqueue: the Rust stream stays until the JavaScript object is
   collected (`stream_cancel`).

Observed while modelling; the models contain the behaviour and the properties except it
by name, or it lies outside of what they state.

*Tasks, futures, registration.*
- `on_abort_impl` returns at the first completed task of a signal, so later tasks of the
  same signal are not aborted (`task.rs:217`); an `on_abort` callback that calls `on_abort`
  on its own signal panics on a `RefCell` inside `extern "C"`, and one that runs JavaScript
  which passes that signal to another task grows the stack under the loop (`task.rs:211`).
- `block_on` keeps the read lock of `RT`, and deadlocks with a registration and a spawn
  inside its future (`tokio_runtime.rs:122`).
- The fetch_sub of `thread_cleanup` and its shutdown are two steps: an environment that
  registers in between loses its runtime (`module_register.rs:656`). The cleanup hook is
  installed once per process (`:543`), so only the first environment takes itself off the
  count.
- After the environment of the CustomGC function is gone references of buffers dropped off
  the JS threads are never released ("release it when dropped", `buffer.rs:310`); a drop in
  a call of another environment deletes a reference of the first (`:336`).
- The resolver of a future that fails is dropped on the runtime's thread, and the `dispose`
  of an `AsyncBlock` is then skipped. The box of `PromiseRaw::finally` leaks if the promise
  never settles.

*Streams.*
- A poll before the previous read was answered starts another one, and both results go to
  one slot: a chunk is overwritten (`read.rs:583`). Each poll that finds an item has started
  a read as well, so that this takes no spurious poll.
- In the polyfill, an error of a piped source becomes a clean end and drops what is queued,
  cancelling the readable end of a pipe never reaches the source, and cancelling one branch
  of a tee errors both.

*Memory.*
- After a `&mut` conversion the value keeps a reference and no data of its own, and the
  box of the finalizer returns early for such a value: the data is never freed and its
  `notify` never called (`arraybuffer.rs:670`). One that fails after `create_external` has two
  owners. Rust sees an empty slice afterwards.
- `from_napi_value` leaks the reference of a value it refuses; the fallback of
  `from_external` leaves a view on finalized data; `copy_from` allocates `len` bytes for `len`
  elements and does not copy.
- Boxes leak when `napi_wrap`, `create_external`, `add_finalizer` or `create_function` fail,
  when `remove_env_cleanup_hook` is called, when instance data is overwritten (documented), and
  for every class that `define_class` makes of closures. `define_properties` makes each
  descriptor twice and leaks one box.
- `Property` is `Clone`: closures defined on two objects are freed with the first of them, and
  again with the second.
- `remove_wrapped` with the wrong type has already detached the value; with the right one it
  frees what a `&mut` from `unwrap` may still be using (`object.rs:583`).
- `&'static mut` instance data, an `ExternalRef` and an `AsyncCleanupHook` outlive what they
  refer to at the end of the environment; the drop of the last asserts.
- An `External` and the legacy tagged external share the tag but not the layout: each read
  by the calls of the other is misread.
- `Ref` and `ObjectRef` dropped without `unref` leak. `FunctionRef` is `Send`, and its drop calls
  N-API on whichever thread.

*Classes and iterators.*
- `new_instance` never takes off the first count: objects made by Rust are never collected on
  OpenHarmony (`class.rs:243`, against the comment at `callback_info.rs:118`). When
  `napi_new_instance` fails, the factory flag stays up, for all classes (`class.rs:256`).
- Two or more References that outlive the object at the end of the environment make the
  first drop use a deleted reference (`value_ref.rs:60`). When `T::finalize` fails the map
  entry stays, and a WeakReference reads the freed T (`mod.rs:41`).
- An async method whose argument does not convert leaks its references; after teardown the
  drop of those of a running one asserts (`src/crates/backend/src/codegen/fn.rs:84`).
- The state of a generator is an ordinary property of the instance, shared by all its
  iterators, and exhaustion is not recorded in it. An argument or an item that does not
  convert loses an item. A return whose argument does not convert closes nothing. A throw
  that T handles with an item opens a completed generator again. An async generator has no state: `next` after
  `return` still asks T. A `next` kept without its generator object does not keep T.

*Calls, Errors, conversions.*
- An Error with the status PendingException that is returned after its exception was cleared
  throws nothing; an Error returned while another exception pends throws that one. A
  handled Error of `apply` is thrown all the same. Making a string of a symbol leaves an
  exception pending. A cyclic `cause` recurses without end. `try_clone` drops the cause. An
  Error is dropped on whichever thread (the TODO at `error.rs:40`).
- `BigInt::get_i128` says lossless exactly when it is not, for `i128::MIN` (`bigint.rs:131`);
  `get_u128` calls a negative word lossless; two-word BigInts that fit a word are called
  lossy by `get_u64` and `get_i64`. The legacy `JsBigInt::get_i128` and `get_u128` return the
  opposite flag. `u8` to `i32` wrap modulo 2^32 before they are checked.
- `de.rs` cuts BigInts beyond 128 bits and misreads negative ones of a word; a large double
  saturates; `ser.rs` makes a number of every `i64`, exact or not, and leaves out the names of
  tuple and struct variants. `serde_json::Number` refuses the BigInt that it makes itself.
- A field of type `()` is always missing; a hole written for `None` in a `#[napi(array)]` is
  unreadable; `Either<Map, Vec>` takes an array as a map; a HashSet is `{}` to serde_json.
- `TypeDefs`: `[Option<T>; N]` is declared `T | null[]`; an optional element before a required
  one makes an invalid tuple type; a field whose type admits undefined is refused when it is
  undefined; a `WeakReference` parameter of the class is not declared but read.

*Declarations and builds.*
- A renamed const is declared by its JS name but exported by its Rust name. Renamed types
  used by items expanded earlier are undeclared names. Classes of one name in two
  namespaces lose a declaration, and Rust may construct the other class; a const or a task with
  the identifier of a type takes its name or its methods. An `impl` expanded before its renamed
  class, or in another namespace, loses it. Types in a `#[napi]` mod are not qualified outside it. An
  `impl Task` exports a class that is not declared, as does an `impl` of what is no class.
- A workspace build gives every package the module name of the first one
  (`src/cli/cargo-ohrs/src/build/prepare.rs:229`, against the comment
  "must same with target name", `src/crates/macro/src/lib.rs:29`).
- `ohrs cargo -p` of another package, in the directory of a package, compiles it under the
  name of the directory's package (`src/cli/cargo-ohrs/src/cargo/mod.rs:281`); a later build
  compiles it again.
- A compile that was stopped for one architecture leaves a truncated file of types, from
  which a later build of another one, whose units are fresh, writes `index.d.ts`. Items of
  removed dependencies stay in it. With `--dist a/b` all packages share one directory and clean
  each other's libraries (`src/cli/cargo-ohrs/src/build/mod.rs:131`). A failed build exits with 0.

### Bounds, and why they are enough

- Callers, tasks: two are the least at which one overtakes another, and the properties
  relate at most two. Futures share nothing but `RT` and the JS thread, whose shutdown may
  fall between any two steps of the one there is. Three environments are needed for one
  that leaves, one that stays and one that comes in between; two threads let one of them be
  reused. One buffer meets all of them.
- `MaxQueueSize` of 1 or 2 makes a queue full after one or two payloads; three calls of
  one thread then meet a full queue, a delivered and a queued payload together.
- `MaxCalls` (thread-safe functions) bounds the calls of each caller. `MaxShutdowns = 1`: a
  second shutdown meets no future in a state the first did not. The environments load the
  module at most once each; a reload is another member of `Envs`.
- `MaxChunks = 2` lets one chunk overtake another; `MaxSpurious = 1` is the poll that starts a
  second read.
- `MaxBytes = 8` holds two elements of four bytes, an offset and a length that the runtime may
  mean in bytes or elements; `MaxStrays = 2` buffers left behind.
- `native_memory`: two values and two objects let one carrier have two values, one value two
  carriers, and one object be collected while the other is used. The typed array and the
  attachments share nothing but the collector and are taken one at a time.
- `class_instances`: two objects, one made inside the construction of the other or at its
  address; `MaxHolders` bounds References, shares, generators and async methods of each.
  A factory inside a factory and `new_instance` inside one are left out. A generator gives
  three items to four calls, so that each function meets the state after each other one.
- `ohrs_build`: a member that uses another and a plain crate that both use, and an architecture and a variant more than
  one; `MCCommands` lists the command lines. Sources change only between invocations. All
  graphs of three libraries, in all places; all closed sets of at most six of 17 items in
  two namespaces. Both are looked at before the first build, which they do not read.
- `native_call`: two functions of Rust between functions of JavaScript; chains of two causes;
  three references are as many as two Errors with a cause each need. All types and shapes
  are of up to two levels, which reaches each kind inside each other one. Integers have 1, 2,
  3 and 5 bits for 8, 32, 53 and 64: the code is the same for all widths and compares only
  with their powers of two.
- Symmetry is used in `class_instances` and `native_memory`, which have no liveness.

Deadlock is checked but in `class_instances`, where the thread is done after the end of the
environment. `Done` in the other
modules is the legitimate end; in `ModuleRegister` it includes `Stuck`, see above.

### Fairness

Weak fairness is put on steps the code or its scheduler must take and on no choice of
a user. A thread inside an operation goes on (`Finish`), the loop runs its callbacks
(`JsLoop`, `OnLoop`, `Loop`, `Complete`, `React`), the pool executes queued work, tokio polls its
tasks (`OnRuntime`, `Watch`, `Future`), registering, exiting and blocked environments go on, and a
consumer of a stream polls when it was woken (`PollWanted`). `CustomGc` is strongly fair: the
loop comes round, but calls of JavaScript get in between. Nobody has to call, clone, drop,
abort, fire a signal, settle a promise, collect garbage, shut a runtime down, or end an
environment. Futures and `compute` are assumed to end, since the claims are about
reporting their end. With `WriterPreferring` new readers wait behind the finalizer, as they do
in the standard lock: weak fairness is enough for it to come to its turn, and `CallsReturn`
has the calls behind it to answer for.

## 4. Proofs

Eight modules hold proofs, for every value of the constants that the named assumptions allow.
The assumptions say that bounds are natural numbers, that a value which stands for "none" is
not one of the others, and, in `ThreadsafeFunction` and `OhrsBuild`, that the roles and command
lines of a run are among those there are and that crates use each other without a cycle, as
cargo ensures, in `CrateExports`, what an item is, and, in `Numbers`,
how the widths are ordered and what powers of two are. Each proof about a specification has an
inductive invariant, one lemma for the initial states, one or more for the steps with a step of the proof per action, and the
theorems, which follow from it. TLC checked each invariant on a run before it was proved.

| module | theorem | states |
|---|---|---|
| `ThreadsafeFunction_proof` | `Invariance`, `TypeCorrect`, `CallsAreOverAtFinalize`, `AbortCloses`, `DropAssertion`, `CallersKnow` | `IndInv`, types, `NoCallAfterFinalize`, `AbortedIsClosed`, `ReleaseSucceedsInLiveEnv`, `CallersAreTold` |
| `AsyncTask_proof` | `TypeCorrect`, `RightOutcome`, `Settles` | `TypeOK`, `OutcomeIsRight`, the refinement `SettlesOnce` |
| `PromiseFuture_proof` | `TypeCorrect`, `SingleAnswers`, `Settles` | `AwaitTypeOK`, `AnswersAreSingle`, the refinement `SettlesOnce` |
| `BufferRefs_proof` | `TypeCorrect`, `RegisteredReady`, `DeletesAtHome` | `BufTypeOK`, `RegisteredIsReady`, the safety half of `BuffersAreDeleted` |
| `BufferRefs_proof`, of `Numbers` | `NumbersAreExact` | `NumberIsExact`, which `DataComesBack` asks of each integer |
| `StreamPipe_proof` | `TypeCorrect`, `ChunksComeInOrder` | `TypeOK`, `ChunksArrive` |
| `NativeMemory_proof` | `ViewFitsBuffer`, `FreedOnce`, `FreedAtTheEnd`, `ValuesAreFreed` | `TypeOK`, `FreedOnceUnused`, `FreedInTheEnd`, `AttachmentsAreFreed` |
| `ClassInstances_proof` | `CountIsReferences`, `UseKeepsAlive`, `LetGoCanGo`, `OnlyKnownFailures`, `ProtocolIsKept` | `TypeOK`, `InUseIsAlive`, `LetGoIsFreed`, `FailuresAreKnown`, `GeneratorsKeepProtocol` |
| `ClassInstances_proof`, of `NativeCall` | `CallTypesKept`, `ReferencesAreHeld`, `ErrorsCross` | `CallTypeOK`, `RefsAreHeld`, `ErrorsAreTold` |
| `OhrsBuild_proof` | `TypeCorrect`, `BuildsAsAsked`, `ClosureIsResolved`, `CratesAreDeclared` | `TypeOK`, `BuildIsAsAsked`, `ResolvesClosure`, `IndexIsTrue` |

**Thread-safe functions.** `IndInv` is `TypeOK /\ HandleInv`. Neither half is
inductive alone: a payload is well typed only because its caller has begun a call, and
`HandleInv` speaks of typed functions. Nor are the goals: that nobody is inside a deleted
function follows from who owned the `Arc` when the finalizer looked (`Using(p) => p \in
owners`), from the write lock (`inCall => ~aborted`), and from the finalizer having set the
flag or found no owner. The destructor's assertion further needs that the handle owns
exactly one thread of an open function while it is held, not aborted, and the environment
lives; that fails after the teardown begins, which is the first disagreement. `CallersAreTold`
needs `MessageInv` on top: nothing of a call is in the queue or delivered before
`NapiAccept`, and a call under way has no result yet.

**Async work.** `WorkInv` says what the place of a task's work on its way through the pool
means for its value, promise, status and `finally`; `CompletionInv`, `SignalInv` and `AbortInv`
what a completion under way, the stack of a signal, and an abort that came in time leave true.
`OutcomeIsRight` is not inductive: that a signal does not cancel deleted work rests on
`SignalInv`, where work that ended without being marked had its signal fire. The refinement
uses `WorkInv` to show that only a pending promise is settled.

**Futures.** For each job `FutureInv`, `FunctionInv` and `AnswerInv`: who holds the resolver, the
one thread of the deferred's function until its single answer is delivered or the environment
ends, and what the answer brings about. With a promise, `AwaitInv` adds that a box is armed
until it is dropped once, and that the sender of the channel is used or dropped before
the promise can be collected. Two answers are excluded because the watcher answers only for
a future that panicked, and a panic comes before the answer of the future.

**Registration and references.** `CountInv` relates `MODULE_COUNT` to the environments that
came in: the fetch_sub is run by one of them only (`HookInv`), so the count is their number, less
one once it has. From this follows who sees 0 (`FirstInv`: one environment registers until the
first registration ends, the others spin) and who may shut the runtime down (`RuntimeInv`:
the last one, but for those that come in after its fetch_sub, the exception of the property).
`DropInv` and `ThreadInv` are what `DeletesAtHome` needs of a drop. That references are deleted
in the end is liveness and stays with TLC.

**Streams.** `Places` is a line: each chunk of a place comes before those of the next ones,
for any number of chunks. Every step takes the first chunk of a place to the end of an
earlier one with none between, adds the newest at the last place, or loses some; lemmas about
`WebStreams` (`Enqueued`, `Closed`, `ReadFrom` keep `StreamInv`, and move at most one chunk) let
the proof see two streams, pump, source and reader by what they do to the line. `Whole` says
when nothing may be lost, and then each chunk that was produced is in a place or was
overwritten. The end that the consumer is told is right because of `Finished`, which the
invariant has for the stream it reads and for the one behind it. `NoLateEnqueue` comes from
`SourceInv`: a stream is closed by its own last pull or by a cancel, and a cancel sets the flag
that the resolver looks at. `KeptInv` follows the newest chunk of the reader: results come from
places behind the slot, so each is newer than all that was overwritten before.

**Native memory.** For `TypedArrays`: `TypeOK`, `Structure` (what each field rests on: a reference
keeps its value alive, memory that JavaScript shares has a box until it is collected) and
`Ownership`: the times the data was freed and those that will free it, counted together, are
at most one, and exactly one where nothing was left behind. Neither property is inductive:
a double free shows only when the second owner acts. `ByteLengthFits` and `ViewFits` are about
`normalize_typed_array_lengths`, for lengths of any size. For `Attachments`: `ValueInv` (a
value that was given away has carriers and is freed with the first of them, or is one of the
named leaks), `EnvInv` (what belongs to the environment is freed at its end), `HeldInv` (what
is borrowed or referenced is not collected). The uses after a free that remain are those of
`Excused` values.

**Classes and generators.** `TypeOK` with the account of each wrap's count, `FlagInv` (the flag
is up inside a factory or after a failed `new_instance`), and for each object `Life`: what
there can be around it at each stage. That T is alive under a Reference follows from the
account: a count above zero pins the object. `GeneratorInv` adds to the protocol that no call
shows an item that was not handed out yet, that only a future leaves one unanswered, and that
an object stays closed until a throw that T handles.

**Errors in calls.** `CallInv` is `Table`, `Control` and `PendingInv`. `Table` counts: a reference's
count is the number of places, in the chains of causes of the Errors that are held, that have
it (`Counts`). `RowChange` says what becomes of that number when one Error changes, `TimesOfConcat`
and `TimesOfTail` what chains that are joined or cut have; so each step on an Error is about the
links it moves only: a caught value takes references that were free, one for each link
(`CatchStep`), a clone one more of the first link's (`CloneStep`), a drop gives back all
(`DropStep`), and a new cause gives back those of the cause that was there (`LinkStep`). `ErrorsAreTold`
is not inductive: what JavaScript will catch is in an Error meanwhile. `Honest` says that
the first link of each Error refers to what was thrown, or to what is the same; that lasts
while the reference keeps its value, which the count of what holds it ensures
(`HonestyCarries`). The theorems are about `CallSpec`; the run checks `PassingSpec`, which is that and
the conversions.

**Builds.** What a build leaves is right because of what it finds: `TypeOK` says of the cache,
whatever was stopped or edited, that a unit cargo takes for fresh has left current types, and
of a marked archive that it is whole. `FreshInv`, `ArchsInv` and `PackagesInv` say what this
invocation has done so far: the crates it compiled, the architectures and the packages it is
through with; that a package keeps what it was given uses that packages have a `dist` of their
own. For `ClosureIsResolved`, `ScanInv` says that what was scanned or waits is needed, and that
everything a scanned file needs was scanned, waits, or is missing.

**Declarations.** `IndexIsTrue` speaks of the loaded module only; `CrateInv` says how it came about,
for any items. `TablesInv`: a name in a table, and one that stands for a type in a line, is the
identifier or what an item of the crate with that identifier renames it to. `LinesInv` and `IndexInv`:
each expanded item has one line, and `index.d.ts` is made of the lines, with some choice among
classes of one name. `RuntimeInv`: a class has as members all that was registered for its type
and namespace, and the name of one of their lines. A type without a `Twin` is then the only
one that its names can stand for (`Alone`, `TypeInIndex`), and a class that is implemented under
its name and in its namespace has in the index the members that were registered (`WholeClass`).
The exceptions of `IndexIsTrue` are those that any items may need: with a larger choice of
items TLC violates it without any one of them.

**Numbers.** `NumbersAreExact` is about pure operators: each integer of up to three words, for any
widths in the order of those of the code, 8, 32, 53 and 64 bits, which TLC cannot count to
(it runs with 1, 2, 3 and 5). `SafeDouble`: rounding leaves integers up to the safe ones alone.
`WordsAre` gives the one, two or three words of an integer, `ValueOfWords` the integer of such
words again, and `BigFacts` what the accessors see of them; `HonestU64`, `HonestI64`, `HonestI128` and
`HonestU128` then are arithmetic, with i128::MIN and its neighbours as cases. `JsonComesBack`,
`DeOfNumber` and `DeOfBigInt` put them together for serde, on each side of every limit at which the
code changes from numbers to BigInts. The provers know no law of `^`, and to prove one takes
induction: `PowersAssumption` has the two that are needed, that 2^(a + b) is 2^a * 2^b, a positive
number, and 2^0 and 2^1. TLC evaluates it for the widths of its run.

### Only model-checked

- All liveness (`CallsReturn`, `AsyncSettles`, `DroppedIsFreed`, `RunSettles`, `FutureSettles`,
  `RegistrationEnds`, the second half of `BuffersAreDeleted`, `ReaderEnds`): out of the prover's
  reach.
- `DataComesBack`, but for its integers, and `TypesAreTrue`: `Conversions`, `SerdeValues` and
  `TypeDefs` use recursive operators over nested types, about which nothing can be proved here.
  TLC evaluates them over all types within the bound.

## 5. Limits

- The liveness run lets native threads call; on the JS thread calls do not block.
- Boxes leaked with a refused payload or one drained at teardown are not states of
  `ThreadsafeFunction`; the properties state who waits for them.
- `JsDeferred` calls after the end of the environment reach a deleted function; the
  model records them in `staleCalls`, which `AnswersAreSingle` excepts.
- Not modelled: `AbortSignal::on_abort` callbacks and a signal whose `onabort` is called by hand
  again; `deferred_trace`; programs that start or stop the
  runtime beside registration; the wasm target; `WriteableStream`, which keeps no state; tee and queuing strategies
  of the polyfill; detaching an ArrayBuffer; handle scopes; dates, UTF-16 and Latin-1 strings; the
  prototype of iterator classes; the grammar of attributes and the errors of the parser.
- Of cargo-ohrs `artifact`, `init`, `doctor` and `publish` (each writes files once or asks the
  environment), tool paths, the layout of `index.d.ts`, two invocations at once, and
  crates or items that are removed.
- Not modelled because they are one native call per method or declarations: the OpenHarmony
  modules, the N-API bindings, most methods of `Env`.

## 6. Plan

Done, in this order: `ThreadsafeFunction` and its proofs, `AsyncTask`, `TokioFuture`,
`ModuleRegister`, `Settlement`; `BufferRefs`, the streams, `PromiseFuture`, `TypedArrays` and
`ClassInstances` with their proofs; `OhrsBuild`, `RuntimeLibraries`, `CrateExports`; `NativeCall`
and the conversions; `Attachments`, `Generators`; then the proofs of section 4.

Next to model: `on_abort` callbacks, which run in the middle of `on_abort_impl`; `ohrs artifact`;
the vendored worker and buffer packages.

Next to prove: what is modelled next. Of the safety properties above only those of nested types
have no theorem.
