# Verification of the Aethelred Python SDK

TLA+ models of the SDK in `src/`, TLC configurations that check them on small
instances, and TLAPS proofs about them. Every definition is translated from the
source; `PROJECT.json` maps it to the lines it stands for.

The SDK talks to the Aethelred AI-verification blockchain. What is hardest to
test is in the parts that keep state across suspensions, threads and failures:
the real-time client, which is its core, the device runtime, the HTTP client, the
wait for a job and the oracle feeds. The rest is what an application uses beside
the node: keys, credentials, circuits and proofs, wrappers that record, and a
machine-learning library whose tensors are lazy and whose training is distributed.
There the difficulty is in long sequences of legal calls and in boundary cases.

## Inventory

| Component (`src/aethelred/`) | State | Operations | Hard behaviour | What makes it correct |
|---|---|---|---|---|
| **Real-time connection** `core/realtime.py` 317–851 | connection state, socket, three task handles, attempt counter | `connect`, `disconnect`, receive, heartbeat and reconnect loops | coroutines without a lock interleave at every `await`; drops, timeouts, cancellation, retries | one dial at a time, a connected client is served, a disconnect is final, no state is a dead end |
| **Real-time subscriptions** `core/realtime.py` 360–457, 853–1187 | registry, a queue per subscription | subscribe, unsubscribe, resubscribe, route, iterators | one lock shared by routing, subscribing and a resubscription that waits on the network; events lost while disconnected | server and registry agree on a live connection, completions reach their iterator |
| **Memory pool** `core/runtime.py` 449–737 | free lists by size class, address table, usage counters | allocate, add a reference, free, defragment, trim | long sequences of reuse, sharing and merging; addresses that come back; a failure half way through `trim` | no block has two owners, usage is exact, no memory is lost, a block is large enough |
| **Execution streams** `core/runtime.py` 744–945 | a queue and a worker thread per stream, futures, events, the list of pending futures | enqueue, wait for an event, synchronize, cancel | threads of which only `enqueue()` takes the lock; dependencies across streams; the death of a worker | commands run in order and after their dependencies, futures are settled, `synchronize()` waits |
| **JIT cache** `core/runtime.py` 977–1151 | memory, access order, files | get, put, evict, clear | two structures in step although callers race between their locked sections; unreadable files, restarts | a hit never fails, a failed write is recovered from |
| **Devices and runtime**: the rest of `core/runtime.py` | idle streams, class attributes with the current device | initialize, get and return a stream, enter and leave a device, start and shut down | check-then-act, attributes that every thread writes | a stream has one user, leaving a device restores the one before |
| **HTTP client** `core/client.py` | the httpx client | `connect`, `close`, `_request` with retry | coroutines meet in `close`; retries | no open session is forgotten, transient failures are retried |
| **Jobs** and the other endpoints `jobs`, `seals`, `validators`, `verification`, `models` | none | one HTTP request each; `wait_for_completion` polls | timeout against late completion | a job is not given up before its time |
| **Oracle client** `oracles/client.py` | feed cache, subscription thread and flag | `get_feed`, `get_feed_by_did`, subscribe/unsubscribe | versions and late answers in a shared cache, callbacks after unsubscribe | what counts as the latest value is recent, a subscription ends |
| **Provenance** `oracles/provenance.py` | issuers, a verdict per datum | issue, verify data, credentials, presentations | the verification suspends and time goes on; verdicts are remembered | who is told "valid" was told so on grounds |
| **Wallet, post-quantum cryptography** `core/wallet.py`, `crypto/` | key pairs of several kinds, a closed flag | create, restore, export, close, sign, verify, encapsulate | keys that are restored, derived, shared and wiped | a signature verifies with its own wallet's keys, and with no others |
| **Model converter, hardware compiler** `models/` | none | convert, compile | which of many combinations is refused | the circuit is of the model that was given |
| **Proof generation and verification** `proofs/` | registered keys | generate, verify, hybrid | one verdict from expectations, attestation, proof and key, each of which may be absent | what `generate()` makes is valid for whoever has the key, until its attestation is too old |
| **Model registry** `models/registry.py` | none; models on the chain | register, get, deprecate | the chain decides later | what an object says, the chain said |
| **Framework integrations** `integrations/` | response buffer, last record | ASGI middleware, wrapped calls | streaming, sinks that raise half way, concurrent calls | body forwarded once and whole, one record per call |
| **Distributed training** `distributed/` | groups, buckets, partitions, checkpoint | DDP, ZeRO, pipeline, elastic trainer | fewer micro-batches than stages, changing workers | each parameter once, each micro-batch once, an exact rate |
| **Optimizers, schedulers** `optim/` | state by parameter, counters | `step`, `state_dict`, `load_state_dict` | states that are shared, models that are moved | the state of a parameter stays with it |
| **Tensors** `core/tensor.py` | lazy operations, storage, strides | operate, realize, view, index | a shape is promised long before it is computed; views of views | the promise is kept, views stay in their storage |
| **Layers, modules** `nn/` | shapes; a tree with three registries | forward, set, delete, append, save, load | reassigning names, tied parameters | rows are kept, what is saved can be loaded |
| **Quantization** `quantize/` | observed range, converted modules | observe, calibrate, convert | rounding, copies that fail half way | what was seen can be represented |
| **Compliance** `compliance/checker.py` | frameworks, mode | check, add, remove | rules that depend on one another | stricter never passes more |
| **Data scrubbers** `compliance/` | recognizers, a batch | sanitize, scrub, scrub a batch | overlapping finds in a text that changes length | nothing found is left, nothing else is lost |
| Profiler (`core/runtime.py`) | a list of times | start, stop, export | none | – |
| Configuration, types, CLI, build backend | none | declarations | none | – |

The application calls the real-time client from its own coroutines. `connect()`
starts a receive and a heartbeat loop and resubscribes the registry; a loop that
meets a dead connection calls `_handle_disconnect()`, which starts the reconnect
loop, which calls `connect()` again. Received messages go through
`_route_message()` to the queue of each matching subscription, from which the
iterators take them. Everything runs on one asyncio event loop, so code between
two suspensions is atomic, and that is what an action of the models is. The
endpoint modules meet in `AsyncAethelredClient._request()`; circuits go from the
converter or the compiler to the proof generator and to the registry, and proofs
to the verifier; layers, optimizers, schedulers and the trainer are built on
tensors and on each other's attributes; the compliance checker asks the scrubbers.
Where threads share something without a lock (streams, devices, recorders) an
action is what one does between two accesses; an action of what is used by one
caller at a time is a whole call.

`PROJECT.json` lists the hazards of all components at their lines, with the
properties that cover them.

## Modules

| Module | Models |
|---|---|
| `RealtimeConnection` | the connection life cycle: `connect`, `_authenticate`, `disconnect`, the three loops |
| `RealtimeConnectionProofs` | its theorems |
| `MCRealtimeConnection` | the symmetry set for TLC |
| `RealtimeSubscriptions` | registry, resubscription, routing, iterators, and the server as the client sees it |
| `RealtimeSubscriptionsProofs` | its theorems |
| `MCRealtimeSubscriptions` | two iterators that share a job |
| `MemoryPool` | the pool of a device: free lists, merging, trimming |
| `MCMemoryPool` | two size classes, the symmetry set |
| `OrderedExecution` | what streams promise: the abstract specification that `Streams` implements |
| `Streams` | queues, workers, futures, events, `synchronize()` |
| `MCStreams` | the kinds of commands, the symmetry set |
| `JITCache` | `JITCache` and the wrapper that calls it |
| `MCDeviceRuntime` | pool, streams and cache in one run: a behaviour is of one of them |
| `RuntimeProofs` | theorems about `MemoryPool`, `JITCache`, `Streams` and `MCDeviceRuntime` |
| `HttpClient` | `AsyncAethelredClient`: its session, and requests with the retry decorator |
| `JobWaiter` | `wait_for_completion` |
| `OracleFeeds` | the feed cache, and a subscription with its threads |
| `MCServices` | these three and the streams in one run: a behaviour is of one of them |
| `ServicesProofs` | theorems about `HttpClient`, `JobWaiter`, `OracleFeeds` and `MCServices` |
| `SequenceLemmas` | facts the proofs share: sequences, least and greatest numbers, induction, sums, folds and recursive functions over finite sets and sequences |
| `Wallet` | wallets and signers, and the key pairs below them |
| `Provenance` | credentials, remembered verdicts, the verifier, the registry |
| `Circuits` | `ModelConverter` and `HardwareCompiler` |
| `ProofPipeline` | `ProofGenerator` and the three verifiers, on top of `Circuits` |
| `ModelRegistry` | `ModelRegistry` and the chain, on top of `Circuits` |
| `Integrations` | the ASGI middleware, the recorder and the wrapped callables |
| `TrustProofs` | theorems about `Provenance`, `Wallet`, `ProofPipeline`, `Integrations`, `Compliance` and `Scrubber`, and the types of the registry |
| `DevicePool` | the streams of a device and its initialization, by several threads |
| `CurrentDevice` | the current device, contexts, the singletons and the `Runtime` |
| `DataParallel` | gradient buckets and ZeRO partitions |
| `Pipeline` | process groups and the pipeline's schedules |
| `Schedules` | the learning rate: schedulers and `ElasticTrainer` |
| `Optimizers` | optimizers, their states, their checkpoints |
| `Tensors` | lazy tensors and views |
| `Layers` | the shapes through layers and losses, on top of `Tensors` |
| `Modules` | the tree of modules and its state dictionary |
| `Quantization` | observers, quantization parameters, conversion of a model |
| `ModelProofs` | theorems about `Tensors`, `Layers`, `Modules` and `Quantization` |
| `Compliance` | the checker |
| `Scrubber` | both scrubbers, and batches |
| `MCApplications` | all of these, from `Wallet` on, in one run: a behaviour is of one of them |
| `ApplicationProofs` | theorems about `DevicePool`, `CurrentDevice`, `DataParallel`, `Pipeline`, `Schedules`, `Optimizers` and `MCApplications` |

### RealtimeConnection

`state`, `ws`, `attempts` are `_state`, `_ws` and `_metrics.reconnect_attempts`.
`receiveTask` and `heartbeatTask` are the task handles; `rx` and `hb` say where
each loop is, named after the connection whose `connect()` started it. A new
`connect()` overwrites the handles while old loops may still run: `disconnect()`
cancels through the handles, so it cannot reach those, and the model keeps the
difference. `pc` and `on` say where each application call and the reconnect loop
is suspended, and on which connection.

Connection names, and with them loop names, are reused once nothing refers to
them (`Unused`), so behaviours are infinite although `Conns` is finite. `open`
is what the network still carries: a connection replaced in `_ws` stays open, as
in the code, which does not close it.

An action is the code from one suspension to the next. `ConnectDials` is the
head of `connect()`, `DialSucceeds`/`DialFails` the end of
`websockets.connect()`, `AuthSucceeds` everything from the server's answer to the
first send of the resubscription. `disconnect()` awaits up to three tasks and a
close; a task that has ended is not waited for, hence `NextStage`.
`_handle_disconnect()` has no suspension and is part of the loop's action that
calls it. Time is not modelled: a timeout may happen at any time its wait is on.
One ordering is kept: what is ready runs before the network has answered. A
receive loop that is ready does so before a dial completes (`ReceiveReady`), and a
reconnect task just created (`ReconnectAtTest`: "started") looks at the state before
a dial that was called meanwhile begins (`DialBegins`), so that it cannot sleep
through a user's whole failed call.

A resubscription sends on the socket that `_ws` is when the send begins
(`ResubscribeSends`), and a suspended send stays on it: `on` names it, and the call
goes on or fails with that socket, whatever `_ws` has become. So the resubscription
of a connection given up long ago can fail later, and its `connect()` then writes
DISCONNECTED over a live session.

Python matters in one place. A second `recv()` on a connection raises at once.
Before Python 3.12 `asyncio.wait_for` runs it in a task and suspends; from 3.12
on it awaits it inline, and nothing suspends. `RecvErrorSuspends` chooses. The
project supports both (`requires-python >= 3.9`).

*Interference.* `connect()` has no lock, and the code does go wrong when coroutines
meet in one of four ways, which the history variable `interference` names: a loop of
an earlier connection reports a disconnection (`stale`), a resubscription fails after
the client has moved on, by then disconnected or connected anew (`resub`), an
authentication completes during a `disconnect()` (`late`), or two application
coroutines call at once (`overlap`). The safety properties say what holds until one of
these happens; the runs `realtime_stuck` and `realtime_freeze` show what they can lead
to. One application coroutine in the runs loses nothing: a second call at the same
time is itself `overlap`, and the theorems are about any number.

### RealtimeSubscriptions

The connection is reduced to what the undisturbed `RealtimeConnection` gives:
`connected` (`is_connected`), `link` (the socket is open), one `connect()` at a
time. Holding `_subscription_lock` across a suspension happens in
`_resubscribe_all()` only, so `resubscribing` is the lock. An iterator is a
`job_events()` or `multi_job_events()` call from `subscribe` to the `finally`
with `unsubscribe`. `up` and `down` are the messages of the socket. The server is
external: it remembers the subscriptions of a connection and sends an event once
if one matches. It does not repeat events on a resubscription, because the
message (871–879) gives it no position to repeat them from.

### MemoryPool

`refs`, `size` and `ptr` are the attributes of the blocks, `lists` is
`_free_lists` in the order of the classes followed by `_large_free_blocks`,
`addressed` the keys of `_blocks`, `usage` the property `current_usage`. `asked`
and `obtained` are history variables. Each operation holds the pool's lock from
beginning to end and is one action. `FindFreeBlock` says which block a search
finds, `Refile` rebuilds the lists after a merge, and `Popped` says how far
`trim()` gets: `del self._blocks[...]` raises where a merged or replaced block
has lost its entry, with the block already popped. A buffer is a local variable
of `_allocate_new()`, so a later one can have its address; addresses are
therefore chosen freely. `trim(None)` and `trim(0)` change nothing: their target
is the current usage.

The application frees a reference once and does not use a block after that. A
request is positive or 0 and already rounded to the alignment.

### Streams

`queue`, `pending` and `completed` are `_command_queue`, `_pending_futures` and
the `_completed` flags; `future` is the state of `StreamCommand.result`, and
`work` holds the other fields of a command. Commands are numbered in the order of
their creation, so a command can only depend on earlier ones, whose handles the
application already has. `worker` and `thread` say where the worker of a stream
and an application thread are.

`enqueue()` puts the command into the queue and then appends its future, both
under `_lock`; the worker and `synchronize()` take no lock and can come between,
hence `EnqueuePuts` and `EnqueueEnds`. `synchronize()` copies the list, waits for
each future of the copy, and clears the list (not the copy). A worker ends for
good in two ways: `result()` of a failed dependency raises outside its `try`
(`DependencyRaises`), and so does `set_exception()` when the application has
cancelled the future (`FinishRaises`; the worker never marks a future as running,
so `cancel()` succeeds until the result is there).

`taken` is a history variable. It gives the refinement mapping to
`OrderedExecution`: the issued commands of a stream are those taken followed by
those in the queue, a command has begun when its worker has passed its
dependencies, and ended when the worker is done with it, whatever the outcome.
`owed` and `excused` say what a `synchronize()` has to wait for, and what it
cannot know of.

### JITCache

`memory` and `order` are the keys of `_memory_cache` and `_access_order`; `disk`
is the state of each file. Each section under `_lock` is one action, each file
operation another, so callers race in between as they do in the code. `Evict` is
the loop of `_evict_if_needed()`: it ends when memory is small enough, or raises
when the key it popped is not there, with the pop already done. A file is bad from
the moment it is opened for writing until the object is complete in it. `Write`
may leave it bad: `pickle` fails on a function that its module does not hold under
its name, as is what `_compile_specialized()` returns, and the exception is
swallowed. `Restart` ends the process at any point; the files remain.

Two callers that miss the same key both insert it, and the order then names it
twice; an eviction can then raise `KeyError`. `CacheSound` says what holds as
long as no callers have met on a key (`raced`), `CacheInStep` what holds always.

### HttpClient

`client` is `_client`, `session` the state of each `httpx.AsyncClient`, `task`
where a coroutine is. `connect()` does not suspend. `close()` suspends in
`aclose()`, which has by then marked the httpx client as closed; afterwards
`_client` is forgotten, whatever it is. Two coroutines can meet there: `connect()`
during a `close()` returns with the client that is closing, and of two calls of
`close()` the later one can forget a client made in between. `disturbed` names
these cases and a `close()` that fails; `NoSessionLost` holds until one of them.
`Retried` and `Raised` are the two sides of the retry: what the decorator waits
for, and what the function makes of the same exceptions.

### JobWaiter

`clock` is time in ticks, `elapsed` what the loop counts, which is the sleeps and
not the requests. `doneAt` is when the job is done. `TimeoutNotEarly` says that the
error never comes before the timeout is over, nor for a job that was complete from
the start, and that a job which is returned is complete. The docstring promises
more, see "Disagreements" below.

### OracleFeeds

One feed. A value is named by the tick of its publication. An answer carries that
tick as its timestamp, or none, and then the client stamps it with the time of its
arrival (`Stored`); `cache` is the entry of `_cache`, the value and this timestamp.
`reader` is the request of a thread, in two steps, the answer of the
server (`Answered`) and its storing (`Store`), so that an old answer can be stored
after a newer one, and a version after the latest value. `run` and `inbox` are the
threads that `start()` has made and their sockets. All share `_running`, so a
thread that has not seen `unsubscribe()` goes on after the next `start()`.
`unsubscribe()` waits two seconds at most, so nothing can be concluded from its
return; `late` counts what follows. A `TimeoutError` of the request, or of the
callback, is caught with that of `recv()`, and the update is dropped
(`UpdateDropped`, `CallbackReturns`); every other exception ends the thread.

### Wallet

`holder` has the keys of each wallet (`DualKeyWallet`) and of each signer
(`HybridSigner`). A generated key is named after the holder it was made for, so that a
secret and a public key fit if they have the same name; a Dilithium public key that is
derived from the bytes of a secret one has a name of its own (`DerivedPublicKey`), as
it is no half of it. Hence a wallet from `from_export()` has another address, and
`KeysFit` claims nothing of what it can verify; what it signs, its origin verifies.
From the phrase the ECDSA key comes back and the others are new. `close()` overwrites
the keys with zeros and refuses nothing afterwards. `lineage` is a history variable.

### Provenance

`registry`, `verifier` and `verdict` are the registry's issuers, a verifier made from
it and `_verified` of each datum. `check` is what a coroutine is about: "verifies" is
before the own tests of the verifier on its next credential, "executor" while didkit
works, during which days pass and other coroutines run. A verdict is remembered
without a date: `verify()` says "valid" after an expiration (195), which
`ToldOnGrounds` excepts by `cached`.

### Circuits, ProofPipeline, ModelRegistry

`circuits` are the results of every way of converting and compiling a model; what
raises is not enabled. Some results say other than what was asked for:
`convert_with_calibration()` validates nothing; a SavedModel directory, as in the
converter's own example (234–238), raises when it is hashed; `supports_target()`
accepts two targets that `compile()` does not; circuits of TensorRT say 16 bits for
fp32 and int4.

`proofs` are what a caller may hold: generated by `Generate` or of other origin. A
verdict (`Status`) is a function of a proof, a key, the expectations and the day. The
platform verifiers (251–337) accept what has the fields. A generated proof is accepted
with the key of its circuit only if the application built the circuit with keys that
belong together (`OwnCircuit`), not if the tools made it, see "Disagreements".
`ProofsHoldUp` follows a proof from `Generate` to `Status` and is about the former. A
hybrid proof is not compared with the report data of its attestation (767; TEE proofs
are, 706–709). The generator ignores the configured proof system (246–251) and puts a
placeholder where no output is given (278, 500). `verify_seal()` reads `seal.revoked`,
which seals do not have.

In `ModelRegistry`, `chain` is external: it decides when a model becomes active. The
object that `register()` returns says "active" at once.

### Integrations

`web` is one request with its response: what the application has sent, what is
buffered, what the client got. `AppBuffers` holds the start and the bytes back;
`AppStreams` switches over when they exceed `MaxCapture` and sends them first;
`AppPasses` is every chunk after that, and `AppSendsOther` a message that is neither
start nor body, which goes out at once and so may overtake the held start. An
application that returns while its last message said `more_body` loses what is
buffered (177). A sink that raises makes `send()` raise in the application, which may
go on: the chunk stays in the buffer, or, if it was the first that does not fit, the
response counts as streamed although its start and its buffer are still held. From
then on the record is `Refused`, and `BodyForwarded` claims only that the client gets
a rest of the response in order. `call` is a wrapped call of a thread, whose record is
made after the output, by a sink that may suspend or raise (what it was handed, it
has); `last_verification` is shared by all.

### DevicePool, CurrentDevice

An action is what a thread does between two accesses to what is shared.
`initialize()` tests twice, under the lock the second time. `get_stream()` tests and
sets `_in_use` without one: `raced` names the streams that two threads found free at
the same time, which are the only ones with two users. In `CurrentDevice` each
object has its `_context_stack`, and all write the class attribute `_current`.
`disturbed` names what breaks the nesting: threads that come between, and
`Runtime.initialize()` inside a context, which the exit undoes. With only a CPU
`get_default()` makes a new object at every call (`MakeDevice`).

### DataParallel, Pipeline, Schedules, Optimizers

Parameters are positions with sizes. `BuildBuckets` goes from the last to the first;
`AssignParam` gives a parameter to the current rank and moves on when the rank has its
share. The count of ready gradients is never reset, and nothing is transmitted.

In `Pipeline` each process has a group of its own. `Order` is the order of forward and
backward steps of a stage in either schedule, `StageForward` one forward pass. What is
sent stays in the sender's buffers and `recv()` fills nothing, so what later stages
compute from is `Blank`; the docstring says that inputs are "only used at stage 0",
but every stage indexes them, and one without raises (`StageFails`). The schedule
"interleaved" is documented and raises. `Request.wait()` has nothing that would wake
it: `waiting` never decreases.

`Schedules` has the rate as an integer; cosines are per mille and only steps that
divide it are taken. `set` is the last rate set and the number of workers it was
set for. Except for `StepLR` a `step()` computes from the base rates and so undoes the
scaling; a checkpoint's `world_size` is never read; `WarmupLR` goes below zero after
`total_steps`; `state_dict()` lacks the base rates and the period of warm restarts.

In `Optimizers` a state is named by the order of its making, `dict` holds the states
themselves, as the code does, so that two optimizers may share them. `Module.to()`
makes new parameters (`moves`): an optimizer from before keeps the old ones. "momentum"
stands for Lion as well, "adam" for LAMB. `save_checkpoint()` of a model with a tensor
raises in `pickle` after the file has been emptied (`SaveCheckpoint`).

### Tensors, Layers, Modules

A tensor is a record of its fields, its lazy operation and its storage; `ShapeOf` and
`DTypeOf` are the properties that a lazy tensor computes from its operands. `Realized`
takes shape, strides and storage from the result, but not the type: the sum of an
int32 tensor promises int64 and is int32. `told` is what was promised. Views share
storage and are made of a realized tensor. Left out, as inputs: several dimensions of
which some are negative (`mean((-2, -1))` reduces the wrong one), `squeeze(-1)`, which
takes the wrong one as well, negative steps (`t[::-1]` of six has one of six elements
but counts backwards), numbers out of range, which are not checked, and a tuple
`t[:, 0]`, which indexes dimension 0 twice. The inner dimensions of `matmul` are not
compared.

`Layers` puts layer upon layer on an activation's shape `x`; `fit` says whether each
layer had the width of what it was given. A `key_padding_mask` raises
`AttributeError` and is left out.

In `Modules` setting an attribute to a parameter, a buffer, a module or anything else
changes one registry and what hides the others. A parameter is an object, which may be
held under several names or by several modules; `order` is the order of the dictionary
of a module, as `named_parameters()` lists a parameter of it under the first of its
names only (`ListedNames`) and `state_dict()` under each. Setting `None` leaves a name
registered (`SetPlain`), `append()` after a deletion overwrites (569), and
`load_state_dict()` compares keys and copies nothing. `.to()` makes two of a tied
parameter (444–457).

### Quantization

A tensor is its least and greatest value, a scale a fraction. `Observe` widens the
range, `QParams` computes scale and zero point, `QuantizedBy` rounds as Python does,
halves to the even number. `ConvertModel` goes through the places of a model and may
raise half way, which leaves a model that was converted in place half converted
(628). The deep copy of any model with a tensor raises, as its lock cannot be copied,
so `quantize()` and `prepare()` raise for every model with layers (`QuantizeCopy`).
Not all is as in the names: `QATLinear.from_float()` copies no weights, default scales
per channel do not fit weights that are not square (`Misfits`), and the zero point of
data of one sign lies outside the bits.

### Compliance, Scrubber

`frameworks` counts how often the list of a checker has each, as one that was given
twice survives a removal. `Violates` is one rule, `Verdict` all. Without an SLA the
rules about levels pass; consent, disclosure, privacy and sealing, which rules name,
are never checked, nor is SOC2-001. The data is the set of types that the sanitizer finds, which
has no patterns for seven of its types.

In `Scrubber` a text is its positions, and what each pattern finds is given.
`Deduplicate` and `FilterAndDedupe` choose among overlapping finds; `Sanitize` and
`Anonymize` replace from the last to the first in a text that changes under them.
The sanitizer chooses by confidence only among finds of the same span, so that others
that overlap damage each other and leave part of the text; `ScrubbedExactly` says
nothing of those. Around Presidio, an analysis that raises (845) counts as one
that found nothing, so that the text comes back as it was with
`compliance_passed`; when the rest raises, the text comes back and has failed
(`EndScrub`). A framework without entities of its own means all entities, which are
left out. A batch runs `MaxConcurrent` calls at a time.

## Runs

All runs but the two for subscriptions say `CHECK_DEADLOCK FALSE`: a frozen event
loop really stops, an application may hold every block it can, a worker may have
died, a wait for a job ends, and a training run or a request is over at some time.

| Run | Question | Result |
|---|---|---|
| `realtime_safety` | do the session properties hold until interference, with two connections, two attempts, heartbeat, subscriptions and cancellation | pass, 1,166,826 states |
| `realtime_liveness` | does the client leave `CONNECTING` and `RECONNECTING`, does its reconnect loop end, is a dead socket noticed, when nothing is resubscribed and nobody cancels | pass, 105,149 states |
| `realtime_disconnect` | is a client disconnected after `disconnect()` | no: the back-off state is `DISCONNECTED`, the call returns at once, the loop connects afterwards |
| `realtime_stuck` | does it leave `RECONNECTING` when there are subscriptions | no: a heartbeat timeout during the resubscription finds the reconnect task still alive and starts none |
| `realtime_freeze` | does the event loop always go on, on Python 3.12 | no: an old receive loop joins the new one on its socket and spins |
| `realtime_subscriptions` | do registry and server agree, is what stays registered in the end subscribed at the server of a connection that lasts, does every completion move on | pass, 38,641 states |
| `realtime_queuing` | does an iterator stop once its jobs are complete | no: an event that happens while disconnected is lost |
| `device_runtime` | through reuse, sharing, merging and trimming: has no block two owners, is it of the class asked for, is the usage exact, is no memory lost; do commands run in order and after their dependencies, does `synchronize()` wait; are cache and access order in step, also after a restart | pass, 137,015 states |
| `services` | does an HTTP client that coroutines share lose no session; does a wait for a job never time out early; are feeds recent, whatever fills the cache, and does a subscription end; is every command of a stream settled, unless its worker dies or waits for an event | pass, 433,069 states |
| `applications` | of each part that an application uses beside the node, the properties in the table below | pass, 831,535 states |
| `http_retry` | is a timeout retried before it is reported | no: the function converts the exceptions its decorator waits for |
| `memory_pool_size` | is a block at least as large as asked | no: a class holds smaller blocks, and a search does not look at the size |

`PROJECT.json` quotes, for each of the six that fail, what the code promises.

A behaviour of `applications` is of one part, which `part` names, and each of its
invariants is a conjunction that says of the parts it is about:

| Invariant | Says |
|---|---|
| `KeysFit` | a signature verifies only with keys of the same origin: not if it was made after `close()`, not with a wallet from the same phrase; and with all of them but those of a wallet from an export, of which nothing is claimed. A secret is shared with whom it was sent to |
| `ToldOnGrounds` | whoever is told that credentials are valid: at some moment of the call each was within its dates, trusted and recent |
| `ProofsHoldUp` | a proof generated for a circuit of the application is valid for whoever has its key, exactly if all that he expects of it is so and its attestation, if any, is of a known platform and recent |
| `WrappersFaithful` | `BodyForwarded`: what the client has and what is buffered is what the application sent, once and in order, until the record of a streamed response is refused, and a rest of it after that. `CallsRecorded`: who got an output has its own envelope in the sink |
| `DevicesShared` | `OneUserPerStream`: no stream has two users but by one race. `ContextRestored`: contexts that nest restore the device before them, whoever enters them |
| `TrainingHolds` | `DividedInOrder`: every parameter is in one bucket and of one rank. `StagesInOrder`: every stage does every micro-batch once. `RateScaled`: scaling by workers is exact. `StateFollowsParameter`: a state is used for the parameter it was made for |
| `ModelsHold` | `PromiseKept`: a tensor has the shape it was promised with, and the type if one of the two is floating-point. `ViewsInBounds`: views of views stay in their storage. `FitKeepsRows`: layers that fit keep the rows. `RoundTrip`: what `state_dict()` returns can be loaded, and `named_parameters()` lists each parameter of a module under one name, which is saved. `ObservedInRange`: what was seen is represented |
| `DataGuarded` | `StricterFails`: more data, more frameworks, a stricter mode or less privacy never make a check pass. `ScrubbedExactly`: of the finds nothing is left, and of the rest nothing is lost |


Bounds. Two connection names are enough for a live connection and one abandoned open
connection with its loops, the least that shows every interference; names are reused,
so histories are not bounded. `MaxAttempts = 2` has a first, a middle and a last state
of the counter (0, 1, 2), and `realtime_disconnect` needs 2 for a back-off between two
attempts; liveness uses 1, where every dial is the last. `ConnSymmetry` is sound
there: connections are interchangeable, and the run has no liveness property. In
`realtime_freeze` the constraint `Undisturbed` keeps the search to the shortest
mechanism and can only hide violations. In the subscription runs one iterator watches
one job and the other both, so that messages have none, one or two recipients;
`LastStage = 1` makes every event a completion, the only one the properties are about.
`UsersBreak` is off in `realtime_queuing`: an application that leaves answers the
question.

In `device_runtime` three blocks are the least with which a merge leaves another
block in a list. Of the requests 1, 3 and 5 the first fits the class of 1, the
second is smaller than its class (4), and the third is large. The addresses 1 and
4 lie apart by a 3, so blocks are adjacent, or have the same address, or neither.
`MaxRefs = 2` has a shared block. Blocks are interchangeable, so `BlockSymmetry`
is sound. `memory_pool_size` needs only a 3 and a 4.

Two streams and two commands have every order within a stream and a dependency within
and across streams; a second thread can enqueue or synchronize during a
`synchronize()`. Streams and threads are interchangeable, and the run checks safety
only (`StreamsInOrder` has no fairness), so the symmetry is sound there; `services`
uses none, and one thread, which is enough to enqueue and to depend. Two callers and
three keys, one of them with a file, in a cache that holds one: the shortest order in
which a key is named twice and evicted is reached, and so is an eviction that raises.
`MaxOrder` bounds the access order, which a race can make longer than memory; 4 leaves
room for each key and one duplicate.

In `services` two coroutines meet in every pair of operations of the HTTP client, and
three sessions leave one more than they can have open. A timeout of 5 with an interval
of 2 has a last interval that passes the timeout, and requests of up to 3 ticks take
longer than an interval; a job is done at any tick of a wait or after it. One reader
and two threads of a subscription share a cache: two of them request while the third
changes it. Two published values and a freshness of one tick have a cached value that
is recent and one that is not, and so does one that was stamped on arrival.
`MaxMessages = 1` has an update that was announced before a newer value. `doneAt` is
fixed in the behaviours of the other parts, where nothing reads it.

In `applications` the bounds of a part are the least with which its cases happen.
Three holders are a wallet, one restored from it and a signer that shares its
keys. Two credentials make a presentation of which one is good and the other not,
one day and lifetimes of one day an expiration during a call; the checker is one,
as calls share nothing but the verdicts. One circuit, by every way of making one,
and one proof: a verdict is about one. Bodies of up to four bytes and a buffer of
two cover a response below, at and above the limit, in every cut. Two threads and
one preallocated stream race for it and create another; two device objects and two
threads nest to a depth of two. Three ranks, parameters of sizes 1 to 3 and a
bucket of 4 have buckets that are left open, filled and exceeded, and ranks
without a parameter; three stages and up to three micro-batches have fewer, as many
and, in the steady phase, more than the warm-up takes. The rate is 4000, so that
the factors of two and of ten used by the schedulers divide it. Three tensors of
the shapes (2, 3) and (3) have an operation on operations and a view of a view;
broadcasting, reduction and indexing meet in them. Two parameter groups and two
optimizers can exchange states. A text of three characters and two patterns have
finds that touch, overlap, contain each other and are equal. Three bits and values
from -2 to 3 have ranges of one sign, of both and of one value.


No run sets `ReconnectEnabled` to `FALSE`; the theorems cover it.

Fairness. asyncio serves ready callbacks in order and every wait of the connection's
coroutines has a timeout, so each of them gets weak fairness, until a loop that never
suspends freezes everything (`~Frozen`). `HeartbeatStep` needs none for what is
checked. asyncio.Lock serves its waiters in order, hence strong fairness for what
waits for the subscription lock. The worker of a stream is a thread that is always
scheduled again, and the functions it runs return, hence weak fairness for each
worker; nothing makes the application signal an event, so a wait for one is an
exception in `OnlyWaysToStall`. The same holds of the threads of a feed subscription:
connecting, `recv()` and requesting have timeouts, and callbacks return. Users,
network and the progress of jobs have no fairness; `ReconnectLoopEnds` and
`StopsWhenAllComplete` state what they need from them as a premise.

## Proofs

`RealtimeConnectionProofs` proves, for any sets of application coroutines and
connections, any `MaxAttempts` and all settings of the flags:

| Theorem | Says |
|---|---|
| `TypeCorrect` | `Spec => []TypeOK` |
| `SessionCorrect` | `Spec => []SessionInvariant` |
| `DialExclusionHolds` | `Spec => []DialExclusion` |
| `ConnectedIsServedHolds` | `Spec => []ConnectedIsServed` |
| `FullDisconnectIsFinalHolds` | `Spec => []FullDisconnectIsFinal` |
| `ConnectedSocketStaysHolds` | `Spec => ConnectedSocketStays` |

The argument. `DialExclusion` is not inductive: that nobody else starts a dial
depends on the state being `CONNECTING`, and that on what `disconnect()`, the
loops and the reconnect loop may write meanwhile. `UndisturbedSession` is the
strengthening, in ten named parts: who may be calling (`OneUserCall`), what a
dialer may rely on (`OneDialer`, `DialerOwnsState`, `DialerOwnsSocket`), what
`disconnect()` has already stopped at each of its stages (`DisconnectingIsDown`,
`StagesPassed`, `ClosedForGood`), and what a connected client has
(`SessionServed`, `AttemptsRenewed`, `HeartbeatOfSession`). `AttemptsRenewed` is
the least obvious one: a reconnect loop that wakes up while the client is
`CONNECTED` must not take the branch that gives up, which would overwrite the
state, and it does not because the successful dial reset the counter. That needs
the only assumption beyond typing, `MaxAttempts >= 1`. The proof has one step per
action; TLC checks the same invariant in `realtime_safety`.

`RealtimeSubscriptionsProofs` proves, for any iterators, jobs and stages
(`SubscriptionAssumption`):

| Theorem | Says |
|---|---|
| `SubscriptionTypes` | `Spec => []TypeOK` |
| `ServerStays` | `Spec => []ServerInStep` |

`ServerInStep` compares the registry with what the server has once it has read
what is under way. It is nearly inductive; `LinkInvariant` adds that a connection
that is lost took along what was sent on it and what the server had, that a live
one is never taken for lost, and that nothing is left to resubscribe when nobody
holds the lock. What the server will know of a subscription is decided by the last
message about it (`Subscribes`), or, if there is none (`Silent`), by what it knows
already; the lemmas say what sending, handling and losing messages do to that.

`RuntimeProofs` proves of the pool, for any finite set of blocks, any ascending size
classes, any requests and addresses (`PoolAssumption`):

| Theorem | Says |
|---|---|
| `PoolHasOneOwner` | `PoolSpec => []OneOwner` |
| `PoolKeepsClass` | `PoolSpec => []OfTheClass` |
| `UsageStaysExact` | `PoolSpec => []UsageExact` |
| `NothingGetsLost` | `PoolSpec => []NothingLost` |
| `PoolTypeCorrect` | `PoolSpec => []PoolTypeOK` |

There are two invariants. `PoolInvariant` is about places: to the two properties it
adds `Filed`, a free block is in the list that its size belongs to, without which
`OfTheClass` says nothing about a reused block, and `Shape`, the part of the types
that the steps need. `KeptByTrim` shows that what `trim()` pops is the end of each
list even if it fails half way. `Accounts` is about bytes: the types and the two
sums. `defragment()` is the step that needs an argument. The blocks in the order of
their addresses fall into chains of neighbours, each of which ends up in its first
block, the leader (`CoveredChain`); `MergedSoFar` goes through them from the lowest
address and shows that what the leaders so far cover, and what there is so far of
the last chain, is what the blocks so far had (`Balanced`).

It proves of the rest, for any callers, keys and sizes (`CacheAssumption`), any
commands, events, streams and threads (`StreamAssumption`):

| Theorem | Says |
|---|---|
| `CacheTypeCorrect` | `CacheSpec => []CacheTypeOK` |
| `HitsNeverFail` | `CacheSpec => []CacheInStep` |
| `CacheStaysSound` | `CacheSpec => []CacheSound` |
| `StreamTypes` | `StreamSpec => []StreamTypeOK` |
| `SynchronizeIsEnough` | `StreamSpec => SynchronizeWaits` |
| `StreamsImplementOrder` | `StreamSpec => StreamsInOrder`, the refinement of `OrderedExecution` |
| `DeviceTypes` | `Spec => []DeviceTypeOK`, in the composition `MCDeviceRuntime` |

The first two are inductive together. A hit removes one occurrence of its key from
the order and appends it (`MoveKeeps`); an eviction takes from memory what it takes
from the front of the order, so what is left in memory is named in the rest
(`EvictKeeps`), also when it raises half way. `CacheSound` needs more, and only
while no two callers were busy with one key (`~raced`): then `Orderly` says that
the order names what is in memory, each key once (`OrderNames`), that callers are
apart (`Apart`), that a key being looked for is not in memory (`NotYet`), that a
file which was found is still there (`FilesThere`), and that nobody failed.

`StreamInvariant` says where a command can be. It is enqueued, taken or finished in
one place of one stream (`OnePlace`); a worker is busy with the last it took
(`LastTaken`); a future has a result or an exception only if its command ran and ended
(`FuturesFit`); a thread that is putting a command has put it (`PuttingIsPut`); and
what is not settled is in the list of its stream, and what a thread in `synchronize()`
owes its caller is settled, excused or in the list that it copied (`WaitsSuffice`).
For the refinement, `BeginBegins` shows that everything issued before what a worker
begins has ended, and what it depends on too; `PutIssues` and `FinishEnds` map the
other two steps, and the rest stutter.

`ServicesProofs` proves, for any coroutines, sessions, readers, threads and
numbers (`HttpAssumption`, `FeedAssumption`, `JobAssumption`):

| Theorem | Says |
|---|---|
| `SessionsKept` | `HttpSpec => []NoSessionLost` |
| `LateCallbacks` | `FeedSpec => []OneLateCallback` |
| `CallbacksCurrent` | `FeedSpec => []CallbackCurrent` |
| `AnswersRecent` | `FeedSpec => []LatestIsRecent` |
| `NeverEarly` | `JobSpec => []TimeoutNotEarly` |
| `ServicesTypes` | `Spec => []ServicesTypeOK`, in the composition `MCServices` |

`NoSessionLost` says that a closed `_client` belongs to a suspended `close()`. The
next step may end that call, so `OneCloser` adds that nobody else is in `close()`
and that it closes the current session; `disturbed` is what excludes the others.
`LateInvariant` says where a thread that has called back since `unsubscribe()` can
be: still in the callback, about to look at the flag, or at its end. A `start()`
must also clear the counts, as a thread that was about to end then goes on.
`FeedInvariant` says what a suspended call knows (`ReaderTrue`, `RunTrue`): what it
is about to store was the newest value at some moment since it asked, what it
returned was so less than the life of the cache before it asked, and a thread calls
back with nothing older than what it was woken for. What came without a
timestamp is stamped with a tick that says nothing about it, so the invariant follows
the values whose timestamp is their own. `JobInvariant` says that the time is at least
`elapsed`, which counts sleeps only, and that after a sleep the job was not complete
from the start.

`TrustProofs` proves, for any coroutines, credentials, issuers and days; wallets,
signers and signatures (`WalletAssumption`); models, inputs, keys and days
(`ProofAssumption`); bodies, limits and calls (`IntegrationAssumption`); frameworks,
regions and finite data (`ComplianceAssumption`); texts, patterns, confidences and
replacements (`ScrubberAssumption`):

| Theorem | Says |
|---|---|
| `VerdictsHaveGrounds` | `ProvenanceSpec => []ToldOnGrounds` |
| `KeysAlwaysFit` | `WalletSpec => []KeysFit` |
| `ProofsKeepUp` | `ProofSpec => []ProofsHoldUp` |
| `WrappersStayFaithful` | `IntegrationSpec => []WrappersFaithful` |
| `StricterChecksFail` | `ComplianceSpec => []StricterFails` |
| `ScrubbingIsExact` | `ScrubberSpec => []ScrubbedExactly` |

`ToldOnGrounds` looks at the end of a call; `CheckHolds` says the same of what a
call has looked at so far (`Looked`), which depends on where it is suspended. Two
facts carry it over the suspensions: a day more only adds a day on which there may
have been grounds (`ADayMore`), and a credential that is being checked exists, so
it is not issued again (`CredentialComes`). The verifier is made once, before any
call of it (`VerifierComes`). One lemma per action of a coroutine shows that its
own call still holds, and `OneCheckChanges` that the others do.

`KeysFit` compares two holders, which may have got their keys over any number of
exports; `KeysInvariant` compares each with the origin of its keys instead. The
origin is a `Founder`, for whom the keys were generated and whose classical key
never changes; what was taken from it, be it a holder, an export or a signature, has
its classical key, and its secret key or the zeros of `close()` (`FromOrigin`); and
the public key of a holder is the origin's, or derived if it was restored
(`Inherits`). `WalletAssumption` says that nobody generates the zeros as a key, nor
the hash of a key, which is what a derived public key is.

`ProofsHoldUp` needs to know of circuits and proofs what `VerdictInvariant` keeps: the
keys of a circuit that the application built belong together (`CircuitFits`), and every
proof that goes around is of an enclave or was generated from one of the circuits, its
attestation one there is, and production then off (`ProofFits`). `HoldsUp` goes through
the verdict: the expectations are tested first, then the key (`OwnKeyVerifies`), then
platform and age (`AttestationCounts`).

`WrappersFaithful` compares what the application sent with what the client has and what
was recorded. `WebFits` says where the bytes are in between (`ResponseFits`): all passed;
all in the buffer as long as the start is held, alone or overtaken; all with the client
once it is streamed; all with the client when it was ended, unless the application
returned without an end; and after a refused record a rest of them, of which no more
is lost than was sent before it and no less than is in the buffer. What was read and
captured keeps its limits. `CallsFit` says that a wrapped
call which returned to a sink has its envelope there, and that `last_verification`
is of a call that ended.

`StricterFails` compares the verdict of a check with that of any stricter one. Each
rule that is violated is violated by more data and by an SLA that grants less; what
keeps a check from passing is a violation that is fatal in its mode (`Fatal`), which
stays one in strict mode. Only that `passed` follows the violations is an invariant;
the rest is about the operators. The data must be finite, because one rule
counts it.

`ScrubbedExactly` is about what two loops make of a text that shifts under them.
`Scrubbed(u, b, gone, visible)` is the invariant of the loop that replaces from the
end: before `b`, where the last replacement began, nothing has moved yet
(`Unshifted`); what is left of the text from `b` on comes from there (`Scraped`);
it is in its old order (`Rises`), was not found or may be seen (`Shows`),
and nothing that was not found is missing (`Leaves`). `ReplacedIs` shows that one
replacement keeps that if its span ends before `b`, and so `ScrubbedIsExact` that of
finds which do not overlap nothing is left. That what is replaced does not overlap is
the other half. The finds are listed by rank and sorted by a
bijection (`ListedIs`, `SortedIs`), so a sorted list has the same finds; a fold that
keeps a find only if it lies apart from those kept (`FilteredIs`) leaves disjoint ones,
and for the sanitizer, which does less, the property excludes finds that overlap
(`ScanIsDisjoint`).

`ModelProofs` proves, for any shapes (`TensorAssumption`, `LayerAssumption`), modules
and names (`ModuleAssumption`), bits and batches (`QuantizationAssumption`):

| Theorem | Says |
|---|---|
| `TensorsKeepPromises` | `TensorSpec => []TensorsHold`: `TensorTypeOK`, `PromiseKept` and `ViewsInBounds` |
| `LayersKeepRows` | `LayerSpec => []FitKeepsRows` |
| `SavedCanBeLoaded` | `ModuleSpec => []RoundTrip` |
| `ObservedIsRepresented` | `QuantizationSpec => []ObservedInRange` |

`TensorInvariant` is `Sound(tensors)`. `Promises` says that the shape that a tensor
computes from those it is made of is the one that was promised, and so is the type
where one of the two is floating-point, one tensor after the other; `ShapeOf` and
`DTypeOf` are recursive functions, which exist and are unique by `RecursionExists`.
`Stored` says that what has been realized has all its elements in its storage
(`Backed`), and what has not has none. A view changes both shape and strides: an index
or a slice moves the offset by what the reach loses, and a permutation adds the same
terms in another order, which is what the laws of folds that do not depend on the
order are for.

`LayerInvariant` says that as long as the layers fit, the activation is the given one
but for its last dimension (`KeptRows`). For modules the invariant is the type
invariant, which says that no name is registered twice in one module and that modules
form a tree, and `OrderFits`: the dictionary's order has each name that holds a
parameter once. The proof is about the recursive descents of `state_dict()` and
`load_state_dict()`, which collect parameters and buffers together or apart and must
find the same names; that the memo leaves each parameter its first name, and no other,
is `ListedOnce`. `QuantizationInvariant` says that an observer's range covers what it
has seen since its reset (`Watched`); the rest is the arithmetic of rounding.
`QuantizationAssumption` states two facts about powers of two, which are true of every
number of bits, because the provers know nothing of `^`.

`ApplicationProofs` proves, for any threads, streams and devices (`DevicePoolAssumption`,
`ObjectAssumption`), ranks and parameters (`DataParallelAssumption`), stages and
micro-batches (`PipelineAssumption`), rates and worker counts (`ScheduleAssumption`),
and parameter groups (`OptimizerAssumption`):

| Theorem | Says |
|---|---|
| `StreamsHaveOneUser` | `DevicePoolSpec => []OneUserPerStream` |
| `ContextsRestored` | `CurrentDeviceSpec => []ContextRestored` |
| `ParametersAreDivided` | `DataParallelSpec => []DividedInOrder` |
| `StagesStayInOrder` | `PipelineSpec => []StagesInOrder` |
| `RatesStayScaled` | `ScheduleSpec => []RateScaled` |
| `StatesFollowParameters` | `OptimizerSpec => []StateFollowsParameter` |

and, in the composition `MCApplications`, for every value of the constants of all parts:

| Theorem | Says |
|---|---|
| `DevicesStayShared` | `Spec => []DevicesShared` |
| `TrainingStaysSound` | `Spec => []TrainingHolds` |
| `ModelsStaySound` | `Spec => []ModelsHold` |
| `DataStaysGuarded` | `Spec => []DataGuarded` |
| `ApplicationsStayTyped` | `Spec => []ApplicationsTypeOK` |

`OneUserPerStream` counts users; `StreamsInvariant` says that the set of a stream's
users is empty or has one member, which each action changes for one stream only
(`UserTakes`). `Initialize` is the step that needs more: that the lock is held by
the one thread that creates, and that before it nobody scans and there is no stream,
so none of the threads that wait can create again. `UserMoves` covers the steps that
take nothing. For the contexts, the current device and the stacks of all devices
must be read together: `Nested` says that the stack of a device remembers, for each
context of it that is open, the device of the context around it
(`Recalled`), and that the current device is that of the innermost one; a thread
between the two accesses of `__enter__` or `__exit__` has one of the two done
(`EnteringKept`, `LeavingKept`). All of it holds while nobody disturbs.

`DividedInOrder` is about two greedy loops. A `FoldLeft` is unfolded to a chain
`h[0], ..., h[n]`, of which each element is one step on from the last, and
`NaturalInduction` shows that each `h[k]` has divided the first k parameters: no bucket
but one of a single parameter exceeds the limit, no rank before the current one has its
share before its last parameter, and flattened they are the parameters in order
(`DividedInvariant`). `DataParallelAssumption` has no parameters of size zero: one
would be given to a rank that has its share already. `PipelineInvariant` says that the log
of a stage is 1, 2, ... as far as it goes, with as many results passed on. `RateScaled`
is inductive with the types (`ScheduleInvariant`), since a change of the workers is taken
only where the division is exact. `OptimizerInvariant` adds to `StateFollowsParameter`
that the saved dictionary follows the parameters too, whose states are shared with the
optimizer that saved it.

`ApplicationsStayTyped` takes all parts together (`PartsTyped`): for each part the
invariant of its own theorem, and where the types need more, a second one, such as
`DevicePoolTyped` (the lock is held by whoever creates), `RegistryTyped` (what is
registered is of a circuit that was built), `DataParallelTyped` (a bucket counts at most
one beyond its parameters) and `OptimizerTyped` (plain SGD has no state). Two type
invariants that held in the run's bounds were not true of all values: `ScheduleTypeOK`
bounded the rate by `MaxLR`, which later epochs exceed, and `LayerTypeOK` said that no
activation has more than three dimensions, which one of four that passes through
an activation function has. Both now say what holds.

`SequenceLemmas` has what these proofs keep needing. The library's induction cannot
be instantiated, so an induction is a least counterexample: `LeastNatural` gives the
least number of a set, and a property that fails somewhere fails first somewhere.
That is how `Total`, a sum over a finite set, gets its laws: `SumsExist`, and from
it `TotalOfOneMore` and `TotalOfBoth`. `NaturalInduction` is induction over a set of
numbers instead of a predicate. `FoldExists` says that a fold is the end of a chain, and
`FoldStays` that what each step keeps the end has; `FlattenOfOne`, `FlattenOfMore` and
`FlattenOfLonger` are the laws of `FlattenSeq`; `RecursionExists` gives the function that a
recursive definition over `1..n` means. `FoldTakesAny` says of steps that commute that
the fold over a finite set may take its members in any order, `ChainIsFold` and
`ChainsAgree` that it is then the fold along any sequence of them.

Only model-checked are the liveness properties, which need fairness and `ENABLED` and
are out of the prover's reach: the four of `realtime_liveness`,
`SubscriptionsComeBack` and `CompletionMovesOn` of `realtime_subscriptions`, and
`OnlyWaysToStall` and `ThreadsEnd` of `services`. Every invariant and every action
property of the passing runs is proved, and so is the refinement.

## Not modelled

Message contents, latency metrics, back-off delays and jitter. A cancellation of
`disconnect()` itself, and the race in which `asyncio.wait_for` swallows a
cancellation that arrives together with a result. The asynchronous close
handshake on `async with` exit is `disconnect()`. In the subscriptions: seal and
block channels (the same paths with another `matches`), status filters, and
`add_job_id`/`remove_job_id`, which nothing calls on a registered subscription.
In the pool: memory types and alignment, the contents of a block, the peak and hit
counters, and a lost increment of `add_ref()`, which takes no lock. In the
streams: time stamps of events and the unused priorities and thread pool. In the
cache: how a key is computed (it hashes the bytecode, not what the function closes
over), and two processes that share the directory.
In the HTTP client: pools of connections and the time between attempts; the
synchronous client, which runs one call at a time. In the oracle client: several
feeds, which share nothing, and what a value and its attestation are.

Of the applications' side: what is computed of values (element values of tensors,
gradients and updates, losses, the bytes of keys, hashes and quotes), which the code
in part only stands in for; the tensor-parallel layers and gradient compressors of
`distributed/`, the Keras callback, `verify_on_chain()` and the pages of the
registry, which pass on what they are given; hooks and `train()` of modules;
observers other than min-max, which in the code watch nothing. The patterns of the
scrubbers and what Presidio finds are inputs.

Not modelled at all: the profiler, a list of times that is written out;
configuration, types, errors and utilities, which are declarations; the command
line, one call per command; the build backend.

## Disagreements

The six runs that fail show where the code does other than its documentation says;
`PROJECT.json` quotes both. The following were found while modelling. The models
contain them, and the properties are worded so that they claim nothing of them.

- *A wait for a job* (`jobs/__init__.py`). Line 163 says "Maximum seconds to wait" and
  169 that the error comes "If job doesn't complete within timeout". The loop
  (173–180) counts its sleeps and not its requests, so it may wait longer, and it
  does not ask again after the last sleep, so a job that completes within that sleep
  is reported as not complete.
- *Recovery of a wallet* (`core/wallet.py`). 620–629 says "Restored wallet" and
  697 that `export_keys()` is for "full wallet recovery". Of the Dilithium key only the
  secret half is restored; the public one is derived from its bytes and is another, and
  the Kyber pair is new. The restored wallet has another address and cannot verify the
  signatures of the one it was made from, nor its own.
- *Proofs for the tools' circuits* (`proofs/`). `verifier.py:13–16` and
  `examples/proof_verification.py:207–217` show a generated proof that is valid under
  the circuit's verification key. `generator.py:287` stores the hash of the proving key
  as `verification_key_hash`, and `verifier.py:399–400` compares it with the hash of
  the verification key, so for no circuit of the converter or the compiler is a proof
  valid.
- *Undated answers of an oracle* (`oracles/client.py`). `get_feed()` with a version
  puts that version into the cache that `get_feed_by_did()` reads. Its timestamp keeps
  it from passing for a recent value, but an answer without one is stamped with the
  time of its arrival (127–129), and is then served as the latest value for a minute
  (408–410, "Check if still fresh").
- *A refused record* (`integrations/fastapi.py`). When the sink raises as a response
  is about to be streamed, `streamed_passthrough` is set already (157) and the start
  not yet sent. If the application goes on, its next chunk reaches the client without
  a start before it (148–150), and what was in the buffer and the refused chunk are
  lost. A message of another type overtakes the held start (140–142).
- *`Stream.synchronize()`* says that it waits "for all pending operations to complete"
  (`core/runtime.py:913`), but clears the list of futures, with those appended while it
  waited (914–920); `SynchronizeWaits` in `device_runtime` names the exception.

Five weaknesses of the real-time client have no property, because no comment or
document promises otherwise and the models only show them: `disconnect()` clears
whatever `_ws` holds after its wait (realtime.py:691), `connect()` does not close
the socket it replaces (625), the queues are unbounded (373), a failed send of
`subscribe_job()` leaves its subscription registered (910), and removing the last
job id of a filter makes it match everything (456).

## Plan

Every component with state is modelled, every property of the passing runs is checked,
and every one that is not about liveness is proved. What is left is a refinement that
connects the two real-time modules: the undisturbed `RealtimeConnection` implements
the connection that `RealtimeSubscriptions` assumes.
