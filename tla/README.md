# Formal models of rmw_zenoh_cpp

TLA+ models, TLC runs and TLAPS proofs for the C++ sources under
`src/rmw_zenoh_cpp/src/detail/`. This directory holds only modules, TLC
configurations, this file and `PROJECT.json`. `PROJECT.json` is the
machine-readable index: components, runs, mutants, the map from definitions to
source lines, findings, hazards and theorems.

## The system

rmw_zenoh_cpp is a ROS 2 middleware layer over Zenoh. The code under `src/`
contains these parts:

| Part | Source | What it does |
|---|---|---|
| Service client correlation store | `rmw_client_data.cpp` (`ClientData`) | Sends a request as a `z_get` query whose reply closure carries the client. It buffers replies in a QoS-bounded deque, hands them to `take_response`, wakes `rmw_wait`, and coordinates teardown with the queries still in flight. One recursive mutex guards all of it. |
| Legacy service client record | `rmw_data_types.cpp` (`rmw_client_data_t`) | The same role in an older design. It has three mutexes (reply queue, wait-set condition, in-flight count), and its callers outside `src/` increment the in-flight count. |
| Context | `rmw_context_impl_s.cpp` (`rmw_context_impl_s::Data`) | Owns the Zenoh session and bootstraps the ROS graph cache with a liveliness query. It then subscribes to liveliness changes (`graph_sub_data_handler`), triggers the graph guard condition on every change, answers graph queries under its mutex, and shuts the session down. |
| Attachment codec | `attachment_helpers.cpp`, `zenoh_utils.cpp` | Encodes and decodes the request attachment (sequence number, source timestamp, 16-byte gid). |
| NodeData | `rmw_node_data.hpp` | A declaration only. |

How they interact: the application thread calls into a client, and the Zenoh
runtime calls the client's `client_data_handler` once per reply and
`client_data_drop` once per finished query, on its own threads. When the
client is destroyed, either the destroying thread or the last drop frees it,
which is why the object has an in-flight count and a shut-down flag. The
context's liveliness subscriber runs `graph_sub_data_handler` on Zenoh's
threads concurrently with the application's graph queries and with shutdown.

## Inventory

The hard behaviours in this code, each recorded with its line in `PROJECT.json`
under "hazards":

- **Teardown races.** A reply closure holds a raw pointer to the client. The
  client must outlive every open query, and the decision who frees it
  (the destroyer or the last drop) must be made exactly once.
- **Split critical sections.** `client_data_handler` checks `is_shutdown()`
  and appends in two separate lock scopes. Legacy `add_new_reply` appends
  under one mutex and notifies under another.
- **Lost wake-ups.** The legacy `rmw_wait` path checks the queue and
  attaches a wait set under a different mutex from the one the append holds.
  An append that lands between the two must still trigger it. The new
  `ClientData` does both under its one mutex; `NoLostWakeup` is checked there
  too, but as a property of the model rather than a hazard.
- **Data race.** The legacy `queue_has_data_and_attach_condition_if_not`
  reads the deque under the wrong mutex.
- **Bounded queues.** KEEP_LAST evicts the oldest reply at the depth, and
  KEEP_ALL grows without bound.
- **Counter edges.** The new `ClientData` decrements a `size_t` that nothing
  increments.
- **Partial failures.** Undeclaring the liveliness token can fail inside
  `_shutdown`, and `z_close` can fail inside the context's `shutdown`.
- **Hostile input.** The attachment decoder throws partway through, and it
  owns zenoh objects at that moment. It also accepts whatever follows the
  last field.
- **Ordering in the context.** The graph is bootstrapped before the liveliness
  subscriber exists. The destructor frees the guard condition before it
  shuts down.

## Modules

### `ClientData` (rmw_client_data.cpp)

**State:** the fields of `ClientData`:
- `sequence_number_`, `is_shutdown_`, `num_in_flight_` (as a `size_t` of
  `InFlightBits` bits);
- `reply_queue_` and `wait_set_data_`;
- the waiter's `triggered` flag.

It also holds per-query transport state: whether the query is unsent, open or
dropped, how many replies were delivered, and whether its handler is between
its two critical sections. Two history variables, `arrived` and `taken`,
record what was buffered and what was taken.

**Actions, one per method or callback:**
- `send_request`;
- `client_data_handler` (the `is_shutdown()` check and `z_reply_is_ok`);
- `add_new_reply` (eviction, append, trigger);
- `client_data_drop` (which runs `decrement_in_flight_and_conditionally_remove`);
- `take_response` (which pops before any error return);
- `queue_has_data_and_attach_condition_if_not`;
- `detach_condition_and_queue_is_empty`;
- `shutdown`;
- `shutdown_and_query_in_flight`, which also covers the owner freeing the client
  when it reports nothing in flight.

Each `_shutdown` chooses whether the token undeclare succeeds.
`NodeDataFound` says whether the drop path finds the node data through
`rmw_node_->data`.

**Abstract specification (`ReplyBuffer`).** This is what the client's reply
store promises, with no threads or counters:
- `Put` stores a reply that has not arrived before, evicting the oldest under
  KEEP_LAST at the depth;
- `Take` hands out the front reply until the store is closed;
- `Close` closes the store.

`ClientData` instantiates it as `RB` with `queue <- reply_queue` and
`closed <- is_shutdown`; `history`, `arrived` and `taken` keep their names.
`ImplementsReplyBuffer == RB!Spec`. Under this mapping:
- `add_new_reply` is a `Put`;
- `take_response` is a `Take`;
- a `_shutdown` whose undeclare succeeds is the `Close`;
- every other step leaves the store alone. These are the handler's first
  critical section, the drops, the wait-set calls and the counter.

**Fairness (`FairSpec`).** This is weak fairness of `add_new_reply(q)` and
`client_data_drop(q)` for each query, and of nothing else. The code justifies
both:
- a handler that passed its `is_shutdown()` check runs on into its second
  critical section;
- Zenoh always calls the drop closure of a `z_get` once the query is over.

The fairness of the drop is an assumption that every query ends: all its
replies arrive, or the session closes. A timeout does not end it in
practice, because `ClientData::send_request` sets `opts.timeout_ms` to
`UINT64_MAX` (rmw_client_data.cpp:421). A query to a server that never
finishes answering therefore keeps its `ClientData` alive for as long as
the session lasts. The liveness runs say nothing about that case.

`Put` (the handler's second critical section) has no "not closed" guard,
and neither has the store it refines. This is faithful to the code:
`add_new_reply` runs after a handler's `is_shutdown()` check, and
`_shutdown` between the two does not stop it. `ImplementsReplyBuffer`
therefore allows a reply to be queued after close.

Replies and application calls are not forced: a server may never answer, and
the application may never call.

### `ClientDataLegacy` (rmw_data_types.cpp)

It has the same actors. `add_new_reply` is split into the append, under
`reply_queue_mutex_`, and `notify`, under `condition_mutex_`.
`client_data_handler` runs `add_new_reply` twice per ok reply, as the code
does at lines 168 and 189. The racy wait-set read may answer "empty" whatever
the queue holds while an append is between its two steps. This is how the
model treats undefined behaviour: as a choice over the answers the read can
give.

`send_request` and the construction of the record happen in `rmw_zenoh.cpp`,
which is not under `src/`, so they are modelled from the spec: take the
sequence number, `increment_in_flight_callbacks`, `z_get`. The destroyer's
free after `shutdown_and_query_in_flight` is modelled the same way.

**Abstract specification (`ClientLifetime`).** This is what the in-flight
protocol promises, with no counter or mutex:
- `Issue(q)` opens a query, only before the client is destroyed;
- `Finish(q)` closes an open query, and frees the record if the client is
  destroyed and no query is left open;
- `Destroy` destroys the client, and frees the record at once if no query is
  open.

`ClientDataLegacy` instantiates it as `LT` with `Queries <- Requests`,
`open <- {q : phase[q] = "open"}` and `destroyed <- destroying`. `frees`
keeps its name, and `ImplementsClientLifetime == LT!Spec`. Under this
mapping:
- `send_request` is an `Issue`;
- `client_data_drop` is a `Finish`;
- `shutdown_and_query_in_flight` is the `Destroy`;
- the handler, the queue and the wait-set steps stutter.

The new `ClientData` does not implement `ClientLifetime`: its destroy frees
the client while a query is open (finding 1).

### `GraphContext` (rmw_context_impl_s.cpp, with GraphCache from the spec)

**Network.** A set `alive` of remote liveliness tokens. Remote nodes declare
and undeclare them (`network_change`, bounded by `MaxChanges`). While the
subscriber is declared, each change queues a put or delete sample. A transport
thread takes one sample at a time (`deliver`) and runs
`graph_sub_data_handler` with it.

**Cache.** GraphCache is not under `src/`. It is modelled as the set of tokens
it knows: `parse_put` adds one and `parse_del` removes one.

**Actions, following the constructor then subscribe():**
- `Init`: the bootstrap `zc_liveliness_get` snapshot;
- `bootstrap_reply`: one `parse_put` per reply;
- `bootstrap_done`: the channel closes;
- `subscribe`: declare the subscriber; if that fails, the constructor throws;
- `graph_sub_data_handler`: under the mutex it returns if shut down, and
  otherwise applies the sample;
- `shutdown`: undeclares the subscriber, discarding queued samples but not a
  sample a thread already holds. `z_close` may fail, which leaves
  `is_shutdown_` false;
- `get_next_entity_id`.

- `data_free_guard`, `data_destroy`: the destructor `~Data`. First it
  destroys the graph guard condition without the mutex (lines 193-200). Then
  it calls `shutdown()`, a no-op if already shut down, and the object is gone
  (lines 202-205). `guard` and `lifetime` record these two steps.

`ReleaseAllowed` is the condition under which the object may be destroyed. It
is spec-modelled, because the callers live outside `src/`. There are two
ways:
- the constructor threw after `subscribe()` failed;
- `rmw_context_fini`, which refuses a context that is not shut down.

The graph queries only read the cache under the mutex and are not actions.

**Abstract specification (`GraphView`).** This is what the cache promises,
with no transport thread, guard condition or release:
- a `snapshot` of the tokens alive when the bootstrap query ran seeds the
  cache (`Seed`, then `Seeded`);
- `Listen` declares the subscriber, or fails;
- while listening, each network `Change` joins a FIFO `pending`;
- `Apply` consumes the oldest pending sample, putting or deleting its token
  unless the context is stopped;
- `Stop` ends the listening and keeps only a prefix of `pending`. It may
  fail and leave the context not stopped.

`GraphContext` instantiates it as `GV` with `pending <- Unapplied` (the
sample a thread holds, then the queue), `snapshot <- replies`,
`listening <- subscriber_declared` and `stopped <- is_shutdown`.
`ImplementsGraphView == GV!Spec`. Under this mapping:
- `deliver` stutters, since taking a sample does not change `Unapplied`;
- `graph_sub_data_handler` is an `Apply`;
- `shutdown`, and the `shutdown()` that `~Data` runs on a context not shut
  down, are a `Stop`. They keep the sample in a thread's hands;
- the guard, the entity ids and the release stutter.

The bootstrap gap (finding 3) is a behaviour of `GraphView` itself: the
snapshot is not the network.

### `AttachmentCodec` (attachment_helpers.cpp, zenoh_utils.cpp)

The wire format is modelled byte by byte, with the widths as constants:
- **Bytes.** A byte holds `Base` values (2^8 in the code). The run uses
  `Base = 8`, which keeps the state space small and the varint structure
  intact.
- **Lengths.** A length is an unsigned LEB128 varint with groups of
  `Base \div 2`.
- **Integers.** An int64 is `IntBytes` bytes of two's complement, least
  significant first. Its signed range `Int64` wraps through
  `IntModulus = Base^IntBytes`.
- **Strings and buffers.** Each is length-prefixed.

`serialize_to_zbytes` (with `create_map_and_set_sequence_num`) builds the
three key/value pairs.

The decoding constructor is a state machine with one action per field and one
disjunct per `throw`: a wrong key, a short read, or a gid slice of the wrong
length. It records which owned zenoh objects are still allocated when it
throws: the key string and the gid slice.

A failed `deserialize_string` is modelled as leaving an empty ("gravestone")
string, which owns nothing.

The inputs are:
- every encoding of the attachments in `MCAttachments`;
- each encoding truncated at every length;
- each with one byte changed;
- each with one byte appended.

## Runs

Findings are numbered in the order of `PROJECT.json`'s "findings".

| Run | Expect | Shows |
|---|---|---|
| `clientdata_pass` (`MCClientData`, `ClientData.cfg`) | pass, 17,794 states | `ImplementsReplyBuffer`: every `ClientData` behaviour is a behaviour of the abstract reply store. `TypeOK`; `InFlightCountsDrops` (`num_in_flight_` plus the number of finished queries is a multiple of 2^w: the counter counts nothing that is open, which is the root of findings 1 and 7); `QueueHoldsNewestReplies` (the queue is the newest suffix of what was buffered, within the depth); `TakenInArrivalOrder` (taken plus queued is an in-order subsequence of arrivals, and all of them under KEEP_ALL); `NoLostWakeup`. |
| `clientdata_teardown` (`ClientDataTeardown.cfg`) | violation of `NoCallbackAfterFree` | `send_request` then destroy frees the client while its query is open, because nothing increments `num_in_flight_` (finding 1). |
| `legacy_pass` (`MCClientDataLegacy`, `ClientDataLegacy.cfg`) | pass, 108,585 states | `TypeOK`; `NoCallbackAfterFree` (the in-flight protocol frees only after the last query, whichever of the destroyer or a drop does it); `NoLostWakeup` despite the racy read. `ImplementsClientLifetime`: the record follows the abstract lifetime, issuing only before destroy and freed exactly when destroy or the last drop leaves no query open. |
| `graph_pass` (`MCGraphContext`, `GraphContext.cfg`) | pass, 3,427 states | `SubscribedTokensTracked`: while the context is live, every token that changed after the subscriber was declared is in the cache (once the samples in transit are applied) exactly when it is alive. `GuardFreedOnlyWhenQuiescent`: `~Data` frees the guard condition only once the subscriber is undeclared and either the context is shut down or no sample is in transit. `ImplementsGraphView`: the cache is a `GraphView`, a cache applying the FIFO of network changes in order, and, once stopped, not changing. A handler without its `is_shutdown_` check violates it. |
| `graph_bootstrap_gap` (`GraphContextBootstrap.cfg`) | violation of `CacheMatchesNetworkWhenQuiet` | A token declared between the bootstrap query and `subscribe()` is missing from the quiet cache (finding 3). |
| `legacy_double_add` (`ClientDataLegacyDoubleAdd.cfg`) | violation of `EachReplyQueuedOnce` | Every ok reply is queued twice (finding 2). |
| `graph_destroy` (`GraphContextDestroy.cfg`) | violation of `NoHandlerAfterDestroy` | The trace is: bootstrap, subscribe, a change, a thread takes the sample, shutdown, `~Data`. The handler runs on a destroyed `Data` (finding 6). The subscriber closure holds a raw pointer and has no drop callback. `shutdown` holds `mutex_` across the undeclare and `z_close`, so it cannot wait for a handler that is blocked on `mutex_`. |
| `codec_pass` (`MCAttachmentCodec`, `AttachmentCodec.cfg`) | pass, 4,693 states | `RoundTrip`: every encoding decodes, and to the attachment that was encoded, including negative, zero and boundary integers. `DecodeSound`: whatever the constructor accepts is a well-formed attachment, and the input begins with that attachment's parts in order, each length in some LEB128 spelling it fits in (`SpellsFrom`, a layout written independently of the reader). The reader, like Zenoh's, accepts a length spelt with extra zero groups, so "the canonical encoding is a prefix of the input" is false. The inputs include such overlong spellings, and TLC finds that weaker statement violated on them. |
| `codec_trailing` (`AttachmentCodecTrailing.cfg`) | violation of `DecodeExact` | An encoding followed by an extra byte is accepted. The constructor never checks that the deserializer is exhausted (finding 5). |
| `codec_leak` (`AttachmentCodecLeak.cfg`) | violation of `NoLeakOnThrow` | Changing a key's length byte makes the key mismatch. The constructor throws before `z_drop` of the key string, so the string leaks; a gid of the wrong length leaks its slice the same way (finding 4). |
| `legacy_live` (`MCClientDataLegacy`, `ClientDataLegacyLive.cfg`) | pass, 108,585 states | `EventuallyFreed` under `FairSpec`. After the client is destroyed, the legacy record is always freed eventually, whichever of the destroyer and the last drop sees zero in flight. |
| `clientdata_leak` (`MCClientData`, `ClientDataLeak.cfg`) | violation of `EventuallyFreed` | Under the same fairness: send, reply, drop (`num_in_flight_` wraps to 7), destroy. The count never returns to zero, so the `ClientData` is never removed from its node (finding 7). |

**Bounds:**
- Two queries, so that one query's drop interleaves with the other's
  callbacks and with destroy.
- Two replies per query, so that replies of one query follow each other and
  interleave with the other query's.
- Depth 1, so that the second buffered reply already evicts under KEEP_LAST.
  Both KEEP_LAST and KEEP_ALL are initial states.
- A 3-bit in-flight counter, which shows the wrap below zero.
- For the graph: two tokens and three network changes. That is enough for a
  token to change both before and after the subscription, and for one token
  to appear, vanish and reappear while the other token's samples interleave.
  `GraphContext`'s `TypeOK` holds by the shape of its actions, so it is not in
  the run; it is left to proof.

Codec bounds: the widths are scaled down to `Base = 8`, `IntBytes = 2` and
`GidLen = 2`, and the keys are 1-2 bytes. They keep every code path of the
decoder:
- multi-group varints do not arise in canonical encodings at these sizes.
  They do arise in the inputs: each encoding is also decoded with one of
  its four lengths spelt one group too long (`OverlongEncodings`), and a
  length byte changed to a continuation value gives others;
- sequence numbers include 1, -1 and 31, the largest value below the modulus
  boundary, and timestamps 0 and -32, the most negative value;
- the gids differ.

Deadlock checking is off in every run: after the client is freed, when every
query has ended, or when the decoder has returned or thrown, nothing is left
to do. That is the program's real final state.

Every property of a passing run has a mutant, listed in `PROJECT.json`: a
plausible bug in a mapped definition under which TLC finds that property
violated. Examples: a depth check off by one, a missing trigger, a take that
does not pop, a drop that frees regardless of the in-flight count, a missing
increment.

The liveness runs assume the fairness described under `ClientData`. The
legacy model uses the same fairness, on `add_new_reply`, `notify` and
`client_data_drop`.

## Proofs

In `ClientDataProofs`:

These are proved by TLAPS for all values of the constants, under the
assumptions `MaxRequests >= 1`, `MaxReplies >= 0`, `Depth >= 1` and
`InFlightBits >= 1`:

- **`TypeCorrect`: `Spec => []TypeOK`.** The inductive invariant `TypeInv`
  adds one fact to `TypeOK`: a handler between its critical sections has a
  reply left to deliver. That fact keeps `delivered` within `MaxReplies`.
  `SizeModulusPositive` proves `2^InFlightBits >= 1` through the cardinality
  of `SUBSET 1..InFlightBits`.
- **`QueueInvariant`: `Spec => []QueueHoldsNewestReplies`.** It is inductive
  together with `TypeInv`. It rests on three lemmas about sequences:
  - appending to both sequences keeps "Q is the newest suffix of A";
  - evicting then appending keeps it;
  - popping the head keeps it.
- **`NoLostWakeupTheorem`: `Spec => []NoLostWakeup`.** It needs the
  strengthening "a blocked waiter has its wait set attached". Without it, an
  append could find no wait set while the waiter blocks.

- **`Refinement`: `Spec => ImplementsReplyBuffer`.** `ClientData`
  implements `ReplyBuffer`. The proof has three parts:
  - the initial states map to an initial state;
  - every step maps to a `Put`, a `Take`, a `Close` or a stutter
    (`StepRefines`), under `TypeInv` and `ArrivedDelivered`. `ArrivedDelivered`
    says that every buffered reply `<<q, n>>` has `n <= delivered[q]`. This is
    what makes the reply of `add_new_reply`, `<<q, delivered[q] + 1>>`, one
    that never arrived before, which `Put` requires;
  - PTL combines them.
- **`TakenInArrivalOrderTheorem`: `Spec => []TakenInArrivalOrder`.** The
  inductive invariant `OrderInv` holds the type, queue and
  `ArrivedDelivered` invariants above. It adds `ArrivedOnce`: no reply is in
  `arrived` twice, because `ArrivedDelivered` numbers a new reply past every
  earlier reply of its query. With distinct arrivals, `ArrivalIndex` (a
  `CHOOSE`) is the one position of a reply (`IndexInIs`). The key lemma
  is `SelectAppendInOrder`: if D picks elements of an ordered O with
  increasing indices, then D followed by a new reply is ordered in the
  arrivals followed by that reply. `add_new_reply` is such a step, with the
  identity selection, or, when it evicts the queue's front, with the
  selection that skips it. `take_response` leaves "taken, then queued"
  unchanged.
- **`InFlightCountsDropsTheorem`: `Spec => []InFlightCountsDrops`.** This
  holds for every width `InFlightBits`. The inductive invariant `CountInv`
  carries the counter as "`num_in_flight_` plus the finished queries equals
  k * 2^w for some k" rather than as a `%` equation. Then a drop's wrapping
  decrement needs only `WrapKeepsMultiple`: from 0 the counter wraps to
  2^w - 1, which adds one to k. `SentBelow` (every query at or past
  `sequence_number_` is unsent) makes `send_request`'s query a fresh one, so
  issuing never changes the finished count. `MultipleMod` turns the witness
  into the `%` form. TLC checked `CountInv` on the `clientdata_pass`
  instance, with k bounded by `MaxRequests`, before it was proved.

  The theorem explains findings 1 and 7 for a real 64-bit `size_t`. Until
  2^64 queries have finished, the counter is zero only when none has. So
  destroy frees the client while queries are open, and after one drop no
  later drop finds zero.

In `GraphContextProofs`, under `MaxChanges >= 0` and `MaxEntityIds >= 0`:

- **`TypeCorrect`: `Spec => []TypeOK`.** `TypeOK` is inductive as it stands.

- **`GuardFreedTheorem`: `Spec => []GuardFreedOnlyWhenQuiescent`.** The
  inductive invariant `LifecycleInv` has four parts:
  - before `subscribe()` succeeds, nothing is declared, queued or in transit;
  - a shut-down context has no subscriber;
  - a freed guard means the context failed, or was subscribed and shut down;
  - once destruction has begun, the guard is freed.

  The last part is what lets `~Data`'s second step (which closes the session
  itself when not shut down) keep the others. The theorem rests on the
  spec-modelled `ReleaseAllowed`.
- **`SubscribedTokensTrackedTheorem`: `Spec => []SubscribedTokensTracked`.**
  `WillKnow(t)` is written as `Knows(Unapplied, cache, t)`: t is known once
  the pending samples are applied when the last sample about t is a put, or
  when there is none and t is already cached. It is stated with index
  quantifiers rather than `SelectSeq`, so that the provers can reason
  about it. Three lemmas describe how `Knows` moves:
  - queueing another token's sample leaves it unchanged;
  - queueing t's own sample makes it "that sample is a put";
  - applying the oldest sample moves it from the queue to the cache
    (`KnowsApplyHead`).

  The inductive invariant `TrackInv` adds `TypeOK`, `LifecycleInv` and
  `NoChangesBeforeSubscribe`: nothing is recorded as changed before
  `subscribe()` succeeds. Without these, a subscriber declared with samples
  already queued, or a recorded change not in the queue, would break the
  induction. `deliver` moving the head into transit needs the assumption
  `NoSampleAssumption` (the "none in transit" marker is not a sample).
  TLC checked `TrackInv` on the `graph_pass` instance before it was proved.
- **`ContextImplementsGraphView`: `Spec => ImplementsGraphView`.** The
  initial states map to `GraphView`'s. `ViewStep` maps every step under
  `TypeOK` and `LifecycleInv`:
  - `deliver` leaves `Unapplied` as it was, because `<<Head(s)>> \o Tail(s) = s`;
  - the handler consumes `Unapplied`'s head;
  - a change appends to it;
  - `DiscardQueued` shows that a shutdown leaves a prefix of length 0 or 1.

  `LifecycleInv` is needed for `~Data`'s `shutdown()`. A released `Data` has
  a freed guard, hence a subscribed or failed stage, which `Stop` requires.

In `ClientDataLegacyProofs`, under `MaxRequests >= 1`, `MaxReplies >= 0`
and `Depth >= 1`:

- **`LegacyTypeCorrect`, `NoCallbackAfterFreeTheorem` and
  `FreedAtMostOnce`.** These prove `[]TypeOK`, `[]NoCallbackAfterFree` and
  `[](frees <= 1)`. All three come from one inductive invariant,
  `LegacyInv`, whose parts are:
  - `TypeInv`, `TypeOK` with "a pending handler has a reply left";
  - `SentBelow`: a query is unsent exactly when its number is at least
    `sequence_number_`;
  - `CountsOpen`: `num_in_flight_` is the number of open queries. In the
    legacy code the caller increments it before each `z_get`, so it never
    goes below zero;
  - `ShutdownWithDestroy`: `is_shutdown_` is set exactly by the destroy
    path;
  - `FreedOnceQuiet`: a freed record was destroyed with no query open.

  `CountsOpen` is what makes the last drop, and only it, free the record,
  and `SentBelow` is what makes `send_request`'s query a new one.
  `FS_AddElement` and `FS_RemoveElement` carry the count across a send and a
  drop.
- **`LegacyNoLostWakeup`: `Spec => []NoLostWakeup`.** This uses the
  strengthening `WakeupInv`: a blocked waiter has its wait set attached.
- **`LegacyImplementsLifetime`: `Spec => ImplementsClientLifetime`.** The
  step lemma `LifetimeStep` uses `LegacyInv`:
  - `SentBelow` makes `send_request`'s query one that is not open, as
    `Issue` requires;
  - `CountsOpen` turns the code's tests `num_in_flight_ - 1 > 0` and
    `num_in_flight_ > 0` into "an open query is left" (`FS_RemoveElement`,
    `EmptyIffZero`);
  - `ShutdownWithDestroy` turns the drop's `is_shutdown_` into `destroyed`.

  So a drop frees exactly when `Finish` does, and the destroy exactly when
  `Destroy` does.

Left to TLC:
- the liveness properties (`EventuallyFreed` in both client models), since
  TLAPS does not handle fairness or `ENABLED`;
- the codec's `RoundTrip` and `DecodeSound`. The varint reader is a
  recursive fold over SequencesExt, and what it computes for every input
  would need induction over data, which the installed provers cannot do.
  A module that reaches a RECURSIVE operator also loses the SMT backend;
- the violated properties of the violation runs, which are findings and not
  theorems.

## Not modelled yet, and the plan

1. **Graph-changed notification.** The spec requires one notification per
   graph event. It needs GraphCache, which is not under `src/`.
2. **Legacy reply store.** `ClientDataLegacy` implements `ClientLifetime`
   but cannot implement `ReplyBuffer`, because it queues each ok reply
   twice (finding 2). The new `ClientData` implements `ReplyBuffer` but not
   `ClientLifetime` (finding 1).
3. **Composition.** A node holding several clients, and a context torn down
   while clients still have queries open.

Not modelled at all:
- payloads, CDR serialization, QoS adaptation and the user callback manager,
  which are data or configuration that no property distinguishes;
- the Zenoh transport itself, which appears only as the callbacks it makes;
- `NodeData` (`rmw_node_data.hpp`), of which only a declaration is under
  `src/`.
