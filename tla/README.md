# TLA+ model of synkafka

synkafka is a synchronous producer client for Kafka 0.8: an application thread calls
`produce()` and gets the outcome when it returns. Underneath, every call goes through
shared state: a metadata cache, Broker objects owned by `shared_ptr`, and pipelined
requests that asio threads write and read. This directory models that machinery,
checks it with TLC on small instances and proves its safety with TLAPS for all instances.

## The system and its parts

| Part | Source | State | Operations |
|---|---|---|---|
| Connection | connection.cpp/.h | `state_`, `ec_`, socket, coroutine, condition variable | `connect` (any thread, timed), `close`, resolve and connect handlers |
| RPC queues, Broker | rpc.cpp/.h, broker.cpp/.h | send and receive queue, one coroutine each, promises, `next_seq_` | `sync_call`, `stranded_push`, write and read handlers, `fail_all`, destruction |
| Producer client | producer_client.cpp, synkafka.h | `partition_map_`, `brokers_`, `last_meta_error_`, `last_meta_fetch_`, two mutexes | `produce`, `check_topic_partition_leader_available`, `refresh_meta`, `close_broker` |
| Its shutdown | producer_client.cpp | `stopping_`, `work_`, `io_service_`, `asio_threads_` | `run_asio`, `close`, destructor |
| Packet encoder | packet_encoder.cpp, packet.h | buffer, `cursor_`, `size_`, error | `io`, `io_bytes`, `start_`/`end_` of length, checksum and compression, framing |
| Packet decoder | packet_decoder.cpp, packet.h | readable length, cursor, error | the same operations, reading |
| Message set | message_set.cpp/.h | messages, encoded size, limit, compression | `push`, encode, decode |
| Protocol structures | protocol.h | none: each is a sequence of codec calls | `kafka_proto_io` |
| Slices, errors, logging | the other headers | none of interest | |

A thread in `produce()` looks up the leader of its partition under `mu_`, refreshing the
metadata (one thread at a time, under `meta_fetch_mu_`) if it is not known. It connects the
leader's Broker, if it is not connected, and makes a `sync_call()`: the request is encoded,
pushed on the connection's strand, written, and its response read and matched by order and
correlation id. Any failure closes the connection, and `close_broker()` then drops the Broker
and forgets all leaders, so that the next call starts from fresh metadata.

What is hard here: a timeout that races a completing connect; a `close()` in the middle of a
resolve; one failure that must release every call on a connection; a late response after its
caller gave up; a Broker destroyed while a handler for it is queued; two threads that discard
and replace the same Broker; an error variable shared by all threads; a recursive retry that
must release its mutex; a shutdown with calls in flight and io threads that have died; fields
written into a growing buffer after what they cover; lengths and counts that come from a peer.

## Modules

**Connection**. One action per stretch of code between lock operations or yields. `Call`,
`Enter`, `Launch`, `Wake`, `Timeout` are `connect()`; `ResolveHandler`, `ConnectAborted`,
`ConnectRefused`, `ConnectOK`, `Notify` are the coroutine; `Close` is `close()`. `ResolveDone`
and `ConnectDone` are the network. **ConnectionLife** is the abstract promise: a latch that goes
INIT, CONNECTING, CONNECTED, CLOSED in one direction, with an error fixed once it is closed, and
answers to `connect()` that agree with it. `ImplementsLife` states that Connection implements
it, with `state_` and `ec_` as the mapping.

**RpcQueues** (TLC module **MCRpcQueues** adds symmetry). One handler on the strand is one step,
except the write handler, which is two because the Broker can be destroyed in its middle.
`fail_all` is part of the step that calls it. A coroutine is modelled by where it is suspended,
so that resuming it wrongly is visible. Satisfying a promise twice throws and ends the io thread
(`io_up`). `header_fits` is whether `client_id_` can be encoded, which is the same for all
requests of a client. **SyncCalls** is what `sync_call()` promises: a call is settled at most once
and returns what it was settled with, or a timeout. `ImplementsSyncCalls` states that RpcQueues
implements it, with the promises as the mapping.

**ProducerClient** (TLC module **MCProducerClient** adds symmetry). A critical section that does
not block is one step; `refresh_meta()` keeps `mu_` while it connects to bootstrap brokers, so
the mutexes are variables. Broker objects have identity and vanish when nothing points to them.
`connect()` and `sync_call()` are abstracted to the outcomes that ConnectionLife and SyncCalls
allow. `last_meta_error_` is read without `mu_`, in two steps, as in the code. The times
`requested_at` and `last_meta_fetch_` are abstracted to their comparison (`fresh`). The cluster
(nodes that crash, restart, move; leaders that change) is external.

**ClientLifecycle**. The io threads, the test of `stopping_` at the start of a call, `close()` in
the steps between which others run (take `mu_`, drop `work_`, stop, join one thread after the
other), and the destructor. A call is abstracted to an operation that only an io thread completes
and a timed wait for it, with or without `mu_`. `StartCall`, `CallReturns` and `CallTimesOut` are
that call, `StartClose` to `CloseReturns` are `close()`.

**PacketEncoder** and **PacketDecoder** (both over **PacketCodec**, the error that the first failure
sets). Encoder and decoder are records and their methods are operators, so they compose as in the code. A byte is
abstracted to what was written there. `AsInt` is the narrowing of a `size_t` to an `int32_t` where the encoder
writes a length (packet_encoder.cpp:288 and 321); `MaxInt` is the largest `int32_t`. The
decoder keeps the `size_t` arithmetic of its bounds test (modulo `Word`), the difference between
readable bytes and buffer, and whether a read went past the former (`wild`). Where both have an
operation of one name, the decoder's is `TakeInt`, `TakeSlice` or `verify_crc`.

**Request**. A request being encoded: the caller writes integers, strings and blocks, compressed or not,
starts and ends length and checksum fields in nested order, and takes the packet. `encode_request` is how
an RPC does that: a header in a buffer of its own (`head`) that is written once, with the length of both
buffers in front. `TakeFrame` is `get_as_slice(true)`. `sent` has the bytes of the packet as the peer reads them.

**MessageSet** (over PacketEncoder and PacketDecoder). `push()` with its size and
limit, encoding with every compression and with its failures (of a message before compression, which
leaves the batch without its compression, or of the library), and decoding of a batch that arrives whole, cut
short, embedded in something longer, or with any one byte changed. A changed attributes byte may be any
compression or none that is known; a changed length is read as some other length of `WrongLens`, and so are the
lengths that are read after it, from the wrong place; of compressed bytes that were changed the library makes an
error or anything. The checksum is ideal: only the bytes it was computed from have it. One iteration of the
decoding loop is a step.

**Response**. The length and header as RPCRecvQueue reads them, then the body. A structure of
protocol.h is the list of io calls its function makes, which `ReadInt`, `ReadString`, `ReadCount`,
`Iterate` and `Keep` interpret, with whatever lengths and counts the peer sends.

**Codec** extends the three users of the codec (Request, MessageSet, Response) and puts them in one
specification for TLC. They share the operators, so one run judges a change of an operator by all of its users.

Operators whose comment begins with "Fault:" are plausible wrong versions of the definition
that follows them. They are used by no specification; each shows that a property can fail.

## What the runs check

| Run | Shows | Bounds |
|---|---|---|
| `connection` | One attempt is made; a connection that is up has its socket; nobody misses the notification; the latch is implemented; `connect()` always returns; the attempt ends if the network answers | 3 threads, 2 endpoints |
| `rpc_safety` | No RPC is lost or owned twice, no queue is stuck, no coroutine is resumed by the wrong event, no caller gets another's response; SyncCalls is implemented | 3 calls, 6 kinds of answer |
| `rpc_live` | A failure releases all callers without their timeouts; with timeouts calls return even if the io thread is dead | 2 calls, header encodable or not |
| `client_safety` | Leaders are in `brokers_`, pointers match their configuration, both mutexes are released on every path, a discarded Broker does not take its replacement along | 2 threads, 2 nodes, 1 failure, 1 change of the cluster |
| `client_single` | For one thread `no_error` means stored; a null Broker is dereferenced only after a move | 1 thread, 2 partitions, 2 nodes, 1 failure, 2 changes, 1 move |
| `client_returns` | Every call returns | 2 threads, 1 node, 1 failure, 1 change |
| `client_recover` | An application that keeps producing succeeds again once its leader is up | 1 thread, 2 nodes, 1 failure, 3 changes |
| `lifecycle` | No io thread runs after `close()`; the destructor alone is safe; `close()` and calls in flight end | 2 application and 2 io threads, 2 calls of `close()` |
| `codec` | Requests: no write past the buffer, exact lengths and checksums, packets of two buffers that end where they say. Batches: exact size, within a header of the limit, decoded as far as they arrive, and up to the message in which a byte was changed. Responses: read within their bytes, never taken for complete when they are not | requests of 13 bytes before the last write with 2 nested fields; batches of 2 messages, cut at any byte or with any byte changed to 6 other lengths or anything else; 9 frame lengths, 5 counts, 4 string lengths, negative ones included |

Three threads let one initiate a connect, one wait for it and one close or time out. Three
calls put one RPC in each of posted, send queue and receive queue. Two client threads are
needed for every race over a Broker or the error; the fault budgets allow a failure and a change
of the cluster in the same behaviour. Two io threads let one die while the other works, and the
second `close()` meets threads that were joined. The encoder starts with one byte to spare, so that
every kind of write makes it grow; compression (`Compressed`) makes the least of a value, less than it, or
the most. The limits on a batch are one that no second message fits, one that some do, and one that all do. `MaxInt` is 70 in place of 2^31 - 1, so that there are values that do
not fit an `int32_t` (75 bytes), and fields and packets that do not although every value in them does (66
bytes). `Word` is 2^16 in place of 2^64: lengths stay far
from it, as the real ones do. `MaxFaults`, `MaxChanges`, `MaxMoves`, `MaxCloses`, `MaxBytes`,
`MaxDepth` and `MaxMessages` are bounds of the model, not of the code.

Deadlock is not checked where the system may stop: in RpcQueues every call is made once, in
`client_single` the process may crash, in ClientLifecycle it ends, and the users of the codec
come to an end of what they write or read.

### Disagreements with what the code says of itself

Three runs are expected to be violated.

- `client_success`: `produce()` tests `last_meta_error_` and then reads it again, without `mu_`
  (producer_client.cpp:131). If another thread connects to a bootstrap broker in between, the
  call returns `no_error` and nothing was sent. synkafka.h:152 asks for synchronized reads.
- `client_move`: a known broker that comes back at another address is closed through a pointer
  that may be null (producer_client.cpp:399).
- `rpc_lifetime`: a push posted to the strand keeps a raw `this` (rpc.cpp:117) and can run after
  the Broker was destroyed.

Fourteen more were met, as properties stated in the modules that no run lists. TLC violates each when
it is put in a configuration with the bounds given.

- `ClosedReleasesSocket` (Connection, 2 threads): `close()` during the resolve does not stop the
  coroutine, which opens the socket again (connection.cpp:166).
- `RecvAwaitsResponse` (RpcQueues, 2 calls, `Headers = {FALSE}`): a request whose header did not
  encode moves to the receive queue (rpc.cpp:60, 217).
- `ErrorsArePropagated` (RpcQueues, the bounds of `rpc_lifetime`): asio's end of file becomes ENOENT
  (rpc.cpp:148).
- `FetchesFromConnected` (ProducerClient, the bounds of `client_success`): metadata is requested
  over a connection that is still being made (producer_client.cpp:315, comment at 307).
- `ConnectIsRetried` (the same with 1 thread): failing to connect for metadata is not retried
  (producer_client.cpp:341, against synkafka.h:51).
- `NotJustUnknown` (the bounds of `client_success`): a network error is reported as an unknown
  partition when another thread has cleared it (producer_client.cpp:131, against
  tests/functional/producer_client_test.cpp:456).
- `NeverTerminated` (ClientLifecycle, the bounds of `lifecycle`): the destructor calls `close()`
  again, whatever "if we are not stopped already" says (producer_client.cpp:46); joining a joined
  thread throws, and a destructor that throws ends the process.
- `GracefulShutdown` (the same): `close()` stops `io_service_` at once and does not wait for
  outstanding reads and writes (producer_client.cpp:449-451).
- `PartialIsNormal` (MessageSet, the bounds of `codec`): a batch cut inside the length or checksum of
  a message is read past its end, because both are skipped without a test (message_set.cpp:200, against
  237-239).
- `WithinLimit` (the same): the worst case that `push()` reckons with leaves out the header of
  the message that holds the compressed ones (against message_set.h:42-44).
- `FullStaysFull` (the same): after "full" a smaller message is accepted, although "no further
  pushes will succeed" (message_set.h:39-41).
- `ChangeIsNoticed` (the same): a changed length of a key or value that points past the end of the batch is
  taken for the end, and the messages from there on are lost without an error, although "Any other error
  should be left though." (message_set.cpp:239). `ChangeIsContained` says what is left.
- `EncodeKeepsBatch` (the same): a batch that fails to encode before its compression keeps `COMP_None`; the
  line that would "Reset compression to avoid confusion" is not reached (message_set.cpp:176, 179).
- `FrameSaysSize` (Request, the same): a packet longer than an `int32_t` can say gets a length that is not
  the size that the comment promises (packet_encoder.cpp:318-321). Each value in it was tested, their sum is not.

## Fairness

- Connection: a thread inside `connect()` is scheduled and its timed wait ends. `AttemptEnds`
  assumes in addition that handlers run and that resolve and connect complete, with any outcome.
- RpcQueues: a thread whose promise is ready is scheduled. `FailureReleasesCallers` assumes that
  the io thread runs its handlers and that asio aborts what is pending on a closed socket, and no
  timeout. `CallsReturn` assumes only that `wait_for()` ends.
- ProducerClient: strong fairness of each thread's steps, that is, it is scheduled and not starved
  of a mutex. `std::mutex` does not promise the second: `CallReturns` shows that nothing but
  endless bad luck in acquiring a mutex can keep a call from returning. Weak
  fairness of answers from Kafka; a node that does not answer is a timeout, which is a `Fault`.
  `Recovers` assumes that the application goes on calling.
- ClientLifecycle: application threads are scheduled and their timed waits end; the thread in
  `close()` gets `mu_` if it is free again and again (strong fairness, as above); `run()` returns when
  it was stopped or has no work. Nothing is assumed of handlers.

## Proofs

Each holds for every value of the constants. None of the invariants is inductive by itself; each
module first proves a stronger one, `Inv` unless another name is given.

**LifecycleProofs**, on Connection (any threads, at least one endpoint): `TypeOK`,
`ConnectedHasSocket`, `OneCoroutine`, `NoLostWakeup`, and that Connection implements ConnectionLife. `Inv`
adds that nothing is launched in INIT, that the coroutine is past its work when the state is CONNECTED,
that a queued successful connect left a connected socket unless `close()` came first, and that an endpoint
is left while connecting. The refinement follows from `Inv` step by step.

On ClientLifecycle (any application and io threads, any number of `close()`): `ClientTypeOK`,
`NoIoAfterClose`, `TerminatedOnlyAfterClose`. `ClientInv` says that one thread at most is closing and that
the threads are joined in order, none of them running.

**RpcQueuesProofs** (any calls and kinds of answer): `TypeOK`, `NoMisresume`, and, if the header
can be encoded, `QueuesAreServed` and `NoCallForgotten`; and that RpcQueues implements SyncCalls. `Inv`
says that an RPC is in one place, that its promise is open while it is queued (but for a header
that did not encode), and that a coroutine left at a yield with an empty queue is on a connection that
is closed for good, which is why it is never resumed by mistake.

**RpcOrderProofs** proves `OwnResponse`, for a peer that answers in order, as Kafka does. It may cut an
answer, leave it out, or give it the correlation id of the next request (`ReplyKinds`); a peer that
answers out of order or with arbitrary ids is not covered. The argument is one of order. `Order` says
that numbers are consecutive through the receive queue and then the send queue, that requests and responses on the
wire are in the order of their numbers, and that the wire is not behind the head of the receive queue:
a response for the head, by its id, is then the head's own.

**ProducerClientProofs** (any threads, partitions, nodes, retries and fault budgets): `KnownLeaders`;
that no call closes the client and throws; `CrashOnlyByMove`; `LocksInOrder`; and `SuccessIsStored`
when there is one thread. `Inv` adds that metadata a thread is about to apply lists all its leaders, and that no thread
has the answer to an earlier call. `AddressInv` adds that, until a node moves, every address anyone
knows of it is its first one. `StoredInv` follows a call on its way to `no_error`; it needs the one
thread where `last_meta_error_` is read for the second time, which is where `client_success` breaks.
`LocksInOrder` is inductive together with `Inv`; `ThreadAssumption` says that the owner of a mutex that
is free is not a thread.

**BrokerProofs**: `TypeOK`, `PointersMatch` and `LostByItsUser`. `BrokerInv` is the reference counting of the
code: a pointer is null or to an object that exists, an object that exists has a pointer to it, and
a thread has a pointer exactly where it uses one. That a new object can always be found is
`MemoryAssumption`: while a thread has no object, the pointers leave one free. `TypeOK` takes the
types of pointers and objects from `BrokerInv`. `ClientTypes` (ProducerClientProofs) has the others, and that the metadata a thread is
about to apply names nodes, with addresses of theirs, and a leader or none for each partition.

**ResponseProofs** (any buffer, lengths and counts): `ReadsWithin`, by the invariant that the cursor
is within the readable bytes and these within the buffer. `ResponseAssumption` keeps lengths under a
quarter of a `size_t`, as 32-bit lengths are on the 64-bit machines the code is for: there the unsigned
comparison in `can_read()` tells a negative length from a small one. `ElementsWereSent` and
`SuccessIsComplete` are about the calls that are still to be made, a stack of structures inside
arrays inside structures. `Balance` keeps two accounts of that stack, from its last call backwards: the
bytes that were read and not yet paid for an element, and the elements that were announced and not
yet kept. Each call of protocol.h, each iteration and the end of each array balances both.

**EncoderProofs** (any buffer, lengths and nesting): `CursorAtEnd`, `InBounds`, `FieldsStand`,
`FrameIsExact`, from `EncoderAssumption` and `RequestAssumption`, that sizes are numbers. `FieldsStand` and
`FrameIsExact` are about what fits an `int32_t`; the invariant says what is written if it does not. There is a
lemma for each operator: appending makes the encoder `Longer` and keeps what was written, filling in a
field changes its four bytes only (`Patched`), doubling the buffer makes it large enough. `EncInv` adds that
the fields still open are in order and apart from those ended, which is why filling in one cannot change what
another covers. `FrameIsExact` follows the bytes of both buffers: the header's encoder is at its end like any
other (`HeaderAtEnd`), its first four bytes are the only ones that `update_length` changes (`LengthUpdated`), and the
request goes on where the header ends (`PacketIsExact`). `EntryAppends` and `EntriesAppend` are for the message set: the exact bytes of a message, and
the size of any number of them.

**MessageSetProofs** (any messages, batches, limits, from `BatchAssumption`): `SizeIsExact` and
`NearLimit`. `SizeInv` says that the size is the sum over the messages, that it is within the limit
if nothing was set in between, and that what was encoded without an error has that size. The encoder's part is by induction on
the number of messages, as a least number of messages for which it fails. It uses the
lemmas of EncoderProofs, whose encoder is the same.

The proofs about the client rest on the model of Kafka, whose metadata names only listed nodes as
leaders.

Induction over data is made by hand where it is needed: the least element of the set of
counterexamples (`LeastNumber`, from the library's theorem on well-founded relations) in place of the
induction theorems, which take an operator as parameter.

Only model-checked: what decoding a batch gives (`DecodesWhatArrived`, `ChangeIsContained`,
`WildOnlyInFields`), whose statement folds `push()` over the messages that arrived and whose proof
has to follow the decoder through the bytes that `EntryAppends` describes; and all liveness, which is
out of the prover's reach.

## Not modelled

- Two `close()` at once, which is a data race the application has to prevent; the order in which the
  members of the client are destroyed; its setters, which are assignments; parsing of the broker
  list; the dump of the metadata for debugging.
- Requests as structures: they are sequences of encoder calls, of which Request makes any.
- The contents of bytes: byte order, the checksum and compression algorithms. Two changed bytes, or a change
  that keeps the checksum, are left out with them.
- Sizes of 4 GiB and more, for which the 32-bit counts of zlib wrap.
- Slices and buffers, error tables, logging.
- Overflow of `next_seq_` after 2^31 requests on a connection, a system clock that is set back,
  and data races on `timeout_ms_` and `state_` beyond the order of reads and writes.

## What could come next

1. A clock that jumps, as a variant of `Stamp`: fetch and request times from `system_clock`.
2. The order of destruction of `brokers_` and `io_service_`, once it is known what asio does with
   the handlers that are left.
3. A proof that a batch is decoded to what arrived of it, from the bytes of `EntryAppends`.
