------------------------------- MODULE RpcQueues -------------------------------
(***************************************************************************)
(* rpc.cpp and broker.cpp/.h: the RPCs of one Broker object, pipelined     *)
(* over its connection.                                                    *)
(*                                                                         *)
(* A thread in sync_call() creates an RPC, posts a stranded_push() for it  *)
(* to the connection's strand and waits for its promise, with a timeout.   *)
(* On the strand the RPC enters send_q, whose coroutine writes one request *)
(* after the other; a written RPC moves to recv_q, whose coroutine reads   *)
(* one response after the other and gives it to the RPC at the head.  Any  *)
(* failure closes the connection and fails everything in the queue.        *)
(*                                                                         *)
(* One handler on the strand is one step: it reads the connection state at *)
(* most once, so a close() by another thread in its middle has the effect  *)
(* of a close() after it.  The exception is the write handler, whose two   *)
(* halves are two steps, because the Broker it then uses can be destroyed  *)
(* between them.                                                           *)
(***************************************************************************)
EXTENDS Naturals, Sequences

CONSTANTS Calls,       \* the RPCs made on this Broker; each is made once
          Replies,     \* what the peer may do with a request, see KafkaReply
          Headers      \* whether the header may encode (TRUE) or client_id_ be
                       \* too long for it (FALSE)

ReplyKinds == {"good", "garbled", "alien", "short", "empty", "none"}

ASSUME RepliesAssumption == Replies \subseteq ReplyKinds
ASSUME HeaderAssumption == Headers \subseteq BOOLEAN

VARIABLES
  header_fits, \* client_id_ fits the header; it is the same for every RPC
  conn,        \* conn_: "CONNECTING" (or INIT), "CONNECTED", "CLOSED"
  held,        \* ProducerClient still has the Broker in its map
  alive,       \* the Broker object exists
  posted,      \* RPCs whose stranded_push() waits on the strand
  send_q,      \* send_q_.pimpl_->q_
  recv_q,      \* recv_q_.pimpl_->q_
  send_coro,   \* send_q_.pimpl_->coro_
  recv_coro,   \* recv_q_.pimpl_->coro_
  writing,     \* the async_write: "none", "pending", or its handler is queued
               \* with "ok" or an error
  reading,     \* the async_read, likewise
  strand,      \* "free", or "sending" halfway through the write handler
  next_seq_,   \* send_q_.pimpl_->next_seq_
  seq,         \* RPC::seq_
  promise,     \* RPC::response_promise_
  answer,      \* the response moved into the promise
  phase,       \* where sync_call() is: "idle", "waiting", "returned"
  result,      \* what sync_call() returned
  io_up,       \* the io thread has not left io_service::run()
  misresumed,  \* history: a coroutine was resumed without the completion it
               \* had yielded for
  requests,    \* external: requests sent and not yet handled by the peer
  stream       \* external: responses of the peer not yet read

connVars  == <<header_fits, conn, held, alive>>
queueVars == <<posted, send_q, recv_q, send_coro, recv_coro, writing, reading,
               strand, next_seq_, seq, io_up, misresumed>>
callVars  == <<promise, answer, phase, result>>
wireVars  == <<requests, stream>>
vars == <<connVars, queueVars, callVars, wireVars>>

SocketErrors == {"eof", "connection_reset", "operation_aborted"}
NoResponse == [of |-> "nobody", corr |-> 0, kind |-> "none"]
NoError == "no_error"
Unset == "unset"

Elements(q) == {q[i] : i \in DOMAIN q}

Init ==
  /\ header_fits \in Headers
  /\ conn = "CONNECTING" /\ held = TRUE /\ alive = TRUE
  /\ posted = <<>> /\ send_q = <<>> /\ recv_q = <<>>
  /\ send_coro = "start" /\ recv_coro = "start"
  /\ writing = "none" /\ reading = "none" /\ strand = "free"
  /\ next_seq_ = 0 /\ seq = [c \in Calls |-> 0]
  /\ promise = [c \in Calls |-> Unset]
  /\ answer = [c \in Calls |-> NoResponse]
  /\ phase = [c \in Calls |-> "idle"]
  /\ result = [c \in Calls |-> NoError]
  /\ io_up = TRUE /\ misresumed = FALSE
  /\ requests = <<>> /\ stream = <<>>
-------------------------------------------------------------------------------
(* The connection and the owner of the Broker *)

\* connect() succeeds, or fails and closes; see module Connection.
ConnectEnds ==
  /\ conn = "CONNECTING"
  /\ conn' \in {"CONNECTED", "CLOSED"}
  /\ UNCHANGED <<header_fits, held, alive, queueVars, callVars, wireVars>>

\* ProducerClient::close_broker: close, and drop the pointer in the map.
DropBroker ==
  /\ held
  /\ held' = FALSE
  /\ conn' = "CLOSED"
  /\ UNCHANGED <<header_fits, alive, queueVars, callVars, wireVars>>

\* ~Broker runs when neither the map nor a thread in sync_call() refers to it.
Destroy ==
  /\ alive /\ ~held /\ \A c \in Calls : phase[c] # "waiting"
  /\ alive' = FALSE
  /\ conn' = "CLOSED"
  /\ UNCHANGED <<header_fits, held, queueVars, callVars, wireVars>>
-------------------------------------------------------------------------------
(* Broker::sync_call *)

\* A thread may have taken its shared_ptr before the map dropped the Broker, so
\* a call can begin as long as the object exists, closed or not.
SyncCall(c) ==
  /\ alive /\ phase[c] = "idle"
  /\ \/ /\ phase' = [phase EXCEPT ![c] = "returned"]
        /\ result' = [result EXCEPT ![c] = "encoding_error"]
        /\ UNCHANGED posted
     \/ /\ phase' = [phase EXCEPT ![c] = "waiting"]
        /\ posted' = Append(posted, c)
        /\ UNCHANGED result
  /\ UNCHANGED <<connVars, send_q, recv_q, send_coro, recv_coro, writing, reading,
                 strand, next_seq_, seq, promise, answer, io_up, misresumed, wireVars>>

\* Fault: the response is not decoded.
OutcomeUndecoded(c) == promise[c]

\* What sync_call() makes of a promise that is ready.
Outcome(c) == IF promise[c] # "value" THEN promise[c]
              ELSE IF answer[c].kind = "good" THEN NoError ELSE "decoding_error"

SyncReturn(c) ==
  /\ phase[c] = "waiting" /\ promise[c] # Unset
  /\ phase' = [phase EXCEPT ![c] = "returned"]
  /\ result' = [result EXCEPT ![c] = Outcome(c)]
  /\ UNCHANGED <<connVars, queueVars, promise, answer, wireVars>>

\* Fault: wait() instead of wait_for().
NeverTimesOut(c) == FALSE /\ UNCHANGED vars

\* Fault: the clock is asked instead of the future.
TimeoutByClock(c) ==
  /\ phase[c] = "waiting"
  /\ phase' = [phase EXCEPT ![c] = "returned"]
  /\ result' = [result EXCEPT ![c] = "network_timeout"]
  /\ UNCHANGED <<connVars, queueVars, promise, answer, wireVars>>

SyncTimeout(c) ==
  /\ phase[c] = "waiting" /\ promise[c] = Unset
  /\ phase' = [phase EXCEPT ![c] = "returned"]
  /\ result' = [result EXCEPT ![c] = "network_timeout"]
  /\ UNCHANGED <<connVars, queueVars, promise, answer, wireVars>>
-------------------------------------------------------------------------------
(* Helpers of the handlers on the strand *)

\* Fault: only the RPC whose operation failed is failed.
FailedHead(q, ec) == [promise EXCEPT ![Head(q)] = ec]

\* fail_all: the promises of queue q after each was failed with ec.  Failing a
\* promise that is satisfied already throws; the RPCs behind it are destroyed
\* with their promise unset, which breaks them, and the io thread ends.
FailedPromises(q, ec) ==
  [c \in Calls |->
     IF c \in Elements(q) /\ promise[c] = Unset
     THEN IF \E i, j \in DOMAIN q : i < j /\ q[j] = c /\ promise[q[i]] # Unset
          THEN "broken_promise" ELSE ec
     ELSE promise[c]]

FailAll(q, ec) ==
  /\ conn' = "CLOSED"
  /\ promise' = FailedPromises(q, ec)
  /\ io_up' = \A c \in Elements(q) : promise[c] = Unset

\* The error_code a failed read or write leaves in the promises: its number is
\* read as an std::errc, and the number of asio's eof is that of ENOENT.
ToErrc(ec) == IF ec = "eof" THEN "no_such_file_or_directory" ELSE ec

\* async_write of the head of q.  encode_request() fails the promise if the
\* header cannot be encoded and then gives async_write nothing to write.
StartWrite(q) ==
  /\ send_coro' = "write"
  /\ writing' = "pending"
  /\ promise' = IF header_fits THEN promise
                ELSE [promise EXCEPT ![Head(q)] = "encoding_error"]

\* Fault: the loop of the coroutine ends after one write.
NextWriteNever(q) == /\ send_coro' = "complete"
                     /\ writing' = "none"
                     /\ UNCHANGED promise

NextWrite(q) ==
  \/ q # <<>> /\ StartWrite(q)
  \/ /\ q = <<>>
     /\ send_coro' = "complete"
     /\ writing' = "none"
     /\ UNCHANGED promise

\* A completed coroutine is replaced by a new one before it is entered.
Restarted(coro) == IF coro = "complete" THEN "start" ELSE coro

NextRead(q) ==
  /\ recv_coro' = IF q = <<>> THEN "complete" ELSE "length"
  /\ reading' = IF q = <<>> THEN "none" ELSE "pending"
-------------------------------------------------------------------------------
(* The handlers on the strand *)

OnStrand == io_up /\ strand = "free"

\* Fault: operator() relies on the error code alone.
SendAlways == TRUE

\* The check at the head of RPCSendQueue::operator().
MaySend == conn = "CONNECTED"

\* stranded_push() of an RPC on the send queue.
StrandedPush ==
  /\ OnStrand /\ alive /\ posted # <<>>
  /\ LET c == Head(posted) IN
     /\ posted' = Tail(posted)
     /\ seq' = [seq EXCEPT ![c] = next_seq_]
     /\ next_seq_' = next_seq_ + 1
     /\ \/ /\ send_q # <<>>
           /\ send_q' = Append(send_q, c)
           /\ UNCHANGED <<conn, send_coro, writing, promise, io_up, misresumed>>
        \/ /\ send_q = <<>> /\ ~MaySend
           /\ FailAll(<<c>>, "network_fail")
           /\ send_coro' = Restarted(send_coro)
           /\ UNCHANGED <<send_q, writing, misresumed>>
        \/ /\ send_q = <<>> /\ MaySend
           /\ send_q' = <<c>>
           /\ misresumed' = (misresumed \/ Restarted(send_coro) # "start")
           /\ StartWrite(<<c>>)
           /\ UNCHANGED <<conn, io_up>>
  /\ UNCHANGED <<header_fits, held, alive, recv_q, recv_coro, reading, strand, answer, phase,
                 result, wireVars>>

\* stranded_push() with a this that was destroyed: whatever it does, the RPC
\* does not reach a queue.
PushAfterDestroy ==
  /\ OnStrand /\ ~alive /\ posted # <<>>
  /\ posted' = Tail(posted)
  /\ UNCHANGED <<connVars, send_q, recv_q, send_coro, recv_coro, writing, reading,
                 strand, next_seq_, seq, io_up, misresumed, callVars, wireVars>>

\* RPCSendQueue::operator() called as the handler of async_write, up to the
\* point where it re-enters the coroutine.
WriteHandler ==
  /\ OnStrand /\ writing \notin {"none", "pending"}
  /\ \/ /\ writing # "ok"
        /\ FailAll(send_q, ToErrc(writing))
        /\ send_q' = <<>> /\ writing' = "none"
        /\ UNCHANGED strand
     \/ /\ writing = "ok" /\ ~MaySend
        /\ FailAll(send_q, "network_fail")
        /\ send_q' = <<>> /\ writing' = "none"
        /\ UNCHANGED strand
     \/ /\ writing = "ok" /\ MaySend
        /\ strand' = "sending"
        /\ UNCHANGED <<conn, promise, io_up, send_q, writing>>
  /\ UNCHANGED <<header_fits, held, alive, posted, recv_q, send_coro, recv_coro, reading, next_seq_,
                 seq, misresumed, answer, phase, result, wireVars>>

\* stranded_push() of the written RPC on the receive queue.
RecvPush(c) ==
  /\ recv_q' = Append(recv_q, c)
  /\ \/ /\ recv_q # <<>>
        /\ UNCHANGED <<recv_coro, reading, misresumed>>
     \/ /\ recv_q = <<>>
        /\ misresumed' = (misresumed \/ Restarted(recv_coro) # "start")
        /\ NextRead(recv_q')

\* The rest of the write handler: pop, on_success_, and the next write.
WriteSuccess ==
  /\ io_up /\ strand = "sending"
  /\ strand' = "free"
  /\ RecvPush(Head(send_q))
  /\ send_q' = Tail(send_q)
  /\ NextWrite(Tail(send_q))
  /\ UNCHANGED <<connVars, posted, next_seq_, seq, answer, phase, result, io_up, wireVars>>

\* pop()->resolve() and the next read.  A promise satisfied already throws.
Resolve(c) ==
  /\ recv_q' = Tail(recv_q)
  /\ \/ /\ promise[c] = Unset
        /\ promise' = [promise EXCEPT ![c] = "value"]
        /\ answer' = [answer EXCEPT ![c] = Head(stream)]
        /\ NextRead(Tail(recv_q))
        /\ UNCHANGED io_up
     \/ /\ promise[c] # Unset
        /\ recv_coro' = "complete" /\ reading' = "none"
        /\ io_up' = FALSE
        /\ UNCHANGED <<promise, answer>>
  /\ UNCHANGED conn

RecvFailed(ec) ==
  /\ FailAll(recv_q, ec)
  /\ recv_q' = <<>> /\ reading' = "none"
  /\ UNCHANGED answer

\* Fault: the correlation id is not compared.
AcceptAny(r, c) == r.kind # "short"

\* The checks on a response body: header decodable, correlation id as expected.
Accept(r, c) == r.kind # "short" /\ r.corr = seq[c]

\* RPCRecvQueue::operator() called as the handler of async_read.
ReadHandler ==
  /\ OnStrand /\ reading \notin {"none", "pending"}
  /\ LET c == Head(recv_q)
         r == Head(stream)
     IN
     \/ /\ reading # "ok"
        /\ RecvFailed(ToErrc(reading))
        /\ UNCHANGED <<recv_coro, stream>>
     \/ /\ reading = "ok" /\ recv_coro = "length" /\ r.kind = "empty"
        /\ Resolve(c)
        /\ stream' = Tail(stream)
     \/ /\ reading = "ok" /\ recv_coro = "length" /\ r.kind # "empty"
        /\ recv_coro' = "body" /\ reading' = "pending"
        /\ UNCHANGED <<conn, recv_q, promise, answer, io_up, stream>>
     \/ /\ reading = "ok" /\ recv_coro = "body" /\ ~Accept(r, c)
        /\ RecvFailed("decoding_error")
        /\ recv_coro' = "complete"
        /\ stream' = Tail(stream)
     \/ /\ reading = "ok" /\ recv_coro = "body" /\ Accept(r, c)
        /\ Resolve(c)
        /\ stream' = Tail(stream)
  /\ UNCHANGED <<header_fits, held, alive, posted, send_q, send_coro, writing, strand, next_seq_,
                 seq, misresumed, phase, result, requests>>
-------------------------------------------------------------------------------
(* External: the socket and the Kafka broker at its other end *)

\* A closed socket aborts what is pending; an open one can fail at any time.
OpErrors == IF conn = "CLOSED" THEN {"operation_aborted"} ELSE SocketErrors

WriteDone ==
  /\ writing = "pending"
  /\ \/ /\ conn = "CONNECTED"
        /\ writing' = "ok"
        /\ requests' = IF header_fits THEN Append(requests, Head(send_q)) ELSE requests
     \/ /\ writing' \in OpErrors \ {"eof"}
        /\ UNCHANGED requests
  /\ UNCHANGED <<connVars, posted, send_q, recv_q, send_coro, recv_coro, reading, strand,
                 next_seq_, seq, io_up, misresumed, callVars, stream>>

ReadDone ==
  /\ reading = "pending"
  /\ \/ conn = "CONNECTED" /\ stream # <<>> /\ reading' = "ok"
     \/ reading' \in OpErrors
  /\ UNCHANGED <<connVars, posted, send_q, recv_q, send_coro, recv_coro, writing, strand,
                 next_seq_, seq, io_up, misresumed, callVars, wireVars>>

\* Requests are handled in order.  The peer answers, answers with a body that
\* does not decode, with a foreign correlation id, with a body too short for
\* the header or with length 0, or does not answer at all (required_acks 0).
KafkaReply ==
  /\ conn = "CONNECTED" /\ requests # <<>>
  /\ requests' = Tail(requests)
  /\ \E k \in Replies :
       LET c == Head(requests)
           corr == IF k = "alien" THEN seq[c] + 1 ELSE seq[c]
       IN stream' = IF k = "none" THEN stream
                    ELSE Append(stream, [of |-> c, corr |-> corr, kind |-> k])
  /\ UNCHANGED <<connVars, queueVars, callVars>>
-------------------------------------------------------------------------------
Next ==
  \/ ConnectEnds \/ DropBroker \/ Destroy
  \/ \E c \in Calls : SyncCall(c) \/ SyncReturn(c) \/ SyncTimeout(c)
  \/ StrandedPush \/ PushAfterDestroy \/ WriteHandler \/ WriteSuccess \/ ReadHandler
  \/ WriteDone \/ ReadDone \/ KafkaReply

Spec == Init /\ [][Next]_vars

\* A thread whose promise is ready is scheduled.
CallerFairSpec == Spec /\ \A c \in Calls : WF_vars(SyncReturn(c))

\* The io thread runs what is queued on the strand, and the operations pending
\* on a closed socket are aborted.  Nothing is assumed of the peer.
IoFairness ==
  /\ WF_vars(StrandedPush) /\ WF_vars(WriteHandler) /\ WF_vars(WriteSuccess)
  /\ WF_vars(ReadHandler)
  /\ WF_vars(conn = "CLOSED" /\ WriteDone) /\ WF_vars(conn = "CLOSED" /\ ReadDone)

\* wait_for() ends when its time is up.
TimeoutFairness == \A c \in Calls : WF_vars(SyncTimeout(c))
-------------------------------------------------------------------------------
(* Properties *)

Responses == [of : Calls \cup {"nobody"}, corr : Nat, kind : ReplyKinds]
PromiseErrors == {"network_fail", "decoding_error", "encoding_error",
                  "broken_promise", "no_such_file_or_directory"} \cup SocketErrors

\* Every variable has its type; in particular sync_call() only ever returns an
\* error code, never a response it has not decoded.
TypeOK ==
  /\ header_fits \in BOOLEAN /\ conn \in {"CONNECTING", "CONNECTED", "CLOSED"}
  /\ held \in BOOLEAN /\ alive \in BOOLEAN
  /\ posted \in Seq(Calls) /\ send_q \in Seq(Calls) /\ recv_q \in Seq(Calls)
  /\ send_coro \in {"start", "write", "complete"}
  /\ recv_coro \in {"start", "length", "body", "complete"}
  /\ writing \in {"none", "pending", "ok"} \cup SocketErrors
  /\ reading \in {"none", "pending", "ok"} \cup SocketErrors
  /\ strand \in {"free", "sending"}
  /\ next_seq_ \in Nat /\ seq \in [Calls -> Nat]
  /\ promise \in [Calls -> {Unset, "value"} \cup PromiseErrors]
  /\ answer \in [Calls -> Responses]
  /\ phase \in [Calls -> {"idle", "waiting", "returned"}]
  /\ result \in [Calls -> {NoError, "network_timeout"} \cup PromiseErrors]
  /\ io_up \in BOOLEAN /\ misresumed \in BOOLEAN
  /\ requests \in Seq(Calls) /\ stream \in Seq(Responses)

\* The RPCs that something still has to be done for, in pipeline order.
InFlight == recv_q \o send_q \o posted

\* No RPC is forgotten, and none has two owners: as long as its caller waits
\* and its promise is not satisfied it is posted or in one of the two queues,
\* once; and whatever is there is not satisfied.  push() gives up its
\* unique_ptr on the way, so nothing but the handlers' order ensures it.
NoCallForgotten ==
  /\ \A i, j \in DOMAIN InFlight : InFlight[i] = InFlight[j] => i = j
  /\ \A c \in Elements(InFlight) : promise[c] = Unset
  /\ \A c \in Calls : phase[c] = "waiting" /\ promise[c] = Unset
                        => c \in Elements(InFlight)

\* A queue that holds RPCs has its operation under way, and a queue without
\* RPCs has none: no RPC is stuck behind a coroutine that nobody will resume,
\* and no handler finds next() empty and dereferences it.
QueuesAreServed == /\ send_q # <<>> <=> writing # "none"
                   /\ recv_q # <<>> <=> reading # "none"

\* A coroutine is only resumed by the completion it yielded for.  Failing a
\* queue leaves its coro_ at the yield, so a push that reached the same queue
\* afterwards would carry on as if data had arrived.
NoMisresume == ~misresumed

\* sync_call() gives a caller the peer's answer to its own request, however many
\* calls share the connection.  The peer answers in order, as Kafka does; it may
\* leave answers out, cut them, or give one the correlation id of the next.
OwnResponse ==
  \A c \in Calls : promise[c] = "value" /\ answer[c].kind # "empty" => answer[c].of = c

\* The queues keep the promise of SyncCalls: whatever the order of handlers, late
\* answers, failures and timeouts, a call is settled once and returns that.
Abstract == INSTANCE SyncCalls WITH settled <- promise
ImplementsSyncCalls == Abstract!Spec

\* When the connection fails, every caller that waits on it is released by the
\* failure and need not sit out its timeout.
FailureReleasesCallers ==
  IoFairness => \A c \in Calls : header_fits /\ conn = "CLOSED" /\ phase[c] = "waiting"
                                   ~> phase[c] = "returned"

\* sync_call() returns even if the peer is silent and the io thread is gone.
CallsReturn ==
  TimeoutFairness => \A c \in Calls : phase[c] = "waiting" ~> phase[c] = "returned"

\* An RPC in the receive queue was written and awaits its response ("Write was
\* successful, handle success on the RPC and then pop it from queue").
RecvAwaitsResponse == \A c \in Elements(recv_q) : promise[c] = Unset

\* A caller sees the error of the socket operation that failed ("This way we
\* get to propagate boost::system errors").
ErrorsArePropagated ==
  \A c \in Calls : promise[c] \in {Unset, "value", "network_fail", "decoding_error",
                                    "encoding_error"} \cup SocketErrors

\* No handler on the strand uses a Broker that was destroyed ("the queue will
\* eventually destruct it when it's popped": the queue must still exist).
BrokerOutlivesHandlers == posted # <<>> \/ strand = "sending" => alive
===============================================================================
