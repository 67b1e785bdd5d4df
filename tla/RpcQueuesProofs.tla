---------------------------- MODULE RpcQueuesProofs ----------------------------
(***************************************************************************)
(* The safety of the queues for any number of calls, any of the answers in *)
(* ReplyKinds and any behaviour of the connection.                         *)
(***************************************************************************)
EXTENDS RpcQueues, TLAPS

Distinct(q) == \A i, j \in DOMAIN q : q[i] = q[j] => i = j

\* An RPC is in one place only.
OnePlace ==
  /\ Distinct(posted) /\ Distinct(send_q) /\ Distinct(recv_q)
  /\ Elements(posted) \cap Elements(send_q) = {}
  /\ Elements(posted) \cap Elements(recv_q) = {}
  /\ Elements(send_q) \cap Elements(recv_q) = {}

\* Its call has begun; and its promise is not satisfied until it leaves, unless
\* its header could not be encoded when it came to the head of the send queue.
Open ==
  /\ \A c \in Elements(posted) \cup Elements(send_q) \cup Elements(recv_q) : phase[c] # "idle"
  /\ \A c \in Calls : phase[c] = "idle" => promise[c] = Unset
  /\ \A c \in Elements(posted) : promise[c] = Unset
  /\ \A i \in DOMAIN send_q : i > 1 => promise[send_q[i]] = Unset
  /\ header_fits => \A c \in Elements(send_q) \cup Elements(recv_q) : promise[c] = Unset

\* A caller that waits has its RPC somewhere.
Awaited ==
  /\ ~alive => \A c \in Calls : phase[c] # "waiting"
  /\ header_fits => \A c \in Calls : phase[c] = "waiting" /\ promise[c] = Unset =>
                      c \in Elements(posted) \cup Elements(send_q) \cup Elements(recv_q)

\* An operation is under way for a queue that is not empty.
Served ==
  /\ writing # "none" => send_q # <<>>
  /\ reading # "none" => recv_q # <<>>
  /\ reading = "ok" => stream # <<>>
  /\ strand = "sending" => send_q # <<>>
  /\ header_fits => QueuesAreServed

\* A coroutine that was left at a yield with nothing to wait for is on a connection
\* that is closed for good.
LeftAtYield ==
  /\ send_coro = "write" /\ send_q = <<>> => conn = "CLOSED"
  /\ recv_coro \in {"length", "body"} /\ recv_q = <<>> => conn = "CLOSED" /\ strand = "free"
  /\ NoMisresume

Inv == TypeOK /\ OnePlace /\ Open /\ Awaited /\ Served /\ LeftAtYield
-------------------------------------------------------------------------------
(* Queues *)

\* A call at the end of a queue it was not in.
LEMMA AppendQueue ==
  ASSUME NEW S, NEW q \in Seq(S), NEW c \in S
  PROVE  /\ Append(q, c) \in Seq(S) /\ Append(q, c) # <<>>
         /\ Elements(Append(q, c)) = Elements(q) \cup {c}
         /\ \A i \in DOMAIN Append(q, c) :
              (i \in DOMAIN q /\ Append(q, c)[i] = q[i]) \/ Append(q, c)[i] = c
         /\ Distinct(q) /\ c \notin Elements(q) => Distinct(Append(q, c))
<1>1. /\ Append(q, c) \in Seq(S) /\ Len(Append(q, c)) = Len(q) + 1
      /\ DOMAIN Append(q, c) = 1..(Len(q) + 1) /\ DOMAIN q = 1..Len(q) /\ Len(q) \in Nat
      /\ \A i \in 1..Len(q) : Append(q, c)[i] = q[i]
      /\ Append(q, c)[Len(q) + 1] = c
  OBVIOUS
<1>2. Append(q, c) # <<>>
  BY <1>1
<1>3. Elements(Append(q, c)) = Elements(q) \cup {c}
  <2>1. ASSUME NEW x \in Elements(Append(q, c)) PROVE x \in Elements(q) \cup {c}
    BY <1>1, <2>1 DEF Elements
  <2>2. ASSUME NEW x \in Elements(q) PROVE x \in Elements(Append(q, c))
    <3>1. PICK i \in 1..Len(q) : x = q[i]
      BY <1>1, <2>2 DEF Elements
    <3>. QED BY <1>1, <3>1 DEF Elements
  <2>3. c \in Elements(Append(q, c))
    BY <1>1 DEF Elements
  <2>. QED BY <2>1, <2>2, <2>3
<1>4. ASSUME Distinct(q), c \notin Elements(q) PROVE Distinct(Append(q, c))
  <2>1. \A i \in 1..Len(q) : q[i] # c
    BY <1>1, <1>4 DEF Elements
  <2>. QED BY <1>1, <1>4, <2>1 DEF Distinct
<1>5. \A i \in DOMAIN Append(q, c) :
        (i \in DOMAIN q /\ Append(q, c)[i] = q[i]) \/ Append(q, c)[i] = c
  BY <1>1
<1>. QED BY <1>1, <1>2, <1>3, <1>4, <1>5

\* A queue without its head.
LEMMA TailQueue ==
  ASSUME NEW S, NEW q \in Seq(S), q # <<>>
  PROVE  /\ Tail(q) \in Seq(S) /\ Head(q) \in S /\ Head(q) \in Elements(q)
         /\ Head(q) = q[1] /\ 1 \in DOMAIN q
         /\ \A i \in DOMAIN Tail(q) : i + 1 \in DOMAIN q /\ Tail(q)[i] = q[i + 1]
         /\ Elements(Tail(q)) \subseteq Elements(q)
         /\ Elements(q) = Elements(Tail(q)) \cup {Head(q)}
         /\ Distinct(q) => Distinct(Tail(q)) /\ Head(q) \notin Elements(Tail(q))
<1>1. /\ Tail(q) \in Seq(S) /\ Len(Tail(q)) = Len(q) - 1 /\ Len(q) \in Nat /\ Len(q) > 0
      /\ DOMAIN Tail(q) = 1..(Len(q) - 1) /\ DOMAIN q = 1..Len(q)
      /\ \A i \in 1..(Len(q) - 1) : Tail(q)[i] = q[i + 1]
      /\ Head(q) = q[1]
  OBVIOUS
<1>2. Head(q) \in S /\ Head(q) \in Elements(q) /\ 1 \in DOMAIN q
  BY <1>1 DEF Elements
<1>3. Elements(Tail(q)) \subseteq Elements(q)
  BY <1>1 DEF Elements
<1>4. ASSUME NEW x \in Elements(q) PROVE x \in Elements(Tail(q)) \cup {Head(q)}
  <2>1. PICK i \in 1..Len(q) : x = q[i]
    BY <1>1 DEF Elements
  <2>2. CASE i = 1
    BY <1>1, <2>1, <2>2
  <2>3. CASE i > 1
    <3>1. i - 1 \in 1..(Len(q) - 1) /\ Tail(q)[i - 1] = q[i]
      BY <1>1, <2>3
    <3>. QED BY Zenon, <1>1, <2>1, <3>1 DEF Elements
  <2>. QED BY <1>1, <2>1, <2>2, <2>3
<1>5. ASSUME Distinct(q) PROVE Distinct(Tail(q)) /\ Head(q) \notin Elements(Tail(q))
  <2>1. \A i, j \in 1..(Len(q) - 1) : q[i + 1] = q[j + 1] => i = j
    BY <1>1, <1>5 DEF Distinct
  <2>2. \A i \in 1..(Len(q) - 1) : q[i + 1] # q[1]
    BY <1>1, <1>5 DEF Distinct
  <2>3. Distinct(Tail(q))
    BY <1>1, <2>1 DEF Distinct
  <2>4. Head(q) \notin Elements(Tail(q))
    BY <1>1, <2>2 DEF Elements
  <2>. QED BY <2>3, <2>4
<1>. QED BY <1>1, <1>2, <1>3, <1>4, <1>5

\* Queues with nothing or one call in them.
LEMMA ShortQueue ==
  /\ Elements(<<>>) = {} /\ Distinct(<<>>)
  /\ \A c : Elements(<<c>>) = {c} /\ Distinct(<<c>>) /\ <<c>> # <<>> /\ Head(<<c>>) = c
BY DEF Elements, Distinct

\* Two queues, one behind the other.
LEMMA JoinedQueues ==
  ASSUME NEW S, NEW p \in Seq(S), NEW q \in Seq(S)
  PROVE  /\ p \o q \in Seq(S)
         /\ Elements(p \o q) = Elements(p) \cup Elements(q)
         /\ Distinct(p) /\ Distinct(q) /\ Elements(p) \cap Elements(q) = {} => Distinct(p \o q)
<1>1. /\ p \o q \in Seq(S) /\ Len(p) \in Nat /\ Len(q) \in Nat
      /\ DOMAIN (p \o q) = 1..(Len(p) + Len(q)) /\ DOMAIN p = 1..Len(p) /\ DOMAIN q = 1..Len(q)
      /\ \A i \in 1..(Len(p) + Len(q)) : (p \o q)[i] = IF i <= Len(p) THEN p[i] ELSE q[i - Len(p)]
  OBVIOUS
<1>2. Elements(p \o q) = Elements(p) \cup Elements(q)
  <2>1. ASSUME NEW x \in Elements(p \o q) PROVE x \in Elements(p) \cup Elements(q)
    <3>1. PICK i \in 1..(Len(p) + Len(q)) : x = (p \o q)[i]
      BY <1>1 DEF Elements
    <3>2. CASE i <= Len(p)
      BY <1>1, <3>1, <3>2 DEF Elements
    <3>3. CASE ~(i <= Len(p))
      <4>1. i - Len(p) \in 1..Len(q) /\ x = q[i - Len(p)]
        BY <1>1, <3>1, <3>3
      <4>. QED BY <1>1, <4>1 DEF Elements
    <3>. QED BY <3>2, <3>3
  <2>2. ASSUME NEW x \in Elements(p) PROVE x \in Elements(p \o q)
    <3>1. PICK i \in 1..Len(p) : x = p[i]
      BY <1>1 DEF Elements
    <3>2. i \in 1..(Len(p) + Len(q)) /\ (p \o q)[i] = x
      BY <1>1, <3>1
    <3>. QED BY <1>1, <3>2 DEF Elements
  <2>3. ASSUME NEW x \in Elements(q) PROVE x \in Elements(p \o q)
    <3>1. PICK i \in 1..Len(q) : x = q[i]
      BY <1>1 DEF Elements
    <3>2. i + Len(p) \in 1..(Len(p) + Len(q)) /\ (p \o q)[i + Len(p)] = x
      BY <1>1, <3>1
    <3>. QED BY SMTT(60), <1>1, <3>2 DEF Elements
  <2>. QED BY <2>1, <2>2, <2>3
<1>3. ASSUME Distinct(p), Distinct(q), Elements(p) \cap Elements(q) = {}
      PROVE  Distinct(p \o q)
  <2>1. \A i \in 1..Len(p), j \in 1..Len(q) : p[i] # q[j]
    BY Zenon, <1>1, <1>3 DEF Elements
  <2>2. \A i, j \in 1..Len(p) : p[i] = p[j] => i = j
    BY <1>1, <1>3 DEF Distinct
  <2>3. \A i, j \in 1..Len(q) : q[i] = q[j] => i = j
    BY <1>1, <1>3 DEF Distinct
  <2>4. ASSUME NEW i \in 1..(Len(p) + Len(q)), NEW j \in 1..(Len(p) + Len(q)), (p \o q)[i] = (p \o q)[j]
        PROVE  i = j
    <3>1. CASE i <= Len(p) /\ j <= Len(p)
      BY <1>1, <2>2, <2>4, <3>1
    <3>2. CASE i <= Len(p) /\ ~(j <= Len(p))
      BY <1>1, <2>1, <2>4, <3>2
    <3>3. CASE ~(i <= Len(p)) /\ j <= Len(p)
      BY <1>1, <2>1, <2>4, <3>3
    <3>4. CASE ~(i <= Len(p)) /\ ~(j <= Len(p))
      BY <1>1, <2>3, <2>4, <3>4
    <3>. QED BY <3>1, <3>2, <3>3, <3>4
  <2>. QED BY SMTT(60), <1>1, <2>4 DEF Distinct
<1>. QED BY <1>1, <1>2, <1>3
-------------------------------------------------------------------------------
(* Types *)

\* The promises of a queue that has failed.
LEMMA FailedTypes ==
  ASSUME TypeOK, NEW q, NEW ec \in PromiseErrors
  PROVE  /\ FailedPromises(q, ec) \in [Calls -> {Unset, "value"} \cup PromiseErrors]
         /\ \A c \in Calls : FailedPromises(q, ec)[c] = promise[c] \/ promise[c] = Unset
         /\ \A c \in Calls : c \in Elements(q) => FailedPromises(q, ec)[c] # Unset
         /\ \A c \in Calls : c \notin Elements(q) => FailedPromises(q, ec)[c] = promise[c]
         /\ \A c \in Calls : FailedPromises(q, ec)[c] # promise[c] =>
              FailedPromises(q, ec)[c] \notin {Unset, "value"}
BY DEF TypeOK, FailedPromises, PromiseErrors, Unset, SocketErrors

\* The errors a socket operation can leave in a promise.
LEMMA ErrcType == \A ec \in SocketErrors : ToErrc(ec) \in PromiseErrors
BY DEF ToErrc, PromiseErrors, SocketErrors

\* Every step keeps the types.
LEMMA TypeStep == TypeOK /\ Served /\ [Next]_vars => TypeOK'
<1> SUFFICES ASSUME TypeOK, Served, [Next]_vars PROVE TypeOK'
  OBVIOUS
<1> USE DEF TypeOK, connVars, queueVars, callVars, wireVars
<1>1. CASE ConnectEnds \/ DropBroker \/ Destroy
  <2>1. CASE ConnectEnds
    BY <2>1 DEF ConnectEnds
  <2>2. CASE DropBroker
    <3>1. held' \in BOOLEAN /\ conn' = "CLOSED" /\ UNCHANGED <<header_fits, alive, queueVars, callVars, wireVars>>
      BY <2>2, Zenon DEF DropBroker
    <3>. QED BY <3>1
  <2>3. CASE Destroy
    <3>1. alive' \in BOOLEAN /\ conn' = "CLOSED" /\ UNCHANGED <<header_fits, held, queueVars, callVars, wireVars>>
      BY <2>3, Zenon DEF Destroy
    <3>. QED BY <3>1
  <2>. QED BY SMTT(60), <1>1, <2>1, <2>2, <2>3
<1>2. CASE PushAfterDestroy
  <2>1. posted' \in Seq(Calls)
    BY <1>2, TailQueue DEF PushAfterDestroy
  <2>. QED BY <1>2, <2>1 DEF PushAfterDestroy
<1>3. ASSUME NEW c \in Calls, SyncCall(c) PROVE TypeOK'
  <2>1. posted' \in Seq(Calls)
    <3>1. posted' = posted \/ posted' = Append(posted, c)
      BY <1>3 DEF SyncCall
    <3>2. posted \in Seq(Calls)
      OBVIOUS
    <3>3. Append(posted, c) \in Seq(Calls)
      BY <3>2, AppendQueue
    <3>. QED BY <3>1, <3>2, <3>3, Zenon
  <2>2. phase' \in [Calls -> {"idle", "waiting", "returned"}]
    BY Zenon, <1>3 DEF SyncCall
  <2>3. result' \in [Calls -> {NoError, "network_timeout"} \cup PromiseErrors]
    BY Zenon, <1>3 DEF SyncCall, PromiseErrors
  <2>. QED BY <1>3, <2>1, <2>2, <2>3 DEF SyncCall
<1>4. ASSUME NEW c \in Calls, SyncReturn(c) PROVE TypeOK'
  <2>1. Outcome(c) \in {NoError} \cup PromiseErrors
    BY <1>4 DEF SyncReturn, Outcome, PromiseErrors
  <2>. QED BY <1>4, <2>1 DEF SyncReturn
<1>5. ASSUME NEW c \in Calls, SyncTimeout(c) PROVE TypeOK'
  BY <1>5 DEF SyncTimeout
<1>6. CASE WriteDone
  <2>1. writing' \in {"none", "pending", "ok"} \cup SocketErrors
    BY <1>6 DEF WriteDone, OpErrors, SocketErrors
  <2>2. send_q # <<>>
    BY <1>6 DEF WriteDone, Served
  <2>3. requests' \in Seq(Calls)
    <3>1. requests' = requests \/ requests' = Append(requests, Head(send_q))
      BY <1>6 DEF WriteDone
    <3>2. Head(send_q) \in Calls
      BY <2>2, TailQueue
    <3>3. requests \in Seq(Calls)
      OBVIOUS
    <3>4. Append(requests, Head(send_q)) \in Seq(Calls)
      BY <3>2, <3>3, AppendQueue
    <3>. QED BY <3>1, <3>3, <3>4, Zenon
  <2>. QED BY SMTT(60), <1>6, <2>1, <2>3 DEF WriteDone
<1>7. CASE ReadDone
  <2>1. reading' \in {"none", "pending", "ok"} \cup SocketErrors
    BY <1>7 DEF ReadDone, OpErrors, SocketErrors
  <2>. QED BY <1>7, <2>1 DEF ReadDone
<1>8. CASE KafkaReply
  <2>1. Head(requests) \in Calls /\ Tail(requests) \in Seq(Calls)
    BY <1>8, TailQueue DEF KafkaReply
  <2>2. PICK k \in Replies :
          LET c == Head(requests)
              corr == IF k = "alien" THEN seq[c] + 1 ELSE seq[c]
          IN stream' = IF k = "none" THEN stream
                       ELSE Append(stream, [of |-> c, corr |-> corr, kind |-> k])
    BY SMTT(60), <1>8 DEF KafkaReply
  <2>3. seq[Head(requests)] \in Nat /\ k \in ReplyKinds
    BY <2>1, RepliesAssumption
  <2>4. \A n \in Nat : [of |-> Head(requests), corr |-> n, kind |-> k] \in Responses
    BY <2>1, <2>3 DEF Responses
  <2>5. stream' \in Seq(Responses)
    BY <2>2, <2>3, <2>4, AppendQueue
  <2>. QED BY SMTT(60), <1>8, <2>1, <2>5 DEF KafkaReply
<1>9. CASE StrandedPush
  <2> DEFINE c == Head(posted)
  <2>1. c \in Calls /\ Tail(posted) \in Seq(Calls)
    BY <1>9, TailQueue DEF StrandedPush
  <2>2. seq' = [seq EXCEPT ![c] = next_seq_] /\ next_seq_' = next_seq_ + 1 /\ posted' = Tail(posted)
    BY <1>9 DEF StrandedPush
  <2>3. seq' \in [Calls -> Nat] /\ next_seq_' \in Nat
    BY <2>1, <2>2
  <2>4. Append(send_q, c) \in Seq(Calls) /\ <<c>> \in Seq(Calls)
    BY <2>1, AppendQueue
  <2>5. send_q' \in Seq(Calls)
    BY <1>9, <2>4, Zenon DEF StrandedPush
  <2>6. promise' \in [Calls -> {Unset, "value"} \cup PromiseErrors]
    <3>1. promise' = promise \/ promise' = FailedPromises(<<c>>, "network_fail")
            \/ promise' = [promise EXCEPT ![Head(<<c>>)] = "encoding_error"]
      BY Zenon, <1>9 DEF StrandedPush, FailAll, StartWrite
    <3>2. FailedPromises(<<c>>, "network_fail") \in [Calls -> {Unset, "value"} \cup PromiseErrors]
      BY FailedTypes DEF PromiseErrors
    <3>3. [promise EXCEPT ![Head(<<c>>)] = "encoding_error"] \in [Calls -> {Unset, "value"} \cup PromiseErrors]
      BY <2>1, ShortQueue DEF PromiseErrors
    <3>. QED BY <3>1, <3>2, <3>3, Zenon
  <2>7. io_up' \in BOOLEAN /\ misresumed' \in BOOLEAN
    BY <1>9, Zenon DEF StrandedPush, FailAll
  <2>8. /\ conn' \in {"CONNECTING", "CONNECTED", "CLOSED"}
        /\ send_coro' \in {"start", "write", "complete"}
        /\ writing' \in {"none", "pending", "ok"} \cup SocketErrors
    BY Zenon, <1>9 DEF StrandedPush, FailAll, StartWrite, Restarted
  <2>9. UNCHANGED <<header_fits, held, alive, recv_q, recv_coro, reading, strand, answer, phase,
                    result, wireVars>>
    BY <1>9 DEF StrandedPush
  <2>. HIDE DEF c
  <2>. QED BY SMTT(60), <2>1, <2>2, <2>3, <2>5, <2>6, <2>7, <2>8, <2>9
<1>10. CASE WriteHandler
  <2>1. writing \in SocketErrors \/ writing = "ok"
    BY <1>10 DEF WriteHandler
  <2>2. promise' = promise \/ \E ec \in PromiseErrors : promise' = FailedPromises(send_q, ec)
    <3>1. "network_fail" \in PromiseErrors /\ (writing # "ok" => ToErrc(writing) \in PromiseErrors)
      BY <2>1, ErrcType DEF PromiseErrors
    <3>. QED BY <1>10, <3>1, Zenon DEF WriteHandler, FailAll
  <2>3. promise' \in [Calls -> {Unset, "value"} \cup PromiseErrors]
    BY <2>2, FailedTypes
  <2>4. io_up' \in BOOLEAN
    BY <1>10, Zenon DEF WriteHandler, FailAll
  <2>5. /\ conn' \in {"CONNECTING", "CONNECTED", "CLOSED"} /\ send_q' \in Seq(Calls)
        /\ writing' \in {"none", "pending", "ok"} \cup SocketErrors /\ strand' \in {"free", "sending"}
    <3>1. \/ conn' = "CLOSED" /\ send_q' = <<>> /\ writing' = "none" /\ strand' = strand
          \/ conn' = conn /\ send_q' = send_q /\ writing' = writing /\ strand' = "sending"
      BY <1>10, Zenon DEF WriteHandler, FailAll
    <3>2. <<>> \in Seq(Calls)
      OBVIOUS
    <3>3. send_q' \in Seq(Calls)
      BY <3>1, <3>2, Zenon
    <3>. QED BY <3>1, <3>3, Zenon
  <2>6. UNCHANGED <<header_fits, held, alive, posted, recv_q, send_coro, recv_coro, reading, next_seq_,
                    seq, misresumed, answer, phase, result, wireVars>>
    BY <1>10 DEF WriteHandler
  <2>. QED BY SMTT(60), <2>3, <2>4, <2>5, <2>6
<1>11. CASE WriteSuccess
  <2>1. Head(send_q) \in Calls /\ Tail(send_q) \in Seq(Calls)
    BY <1>11, TailQueue DEF WriteSuccess, Served
  <2>2. Append(recv_q, Head(send_q)) \in Seq(Calls)
    BY <2>1, AppendQueue
  <2>3. send_q' = Tail(send_q) /\ recv_q' = Append(recv_q, Head(send_q))
    BY <1>11 DEF WriteSuccess, RecvPush
  <2>4. promise' \in [Calls -> {Unset, "value"} \cup PromiseErrors]
    <3>1. promise' = promise \/ (Tail(send_q) # <<>> /\
                                 promise' = [promise EXCEPT ![Head(Tail(send_q))] = "encoding_error"])
      BY Zenon, <1>11 DEF WriteSuccess, NextWrite, StartWrite
    <3>2. Tail(send_q) # <<>> => Head(Tail(send_q)) \in Calls
      BY SMTT(60), <2>1, TailQueue
    <3>. QED BY Zenon, <3>1, <3>2 DEF PromiseErrors
  <2>5. misresumed' \in BOOLEAN
    BY <1>11, Zenon DEF WriteSuccess, RecvPush
  <2>6. /\ send_coro' \in {"start", "write", "complete"} /\ strand' \in {"free", "sending"}
        /\ writing' \in {"none", "pending", "ok"} \cup SocketErrors
    BY <1>11 DEF WriteSuccess, NextWrite, StartWrite
  <2>7. /\ recv_coro' \in {"start", "length", "body", "complete"}
        /\ reading' \in {"none", "pending", "ok"} \cup SocketErrors
    BY Zenon, <1>11 DEF WriteSuccess, RecvPush, NextRead
  <2>8. UNCHANGED <<connVars, posted, next_seq_, seq, answer, phase, result, io_up, wireVars>>
    BY <1>11 DEF WriteSuccess
  <2>. QED BY SMTT(60), <2>1, <2>2, <2>3, <2>4, <2>5, <2>6, <2>7, <2>8
<1>12. CASE ReadHandler
  <2>1. recv_q # <<>> /\ (reading # "ok" => reading \in SocketErrors) /\ (reading = "ok" => stream # <<>>)
    BY <1>12 DEF ReadHandler, Served
  <2>2. /\ Head(recv_q) \in Calls /\ Tail(recv_q) \in Seq(Calls)
        /\ reading = "ok" => Head(stream) \in Responses /\ Tail(stream) \in Seq(Responses)
    BY <2>1, TailQueue
  <2>3. \/ /\ \E ec \in PromiseErrors : RecvFailed(ec)
           /\ recv_coro' \in {recv_coro, "complete"}
        \/ reading = "ok" /\ Resolve(Head(recv_q))
        \/ recv_coro' = "body" /\ reading' = "pending" /\ UNCHANGED <<conn, recv_q, promise, answer, io_up>>
    <3>1. "decoding_error" \in PromiseErrors /\ (reading # "ok" => ToErrc(reading) \in PromiseErrors)
      BY <2>1, ErrcType DEF PromiseErrors
    <3>. QED BY <1>12, <3>1, Zenon DEF ReadHandler
  <2>4. stream' \in Seq(Responses)
    BY ZenonT(60), <1>12, <2>2 DEF ReadHandler
  <2>5. UNCHANGED <<header_fits, held, alive, posted, send_q, send_coro, writing, strand, next_seq_,
                    seq, misresumed, phase, result, requests>>
    BY <1>12 DEF ReadHandler
  <2>6. /\ conn' \in {"CONNECTING", "CONNECTED", "CLOSED"} /\ recv_q' \in Seq(Calls)
        /\ recv_coro' \in {"start", "length", "body", "complete"}
        /\ reading' \in {"none", "pending", "ok"} \cup SocketErrors
    <3>1. \/ /\ conn' = "CLOSED" /\ recv_q' = <<>> /\ reading' = "none"
             /\ recv_coro' \in {recv_coro, "complete"}
          \/ /\ conn' = conn /\ recv_q' = Tail(recv_q)
             /\ NextRead(Tail(recv_q)) \/ (recv_coro' = "complete" /\ reading' = "none")
          \/ conn' = conn /\ recv_q' = recv_q /\ recv_coro' = "body" /\ reading' = "pending"
      BY <2>3, Zenon DEF RecvFailed, Resolve, FailAll
    <3>2. <<>> \in Seq(Calls)
      OBVIOUS
    <3>3. recv_q' \in Seq(Calls)
      BY <2>2, <3>1, <3>2, Zenon
    <3>. QED BY <3>1, <3>3, Zenon DEF NextRead
  <2>7. promise' \in [Calls -> {Unset, "value"} \cup PromiseErrors]
    <3>1. \/ \E ec \in PromiseErrors : promise' = FailedPromises(recv_q, ec)
          \/ promise' = [promise EXCEPT ![Head(recv_q)] = "value"]
          \/ promise' = promise
      BY <2>3, Zenon DEF RecvFailed, Resolve, FailAll
    <3>2. /\ \A ec \in PromiseErrors : FailedPromises(recv_q, ec) \in [Calls -> {Unset, "value"} \cup PromiseErrors]
          /\ [promise EXCEPT ![Head(recv_q)] = "value"] \in [Calls -> {Unset, "value"} \cup PromiseErrors]
      BY SMTT(60), <2>2, FailedTypes
    <3>. QED BY <3>1, <3>2, Zenon
  <2>8. answer' \in [Calls -> Responses]
    BY Zenon, <2>2, <2>3 DEF RecvFailed, Resolve
  <2>9. io_up' \in BOOLEAN
    BY <2>3, ZenonT(60) DEF RecvFailed, Resolve, FailAll
  <2>. QED BY SMTT(60), <2>4, <2>5, <2>6, <2>7, <2>8, <2>9
<1>13. CASE UNCHANGED vars
  BY <1>13 DEF vars
<1>. QED BY Zenon, <1>1, <1>2, <1>3, <1>4, <1>5, <1>6, <1>7, <1>8, <1>9, <1>10, <1>11, <1>12, <1>13 DEF Next

\* What is queued are calls.
LEMMA QueuedCalls ==
  TypeOK => /\ Elements(posted) \subseteq Calls /\ Elements(send_q) \subseteq Calls
            /\ Elements(recv_q) \subseteq Calls
BY DEF TypeOK, Elements
-------------------------------------------------------------------------------
(* The inductive invariant *)

\* Initially nothing is queued.
LEMMA InvInit == Init => Inv
<1> SUFFICES ASSUME Init PROVE Inv
  OBVIOUS
<1>1. TypeOK
  <2>1. NoResponse \in Responses
    BY DEF NoResponse, Responses, ReplyKinds
  <2>2. header_fits \in BOOLEAN /\ held \in BOOLEAN /\ alive \in BOOLEAN /\ io_up \in BOOLEAN
          /\ misresumed \in BOOLEAN
    BY HeaderAssumption, Zenon DEF Init
  <2>. QED BY <2>1, <2>2 DEF Init, TypeOK
<1>2. OnePlace /\ Open /\ Awaited
  BY ShortQueue DEF Init, OnePlace, Open, Awaited
<1>3. Served
  BY DEF Init, Served, QueuesAreServed
<1>4. LeftAtYield
  <2>1. ~misresumed
    BY Zenon DEF Init
  <2>. QED BY <2>1 DEF Init, LeftAtYield, NoMisresume
<1>. QED BY <1>1, <1>2, <1>3, <1>4 DEF Inv

\* The steps that leave the queues and the promises as they are.
LEMMA QuietStep ==
  ASSUME Inv,
         \/ ConnectEnds \/ DropBroker \/ Destroy \/ WriteDone \/ ReadDone \/ KafkaReply
         \/ \E c \in Calls : SyncReturn(c) \/ SyncTimeout(c)
         \/ UNCHANGED vars
  PROVE  OnePlace' /\ Open' /\ Awaited' /\ Served' /\ LeftAtYield'
<1> USE DEF Inv, connVars, queueVars, callVars, wireVars
<1>1. UNCHANGED <<header_fits, posted, send_q, recv_q, promise, misresumed, send_coro, recv_coro, strand>>
  BY DEF ConnectEnds, DropBroker, Destroy, WriteDone, ReadDone, KafkaReply, SyncReturn, SyncTimeout, vars
<1>2. OnePlace'
  BY SMTT(60), <1>1 DEF OnePlace
<1>3. phase' = phase \/ \E c \in Calls : phase[c] = "waiting" /\ phase' = [phase EXCEPT ![c] = "returned"]
  BY DEF ConnectEnds, DropBroker, Destroy, WriteDone, ReadDone, KafkaReply, SyncReturn, SyncTimeout, vars
<1>4. \A c \in Calls : /\ phase'[c] = "idle" => phase[c] = "idle"
                       /\ phase'[c] = "waiting" => phase[c] = "waiting"
  BY SMTT(60), <1>3 DEF TypeOK
<1>5. Open'
  <2>1. \A c \in Elements(posted) \cup Elements(send_q) \cup Elements(recv_q) : phase'[c] # "idle"
    BY SMTT(60), <1>4, QueuedCalls DEF Open
  <2>. QED BY ZenonT(60), <1>1, <1>4, <2>1 DEF Open
<1>6. Awaited'
  <2>1. ~alive' => \A c \in Calls : phase[c] # "waiting"
    <3>1. alive' = alive \/ Destroy
      BY Zenon DEF ConnectEnds, DropBroker, Destroy, WriteDone, ReadDone, KafkaReply, SyncReturn, SyncTimeout, vars
    <3>. QED BY <3>1, ZenonT(60) DEF Awaited, Destroy
  <2>. QED BY <1>1, <1>4, <2>1 DEF Awaited
<1>7. Served'
  <2>1. /\ writing' # "none" <=> writing # "none"
        /\ reading' # "none" <=> reading # "none"
    BY Zenon DEF ConnectEnds, DropBroker, Destroy, WriteDone, ReadDone, KafkaReply, SyncReturn, SyncTimeout, vars,
           OpErrors, SocketErrors
  <2>2. reading' = "ok" => stream' # <<>>
    <3>1. CASE KafkaReply
      <4>1. PICK k \in Replies : LET c == Head(requests)
                                     corr == IF k = "alien" THEN seq[c] + 1 ELSE seq[c]
                                 IN stream' = IF k = "none" THEN stream
                                              ELSE Append(stream, [of |-> c, corr |-> corr, kind |-> k])
        BY SMTT(60), <3>1 DEF KafkaReply
      <4>2. Head(requests) \in Calls
        BY <3>1, TailQueue DEF KafkaReply, TypeOK
      <4>3. \A n \in Nat : [of |-> Head(requests), corr |-> n, kind |-> k] \in Responses
        BY SMTT(60), <4>2, RepliesAssumption DEF Responses
      <4>4. \A r \in Responses : Append(stream, r) # <<>>
        BY SMTT(60), AppendQueue DEF TypeOK
      <4>5. seq[Head(requests)] \in Nat /\ seq[Head(requests)] + 1 \in Nat
        BY <4>2 DEF TypeOK
      <4>. QED BY SMTT(60), <3>1, <4>1, <4>3, <4>4, <4>5 DEF KafkaReply, Served
    <3>2. CASE ReadDone
      BY <3>2 DEF ReadDone, Served, OpErrors, SocketErrors
    <3>3. CASE reading' = reading /\ stream' = stream
      BY <3>3 DEF Served
    <3>. QED BY ZenonT(60), <3>1, <3>2, <3>3 DEF ConnectEnds, DropBroker, Destroy, WriteDone, SyncReturn, SyncTimeout, vars
  <2>. QED BY <1>1, <2>1, <2>2 DEF Served, QueuesAreServed
<1>8. LeftAtYield'
  <2>1. conn = "CLOSED" => conn' = "CLOSED"
    BY DEF ConnectEnds, DropBroker, Destroy, WriteDone, ReadDone, KafkaReply, SyncReturn, SyncTimeout, vars
  <2>. QED BY SMTT(60), <1>1, <2>1 DEF LeftAtYield, NoMisresume
<1>. QED BY SMTT(60), <1>2, <1>5, <1>6, <1>7, <1>8

\* A call begins: its RPC is nowhere yet.
LEMMA SyncCallStep ==
  ASSUME Inv, NEW c \in Calls, SyncCall(c)
  PROVE  OnePlace' /\ Open' /\ Awaited' /\ Served' /\ LeftAtYield'
<1> USE DEF Inv, connVars, queueVars, callVars, wireVars
<1>1. /\ c \notin Elements(posted) /\ c \notin Elements(send_q) /\ c \notin Elements(recv_q)
      /\ promise[c] = Unset /\ alive
  BY Zenon DEF SyncCall, Open
<1>2. UNCHANGED <<header_fits, conn, alive, send_q, recv_q, promise, misresumed, send_coro, recv_coro,
                  strand, writing, reading, stream>>
  BY DEF SyncCall
<1>3. \/ posted' = posted /\ phase' = [phase EXCEPT ![c] = "returned"]
      \/ posted' = Append(posted, c) /\ phase' = [phase EXCEPT ![c] = "waiting"]
  BY SMTT(60) DEF SyncCall
<1>4. /\ Elements(Append(posted, c)) = Elements(posted) \cup {c}
      /\ Distinct(posted) => Distinct(Append(posted, c))
  BY <1>1, AppendQueue DEF TypeOK
<1>5. phase'[c] # "idle" /\ \A d \in Calls \ {c} : phase'[d] = phase[d]
  BY <1>3 DEF TypeOK
<1>6. OnePlace'
  BY Zenon, <1>1, <1>2, <1>3, <1>4 DEF OnePlace
<1>7. Open'
  BY ZenonT(60), <1>1, <1>2, <1>3, <1>4, <1>5, QueuedCalls DEF Open
<1>8. Awaited'
  <2>1. phase'[c] = "waiting" => c \in Elements(posted')
    BY Zenon, <1>3, <1>4 DEF TypeOK
  <2>2. Elements(posted) \subseteq Elements(posted')
    BY Zenon, <1>3, <1>4
  <2>. QED BY <1>1, <1>2, <1>5, <2>1, <2>2 DEF Awaited
<1>9. Served' /\ LeftAtYield'
  BY <1>2 DEF Served, QueuesAreServed, LeftAtYield, NoMisresume
<1>. QED BY <1>6, <1>7, <1>8, <1>9

\* A push reaches the send queue, whose coroutine is at its start if it is entered.
LEMMA PushStep ==
  ASSUME Inv, StrandedPush
  PROVE  OnePlace' /\ Open' /\ Awaited' /\ Served' /\ LeftAtYield'
<1> USE DEF Inv, connVars, queueVars, callVars, wireVars
<1> DEFINE c == Head(posted)
<1>1. /\ c \in Calls /\ c \in Elements(posted) /\ posted' = Tail(posted)
      /\ Elements(posted) = Elements(posted') \cup {c} /\ c \notin Elements(posted')
      /\ Distinct(posted')
  BY SMTT(60), TailQueue DEF StrandedPush, TypeOK, OnePlace
<1>2. /\ c \notin Elements(send_q) /\ c \notin Elements(recv_q) /\ promise[c] = Unset
      /\ phase[c] # "idle" /\ strand = "free"
  BY <1>1 DEF OnePlace, Open, StrandedPush, OnStrand
<1>3. UNCHANGED <<header_fits, alive, recv_q, recv_coro, reading, strand, phase, stream>>
  BY DEF StrandedPush
<1> HIDE DEF c
<1>4. CASE send_q # <<>>
  <2>1. send_q' = Append(send_q, c) /\ UNCHANGED <<conn, send_coro, writing, promise, misresumed>>
    BY <1>4 DEF StrandedPush, c
  <2>2. /\ Elements(send_q') = Elements(send_q) \cup {c} /\ send_q' # <<>>
        /\ Distinct(send_q) => Distinct(send_q')
        /\ \A i \in DOMAIN send_q' : (i \in DOMAIN send_q /\ send_q'[i] = send_q[i]) \/ send_q'[i] = c
    <3>1. send_q \in Seq(Calls)
      BY SMTT(60) DEF TypeOK
    <3>2. /\ Elements(Append(send_q, c)) = Elements(send_q) \cup {c} /\ Append(send_q, c) # <<>>
          /\ Distinct(send_q) /\ c \notin Elements(send_q) => Distinct(Append(send_q, c))
          /\ \A i \in DOMAIN Append(send_q, c) :
               (i \in DOMAIN send_q /\ Append(send_q, c)[i] = send_q[i]) \/ Append(send_q, c)[i] = c
      BY SMTT(60), <1>1, <3>1, AppendQueue
    <3>. QED BY <1>2, <2>1, <3>2, Zenon
  <2>3. OnePlace'
    BY <1>1, <1>2, <1>3, <2>2 DEF OnePlace
  <2>4. Open'
    <3>1. \A i \in DOMAIN send_q' : i > 1 => promise[send_q'[i]] = Unset
      BY <1>2, <2>2, ZenonT(60) DEF Open
    <3>2. /\ \A d \in Elements(posted') \cup Elements(send_q') \cup Elements(recv_q) : phase[d] # "idle"
          /\ \A d \in Elements(posted') : promise[d] = Unset
          /\ header_fits => \A d \in Elements(send_q') \cup Elements(recv_q) : promise[d] = Unset
          /\ \A d \in Calls : phase[d] = "idle" => promise[d] = Unset
      BY SMTT(60), <1>1, <1>2, <2>2 DEF Open
    <3>. QED BY <1>3, <2>1, <3>1, <3>2, Zenon DEF Open
  <2>5. Awaited'
    BY <1>1, <1>3, <2>1, <2>2 DEF Awaited
  <2>6. Served' /\ LeftAtYield'
    BY <1>3, <1>4, <2>1, <2>2 DEF Served, QueuesAreServed, LeftAtYield, NoMisresume
  <2>. QED BY <2>3, <2>4, <2>5, <2>6
<1>5. CASE send_q = <<>> /\ ~MaySend
  <2>1. /\ conn' = "CLOSED" /\ promise' = FailedPromises(<<c>>, "network_fail")
        /\ UNCHANGED <<send_q, writing, misresumed>>
    BY <1>5, Zenon DEF StrandedPush, FailAll, c
  <2>2. promise'[c] # Unset /\ \A d \in Calls \ {c} : promise'[d] = promise[d]
    BY SMTT(60), <1>1, <2>1, FailedTypes, ShortQueue DEF PromiseErrors
  <2>3. OnePlace'
    BY SMTT(60), <1>1, <1>2, <1>3, <2>1 DEF OnePlace
  <2>4. Open'
    <3>1. \A d \in Elements(posted') \cup Elements(send_q) \cup Elements(recv_q) : promise'[d] = promise[d]
      BY <1>1, <1>2, <2>2, QueuedCalls
    <3>2. \A i \in DOMAIN send_q : FALSE
      BY <1>5
    <3>. QED BY ZenonT(60), <1>1, <1>2, <1>3, <2>1, <2>2, <3>1, <3>2 DEF Open
  <2>5. Awaited'
    BY Zenon, <1>1, <1>3, <2>1, <2>2 DEF Awaited
  <2>6. Served' /\ LeftAtYield'
    BY <1>2, <1>3, <2>1 DEF Served, QueuesAreServed, LeftAtYield, NoMisresume
  <2>. QED BY <2>3, <2>4, <2>5, <2>6
<1>6. CASE send_q = <<>> /\ MaySend
  <2>1. /\ send_q' = <<c>> /\ conn' = conn /\ send_coro' = "write" /\ writing' = "pending"
        /\ promise' = IF header_fits THEN promise ELSE [promise EXCEPT ![c] = "encoding_error"]
    BY <1>6, ShortQueue DEF StrandedPush, StartWrite, c
  <2>2. ~misresumed'
    <3>1. Restarted(send_coro) = "start"
      BY <1>6 DEF LeftAtYield, MaySend, TypeOK, Restarted
    <3>2. ~misresumed
      BY DEF LeftAtYield, NoMisresume
    <3>3. misresumed' = (misresumed \/ Restarted(send_coro) # "start")
      BY <1>6, Zenon DEF StrandedPush
    <3>. QED BY <3>1, <3>2, <3>3, Zenon
  <2>3. /\ Elements(send_q') = {c} /\ Distinct(send_q') /\ send_q' # <<>>
        /\ \A i \in DOMAIN send_q' : i = 1
    BY <2>1, ShortQueue
  <2>4. (header_fits => promise' = promise) /\ \A d \in Calls \ {c} : promise'[d] = promise[d]
    BY SMTT(60), <1>1, <2>1 DEF TypeOK
  <2>5. OnePlace'
    BY SMTT(60), <1>1, <1>2, <1>3, <2>3, QueuedCalls DEF OnePlace
  <2>6. Open'
    <3>1. \A d \in Elements(posted') \cup Elements(recv_q) : promise'[d] = promise[d]
      BY <1>1, <1>2, <2>4, QueuedCalls
    <3>. QED BY SMTT(60), <1>1, <1>2, <1>3, <2>3, <2>4, <3>1 DEF Open
  <2>7. Awaited'
    <3>1. Elements(send_q) = {}
      BY SMTT(60), <1>6, ShortQueue
    <3>. QED BY <1>1, <1>3, <2>3, <2>4, <3>1 DEF Awaited
  <2>8. Served' /\ LeftAtYield'
    BY SMTT(60), <1>3, <2>1, <2>2, <2>3 DEF Served, QueuesAreServed, LeftAtYield, NoMisresume
  <2>. QED BY <2>5, <2>6, <2>7, <2>8
<1>. QED BY SMTT(60), <1>4, <1>5, <1>6

\* A push to a Broker that is gone: nobody waits for it.
LEMMA LatePushStep ==
  ASSUME Inv, PushAfterDestroy
  PROVE  OnePlace' /\ Open' /\ Awaited' /\ Served' /\ LeftAtYield'
<1> USE DEF Inv, connVars, queueVars, callVars, wireVars
<1>1. Elements(posted') \subseteq Elements(posted) /\ (Distinct(posted) => Distinct(posted'))
  BY TailQueue DEF PushAfterDestroy, TypeOK
<1>2. UNCHANGED <<header_fits, conn, alive, send_q, recv_q, promise, phase, misresumed, send_coro, recv_coro,
                  strand, writing, reading, stream>> /\ ~alive
  BY SMTT(60) DEF PushAfterDestroy
<1>3. OnePlace'
  BY SMTT(60), <1>1, <1>2 DEF OnePlace
<1>4. Open'
  BY <1>1, <1>2 DEF Open
<1>5. Awaited'
  BY <1>2 DEF Awaited
<1>6. Served' /\ LeftAtYield'
  BY <1>2 DEF Served, QueuesAreServed, LeftAtYield, NoMisresume
<1>. QED BY <1>3, <1>4, <1>5, <1>6

\* The handler of a write fails the send queue or goes on.
LEMMA WriteHandlerStep ==
  ASSUME Inv, WriteHandler
  PROVE  OnePlace' /\ Open' /\ Awaited' /\ Served' /\ LeftAtYield'
<1> USE DEF Inv, connVars, queueVars, callVars, wireVars
<1>1. /\ strand = "free" /\ send_q # <<>>
      /\ UNCHANGED <<header_fits, alive, posted, recv_q, send_coro, recv_coro, reading, misresumed, phase, stream>>
  BY DEF WriteHandler, OnStrand, Served
<1>2. CASE writing = "ok" /\ MaySend
  <2>1. strand' = "sending" /\ UNCHANGED <<conn, promise, send_q, writing>> /\ conn = "CONNECTED"
    BY SMTT(60), <1>2 DEF WriteHandler, MaySend
  <2>2. OnePlace' /\ Open' /\ Awaited'
    BY <1>1, <2>1 DEF OnePlace, Open, Awaited
  <2>3. Served' /\ LeftAtYield'
    BY <1>1, <2>1 DEF Served, QueuesAreServed, LeftAtYield, NoMisresume
  <2>. QED BY <2>2, <2>3
<1>3. CASE ~(writing = "ok" /\ MaySend)
  <2>1. PICK ec \in PromiseErrors : promise' = FailedPromises(send_q, ec)
    <3>1. "network_fail" \in PromiseErrors /\ (writing # "ok" => ToErrc(writing) \in PromiseErrors)
      BY ErrcType DEF PromiseErrors, WriteHandler, TypeOK
    <3>. QED BY <1>3, <3>1, ZenonT(60) DEF WriteHandler, FailAll
  <2>2. conn' = "CLOSED" /\ send_q' = <<>> /\ writing' = "none" /\ strand' = strand
    BY <1>3, ZenonT(60) DEF WriteHandler, FailAll
  <2>3. /\ \A d \in Calls : d \notin Elements(send_q) => promise'[d] = promise[d]
        /\ \A d \in Calls : d \in Elements(send_q) => promise'[d] # Unset
    BY <2>1, FailedTypes
  <2>4. Elements(send_q') = {} /\ Distinct(send_q') /\ \A i \in DOMAIN send_q' : FALSE
    BY <2>2, ShortQueue
  <2>5. OnePlace'
    BY SMTT(60), <1>1, <2>4 DEF OnePlace
  <2>6. Open'
    <3>0. TypeOK /\ OnePlace /\ Open
      OBVIOUS
    <3> HIDE DEF Inv
    <3>1. \A d \in Elements(posted) \cup Elements(recv_q) : promise'[d] = promise[d]
      BY SMTT(60), <2>3, <3>0, QueuedCalls DEF OnePlace
    <3>2. \A d \in Calls : phase[d] = "idle" => promise'[d] = Unset
      <4>1. \A d \in Calls : phase[d] = "idle" => d \notin Elements(send_q) /\ promise[d] = Unset
        BY SMTT(60), <3>0 DEF Open
      <4>. QED BY SMTT(60), <2>3, <4>1
    <3>3. /\ \A d \in Elements(posted) : promise'[d] = Unset
          /\ header_fits => \A d \in Elements(recv_q) : promise'[d] = Unset
      BY ZenonT(60), <3>0, <3>1 DEF Open
    <3>. QED BY ZenonT(60), <1>1, <2>4, <3>0, <3>2, <3>3 DEF Open
  <2>7. Awaited'
    BY <1>1, <2>3, <2>4 DEF Awaited
  <2>8. Served' /\ LeftAtYield'
    BY <1>1, <2>2 DEF Served, QueuesAreServed, LeftAtYield, NoMisresume
  <2>. QED BY <2>5, <2>6, <2>7, <2>8
<1>. QED BY <1>2, <1>3

\* A written RPC moves to the receive queue, whose coroutine is not at a yield if it is entered.
LEMMA WriteSuccessStep ==
  ASSUME Inv, WriteSuccess
  PROVE  OnePlace' /\ Open' /\ Awaited' /\ Served' /\ LeftAtYield'
<1> USE DEF Inv, connVars, queueVars, callVars, wireVars
<1> DEFINE c == Head(send_q)
<1>1. /\ strand = "sending" /\ send_q # <<>> /\ send_q' = Tail(send_q) /\ recv_q' = Append(recv_q, c)
      /\ UNCHANGED <<header_fits, conn, alive, posted, phase, stream>>
  BY SMTT(60) DEF WriteSuccess, RecvPush, Served
<1>2. /\ c \in Calls /\ c \in Elements(send_q) /\ Elements(send_q) = Elements(send_q') \cup {c}
      /\ Distinct(send_q') /\ c \notin Elements(send_q') /\ send_q' \in Seq(Calls)
      /\ \A i \in DOMAIN send_q' : i + 1 \in DOMAIN send_q /\ send_q'[i] = send_q[i + 1]
  BY SMTT(60), <1>1, TailQueue DEF TypeOK, OnePlace
<1>3. c \notin Elements(posted) /\ c \notin Elements(recv_q)
  BY <1>2 DEF OnePlace
<1> HIDE DEF c
<1>4. Elements(recv_q') = Elements(recv_q) \cup {c} /\ recv_q' # <<>> /\ Distinct(recv_q')
  <2>1. recv_q \in Seq(Calls) /\ Distinct(recv_q)
    BY DEF TypeOK, OnePlace
  <2>2. /\ Elements(Append(recv_q, c)) = Elements(recv_q) \cup {c} /\ Append(recv_q, c) # <<>>
        /\ Distinct(recv_q) /\ c \notin Elements(recv_q) => Distinct(Append(recv_q, c))
    BY SMTT(60), <1>2, <2>1, AppendQueue
  <2>. QED BY <1>1, <1>3, <2>1, <2>2, Zenon
<1>5. OnePlace'
  BY SMTT(60), <1>1, <1>2, <1>3, <1>4 DEF OnePlace
<1>6. /\ header_fits => promise' = promise
      /\ \A d \in Calls : promise'[d] # promise[d] => send_q' # <<>> /\ d = Head(send_q')
  <2>1. \/ promise' = promise
        \/ ~header_fits /\ send_q' # <<>> /\ promise' = [promise EXCEPT ![Head(send_q')] = "encoding_error"]
    BY SMTT(60), <1>1 DEF WriteSuccess, NextWrite, StartWrite
  <2>. QED BY SMTT(60), <2>1 DEF TypeOK
<1>7. Open'
  <2>1. \A d \in Calls : promise'[d] # promise[d] => d \in Elements(send_q')
    BY SMTT(60), <1>2, <1>6, TailQueue
  <2>2. \A d \in Elements(posted) : promise'[d] = Unset
    BY SMTT(60), <1>2, <2>1, QueuedCalls DEF Open, OnePlace
  <2>3. \A d \in Calls : phase[d] = "idle" => promise'[d] = Unset
    <3>1. \A d \in Calls : phase[d] = "idle" => d \notin Elements(send_q) /\ promise[d] = Unset
      BY ZenonT(60) DEF Open
    <3>. QED BY ZenonT(60), <1>2, <2>1, <3>1
  <2>4. ASSUME NEW i \in DOMAIN send_q', i > 1 PROVE promise'[send_q'[i]] = Unset
    <3>1. send_q' # <<>> => send_q'[i] # Head(send_q')
      BY <1>2, <2>4, TailQueue DEF Distinct
    <3>2. send_q'[i] = send_q[i + 1] /\ i + 1 \in DOMAIN send_q /\ i + 1 > 1 /\ send_q'[i] \in Calls
      BY SMTT(60), <1>2, <2>4
    <3>. QED BY SMTT(60), <1>6, <3>1, <3>2 DEF Open
  <2>. QED BY <1>1, <1>2, <1>4, <1>6, <2>2, <2>3, <2>4 DEF Open
<1>8. Awaited'
  BY SMTT(60), <1>1, <1>2, <1>4, <1>6 DEF Awaited
<1>9. Served'
  <2>1. (writing' # "none" <=> send_q' # <<>>) /\ strand' = "free"
    BY <1>1 DEF WriteSuccess, NextWrite, StartWrite
  <2>2. \/ recv_q # <<>> /\ reading' = reading
        \/ reading' = "pending"
    BY <1>1, <1>4 DEF WriteSuccess, RecvPush, NextRead
  <2>. QED BY SMTT(60), <1>1, <1>4, <2>1, <2>2 DEF Served, QueuesAreServed
<1>10. LeftAtYield'
  <2>1. send_coro' = "write" => send_q' # <<>>
    BY <1>1 DEF WriteSuccess, NextWrite, StartWrite
  <2>2. ~misresumed'
    <3>1. recv_q = <<>> => Restarted(recv_coro) = "start"
      BY <1>1 DEF LeftAtYield, TypeOK, Restarted
    <3>2. ~misresumed
      BY DEF LeftAtYield, NoMisresume
    <3>3. \/ misresumed' = misresumed
          \/ recv_q = <<>> /\ misresumed' = (misresumed \/ Restarted(recv_coro) # "start")
      BY Zenon DEF WriteSuccess, RecvPush
    <3>. QED BY <3>1, <3>2, <3>3, Zenon
  <2>. QED BY <1>1, <1>4, <2>1, <2>2 DEF LeftAtYield, NoMisresume
<1>. QED BY <1>5, <1>7, <1>8, <1>9, <1>10

\* The handler of a read answers the head of the receive queue or fails the queue.
LEMMA ReadHandlerStep ==
  ASSUME Inv, ReadHandler
  PROVE  OnePlace' /\ Open' /\ Awaited' /\ Served' /\ LeftAtYield'
<1> USE DEF Inv, connVars, queueVars, callVars, wireVars
<1> DEFINE c == Head(recv_q)
<1>1. /\ strand = "free" /\ recv_q # <<>>
      /\ UNCHANGED <<header_fits, alive, posted, send_q, send_coro, writing, strand, misresumed, phase>>
  BY SMTT(60) DEF ReadHandler, OnStrand, Served
<1>2. /\ c \in Calls /\ c \in Elements(recv_q) /\ Elements(recv_q) = Elements(Tail(recv_q)) \cup {c}
      /\ Distinct(Tail(recv_q)) /\ c \notin Elements(Tail(recv_q))
  BY <1>1, TailQueue DEF TypeOK, OnePlace
<1>3. \/ \E ec \in PromiseErrors : RecvFailed(ec)
      \/ Resolve(c)
      \/ recv_coro' = "body" /\ reading' = "pending" /\ UNCHANGED <<conn, recv_q, promise>>
  <2>1. "decoding_error" \in PromiseErrors /\ (reading # "ok" => ToErrc(reading) \in PromiseErrors)
    BY SMTT(60), ErrcType DEF PromiseErrors, ReadHandler, TypeOK
  <2>. QED BY <2>1, ZenonT(60) DEF ReadHandler
<1> HIDE DEF c
<1>4. CASE recv_coro' = "body" /\ reading' = "pending" /\ UNCHANGED <<conn, recv_q, promise>>
  <2>1. OnePlace' /\ Open' /\ Awaited'
    BY ZenonT(60), <1>1, <1>4 DEF OnePlace, Open, Awaited
  <2>2. Served' /\ LeftAtYield'
    BY <1>1, <1>4 DEF Served, QueuesAreServed, LeftAtYield, NoMisresume
  <2>. QED BY <2>1, <2>2
<1>5. CASE \E ec \in PromiseErrors : RecvFailed(ec)
  <2>1. PICK ec \in PromiseErrors : promise' = FailedPromises(recv_q, ec)
    BY <1>5, Zenon DEF RecvFailed, FailAll
  <2>2. conn' = "CLOSED" /\ recv_q' = <<>> /\ reading' = "none"
    BY <1>5, Zenon DEF RecvFailed, FailAll
  <2>3. /\ \A d \in Calls : d \notin Elements(recv_q) => promise'[d] = promise[d]
        /\ \A d \in Calls : d \in Elements(recv_q) => promise'[d] # Unset
    BY <2>1, FailedTypes
  <2>4. Elements(recv_q') = {} /\ Distinct(recv_q')
    BY SMTT(60), <2>2, ShortQueue
  <2>5. OnePlace'
    BY SMTT(60), <1>1, <2>4 DEF OnePlace
  <2>6. Open'
    <3>0. TypeOK /\ OnePlace /\ Open
      OBVIOUS
    <3> HIDE DEF Inv
    <3>1. \A d \in Elements(posted) \cup Elements(send_q) : promise'[d] = promise[d]
      BY SMTT(60), <2>3, <3>0, QueuedCalls DEF OnePlace
    <3>2. \A d \in Calls : phase[d] = "idle" => promise'[d] = Unset
      BY ZenonT(60), <2>3, <3>0 DEF Open
    <3>3. \A i \in DOMAIN send_q : send_q[i] \in Elements(send_q)
      BY SMTT(60) DEF Elements
    <3>4. /\ \A d \in Elements(posted) : promise'[d] = Unset
          /\ \A i \in DOMAIN send_q : i > 1 => promise'[send_q[i]] = Unset
          /\ header_fits => \A d \in Elements(send_q) : promise'[d] = Unset
      BY ZenonT(60), <3>0, <3>1, <3>3 DEF Open
    <3>. QED BY ZenonT(60), <1>1, <2>4, <3>0, <3>2, <3>4 DEF Open
  <2>7. Awaited'
    BY <1>1, <2>3, <2>4 DEF Awaited
  <2>8. Served' /\ LeftAtYield'
    BY <1>1, <2>2 DEF Served, QueuesAreServed, LeftAtYield, NoMisresume
  <2>. QED BY <2>5, <2>6, <2>7, <2>8
<1>6. CASE Resolve(c)
  <2>1. /\ recv_q' = Tail(recv_q) /\ conn' = conn
        /\ \/ promise[c] = Unset /\ promise' = [promise EXCEPT ![c] = "value"] /\ NextRead(Tail(recv_q))
           \/ promise[c] # Unset /\ promise' = promise /\ recv_coro' = "complete" /\ reading' = "none"
    BY <1>6, ZenonT(60) DEF Resolve
  <2>2. promise'[c] # Unset /\ \A d \in Calls \ {c} : promise'[d] = promise[d]
    BY SMTT(60), <1>2, <2>1 DEF TypeOK, Unset
  <2>3. OnePlace'
    BY SMTT(60), <1>1, <1>2, <2>1 DEF OnePlace
  <2>4. Open'
    <3>1. \A d \in Elements(posted) \cup Elements(send_q) \cup Elements(recv_q') : promise'[d] = promise[d]
      BY <1>2, <2>1, <2>2, QueuedCalls DEF OnePlace
    <3>2. \A d \in Calls : phase[d] = "idle" => promise'[d] = Unset
      BY Zenon, <1>2, <2>2 DEF Open
    <3>3. \A i \in DOMAIN send_q : send_q[i] \in Elements(send_q)
      BY DEF Elements
    <3>4. Elements(recv_q') \subseteq Elements(recv_q)
      BY SMTT(60), <1>2, <2>1
    <3>. QED BY SMTT(60), <1>1, <3>1, <3>2, <3>3, <3>4 DEF Open
  <2>5. Awaited'
    BY SMTT(60), <1>1, <1>2, <2>1, <2>2 DEF Awaited
  <2>6. Served' /\ LeftAtYield'
    <3>1. header_fits => promise[c] = Unset
      BY <1>2 DEF Open
    <3>2. /\ reading' # "none" => recv_q' # <<>> /\ reading' = "pending"
          /\ header_fits => (reading' # "none" <=> recv_q' # <<>>)
          /\ recv_coro' # "complete" => recv_q' # <<>>
      BY <2>1, <3>1 DEF NextRead
    <3>. QED BY SMTT(60), <1>1, <2>1, <3>2 DEF Served, QueuesAreServed, LeftAtYield, NoMisresume
  <2>. QED BY <2>3, <2>4, <2>5, <2>6
<1>. QED BY SMTT(60), <1>3, <1>4, <1>5, <1>6

\* Every step keeps the invariant.
LEMMA InvStep == Inv /\ [Next]_vars => Inv'
<1> SUFFICES ASSUME Inv, [Next]_vars PROVE Inv'
  OBVIOUS
<1>1. TypeOK'
  BY SMTT(60), TypeStep DEF Inv
<1>2. OnePlace' /\ Open' /\ Awaited' /\ Served' /\ LeftAtYield'
  BY QuietStep, SyncCallStep, PushStep, LatePushStep, WriteHandlerStep, WriteSuccessStep, ReadHandlerStep
     DEF Next
<1>. QED BY <1>1, <1>2 DEF Inv

\* Whatever the peer and the socket do, the invariant holds.
LEMMA Invariant == Spec => []Inv
BY InvInit, InvStep, PTL DEF Spec
-------------------------------------------------------------------------------
(* What it is for *)

\* sync_call() returns error codes and nothing else, for any set of calls.
THEOREM TypeCorrect == Spec => []TypeOK
BY Invariant, PTL DEF Inv

\* No coroutine of the queues is resumed by anything but the completion it
\* yielded for, however many calls share the connection.
THEOREM NeverMisresumed == Spec => []NoMisresume
BY Invariant, PTL DEF Inv, LeftAtYield

\* If the header of requests encodes, no RPC is ever stuck in a queue without an
\* operation under way, and no handler finds its queue empty.
THEOREM QueuesServed == Spec => [](header_fits => QueuesAreServed)
<1>1. Inv => (header_fits => QueuesAreServed)
  BY DEF Inv, Served
<1>. QED BY <1>1, Invariant, PTL

\* If the header of requests encodes, no RPC whose caller waits is lost, and none
\* has two owners.
THEOREM NothingForgotten == Spec => [](header_fits => NoCallForgotten)
<1>1. Inv => (header_fits => NoCallForgotten)
  <2> SUFFICES ASSUME Inv, header_fits PROVE NoCallForgotten
    OBVIOUS
  <2> DEFINE q == recv_q \o send_q
  <2>1. posted \in Seq(Calls) /\ send_q \in Seq(Calls) /\ recv_q \in Seq(Calls)
    BY DEF Inv, TypeOK
  <2>2. /\ q \in Seq(Calls) /\ Elements(q) = Elements(recv_q) \cup Elements(send_q)
        /\ Distinct(q)
    <3>1. Distinct(recv_q) /\ Distinct(send_q) /\ Elements(recv_q) \cap Elements(send_q) = {}
      BY DEF Inv, OnePlace
    <3>. QED BY <2>1, <3>1, JoinedQueues
  <2> HIDE DEF q
  <2>3. /\ Elements(q \o posted) = Elements(q) \cup Elements(posted)
        /\ Distinct(q \o posted)
    <3>1. Distinct(posted) /\ Elements(q) \cap Elements(posted) = {}
      BY <2>2 DEF Inv, OnePlace
    <3>. QED BY <2>1, <2>2, <3>1, JoinedQueues
  <2>4. InFlight = q \o posted
    BY DEF InFlight, q
  <2>. QED BY Zenon, <2>2, <2>3, <2>4 DEF Inv, Open, Awaited, NoCallForgotten, Distinct
<1>. QED BY <1>1, Invariant, PTL
-------------------------------------------------------------------------------
(* The queues implement SyncCalls *)

\* A handler that changes promises only from unset to an error, and only those of
\* RPCs that something was queued for, is a failure of SyncCalls.
LEMMA FailRefines ==
  ASSUME Inv, TypeOK', UNCHANGED <<phase, result>>,
         NEW S \in SUBSET (Elements(posted) \cup Elements(send_q) \cup Elements(recv_q)),
         \A c \in Calls : \/ promise'[c] = promise[c]
                          \/ c \in S /\ promise[c] = Unset /\ promise'[c] \notin {Unset, "value"}
  PROVE  Abstract!Fail
<1>1. \A c \in S : phase[c] # "idle"
  BY DEF Inv, Open
<1>2. promise' = [c \in Calls |-> promise'[c]]
  BY DEF TypeOK
<1>. QED BY SMTT(60), <1>1, <1>2 DEF Abstract!Fail, Abstract!Unsettled, Unset

\* Every step of the queues is one of SyncCalls or changes nothing it knows of.
LEMMA NextRefines == Inv /\ [Next]_vars => [Abstract!Next]_(Abstract!vars)
<1> SUFFICES ASSUME Inv, [Next]_vars PROVE [Abstract!Next]_(Abstract!vars)
  OBVIOUS
<1> USE DEF connVars, queueVars, callVars, wireVars
<1>0. TypeOK /\ TypeOK'
  BY InvStep DEF Inv
<1>1. CASE ConnectEnds \/ DropBroker \/ Destroy \/ PushAfterDestroy \/ WriteDone \/ ReadDone \/ KafkaReply
  BY Zenon, <1>1 DEF ConnectEnds, DropBroker, Destroy, PushAfterDestroy, WriteDone, ReadDone, KafkaReply, Abstract!vars
<1>2. ASSUME NEW c \in Calls, SyncCall(c) PROVE Abstract!Begin(c)
  BY SMTT(60), <1>2 DEF SyncCall, Abstract!Begin, Abstract!Return
<1>3. ASSUME NEW c \in Calls, SyncTimeout(c) PROVE Abstract!End(c)
  BY <1>3 DEF SyncTimeout, Abstract!End, Abstract!Return, Unset
<1>4. ASSUME NEW c \in Calls, SyncReturn(c) PROVE Abstract!End(c)
  <2>1. \/ promise[c] \notin {Unset, "value"} /\ Outcome(c) = promise[c]
        \/ promise[c] = "value" /\ Outcome(c) \in {"no_error", "decoding_error"}
    BY ZenonT(60), <1>4 DEF SyncReturn, Outcome, NoError
  <2>. QED BY Zenon, <1>4, <2>1 DEF SyncReturn, Abstract!End, Abstract!Return, Unset
<1>5. CASE StrandedPush
  <2> DEFINE c == Head(posted)
  <2>1. c \in Calls /\ c \in Elements(posted) /\ promise[c] = Unset
    BY Zenon, <1>0, <1>5, TailQueue DEF StrandedPush, TypeOK, Inv, Open
  <2>2. \/ promise' = promise
        \/ promise' = FailedPromises(<<c>>, "network_fail")
        \/ promise' = [promise EXCEPT ![Head(<<c>>)] = "encoding_error"]
    BY <1>5, ZenonT(60) DEF StrandedPush, FailAll, StartWrite
  <2>3. phase' = phase /\ result' = result
    BY <1>5 DEF StrandedPush
  <2> HIDE DEF c
  <2>4. Elements(<<c>>) = {c} /\ Head(<<c>>) = c /\ "network_fail" \in PromiseErrors
    BY ShortQueue DEF PromiseErrors
  <2>5. \A d \in Calls : \/ promise'[d] = promise[d]
                         \/ d \in {c} /\ promise[d] = Unset /\ promise'[d] \notin {Unset, "value"}
    <3>1. CASE promise' = FailedPromises(<<c>>, "network_fail")
      BY SMTT(60), <1>0, <2>1, <2>4, <3>1, FailedTypes
    <3>2. CASE promise' = [promise EXCEPT ![c] = "encoding_error"]
      BY <1>0, <2>1, <3>2 DEF TypeOK, Unset
    <3>. QED BY <2>2, <2>4, <3>1, <3>2, ZenonT(60)
  <2>. QED BY Zenon, <1>0, <2>1, <2>3, <2>5, FailRefines DEF Abstract!Next
<1>6. CASE WriteHandler
  <2>1. phase' = phase /\ result' = result
    BY <1>6 DEF WriteHandler
  <2>2. promise' = promise \/ \E ec \in PromiseErrors : promise' = FailedPromises(send_q, ec)
    <3>1. "network_fail" \in PromiseErrors /\ (writing # "ok" => ToErrc(writing) \in PromiseErrors)
      BY SMTT(60), <1>0, <1>6, ErrcType DEF PromiseErrors, WriteHandler, TypeOK
    <3>. QED BY <1>6, <3>1, ZenonT(60) DEF WriteHandler, FailAll
  <2>3. \A d \in Calls : \/ promise'[d] = promise[d]
                         \/ /\ d \in Elements(send_q) /\ promise[d] = Unset
                            /\ promise'[d] \notin {Unset, "value"}
    BY SMTT(60), <1>0, <2>2, FailedTypes
  <2>. QED BY ZenonT(60), <1>0, <2>1, <2>3, FailRefines DEF Abstract!Next
<1>7. CASE WriteSuccess
  <2>1. phase' = phase /\ result' = result
    BY SMTT(60), <1>7 DEF WriteSuccess
  <2>2. /\ send_q # <<>> /\ Tail(send_q) \in Seq(Calls)
        /\ \A i \in DOMAIN Tail(send_q) : i + 1 \in DOMAIN send_q /\ Tail(send_q)[i] = send_q[i + 1]
        /\ Elements(Tail(send_q)) \subseteq Elements(send_q)
    <3>1. send_q \in Seq(Calls)
      BY <1>0 DEF TypeOK
    <3>2. send_q # <<>>
      BY <1>7 DEF WriteSuccess, Inv, Served
    <3>. QED BY SMTT(60), <3>1, <3>2, TailQueue
  <2>3. Tail(send_q) # <<>> => /\ Head(Tail(send_q)) \in Elements(send_q)
                               /\ promise[Head(Tail(send_q))] = Unset
    <3>1. Tail(send_q) # <<>> => /\ Head(Tail(send_q)) = Tail(send_q)[1] /\ 1 \in DOMAIN Tail(send_q)
                                 /\ Head(Tail(send_q)) \in Elements(Tail(send_q))
      BY Zenon, <2>2, TailQueue
    <3>2. \A i \in DOMAIN send_q : i > 1 => promise[send_q[i]] = Unset
      BY DEF Inv, Open
    <3>. QED BY <2>2, <3>1, <3>2
  <2>4. \/ promise' = promise
        \/ Tail(send_q) # <<>> /\ promise' = [promise EXCEPT ![Head(Tail(send_q))] = "encoding_error"]
    BY <1>7 DEF WriteSuccess, NextWrite, StartWrite
  <2>5. \A d \in Calls : \/ promise'[d] = promise[d]
                         \/ /\ d \in Elements(send_q) /\ promise[d] = Unset
                            /\ promise'[d] \notin {Unset, "value"}
    BY Zenon, <1>0, <2>3, <2>4 DEF TypeOK, Unset
  <2>. QED BY <1>0, <2>1, <2>5, FailRefines DEF Abstract!Next
<1>8. CASE ReadHandler
  <2> DEFINE c == Head(recv_q)
  <2>1. phase' = phase /\ result' = result
    BY SMTT(60), <1>8 DEF ReadHandler
  <2>2. c \in Calls /\ c \in Elements(recv_q)
    BY Zenon, <1>0, <1>8, TailQueue DEF ReadHandler, Inv, Served, TypeOK
  <2>3. \/ \E ec \in PromiseErrors : promise' = FailedPromises(recv_q, ec)
        \/ promise[c] = Unset /\ promise' = [promise EXCEPT ![c] = "value"]
        \/ promise' = promise
    <3>1. "decoding_error" \in PromiseErrors /\ (reading # "ok" => ToErrc(reading) \in PromiseErrors)
      BY <1>0, <1>8, ErrcType DEF PromiseErrors, ReadHandler, TypeOK
    <3>. QED BY <1>8, <3>1, ZenonT(60) DEF ReadHandler, RecvFailed, FailAll, Resolve
  <2> HIDE DEF c
  <2>4. CASE promise[c] = Unset /\ promise' = [promise EXCEPT ![c] = "value"]
    <3>1. phase[c] # "idle"
      BY <2>2 DEF Inv, Open
    <3>2. Abstract!Answer(c)
      BY <2>1, <2>4, <3>1 DEF Abstract!Answer, Abstract!Unsettled, Unset
    <3>. QED BY SMTT(60), <2>2, <3>2 DEF Abstract!Next
  <2>5. CASE promise' = promise
    BY <2>1, <2>5 DEF Abstract!vars
  <2>6. CASE \E ec \in PromiseErrors : promise' = FailedPromises(recv_q, ec)
    <3>1. \A d \in Calls : \/ promise'[d] = promise[d]
                           \/ /\ d \in Elements(recv_q) /\ promise[d] = Unset
                              /\ promise'[d] \notin {Unset, "value"}
      BY SMTT(60), <1>0, <2>6, FailedTypes
    <3>. QED BY ZenonT(60), <1>0, <2>1, <3>1, FailRefines DEF Abstract!Next
  <2>. QED BY SMTT(60), <2>3, <2>4, <2>5, <2>6
<1>9. CASE UNCHANGED vars
  BY <1>9 DEF vars, Abstract!vars
<1>. QED BY <1>1, <1>2, <1>3, <1>4, <1>5, <1>6, <1>7, <1>8, <1>9 DEF Next, Abstract!Next

\* Whatever the order of handlers, late answers, failures and timeouts, a call is
\* settled at most once and returns what it was settled with.
THEOREM CallsSettledOnce == Spec => ImplementsSyncCalls
<1>1. Init => Abstract!Init
  BY SMTT(60) DEF Init, Abstract!Init, Unset, NoError
<1>. QED BY <1>1, Invariant, NextRefines, PTL DEF Spec, ImplementsSyncCalls, Abstract!Spec
===============================================================================
