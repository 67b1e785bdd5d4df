----------------------------- MODULE RpcOrderProofs -----------------------------
(***************************************************************************)
(* A caller only ever gets the response to its own request, for any number *)
(* of calls.  Responses are matched by their order and by a correlation id *)
(* that the peer may get wrong, and some requests are never answered, so   *)
(* the argument is about the order of what is queued and on the wire.      *)
(***************************************************************************)
EXTENDS RpcQueuesProofs

\* The calls whose requests or responses are on the wire.
OnWire == Elements(requests) \cup {stream[i].of : i \in DOMAIN stream}

\* The calls that stranded_push() has given a number that still matters.
Numbered == Elements(recv_q) \cup Elements(send_q) \cup OnWire

\* No two of them have the same number.
NumberedOnce ==
  /\ OnWire \subseteq Calls
  /\ Numbered \cap Elements(posted) = {}
  /\ \A c \in Numbered : phase[c] # "idle" /\ seq[c] < next_seq_
  /\ \A c, d \in Numbered : seq[c] = seq[d] => c = d

\* The numbers in the queues are consecutive, through the receive queue and then
\* the send queue, up to next_seq_; unless the send queue has failed.
InLine ==
  /\ \A i \in DOMAIN send_q : seq[send_q[i]] + Len(send_q) + 1 = next_seq_ + i
  /\ \A i \in DOMAIN recv_q : seq[recv_q[i]] + 1 = seq[recv_q[1]] + i
  /\ send_q # <<>> \/ conn # "CLOSED" =>
       \A i \in DOMAIN recv_q : seq[recv_q[i]] + Len(send_q) + Len(recv_q) + 1 = next_seq_ + i

\* What is on the wire is in order, and its responses carry its numbers or the next.
WireInOrder ==
  /\ \A i, j \in DOMAIN stream : i < j => seq[stream[i].of] < seq[stream[j].of]
  /\ \A i, j \in DOMAIN requests : i < j => seq[requests[i]] < seq[requests[j]]
  /\ \A i \in DOMAIN stream, j \in DOMAIN requests : seq[stream[i].of] < seq[requests[j]]
  /\ \A i \in DOMAIN stream : stream[i].corr \in {seq[stream[i].of], seq[stream[i].of] + 1}

\* The wire is behind the head of the send queue, and not behind the head of the
\* receive queue; unless the receive queue has failed.
WireBetween ==
  /\ send_q # <<>> => \A c \in OnWire : /\ seq[c] <= seq[send_q[1]]
                                        /\ writing = "pending" => seq[c] < seq[send_q[1]]
  /\ recv_q # <<>> => \A c \in OnWire : seq[recv_q[1]] <= seq[c]
  /\ recv_q = <<>> /\ ~(conn = "CLOSED" /\ strand = "free") =>
       \A c \in OnWire : next_seq_ <= seq[c] + Len(send_q)

Order == NumberedOnce /\ InLine /\ WireInOrder /\ WireBetween /\ OwnResponse
-------------------------------------------------------------------------------
\* Initially nothing is queued or on the wire.
LEMMA OrderInit == Init => Order
BY DEF Init, Order, NumberedOnce, InLine, WireInOrder, WireBetween, OwnResponse, Numbered, OnWire,
       Elements, Unset

\* The callers' steps and those of the connection leave what is numbered alone.
LEMMA CallerOrder ==
  ASSUME Inv, Order,
         \/ ConnectEnds \/ DropBroker \/ Destroy \/ PushAfterDestroy \/ ReadDone
         \/ \E c \in Calls : SyncCall(c) \/ SyncReturn(c) \/ SyncTimeout(c)
         \/ UNCHANGED vars
  PROVE  Order'
<1> USE DEF connVars, queueVars, callVars, wireVars
<1>1. UNCHANGED <<send_q, recv_q, strand, writing, next_seq_, seq, promise, answer, requests, stream>>
  BY Zenon DEF ConnectEnds, DropBroker, Destroy, PushAfterDestroy, ReadDone, SyncCall, SyncReturn, SyncTimeout, vars
<1>2. conn = "CLOSED" => conn' = "CLOSED"
  BY ZenonT(60) DEF ConnectEnds, DropBroker, Destroy, PushAfterDestroy, ReadDone, SyncCall, SyncReturn, SyncTimeout, vars
<1>3. OnWire' = OnWire /\ Numbered' = Numbered
  BY ZenonT(60), <1>1 DEF Numbered, OnWire
<1>4. Numbered \subseteq Calls
  BY QueuedCalls DEF Inv, Order, NumberedOnce, Numbered
<1>5. \A c \in Calls : phase'[c] = "idle" => phase[c] = "idle"
  <2>1. phase' = phase \/ \E c \in Calls, p \in {"waiting", "returned"} : phase' = [phase EXCEPT ![c] = p]
    BY SMTT(60) DEF ConnectEnds, DropBroker, Destroy, PushAfterDestroy, ReadDone, SyncCall, SyncReturn, SyncTimeout, vars
  <2>. QED BY SMTT(60), <2>1 DEF Inv, TypeOK
<1>6. Numbered \cap Elements(posted') = {}
  <2>1. CASE posted' = posted
    BY Zenon, <2>1 DEF Order, NumberedOnce
  <2>2. CASE PushAfterDestroy
    <3>1. posted # <<>> /\ posted' = Tail(posted) /\ posted \in Seq(Calls)
      BY <2>2 DEF PushAfterDestroy, Inv, TypeOK
    <3>2. Elements(posted') \subseteq Elements(posted)
      BY SMTT(60), <3>1, TailQueue
    <3>. QED BY SMTT(60), <3>2 DEF Order, NumberedOnce
  <2>3. ASSUME NEW c \in Calls, SyncCall(c), posted' # posted PROVE Numbered \cap Elements(posted') = {}
    <3>1. posted' = Append(posted, c) /\ phase[c] = "idle" /\ posted \in Seq(Calls)
      BY SMTT(60), <2>3 DEF SyncCall, Inv, TypeOK
    <3>2. Elements(posted') = Elements(posted) \cup {c}
      BY <3>1, AppendQueue
    <3>. QED BY SMTT(60), <3>1, <3>2 DEF Order, NumberedOnce
  <2>. QED BY ZenonT(60), <2>1, <2>2, <2>3 DEF ConnectEnds, DropBroker, Destroy, ReadDone, SyncReturn, SyncTimeout, vars
<1>7. NumberedOnce'
  BY <1>1, <1>3, <1>4, <1>5, <1>6 DEF Order, NumberedOnce
<1>8. InLine'
  BY <1>1, <1>2 DEF Order, InLine
<1>9. WireInOrder'
  BY ZenonT(60), <1>1 DEF Order, WireInOrder
<1>10. WireBetween'
  BY SMTT(60), <1>1, <1>2, <1>3 DEF Order, WireBetween
<1>11. OwnResponse'
  BY <1>1 DEF Order, OwnResponse
<1>. QED BY SMTT(60), <1>7, <1>8, <1>9, <1>10, <1>11 DEF Order

\* A request is written: it is the next in order.
LEMMA WriteDoneOrder ==
  ASSUME Inv, Order, WriteDone
  PROVE  Order'
<1> USE DEF connVars, queueVars, callVars, wireVars
<1> DEFINE c == Head(send_q)
<1>1. /\ UNCHANGED <<conn, posted, send_q, recv_q, strand, next_seq_, seq, promise, answer, phase, stream>>
      /\ writing = "pending" /\ writing' # "pending" /\ send_q # <<>>
  BY SMTT(60) DEF WriteDone, OpErrors, SocketErrors, Inv, Served
<1>2. /\ c \in Calls /\ c = send_q[1] /\ 1 \in DOMAIN send_q /\ c \in Elements(send_q)
      /\ requests \in Seq(Calls) /\ send_q \in Seq(Calls) /\ recv_q \in Seq(Calls)
  BY <1>1, TailQueue DEF Inv, TypeOK
<1>3. requests' = requests \/ requests' = Append(requests, c)
  BY DEF WriteDone
<1> HIDE DEF c
<1>4. CASE requests' = requests
  <2>1. OnWire' = OnWire /\ Numbered' = Numbered
    BY SMTT(60), <1>1, <1>4 DEF OnWire, Numbered
  <2>2. NumberedOnce' /\ OwnResponse'
    BY SMTT(60), <1>1, <2>1 DEF Order, NumberedOnce, OwnResponse
  <2>3. InLine' /\ WireInOrder'
    BY SMTT(60), <1>1, <1>4 DEF Order, InLine, WireInOrder
  <2>4. WireBetween'
    BY <1>1, <2>1 DEF Order, WireBetween
  <2>. QED BY SMTT(60), <2>2, <2>3, <2>4 DEF Order
<1>5. CASE requests' = Append(requests, c)
  <2>1. Elements(requests') = Elements(requests) \cup {c}
    BY SMTT(60), <1>2, <1>5, AppendQueue
  <2>2. OnWire' = OnWire \cup {c} /\ Numbered' = Numbered
    BY SMTT(60), <1>1, <1>2, <2>1 DEF OnWire, Numbered
  <2>3. NumberedOnce' /\ OwnResponse'
    BY SMTT(60), <1>1, <1>2, <2>2 DEF Order, NumberedOnce, OwnResponse
  <2>4. InLine'
    BY <1>1 DEF Order, InLine
  <2>5. \A d \in OnWire : seq[d] < seq[c]
    BY SMTT(60), <1>1, <1>2 DEF Order, WireBetween
  <2>6. WireInOrder'
    <3>1. /\ \A i \in DOMAIN stream : stream[i].of \in OnWire
          /\ \A i \in DOMAIN requests : requests[i] \in OnWire
      BY DEF OnWire, Elements
    <3>2. /\ DOMAIN requests = 1..Len(requests) /\ DOMAIN requests' = 1..(Len(requests) + 1)
          /\ Len(requests) \in Nat /\ requests'[Len(requests) + 1] = c
          /\ \A i \in 1..Len(requests) : requests'[i] = requests[i]
      BY SMTT(60), <1>2, <1>5
    <3>3. \A i \in DOMAIN stream, j \in DOMAIN requests' : seq[stream[i].of] < seq[requests'[j]]
      BY <2>5, <3>1, <3>2 DEF Order, WireInOrder
    <3>4. \A i, j \in DOMAIN requests' : i < j => seq[requests'[i]] < seq[requests'[j]]
      BY <2>5, <3>1, <3>2 DEF Order, WireInOrder
    <3>. QED BY <1>1, <3>3, <3>4 DEF Order, WireInOrder
  <2>7. WireBetween'
    <3>1. \A d \in OnWire' : seq[d] <= seq[send_q[1]]
      BY <1>2, <2>2, <2>5 DEF Order, NumberedOnce, Inv, TypeOK
    <3>2. recv_q # <<>> => seq[recv_q[1]] <= seq[c]
      <4>1. seq[c] + Len(send_q) + 1 = next_seq_ + 1 /\ seq[c] \in Nat /\ Len(send_q) \in Nat /\ next_seq_ \in Nat
        BY <1>1, <1>2 DEF Order, InLine, Inv, TypeOK
      <4>2. recv_q # <<>> => /\ 1 \in DOMAIN recv_q /\ recv_q[1] \in Calls
                             /\ Len(recv_q) \in Nat
        BY SMTT(60), <1>2
      <4>3. recv_q # <<>> => /\ seq[recv_q[1]] \in Nat
                             /\ seq[recv_q[1]] + Len(send_q) + Len(recv_q) + 1 = next_seq_ + 1
        BY SMTT(60), <1>1, <4>2 DEF Order, InLine, Inv, TypeOK
      <4>. QED BY SMTT(60), <4>1, <4>2, <4>3
    <3>3. next_seq_ <= seq[c] + Len(send_q)
      BY SMTT(60), <1>1, <1>2 DEF Order, InLine, Inv, TypeOK
    <3>. QED BY <1>1, <2>2, <3>1, <3>2, <3>3 DEF Order, WireBetween
  <2>. QED BY SMTT(60), <2>3, <2>4, <2>6, <2>7 DEF Order
<1>. QED BY SMTT(60), <1>3, <1>4, <1>5

\* The peer answers the first of its requests.
LEMMA ReplyOrder ==
  ASSUME Inv, Order, KafkaReply
  PROVE  Order'
<1> USE DEF connVars, queueVars, callVars, wireVars
<1> DEFINE c == Head(requests)
<1>1. /\ UNCHANGED <<conn, posted, send_q, recv_q, strand, next_seq_, seq, promise, answer, phase, writing>>
      /\ requests # <<>> /\ requests' = Tail(requests)
  BY SMTT(60) DEF KafkaReply
<1>2. /\ c \in Calls /\ c = requests[1] /\ 1 \in DOMAIN requests /\ c \in Elements(requests)
      /\ requests \in Seq(Calls) /\ stream \in Seq(Responses) /\ Elements(requests') \subseteq Elements(requests)
  BY <1>1, TailQueue DEF Inv, TypeOK
<1>3. /\ Len(requests) \in Nat /\ DOMAIN requests = 1..Len(requests)
      /\ DOMAIN requests' = 1..(Len(requests) - 1)
      /\ \A i \in DOMAIN requests' : i + 1 \in DOMAIN requests /\ requests'[i] = requests[i + 1]
  BY SMTT(60), <1>1, <1>2
<1>4. /\ \A i \in DOMAIN stream : stream[i].of \in OnWire
      /\ \A i \in DOMAIN requests : requests[i] \in OnWire
      /\ c \in OnWire
  BY <1>2 DEF OnWire, Elements
<1>5. \/ stream' = stream
      \/ \E r \in Responses : stream' = Append(stream, r) /\ r.of = c /\ r.corr \in {seq[c], seq[c] + 1}
  <2>1. PICK k \in Replies : stream' = IF k = "none" THEN stream
                                       ELSE Append(stream, [of |-> c, kind |-> k,
                                                            corr |-> IF k = "alien" THEN seq[c] + 1 ELSE seq[c]])
    BY SMTT(60) DEF KafkaReply
  <2>2. seq[c] \in Nat
    BY <1>2 DEF Inv, TypeOK
  <2> HIDE DEF c
  <2>3. \A n \in Nat : [of |-> c, corr |-> n, kind |-> k] \in Responses
    BY SMTT(60), <1>2, RepliesAssumption DEF Responses
  <2>. QED BY SMTT(60), <2>1, <2>2, <2>3
<1> HIDE DEF c
<1>6. /\ \A i \in DOMAIN stream : seq[stream[i].of] < seq[c]
      /\ \A i \in DOMAIN requests' : seq[c] < seq[requests'[i]]
  BY <1>2, <1>3 DEF Order, WireInOrder
<1>7. CASE stream' = stream
  <2>1. OnWire' \subseteq OnWire /\ Numbered' \subseteq Numbered
    BY <1>1, <1>2, <1>7 DEF OnWire, Numbered
  <2>2. NumberedOnce' /\ OwnResponse'
    BY <1>1, <2>1 DEF Order, NumberedOnce, OwnResponse
  <2>3. InLine'
    BY <1>1 DEF Order, InLine
  <2>4. WireInOrder'
    BY SMTT(60), <1>1, <1>3, <1>7 DEF Order, WireInOrder
  <2>5. WireBetween'
    BY <1>1, <2>1 DEF Order, WireBetween
  <2>. QED BY <2>2, <2>3, <2>4, <2>5 DEF Order
<1>8. ASSUME NEW r \in Responses, stream' = Append(stream, r), r.of = c, r.corr \in {seq[c], seq[c] + 1}
      PROVE  Order'
  <2>1. /\ Len(stream) \in Nat /\ DOMAIN stream = 1..Len(stream) /\ DOMAIN stream' = 1..(Len(stream) + 1)
        /\ \A i \in 1..Len(stream) : stream'[i] = stream[i]
        /\ stream'[Len(stream) + 1] = r
    BY SMTT(60), <1>2, <1>8
  <2>2. OnWire' \subseteq OnWire /\ Numbered' \subseteq Numbered
    <3>1. \A i \in DOMAIN stream' : stream'[i].of \in OnWire
      BY SMTT(60), <1>4, <1>8, <2>1
    <3>. QED BY SMTT(60), <1>1, <1>2, <3>1 DEF OnWire, Numbered
  <2>3. NumberedOnce' /\ OwnResponse'
    BY ZenonT(60), <1>1, <2>2 DEF Order, NumberedOnce, OwnResponse
  <2>4. InLine'
    BY SMTT(60), <1>1 DEF Order, InLine
  <2>5. WireInOrder'
    <3>1. \A i, j \in DOMAIN stream' : i < j => seq[stream'[i].of] < seq[stream'[j].of]
      BY SMTT(60), <1>6, <1>8, <2>1 DEF Order, WireInOrder
    <3>2. \A i, j \in DOMAIN requests' : i < j => seq[requests'[i]] < seq[requests'[j]]
      BY SMTT(60), <1>3 DEF Order, WireInOrder
    <3>3. \A i \in DOMAIN stream', j \in DOMAIN requests' : seq[stream'[i].of] < seq[requests'[j]]
      BY SMTT(60), <1>3, <1>6, <1>8, <2>1 DEF Order, WireInOrder
    <3>4. \A i \in DOMAIN stream' : stream'[i].corr \in {seq[stream'[i].of], seq[stream'[i].of] + 1}
      BY SMTT(60), <1>8, <2>1 DEF Order, WireInOrder
    <3>. QED BY SMTT(60), <1>1, <3>1, <3>2, <3>3, <3>4 DEF WireInOrder
  <2>6. WireBetween'
    BY <1>1, <2>2 DEF Order, WireBetween
  <2>. QED BY SMTT(60), <2>3, <2>4, <2>5, <2>6 DEF Order
<1>. QED BY <1>5, <1>7, <1>8

\* The handler of a write fails the send queue or goes on.
LEMMA WriteHandlerOrder ==
  ASSUME Inv, Order, WriteHandler
  PROVE  Order'
<1> USE DEF connVars, queueVars, callVars, wireVars
<1>1. /\ UNCHANGED <<posted, recv_q, next_seq_, seq, answer, phase, requests, stream>>
      /\ strand = "free" /\ send_q # <<>> /\ writing # "pending"
  BY DEF WriteHandler, OnStrand, Inv, Served
<1>2. \/ conn' = "CLOSED" /\ send_q' = <<>> /\ strand' = "free"
      \/ conn = "CONNECTED" /\ UNCHANGED <<conn, send_q, writing>>
  BY <1>1, ZenonT(60) DEF WriteHandler, FailAll, MaySend
<1>3. OnWire' = OnWire /\ Numbered' \subseteq Numbered
  <2>1. Elements(send_q') \subseteq Elements(send_q)
    BY SMTT(60), <1>2, ShortQueue
  <2>. QED BY <1>1, <2>1 DEF OnWire, Numbered
<1>4. \A c \in Calls : promise'[c] = "value" => promise[c] = "value"
  <2>1. promise' = promise \/ \E ec \in PromiseErrors : promise' = FailedPromises(send_q, ec)
    <3>1. "network_fail" \in PromiseErrors /\ (writing # "ok" => ToErrc(writing) \in PromiseErrors)
      BY SMTT(60), ErrcType DEF PromiseErrors, WriteHandler, Inv, TypeOK
    <3>. QED BY <3>1, ZenonT(60) DEF WriteHandler, FailAll
  <2>. QED BY <2>1, FailedTypes DEF Inv
<1>5. NumberedOnce' /\ WireInOrder' /\ OwnResponse'
  BY SMTT(60), <1>1, <1>3, <1>4 DEF Order, NumberedOnce, WireInOrder, OwnResponse
<1>6. InLine'
  BY <1>1, <1>2 DEF Order, InLine
<1>7. WireBetween'
  BY <1>1, <1>2, <1>3 DEF Order, WireBetween
<1>. QED BY SMTT(60), <1>5, <1>6, <1>7 DEF Order

\* A push gives the next number to an RPC that had none.
LEMMA PushOrder ==
  ASSUME Inv, Order, StrandedPush
  PROVE  Order'
<1> USE DEF connVars, queueVars, callVars, wireVars
<1> DEFINE c == Head(posted)
<1>1. /\ UNCHANGED <<recv_q, strand, answer, phase, requests, stream>> /\ posted' = Tail(posted)
      /\ seq' = [seq EXCEPT ![c] = next_seq_] /\ next_seq_' = next_seq_ + 1 /\ strand = "free"
  BY SMTT(60) DEF StrandedPush, OnStrand
<1>2. /\ c \in Calls /\ c \in Elements(posted) /\ c \notin Elements(posted')
      /\ Elements(posted') \subseteq Elements(posted)
  BY ZenonT(60), TailQueue DEF StrandedPush, Inv, TypeOK, OnePlace
<1>3. /\ send_q \in Seq(Calls) /\ recv_q \in Seq(Calls) /\ next_seq_ \in Nat /\ seq \in [Calls -> Nat]
      /\ Len(send_q) \in Nat /\ Len(recv_q) \in Nat
      /\ DOMAIN send_q = 1..Len(send_q) /\ DOMAIN recv_q = 1..Len(recv_q)
  BY DEF Inv, TypeOK
<1>4. \/ send_q # <<>> /\ send_q' = Append(send_q, c) /\ UNCHANGED <<conn, writing, promise>>
      \/ send_q = <<>> /\ send_q' = <<>> /\ conn' = "CLOSED" /\ promise' = FailedPromises(<<c>>, "network_fail")
      \/ /\ send_q = <<>> /\ send_q' = <<c>> /\ conn' = conn /\ conn = "CONNECTED"
         /\ promise' = promise \/ promise' = [promise EXCEPT ![c] = "encoding_error"]
  BY ShortQueue, ZenonT(60) DEF StrandedPush, FailAll, StartWrite, MaySend
<1> HIDE DEF c
<1>5. /\ OnWire' = OnWire /\ Numbered \subseteq Calls /\ c \notin Numbered
      /\ \A d \in Numbered : seq'[d] = seq[d] /\ seq[d] < next_seq_
      /\ seq'[c] = next_seq_
  <2>1. OnWire' = OnWire
    BY SMTT(60), <1>1 DEF OnWire
  <2>2. Numbered \subseteq Calls
    BY SMTT(60), QueuedCalls DEF Inv, Order, NumberedOnce, Numbered
  <2>3. c \notin Numbered
    BY SMTT(60), <1>2 DEF Order, NumberedOnce
  <2>. QED BY SMTT(60), <1>1, <1>2, <1>3, <2>1, <2>2, <2>3 DEF Order, NumberedOnce
<1>6. /\ \A i \in DOMAIN send_q : send_q[i] \in Numbered
      /\ \A i \in DOMAIN recv_q : recv_q[i] \in Numbered
      /\ \A i \in DOMAIN requests : requests[i] \in Numbered
      /\ \A i \in DOMAIN stream : stream[i].of \in Numbered
      /\ OnWire \subseteq Numbered
  BY SMTT(60) DEF Numbered, OnWire, Elements
<1>a. \A i \in DOMAIN recv_q : /\ seq'[recv_q[i]] = seq[recv_q[i]] /\ seq[recv_q[i]] \in Nat
                               /\ seq'[recv_q[i]] + 1 = seq'[recv_q[1]] + i
  <2> SUFFICES ASSUME NEW i \in DOMAIN recv_q
               PROVE  /\ seq'[recv_q[i]] = seq[recv_q[i]] /\ seq[recv_q[i]] \in Nat
                      /\ seq'[recv_q[i]] + 1 = seq'[recv_q[1]] + i
    OBVIOUS
  <2>0. i \in 1..Len(recv_q)
    BY <1>3
  <2>1. 1 \in DOMAIN recv_q /\ recv_q[1] \in Numbered /\ recv_q[i] \in Numbered
    <3>1. 1 \in DOMAIN recv_q
      BY <1>3, <2>0
    <3>. QED BY <1>6, <3>1
  <2>2. seq[recv_q[i]] + 1 = seq[recv_q[1]] + i
    BY DEF Order, InLine
  <2>. QED BY SMTT(60), <1>3, <1>5, <2>1, <2>2
<1>b. recv_q # <<>> => 1 \in DOMAIN recv_q
  BY <1>3
<1>7. Elements(send_q') \subseteq Elements(send_q) \cup {c}
  <2>1. Elements(Append(send_q, c)) = Elements(send_q) \cup {c}
    BY SMTT(60), <1>2, <1>3, AppendQueue
  <2>. QED BY ZenonT(60), <1>4, <2>1, ShortQueue
<1>8. NumberedOnce'
  <2>1. Numbered' \subseteq Numbered \cup {c}
    BY SMTT(60), <1>1, <1>5, <1>7 DEF Numbered
  <2>2. phase[c] # "idle"
    BY SMTT(60), <1>2 DEF Inv, Open
  <2>3. \A d \in Numbered' : phase'[d] # "idle" /\ seq'[d] < next_seq_'
    BY SMTT(60), <1>1, <1>3, <1>5, <2>1, <2>2 DEF Order, NumberedOnce
  <2>4. \A d, e \in Numbered' : seq'[d] = seq'[e] => d = e
    BY SMTT(60), <1>3, <1>5, <2>1 DEF Order, NumberedOnce
  <2>. QED BY SMTT(60), <1>2, <1>5, <2>1, <2>3, <2>4 DEF Order, NumberedOnce
<1>9. WireInOrder'
  <2>1. WireInOrder /\ UNCHANGED <<requests, stream>>
    BY SMTT(60), <1>1 DEF Order
  <2>2. /\ \A i \in DOMAIN requests : seq'[requests[i]] = seq[requests[i]]
        /\ \A i \in DOMAIN stream : seq'[stream[i].of] = seq[stream[i].of]
    BY ZenonT(60), <1>5, <1>6
  <2>. QED BY SMTT(60), <2>1, <2>2 DEF WireInOrder
<1>10. OwnResponse'
  <2>1. \A d \in Calls : promise'[d] = "value" => promise[d] = "value"
    <3>1. CASE promise' = FailedPromises(<<c>>, "network_fail")
      BY SMTT(60), <3>1, FailedTypes DEF Inv, PromiseErrors
    <3>2. CASE promise' = [promise EXCEPT ![c] = "encoding_error"]
      BY <3>2 DEF Inv, TypeOK
    <3>. QED BY SMTT(60), <1>4, <3>1, <3>2
  <2>. QED BY Zenon, <1>1, <2>1 DEF Order, OwnResponse
<1>11. CASE send_q # <<>> /\ send_q' = Append(send_q, c) /\ UNCHANGED <<conn, writing, promise>>
  <2>0. PICK n \in Nat : n = Len(send_q)
    BY Zenon, <1>3
  <2>1. /\ Len(send_q') = n + 1 /\ DOMAIN send_q' = 1..(n + 1) /\ DOMAIN send_q = 1..n
        /\ \A i \in 1..n : send_q'[i] = send_q[i]
        /\ send_q'[n + 1] = c /\ n > 0
    BY SMTT(60), <1>2, <1>3, <1>11, <2>0
  <2>2. InLine'
    <3>1. ASSUME NEW i \in DOMAIN send_q' PROVE seq'[send_q'[i]] + Len(send_q') + 1 = next_seq_' + i
      <4>1. CASE i = n + 1
        <5>1. seq'[send_q'[i]] = next_seq_
          BY SMTT(60), <1>5, <2>1, <4>1
        <5>. QED BY SMTT(60), <1>1, <1>3, <2>1, <4>1, <5>1
      <4>2. CASE i \in 1..n
        <5>1. send_q'[i] = send_q[i] /\ send_q[i] \in Numbered
          BY SMTT(60), <1>6, <2>1, <4>2
        <5>2. seq'[send_q'[i]] = seq[send_q[i]] /\ seq[send_q[i]] \in Nat
          BY SMTT(60), <1>3, <1>5, <5>1
        <5>3. seq[send_q[i]] + n + 1 = next_seq_ + i
          BY SMTT(60), <2>0, <2>1, <4>2 DEF Order, InLine
        <5>. QED BY SMTT(60), <1>1, <1>3, <2>1, <4>2, <5>2, <5>3
      <4>. QED BY SMTT(60), <2>0, <2>1, <4>1, <4>2
    <3>3. ASSUME NEW i \in DOMAIN recv_q
          PROVE  seq'[recv_q[i]] + Len(send_q') + Len(recv_q) + 1 = next_seq_' + i
      <4>1. seq[recv_q[i]] + n + Len(recv_q) + 1 = next_seq_ + i
        BY SMTT(60), <1>11, <2>0 DEF Order, InLine
      <4>. QED BY SMTT(60), <1>1, <1>3, <1>a, <2>1, <4>1
    <3>. QED BY SMTT(60), <1>1, <1>a, <3>1, <3>3 DEF InLine
  <2>3. WireBetween'
    <3>1. \A d \in OnWire : seq'[d] = seq[d] /\ seq[d] \in Nat
      BY SMTT(60), <1>3, <1>5, <1>6
    <3>2. send_q'[1] = send_q[1] /\ seq'[send_q[1]] = seq[send_q[1]]
      BY SMTT(60), <1>3, <1>5, <1>6, <2>1
    <3>3. recv_q # <<>> => seq'[recv_q[1]] = seq[recv_q[1]]
      BY <1>a, <1>b
    <3>4. recv_q = <<>> /\ ~(conn = "CLOSED" /\ strand = "free") =>
            \A d \in OnWire : next_seq_' <= seq'[d] + Len(send_q')
      BY SMTT(60), <1>1, <1>3, <2>0, <2>1, <3>1 DEF Order, WireBetween
    <3>. QED BY SMTT(60), <1>1, <1>5, <1>11, <3>1, <3>2, <3>3, <3>4 DEF Order, WireBetween
  <2>. QED BY <1>8, <1>9, <1>10, <2>2, <2>3 DEF Order
<1>12. CASE send_q = <<>> /\ send_q' = <<>> /\ conn' = "CLOSED"
  <2>1. InLine'
    <3>2. \A i \in DOMAIN send_q' : FALSE
      BY SMTT(60), <1>12
    <3>. QED BY <1>1, <1>a, <1>12, <3>2 DEF InLine
  <2>2. WireBetween'
    <3>1. recv_q # <<>> => seq'[recv_q[1]] = seq[recv_q[1]]
      BY <1>a, <1>b
    <3>. QED BY <1>1, <1>5, <1>6, <1>12, <3>1 DEF Order, WireBetween
  <2>. QED BY SMTT(60), <1>8, <1>9, <1>10, <2>1, <2>2 DEF Order
<1>13. CASE send_q = <<>> /\ send_q' = <<c>> /\ conn' = conn /\ conn = "CONNECTED"
  <2>1. Len(send_q') = 1 /\ DOMAIN send_q' = {1} /\ send_q'[1] = c /\ Len(send_q) = 0
    BY SMTT(60), <1>13
  <2>2. InLine'
    <3>1. \A i \in DOMAIN send_q' : seq'[send_q'[i]] + Len(send_q') + 1 = next_seq_' + i
      BY SMTT(60), <1>1, <1>3, <1>5, <2>1
    <3>3. \A i \in DOMAIN recv_q : seq'[recv_q[i]] + Len(send_q') + Len(recv_q) + 1 = next_seq_' + i
      <4>1. \A i \in DOMAIN recv_q : seq[recv_q[i]] + Len(send_q) + Len(recv_q) + 1 = next_seq_ + i
        BY SMTT(60), <1>13 DEF Order, InLine
      <4>. QED BY SMTT(60), <1>1, <1>3, <1>a, <2>1, <4>1
    <3>. QED BY SMTT(60), <1>1, <1>a, <3>1, <3>3 DEF InLine
  <2>3. WireBetween'
    <3>1. \A d \in OnWire : seq'[d] = seq[d] /\ seq[d] \in Nat /\ seq[d] < next_seq_
      BY SMTT(60), <1>3, <1>5, <1>6
    <3>2. recv_q # <<>> => seq'[recv_q[1]] = seq[recv_q[1]]
      BY <1>a, <1>b
    <3>3. recv_q = <<>> => \A d \in OnWire : next_seq_' <= seq'[d] + Len(send_q')
      BY SMTT(60), <1>1, <1>3, <1>13, <2>1, <3>1 DEF Order, WireBetween
    <3>4. \A d \in OnWire : seq'[d] < seq'[send_q'[1]] /\ seq'[d] <= seq'[send_q'[1]]
      BY <1>3, <1>5, <2>1, <3>1
    <3>. QED BY SMTT(60), <1>1, <1>5, <3>1, <3>2, <3>3, <3>4 DEF Order, WireBetween
  <2>. QED BY <1>8, <1>9, <1>10, <2>2, <2>3 DEF Order
<1>. QED BY <1>4, <1>11, <1>12, <1>13, Zenon

\* A written RPC goes from the head of the send queue to the end of the receive queue.
LEMMA WriteSuccessOrder ==
  ASSUME Inv, Order, WriteSuccess
  PROVE  Order'
<1> USE DEF connVars, queueVars, callVars, wireVars
<1> DEFINE c == Head(send_q)
<1>1. /\ UNCHANGED <<conn, posted, next_seq_, seq, answer, phase, requests, stream>>
      /\ strand = "sending" /\ send_q # <<>> /\ send_q' = Tail(send_q) /\ recv_q' = Append(recv_q, c)
  BY SMTT(60) DEF WriteSuccess, RecvPush, Inv, Served
<1>0. send_q \in Seq(Calls) /\ recv_q \in Seq(Calls) /\ Tail(send_q) \in Seq(Calls)
  BY SMTT(60), <1>1, TailQueue DEF Inv, TypeOK
<1>2. c \in Calls /\ c = send_q[1] /\ c \in Elements(send_q) /\ Elements(send_q') \subseteq Elements(send_q)
  BY <1>0, <1>1, TailQueue
<1>3. PICK n \in Nat, m \in Nat : n = Len(send_q) /\ m = Len(recv_q)
  BY <1>0
<1>4. /\ n > 0 /\ Len(send_q') \in Nat /\ Len(send_q') = n - 1
      /\ DOMAIN send_q = 1..n /\ DOMAIN send_q' = 1..(n - 1)
      /\ \A i \in 1..(n - 1) : i + 1 \in 1..n /\ send_q'[i] = send_q[i + 1]
      /\ send_q' # <<>> => send_q'[1] = send_q[2] /\ n > 1
  BY SMTT(60), <1>0, <1>1, <1>3
<1> HIDE DEF c
<1>5. /\ Len(recv_q') = m + 1 /\ DOMAIN recv_q' = 1..(m + 1) /\ DOMAIN recv_q = 1..m
      /\ \A i \in 1..m : recv_q'[i] = recv_q[i]
      /\ recv_q'[m + 1] = c /\ (recv_q = <<>> <=> m = 0)
  BY SMTT(60), <1>0, <1>1, <1>2, <1>3
<1>6. /\ \A i \in 1..n : seq[send_q[i]] \in Nat /\ seq[send_q[i]] + n + 1 = next_seq_ + i
      /\ \A i \in 1..m : seq[recv_q[i]] \in Nat /\ seq[recv_q[i]] + n + m + 1 = next_seq_ + i
      /\ next_seq_ \in Nat
  <2>1. \A i \in 1..n : seq[send_q[i]] + n + 1 = next_seq_ + i
    BY SMTT(60), <1>3, <1>4 DEF Order, InLine
  <2>2. \A i \in 1..m : seq[recv_q[i]] + n + m + 1 = next_seq_ + i
    BY SMTT(60), <1>1, <1>3, <1>5 DEF Order, InLine
  <2>3. (\A i \in 1..n : send_q[i] \in Calls) /\ (\A i \in 1..m : recv_q[i] \in Calls)
    BY SMTT(60), <1>0, <1>4, <1>5
  <2>4. seq \in [Calls -> Nat] /\ next_seq_ \in Nat
    BY DEF Inv, TypeOK
  <2>. QED BY SMTT(60), <2>1, <2>2, <2>3, <2>4
<1>7. seq[c] \in Nat /\ seq[c] + n = next_seq_
  <2>1. 1 \in 1..n
    BY SMTT(60), <1>4
  <2>2. seq[c] \in Nat /\ seq[c] + n + 1 = next_seq_ + 1 /\ next_seq_ \in Nat
    BY SMTT(60), <1>2, <1>6, <2>1
  <2>. QED BY <2>2
<1>8. OnWire' = OnWire /\ Numbered' \subseteq Numbered
  <2>1. Elements(recv_q') = Elements(recv_q) \cup {c}
    BY SMTT(60), <1>0, <1>1, <1>2, AppendQueue
  <2>. QED BY SMTT(60), <1>1, <1>2, <2>1 DEF OnWire, Numbered
<1>9. OwnResponse'
  <2>1. \/ promise' = promise
        \/ send_q' # <<>> /\ promise' = [promise EXCEPT ![Head(send_q')] = "encoding_error"]
    BY SMTT(60), <1>1 DEF WriteSuccess, NextWrite, StartWrite
  <2>2. \A d \in Calls : promise'[d] = "value" => promise[d] = "value"
    BY SMTT(60), <2>1 DEF Inv, TypeOK
  <2>. QED BY SMTT(60), <1>1, <2>2 DEF Order, OwnResponse
<1>10. NumberedOnce' /\ WireInOrder'
  <2>1. NumberedOnce'
    BY SMTT(60), <1>1, <1>8 DEF Order, NumberedOnce
  <2>2. WireInOrder'
    BY SMTT(60), <1>1 DEF Order, WireInOrder
  <2>. QED BY <2>1, <2>2
<1>11. InLine'
  <2>1. ASSUME NEW i \in 1..(n - 1) PROVE seq[send_q'[i]] + Len(send_q') + 1 = next_seq_ + i
    <3>1. i + 1 \in 1..n /\ send_q'[i] = send_q[i + 1]
      BY <1>4
    <3>2. seq[send_q'[i]] \in Nat /\ seq[send_q'[i]] + n + 1 = next_seq_ + (i + 1) /\ next_seq_ \in Nat
      BY <1>6, <3>1
    <3>3. Len(send_q') \in Nat /\ Len(send_q') = n - 1
      BY SMTT(60), <1>4
    <3>. QED BY SMTT(60), <3>2, <3>3
  <2>2. ASSUME NEW i \in 1..(m + 1)
        PROVE  seq[recv_q'[i]] \in Nat /\ seq[recv_q'[i]] + n + m + 1 = next_seq_ + i
    <3>1. CASE i = m + 1
      BY SMTT(60), <1>5, <1>6, <1>7, <3>1
    <3>2. CASE i \in 1..m
      BY SMTT(60), <1>5, <1>6, <3>2
    <3>. QED BY SMTT(60), <3>1, <3>2
  <2>3. ASSUME NEW i \in 1..(m + 1)
        PROVE  /\ seq[recv_q'[i]] + 1 = seq[recv_q'[1]] + i
               /\ seq[recv_q'[i]] + Len(send_q') + Len(recv_q') + 1 = next_seq_ + i
    <3>1. 1 \in 1..(m + 1)
      BY SMTT(60)
    <3>2. /\ seq[recv_q'[i]] \in Nat /\ seq[recv_q'[i]] + n + m + 1 = next_seq_ + i
          /\ seq[recv_q'[1]] \in Nat /\ seq[recv_q'[1]] + n + m + 1 = next_seq_ + 1
          /\ next_seq_ \in Nat
      BY SMTT(60), <1>6, <2>2, <3>1
    <3>3. Len(send_q') \in Nat /\ Len(recv_q') \in Nat /\ Len(send_q') = n - 1 /\ Len(recv_q') = m + 1
      BY <1>4, <1>5
    <3>4. seq[recv_q'[i]] + 1 = seq[recv_q'[1]] + i
      <4>1. PICK a \in Nat : a = seq[recv_q'[i]]
        BY SMTT(60), <3>2
      <4>2. PICK b \in Nat : b = seq[recv_q'[1]]
        BY SMTT(60), <3>2
      <4>3. PICK k \in Nat : k = next_seq_
        BY <3>2
      <4>4. a + n + m + 1 = k + i /\ b + n + m + 1 = k + 1
        BY <3>2, <4>1, <4>2, <4>3, Zenon
      <4>5. a + 1 = b + i
        BY SMTT(60), <4>4
      <4>. QED BY <4>1, <4>2, <4>5, ZenonT(60)
    <3>5. seq[recv_q'[i]] + (n - 1) + (m + 1) + 1 = next_seq_ + i
      BY SMTT(60), <3>2
    <3>. QED BY <3>3, <3>4, <3>5
  <2>. QED BY <1>1, <1>4, <1>5, <2>1, <2>3 DEF InLine
<1>12. WireBetween'
  <2>1. \A d \in OnWire : seq[d] \in Nat /\ seq[d] <= seq[c]
    <3>1. seq \in [Calls -> Nat]
      BY SMTT(60) DEF Inv, TypeOK
    <3>. QED BY SMTT(60), <1>1, <1>2, <3>1 DEF Order, WireBetween, NumberedOnce
  <2>2. send_q' # <<>> => \A d \in OnWire : seq[d] < seq[send_q'[1]] /\ seq[d] <= seq[send_q'[1]]
    <3>1. send_q' # <<>> => seq[send_q'[1]] \in Nat /\ seq[send_q'[1]] + n + 1 = next_seq_ + 2
      <4>1. send_q' # <<>> => 2 \in 1..n /\ send_q'[1] = send_q[2]
        BY <1>3, <1>4
      <4>. QED BY SMTT(60), <1>6, <4>1
    <3>. QED BY SMTT(60), <1>6, <1>7, <2>1, <3>1
  <2>3. recv_q' # <<>>
    BY <1>5
  <2>4. \A d \in OnWire : seq[recv_q'[1]] <= seq[d]
    <3>1. CASE m = 0
      <4>1. recv_q'[1] = c
        BY SMTT(60), <1>5, <3>1
      <4>2. \A d \in OnWire : next_seq_ <= seq[d] + n
        BY SMTT(60), <1>1, <1>3, <1>5, <3>1 DEF Order, WireBetween
      <4>. QED BY <1>6, <1>7, <2>1, <4>1, <4>2
    <3>2. CASE m > 0
      <4>1. recv_q'[1] = recv_q[1]
        BY <1>5, <3>2
      <4>. QED BY <1>5, <3>2, <4>1 DEF Order, WireBetween
    <3>. QED BY SMTT(60), <3>1, <3>2
  <2>. QED BY SMTT(60), <1>1, <1>8, <2>2, <2>3, <2>4 DEF WireBetween
<1>. QED BY SMTT(60), <1>9, <1>10, <1>11, <1>12 DEF Order

\* A response is taken from the stream, and the head of the receive queue with it:
\* if the correlation ids agree, the response is that RPC's.
LEMMA ReadHandlerOrder ==
  ASSUME Inv, Order, ReadHandler
  PROVE  Order'
<1> USE DEF connVars, queueVars, callVars, wireVars
<1> DEFINE c == Head(recv_q)
           r == Head(stream)
<1>1. /\ UNCHANGED <<posted, send_q, writing, strand, next_seq_, seq, phase, requests>>
      /\ strand = "free" /\ recv_q # <<>>
      /\ reading = "ok" => stream # <<>>
  BY SMTT(60) DEF ReadHandler, OnStrand, Inv, Served
<1>2. /\ c \in Calls /\ c = recv_q[1] /\ c \in Elements(recv_q) /\ Elements(Tail(recv_q)) \subseteq Elements(recv_q)
      /\ send_q \in Seq(Calls) /\ recv_q \in Seq(Calls) /\ stream \in Seq(Responses)
      /\ next_seq_ \in Nat /\ seq \in [Calls -> Nat]
  BY SMTT(60), <1>1, TailQueue DEF Inv, TypeOK
<1>3. \/ /\ \E ec \in PromiseErrors : RecvFailed(ec)
         /\ stream' = stream \/ (stream # <<>> /\ stream' = Tail(stream))
      \/ UNCHANGED <<conn, recv_q, promise, answer, stream>>
      \/ Resolve(c) /\ stream # <<>> /\ stream' = Tail(stream) /\ (r.kind = "empty" \/ r.corr = seq[c])
  <2>1. "decoding_error" \in PromiseErrors /\ (reading # "ok" => ToErrc(reading) \in PromiseErrors)
    BY ErrcType DEF PromiseErrors, ReadHandler, Inv, TypeOK
  <2>. QED BY <1>1, <2>1, Zenon DEF ReadHandler, Accept
<1> HIDE DEF c, r
<1>4. CASE UNCHANGED <<conn, recv_q, promise, answer, stream>>
  <2>1. OnWire' = OnWire /\ Numbered' = Numbered
    BY SMTT(60), <1>1, <1>4 DEF Numbered, OnWire
  <2>2. NumberedOnce'
    BY SMTT(60), <1>1, <2>1 DEF Order, NumberedOnce
  <2>3. InLine' /\ WireInOrder'
    BY ZenonT(60), <1>1, <1>4 DEF Order, InLine, WireInOrder
  <2>4. WireBetween' /\ OwnResponse'
    BY Zenon, <1>1, <1>4, <2>1 DEF Order, WireBetween, OwnResponse
  <2>. QED BY SMTT(60), <2>2, <2>3, <2>4 DEF Order
<1>5. ASSUME stream # <<>>, stream' = Tail(stream)
      PROVE  /\ r = stream[1] /\ r \in Responses /\ r.of \in OnWire /\ OnWire' \subseteq OnWire
             /\ WireInOrder'
             /\ \A d \in OnWire' : seq[r.of] < seq[d]
  <2>1. r = stream[1] /\ r \in Responses /\ 1 \in DOMAIN stream
    BY <1>2, <1>5, TailQueue DEF r
  <2>2. \A i \in DOMAIN stream' : i \in Nat /\ i > 0 /\ i + 1 \in DOMAIN stream /\ stream'[i] = stream[i + 1]
    BY SMTT(60), <1>2, <1>5
  <2>3. r.of \in OnWire
    BY SMTT(60), <2>1 DEF OnWire
  <2>4. OnWire' \subseteq OnWire
    BY SMTT(60), <1>1, <2>2 DEF OnWire
  <2>5. \A d \in OnWire' : seq[r.of] < seq[d]
    <3>1. \A i \in DOMAIN stream' : seq[r.of] < seq[stream'[i].of]
      BY SMTT(60), <2>1, <2>2 DEF Order, WireInOrder
    <3>2. \A d \in Elements(requests) : seq[r.of] < seq[d]
      BY SMTT(60), <2>1 DEF Order, WireInOrder, Elements
    <3>. QED BY SMTT(60), <1>1, <3>1, <3>2 DEF OnWire
  <2>6. WireInOrder'
    BY <1>1, <2>2 DEF Order, WireInOrder
  <2>. QED BY SMTT(60), <2>1, <2>3, <2>4, <2>5, <2>6
<1>6. OnWire \subseteq Calls
  BY DEF Order, NumberedOnce
<1>7. CASE /\ \E ec \in PromiseErrors : RecvFailed(ec)
           /\ stream' = stream \/ (stream # <<>> /\ stream' = Tail(stream))
  <2>1. conn' = "CLOSED" /\ recv_q' = <<>> /\ answer' = answer
    BY <1>7, ZenonT(60) DEF RecvFailed, FailAll
  <2>2. \A d \in Calls : promise'[d] = "value" => promise[d] = "value"
    <3>1. \E ec \in PromiseErrors : promise' = FailedPromises(recv_q, ec)
      BY <1>7, Zenon DEF RecvFailed, FailAll
    <3>. QED BY <3>1, FailedTypes DEF Inv
  <2>3. OnWire' \subseteq OnWire /\ WireInOrder'
    <3>1. CASE stream' = stream
      BY ZenonT(60), <1>1, <3>1 DEF OnWire, Order, WireInOrder
    <3>. QED BY SMTT(60), <1>5, <1>7, <3>1
  <2>4. Numbered' \subseteq Numbered
    BY SMTT(60), <1>1, <2>1, <2>3, ShortQueue DEF Numbered
  <2>5. NumberedOnce' /\ OwnResponse'
    BY SMTT(60), <1>1, <1>6, <2>1, <2>2, <2>3, <2>4 DEF Order, NumberedOnce, OwnResponse
  <2>6. InLine'
    <3>1. \A i \in DOMAIN recv_q' : FALSE
      BY SMTT(60), <2>1
    <3>. QED BY <1>1, <3>1 DEF Order, InLine
  <2>7. WireBetween'
    BY SMTT(60), <1>1, <2>1, <2>3 DEF Order, WireBetween
  <2>. QED BY <2>3, <2>5, <2>6, <2>7 DEF Order
<1>8. CASE Resolve(c) /\ stream # <<>> /\ stream' = Tail(stream) /\ (r.kind = "empty" \/ r.corr = seq[c])
  <2>1. /\ recv_q' = Tail(recv_q) /\ conn' = conn
        /\ \/ promise' = [promise EXCEPT ![c] = "value"] /\ answer' = [answer EXCEPT ![c] = r]
           \/ promise' = promise /\ answer' = answer
    BY <1>8, ZenonT(60) DEF Resolve, r
  <2>2. /\ r = stream[1] /\ r \in Responses /\ r.of \in OnWire /\ OnWire' \subseteq OnWire
        /\ WireInOrder' /\ \A d \in OnWire' : seq[r.of] < seq[d]
    BY SMTT(60), <1>5, <1>8
  <2>3. seq[c] <= seq[r.of] /\ seq[c] \in Nat /\ seq[r.of] \in Nat /\ \A d \in OnWire' : seq[d] \in Nat
    BY SMTT(60), <1>1, <1>2, <1>6, <2>2 DEF Order, WireBetween
  <2>4. r.corr = seq[c] => r.of = c
    <3>1. r.corr \in {seq[r.of], seq[r.of] + 1}
      <4>1. 1 \in DOMAIN stream
        BY SMTT(60), <1>2, <1>8
      <4>. QED BY <2>2, <4>1 DEF Order, WireInOrder
    <3>2. r.corr = seq[c] => seq[r.of] = seq[c]
      BY SMTT(60), <2>3, <3>1
    <3>3. c \in Numbered /\ r.of \in Numbered
      BY <1>2, <2>2 DEF Numbered
    <3>. QED BY SMTT(60), <3>2, <3>3 DEF Order, NumberedOnce
  <2>5. OwnResponse'
    <3>1. CASE promise' = [promise EXCEPT ![c] = "value"] /\ answer' = [answer EXCEPT ![c] = r]
      <4>1. answer'[c] = r /\ \A d \in Calls \ {c} : answer'[d] = answer[d] /\ promise'[d] = promise[d]
        BY <1>2, <3>1 DEF Inv, TypeOK
      <4>2. r.kind # "empty" => r.of = c
        BY SMTT(60), <1>8, <2>4
      <4>. QED BY SMTT(60), <4>1, <4>2 DEF Order, OwnResponse
    <3>2. CASE promise' = promise /\ answer' = answer
      BY SMTT(60), <3>2 DEF Order, OwnResponse
    <3>. QED BY SMTT(60), <2>1, <3>1, <3>2
  <2>6. NumberedOnce'
    <3>1. Numbered' \subseteq Numbered
      BY <1>1, <1>2, <2>1, <2>2 DEF Numbered
    <3>. QED BY SMTT(60), <1>1, <1>6, <2>2, <3>1 DEF Order, NumberedOnce
  <2>7. PICK m \in Nat : m = Len(recv_q)
    BY SMTT(60), <1>2
  <2>8. /\ m > 0 /\ Len(recv_q') \in Nat /\ Len(recv_q') = m - 1
        /\ DOMAIN recv_q = 1..m /\ DOMAIN recv_q' = 1..(m - 1)
        /\ \A i \in 1..(m - 1) : i + 1 \in 1..m /\ recv_q'[i] = recv_q[i + 1]
        /\ recv_q' # <<>> => m > 1
        /\ recv_q' = <<>> => m = 1
    <3>1. recv_q # <<>> /\ recv_q \in Seq(Calls) /\ recv_q' = Tail(recv_q)
      BY <1>1, <1>2, <2>1
    <3>2. m > 0 /\ DOMAIN recv_q = 1..m /\ Len(recv_q') \in Nat /\ Len(recv_q') = m - 1
      BY <2>7, <3>1
    <3>3. /\ DOMAIN recv_q' = 1..(m - 1)
          /\ \A i \in 1..(m - 1) : i + 1 \in 1..m /\ recv_q'[i] = recv_q[i + 1]
      BY <2>7, <3>1
    <3>4. (recv_q' # <<>> => m > 1) /\ (recv_q' = <<>> => m = 1)
      BY SMTT(60), <2>7, <3>1, <3>2
    <3>. QED BY SMTT(60), <3>2, <3>3, <3>4
  <2>9. \A i \in 1..m : seq[recv_q[i]] \in Nat /\ seq[recv_q[i]] + 1 = seq[c] + i
    <3>1. \A i \in 1..m : recv_q[i] \in Calls
      BY <1>2, <2>8
    <3>2. \A i \in 1..m : seq[recv_q[i]] + 1 = seq[c] + i
      BY ZenonT(60), <1>2, <2>8 DEF Order, InLine
    <3>. QED BY SMTT(60), <1>2, <3>1, <3>2
  <2>10. ASSUME NEW i \in 1..(m - 1) PROVE seq[recv_q'[i]] \in Nat /\ seq[recv_q'[i]] = seq[c] + i
    <3>1. i + 1 \in 1..m /\ recv_q'[i] = recv_q[i + 1]
      BY SMTT(60), <2>8
    <3>2. seq[recv_q'[i]] \in Nat /\ seq[recv_q'[i]] + 1 = seq[c] + (i + 1)
      BY <2>9, <3>1
    <3>. QED BY <2>3, <3>2
  <2>11. /\ Len(send_q) \in Nat /\ next_seq_ \in Nat
         /\ send_q # <<>> \/ conn # "CLOSED" => seq[c] + Len(send_q) + m = next_seq_
    <3>1. Len(send_q) \in Nat /\ next_seq_ \in Nat /\ 1 \in DOMAIN recv_q
      BY <1>2, <2>8
    <3>2. send_q # <<>> \/ conn # "CLOSED" => seq[c] + Len(send_q) + m + 1 = next_seq_ + 1
      BY Zenon, <1>2, <2>7, <3>1 DEF Order, InLine
    <3>3. PICK a \in Nat : a = seq[c]
      BY <2>3
    <3>4. PICK l \in Nat : l = Len(send_q)
      BY <3>1
    <3>5. PICK k \in Nat : k = next_seq_
      BY <3>1
    <3>6. a + l + m + 1 = k + 1 => a + l + m = k
      BY SMTT(60)
    <3>. QED BY <3>1, <3>2, <3>3, <3>4, <3>5, <3>6, ZenonT(60)
  <2>12. InLine'
    <3>1. ASSUME NEW i \in 1..(m - 1) PROVE seq[recv_q'[i]] + 1 = seq[recv_q'[1]] + i
      <4>1. 1 \in 1..(m - 1)
        BY SMTT(60)
      <4>2. /\ seq[recv_q'[i]] \in Nat /\ seq[recv_q'[i]] = seq[c] + i
            /\ seq[recv_q'[1]] \in Nat /\ seq[recv_q'[1]] = seq[c] + 1
        BY <2>10, <4>1
      <4>. QED BY <2>3, <4>2
    <3>2. ASSUME send_q # <<>> \/ conn # "CLOSED", NEW i \in 1..(m - 1)
          PROVE  seq[recv_q'[i]] + Len(send_q) + Len(recv_q') + 1 = next_seq_ + i
      <4>1. seq[recv_q'[i]] + Len(send_q) + (m - 1) + 1 = next_seq_ + i
        <5>1. PICK a \in Nat : a = seq[c]
          BY <2>3
        <5>2. PICK l \in Nat : l = Len(send_q)
          BY <2>11
        <5>3. PICK k \in Nat : k = next_seq_
          BY <2>11
        <5>4. a + l + m = k => (a + i) + l + (m - 1) + 1 = k + i
          BY SMTT(60)
        <5>5. seq[recv_q'[i]] = seq[c] + i /\ seq[c] + Len(send_q) + m = next_seq_
          BY SMTT(60), <2>10, <2>11, <3>2
        <5>. QED BY <5>1, <5>2, <5>3, <5>4, <5>5, ZenonT(60)
      <4>. QED BY <2>8, <4>1, Zenon
    <3>. QED BY SMTT(60), <1>1, <2>1, <2>8, <3>1, <3>2 DEF Order, InLine
  <2>13. WireBetween'
    <3>1. ASSUME recv_q' # <<>>, NEW d \in OnWire' PROVE seq[recv_q'[1]] <= seq[d]
      <4>1. 1 \in 1..(m - 1)
        BY SMTT(60), <2>8, <3>1
      <4>2. seq[recv_q'[1]] \in Nat /\ seq[recv_q'[1]] = seq[c] + 1
        BY SMTT(60), <2>10, <4>1
      <4>. QED BY <2>2, <2>3, <4>2
    <3>2. ASSUME recv_q' = <<>>, conn # "CLOSED", NEW d \in OnWire' PROVE next_seq_ <= seq[d] + Len(send_q)
      <4>1. seq[c] + Len(send_q) + 1 = next_seq_
        BY <2>8, <2>11, <3>2
      <4>. QED BY SMTT(60), <2>2, <2>3, <2>11, <4>1
    <3>. QED BY ZenonT(60), <1>1, <2>1, <2>2, <3>1, <3>2 DEF Order, WireBetween
  <2>. QED BY <2>2, <2>5, <2>6, <2>12, <2>13 DEF Order
<1>. QED BY <1>3, <1>4, <1>7, <1>8, ZenonT(60)

\* Every step keeps the order.
LEMMA OrderStep == Inv /\ Order /\ [Next]_vars => Order'
BY CallerOrder, WriteDoneOrder, ReplyOrder, WriteHandlerOrder, PushOrder, WriteSuccessOrder, ReadHandlerOrder
   DEF Next

\* sync_call() gives a caller the answer to its own request, for any number of calls
\* that share the connection, if the peer answers in order: it may leave answers
\* out, cut them, or give one the correlation id of the next request.
THEOREM ResponsesAreOwn == Spec => []OwnResponse
<1>1. Order => OwnResponse
  BY DEF Order
<1>. QED BY <1>1, Invariant, OrderInit, OrderStep, PTL DEF Spec
===============================================================================
