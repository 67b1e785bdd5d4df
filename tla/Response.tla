------------------------------- MODULE Response --------------------------------
(***************************************************************************)
(* How a response is read: its length and header by RPCRecvQueue, its body *)
(* by the kafka_proto_io functions of protocol.h in sync_call().           *)
(*                                                                         *)
(* A structure is the list of io calls its function makes, so that one     *)
(* small interpreter stands for all of those functions.  What the peer     *)
(* sends is arbitrary: any length of the response, any count of an array,  *)
(* any length of a string, whether or not the bytes for them are there.    *)
(***************************************************************************)
EXTENDS PacketDecoder, Sequences

CONSTANTS
  Buffer,   \* size of a new response_buffer_
  Frames,   \* lengths the peer may give for a response
  Counts,   \* lengths the peer may give for an array
  Lens      \* lengths the peer may give for a string

ASSUME ResponseAssumption ==
  /\ Buffer \in Nat /\ Buffer > Field
  /\ \A n \in Frames \cup Counts \cup Lens :
       n \in Int /\ -Word < 4 * n /\ 4 * (n + Field) < Word
  /\ 2 * Buffer < Word /\ 8 * Field < Word

VARIABLES
  dec,      \* decoder_
  todo,     \* the io calls still to make, the next one first
  pushed,   \* history: array elements decoded
  announced,\* history: array elements there should be
  reply     \* "none", then what sync_call() returns

responseVars == <<dec, todo, pushed, announced, reply>>

Num(n) == [io |-> "int", n |-> n]
Str == [io |-> "string"]
Array(of) == [io |-> "array", of |-> of]
Loop(of, left) == [io |-> "loop", of |-> of, left |-> left]
Element(of, left) == [io |-> "element", of |-> of, left |-> left]

\* protocol.h
Broker == <<Num(4), Str, Num(4)>>
PartitionMetaData == <<Num(2), Num(4), Num(4), Array(<<Num(4)>>), Array(<<Num(4)>>)>>
TopicMetaData == <<Num(2), Str, Array(PartitionMetaData)>>
MetadataResponse == <<Array(Broker), Array(TopicMetaData)>>
ProduceResponsePartition == <<Num(4), Num(2), Num(8)>>
ProduceResponseTopic == <<Str, Array(ProduceResponsePartition)>>
ProduceResponse == <<Array(ProduceResponseTopic)>>
-------------------------------------------------------------------------------
(* RPCRecvQueue::operator() *)

\* The length of the response, read from the first bytes of a new buffer.
FrameLength == TakeInt(set_readable_length(NewDecoder(<<>>, Buffer), Field), Field)

\* The buffer made large enough for n bytes after the length.
Larger(n) == [FrameLength EXCEPT !.cap = IF @ < Field + n THEN Field + n ELSE @]

\* The header: that of a response of n bytes has to be there and to answer this
\* request.  A length of 0 or less is not followed by anything.
Receive ==
  /\ reply = "none"
  /\ \E n \in Frames, body \in {MetadataResponse, ProduceResponse} :
       /\ dec' = IF n > 0 THEN TakeInt(set_readable_length(Larger(n), Field + n), Field)
                 ELSE FrameLength
       /\ \/ ok(dec') /\ todo' = body /\ reply' = "pending"
          \/ n > 0 /\ UNCHANGED todo /\ reply' = "decoding_error"
  /\ UNCHANGED <<pushed, announced>>
-------------------------------------------------------------------------------
(* kafka_proto_io of what is read *)

Item == Head(todo)

\* at() throws, which ends the decoding, or it goes on.
Then(rest) == IF dec'.wild THEN <<>> ELSE rest

\* io of an integer or an error_code.
ReadInt ==
  /\ todo # <<>> /\ Item.io = "int"
  /\ dec' = TakeInt(dec, Item.n)
  /\ todo' = Then(Tail(todo))
  /\ UNCHANGED <<pushed, announced, reply>>

ReadString ==
  /\ todo # <<>> /\ Item.io = "string"
  /\ \E len \in Lens : dec' = TakeSliceOf(dec, 2, len)
  /\ todo' = Then(Tail(todo))
  /\ UNCHANGED <<pushed, announced, reply>>

\* The count of an array, 0 if it could not be read.
ReadCount ==
  /\ todo # <<>> /\ Item.io = "array"
  /\ dec' = TakeInt(dec, 4)
  /\ \E n \in IF ok(dec') THEN Counts ELSE {0} :
       /\ todo' = Then(<<Loop(Item.of, n)>> \o Tail(todo))
       /\ announced' = announced + IF n > 0 THEN n ELSE 0
  /\ UNCHANGED <<pushed, reply>>

\* The loop over its elements.
Iterate ==
  /\ todo # <<>> /\ Item.io = "loop"
  /\ todo' = IF Item.left > 0 THEN Item.of \o <<Element(Item.of, Item.left)>> \o Tail(todo)
             ELSE Tail(todo)
  /\ UNCHANGED <<dec, pushed, announced, reply>>

\* Fault: the loop does not look at the error.
KeepAlways ==
  /\ todo # <<>> /\ Item.io = "element"
  /\ pushed' = pushed + 1
  /\ todo' = <<Loop(Item.of, Item.left - 1)>> \o Tail(todo)
  /\ UNCHANGED <<dec, announced, reply>>

\* An element is kept if it was decoded; otherwise the array ends.
Keep ==
  /\ todo # <<>> /\ Item.io = "element"
  /\ \/ /\ ok(dec)
        /\ pushed' = pushed + 1
        /\ todo' = <<Loop(Item.of, Item.left - 1)>> \o Tail(todo)
     \/ /\ ~ok(dec)
        /\ todo' = Tail(todo)
        /\ UNCHANGED pushed
  /\ UNCHANGED <<dec, announced, reply>>

\* Fault: ok() is not asked after decoding.
ReturnUnasked ==
  /\ reply = "pending" /\ todo = <<>>
  /\ reply' = "no_error"
  /\ UNCHANGED <<dec, todo, pushed, announced>>

\* The end of sync_call(), which catches what at() throws.
Return ==
  /\ reply = "pending" /\ todo = <<>>
  /\ reply' = IF dec.wild THEN "unknown" ELSE IF ok(dec) THEN "no_error" ELSE "decoding_error"
  /\ UNCHANGED <<dec, todo, pushed, announced>>

ResponseInit ==
  /\ dec = NewDecoder(<<>>, Buffer)
  /\ todo = <<>> /\ pushed = 0 /\ announced = 0 /\ reply = "none"

ResponseNext == Receive \/ ReadInt \/ ReadString \/ ReadCount \/ Iterate \/ Keep \/ Return

ResponseSpec == ResponseInit /\ [][ResponseNext]_responseVars
-------------------------------------------------------------------------------
(* Properties *)

\* A response is never read past its last byte, into what an earlier use has
\* left in the buffer: "otherwise we might happily go decoding off the end of the
\* actual data that was sent if we get an unexpected response".  At most at()
\* throws, for an empty string at the very end of the buffer.
ReadsWithin == /\ dec.cursor <= dec.size
               /\ dec.wild => dec.cursor = dec.cap

\* The peer cannot make the client keep more elements than it sent bytes for,
\* whatever counts it announces.
ElementsWereSent == 4 * pushed <= dec.cursor

\* sync_call() reports success only if every element of every array was decoded:
\* an array that ends early is never taken for a shorter one.
SuccessIsComplete == reply = "no_error" => pushed = announced /\ dec.cursor <= dec.size
===============================================================================
