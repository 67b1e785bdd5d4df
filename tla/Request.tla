-------------------------------- MODULE Request --------------------------------
(***************************************************************************)
(* A request that is written by an encoder, and handed to the socket in    *)
(* two buffers: a header with the length of both, and the request.  Its    *)
(* structure is a sequence of encoder calls (protocol.h, message_set.cpp)  *)
(* that ends fields in the reverse order of starting them; which calls are *)
(* made in between is arbitrary.                                           *)
(***************************************************************************)
EXTENDS PacketEncoder, Sequences

CONSTANTS
  BufferSize,    \* argument of the encoder's constructor
  Lengths,       \* the lengths of the strings and byte arrays written
  Compressed,    \* the lengths that compression makes of them, within its worst case
  MaxBytes,      \* bound: the caller stops writing at this size
  MaxDepth       \* bound: how many fields are open at a time

ASSUME RequestAssumption == {BufferSize, MaxBytes, MaxDepth} \subseteq Nat /\ Lengths \subseteq Nat

VARIABLES
  enc,       \* cursor_, size_, buff_.size(), the bytes of buff_ and err_
  open,      \* fields started and not ended, innermost last
  closed,    \* history: fields ended, with the end of what they cover
  head,      \* header_encoder_: none, or one
  sent       \* history: the bytes of the last packet, in the order of its buffers

requestVars == <<enc, open, closed, head, sent>>

RequestInit ==
  /\ enc = NewEncoder(BufferSize)
  /\ open = <<>> /\ closed = {} /\ head = <<>> /\ sent = <<>>

\* Nothing is written to a request that was handed over.
MayWrite == enc.size < MaxBytes /\ head = <<>> /\ sent = <<>>

WriteInt ==
  /\ MayWrite
  /\ \E n \in {1, 2, 4, 8} : enc' = IoInt(enc, n, Data)
  /\ UNCHANGED <<open, closed, head, sent>>

WriteSlice ==
  /\ MayWrite /\ ok(enc)
  /\ \E w \in {2, 4}, len \in Lengths : enc' = IoSlice(enc, w, len)
  /\ UNCHANGED <<open, closed, head, sent>>

WriteCompressed ==
  /\ MayWrite /\ ok(enc)
  /\ \E len \in Lengths :
       \/ \E n \in Compressed \cap 1..(len + Overhead) :
            /\ enc' = IoCompressed(enc, len, n)
            /\ closed' = closed \cup {[kind |-> "length", at |-> enc.cursor,
                                       end |-> enc.cursor + Prefix + n]}
       \/ enc' \in CompressFails(enc, len) /\ UNCHANGED closed
  /\ UNCHANGED <<open, head, sent>>

StartField ==
  /\ MayWrite /\ Len(open) < MaxDepth
  /\ \E kind \in {"length", "crc"} :
       open' = Append(open, [kind |-> kind, at |-> enc.cursor])
  /\ enc' = Reserve(enc)
  /\ UNCHANGED <<closed, head, sent>>

\* A checksum covers at least a byte: the assertions in end_crc.
EndField ==
  /\ open # <<>>
  /\ LET f == open[Len(open)] IN
     /\ f.kind = "crc" /\ ok(enc) => enc.cursor > f.at + Prefix
     /\ enc' = IF f.kind = "crc" THEN end_crc(enc, f.at) ELSE end_length(enc, f.at)
     /\ closed' = IF ok(enc) THEN closed \cup {[kind |-> f.kind, at |-> f.at, end |-> enc.cursor]}
                  ELSE closed
  /\ open' = SubSeq(open, 1, Len(open) - 1)
  /\ UNCHANGED <<head, sent>>

\* get_as_slice(true): the request is the packet.
TakeFrame ==
  /\ open = <<>> /\ ok(enc)
  /\ enc' = update_length(enc, 0)
  /\ sent' = enc'.bytes
  /\ UNCHANGED <<open, closed, head>>

\* A RequestHeader with a client id of len bytes.
HeaderIo(len) == IoSlice(IoInt(IoInt(IoInt(NewEncoder(20), 2, Data), 2, Data), 4, Data), 2, len)

\* get_as_buffer_sequence_head, and the bytes of the two buffers.
Joined(header, request) ==
  [i \in 0..(header.size + Size(request) - 1) |->
     IF i < header.size THEN header.bytes[i] ELSE request[i - header.size]]

\* A header that cannot be encoded fails the RPC, and nothing is sent.
encode_request ==
  /\ open = <<>> /\ ok(enc)
  /\ \E len \in Lengths :
       LET header == IF head = <<>> THEN HeaderIo(len) ELSE head[1]
           request == AsSlice(enc)
       IN \/ /\ ok(header)
             /\ head' = <<update_length(header, Size(request))>>
             /\ sent' = Joined(head'[1], request)
          \/ ~ok(header) /\ head' = <<header>> /\ UNCHANGED sent
  /\ UNCHANGED <<enc, open, closed>>

RequestNext ==
  \/ WriteInt \/ WriteSlice \/ WriteCompressed \/ StartField \/ EndField
  \/ TakeFrame \/ encode_request

RequestSpec == RequestInit /\ [][RequestNext]_requestVars
-------------------------------------------------------------------------------
\* Between operations the cursor is at the end of what was written, and all of
\* it was written: update_size_after_write would lose bytes otherwise.
CursorAtEnd == enc.cursor = enc.size /\ DOMAIN enc.bytes = 0..(enc.size - 1)

\* No byte is written past the end of buff_, whatever growth the writes, the
\* late fields and the compressors' worst case need.
InBounds == \A i \in DOMAIN enc.bytes : i < enc.cap

\* A field that has been ended holds the length or the checksum of exactly the
\* bytes it covers, and keeps it: nothing written later touches either.  Longer
\* than an int32_t can say, it holds some other length.
FieldsStand ==
  \A f \in closed :
    (f.kind = "length" => f.end - f.at - Prefix <= MaxInt) =>
    \A i \in f.at..(f.at + Prefix - 1) :
      enc.bytes[i] = IF f.kind = "length" THEN Length(f.end - f.at - Prefix)
                     ELSE Checksum(Covered(enc, f.at + Prefix, f.end))

\* A packet ends where its length prefix tells the peer that it does, after the
\* last byte of the second buffer: nothing is left for the next packet to start
\* with, and nothing is missing.  The exception is a packet longer than an
\* int32_t can say, which no code refuses.
FrameIsExact ==
  sent # <<>> =>
    \/ Prefix + MaxInt \in DOMAIN sent
    \/ /\ \A i \in 0..(Prefix - 1) : sent[i] = sent[0]
       /\ sent[0].is = "length" /\ DOMAIN sent = 0..(Prefix + sent[0].n - 1)

\* "Write size at head (minus this length prefix itself, but adding any
\* additional length needed)", whatever the size.
FrameSaysSize == sent # <<>> => DOMAIN sent = 0..(Prefix + sent[0].n - 1)
===============================================================================
