------------------------------ MODULE MessageSet -------------------------------
(***************************************************************************)
(* message_set.cpp: a batch is built under a size limit, encoded (as one   *)
(* compressed message that holds the others, if so set), and decoded from  *)
(* what arrives of it.                                                     *)
(*                                                                         *)
(* A message is the lengths of its key and value.  Encoding is done by the *)
(* operators of PacketEncoder, decoding by those of PacketDecoder, one     *)
(* iteration of the decoding loop to a step; a compressed message pushes a *)
(* decoder for what is inside it.                                          *)
(***************************************************************************)
EXTENDS PacketEncoder, PacketDecoder, Sequences

CONSTANTS
  KeyLens, ValueLens,  \* lengths of keys and values
  Maxes,               \* arguments of set_max_message_size
  DefaultMax,          \* max_message_size_ of a new MessageSet
  Spare,               \* bytes in the receiving buffer after those that arrived
  WrongLens,           \* what is read for a length from bytes that hold no such length
  MaxMessages          \* bound: messages in a batch

ASSUME BatchAssumption ==
  /\ KeyLens \cup ValueLens \cup Maxes \cup {DefaultMax, Spare, MaxMessages} \subseteq Nat
  /\ WrongLens \subseteq (-Word)..Word

VARIABLES
  ms,       \* the batch: messages_, compression_, max_message_size_, encoded_size_
  tuned,    \* history: compression or limit were set when the batch had messages
  phase,    \* "building", "encoded", "failed", "decoding", "done", or "wild"
  wire,     \* the encoded batch
  inner,    \* the encoded batch before its compression
  arrived,  \* how the encoded batch arrives, see Arrive
  stack,    \* the decoders at work, the innermost last
  out       \* the MessageSet decoded into

batchVars == <<ms, tuned, phase, wire, inner, arrived, stack, out>>

Compressions == {"None", "GZIP", "Snappy"}
Messages == [key : KeyLens, value : ValueLens]
Empty == [msgs |-> <<>>, comp |-> "None", max |-> DefaultMax, size |-> 0]
-------------------------------------------------------------------------------
(* Building *)

\* Fault: the message's own header is forgotten.
MessageSizeBare(m) == 8 + 4 + m.key + m.value

\* offset, length, checksum, magic byte, attributes, key and value.
get_msg_encoded_size(m) == 8 + 4 + 4 + 1 + 1 + 4 + m.key + 4 + m.value

\* Fault: compression only ever makes things smaller.
NoWorstCase(set, size) == size

get_worst_case_compressed_size(set, size) ==
  IF set.comp = "None" THEN size ELSE size + Overhead

IsFull(set, m) ==
  get_worst_case_compressed_size(set, set.size + get_msg_encoded_size(m)) > set.max

\* push: the batch afterwards, which is as it was if the message does not fit.
push(set, m) ==
  IF IsFull(set, m) THEN set
  ELSE [set EXCEPT !.msgs = Append(@, m), !.size = @ + get_msg_encoded_size(m)]

Push ==
  /\ phase = "building" /\ Len(ms.msgs) < MaxMessages
  /\ \E m \in Messages : ms' = push(ms, m)
  /\ UNCHANGED <<tuned, phase, wire, inner, arrived, stack, out>>

\* set_compression and set_max_message_size.
Tune ==
  /\ phase = "building"
  /\ \/ \E c \in Compressions : ms' = [ms EXCEPT !.comp = c]
     \/ \E n \in Maxes : ms' = [ms EXCEPT !.max = n]
  /\ tuned' = (tuned \/ ms.msgs # <<>>)
  /\ UNCHANGED <<phase, wire, inner, arrived, stack, out>>
-------------------------------------------------------------------------------
(* Encoding *)

Attributes(comp) == [is |-> "attributes", comp |-> comp]

\* kafka_proto_io of a Message; a value that is compressed becomes n bytes.
MessageIo(e, m, comp, n) ==
  LET header == IoInt(IoInt(Reserve(e), 1, Data), 1, Attributes(comp))
      key == IoSlice(header, 4, m.key)
      value == IF comp = "None" THEN IoSlice(key, 4, m.value) ELSE IoCompressed(key, m.value, n)
  IN end_crc(value, e.cursor)

\* Its offset and its length before it.
EntryIo(e, m, comp, n) ==
  LET sized == Reserve(IoInt(e, 8, Data))
  IN end_length(MessageIo(sized, m, comp, n), e.cursor + 8)

\* The messages, one after the other.
PlainIo(e, msgs) ==
  LET upto[k \in 0..Len(msgs)] == IF k = 0 THEN e ELSE EntryIo(upto[k - 1], msgs[k], "None", 0)
  IN upto[Len(msgs)]

\* The encoder of the caller ends with an error.
EncodeFails == phase' = "failed" /\ UNCHANGED wire

\* The batch is not empty, as its header requires.  Compression makes the
\* least or the most of it that the library promises.  A batch that cannot be
\* encoded before its compression has lost its compression.
Encode ==
  /\ phase = "building" /\ ms.msgs # <<>>
  /\ \/ LET plain == PlainIo(NewEncoder(0), ms.msgs) IN
        /\ ms.comp = "None"
        /\ IF ok(plain) THEN phase' = "encoded" /\ wire' = AsSlice(plain) ELSE EncodeFails
        /\ UNCHANGED <<ms, inner>>
     \/ LET plain == PlainIo(NewEncoder(ms.size), ms.msgs) IN
        /\ ms.comp # "None"
        /\ inner' = AsSlice(plain)
        /\ \/ /\ ok(plain) /\ phase' = "encoded"
              /\ \E n \in {1, Size(inner') + Overhead} :
                   wire' = AsSlice(EntryIo(NewEncoder(0), [key |-> 0, value |-> Size(inner')], ms.comp, n))
              /\ UNCHANGED ms
           \/ ok(plain) /\ EncodeFails /\ UNCHANGED ms
           \/ ~ok(plain) /\ EncodeFails /\ ms' = [ms EXCEPT !.comp = "None"]
  /\ UNCHANGED <<tuned, arrived, stack, out>>
-------------------------------------------------------------------------------
(* Decoding *)

Changed(byte) == [is |-> "changed", was |-> byte.is]

\* External: the batch arrives whole, alone or with other bytes behind it and
\* its length known (ProducePartition); or cut short; or with a byte changed.
Arrive ==
  /\ phase = "encoded" /\ phase' = "decoding"
  /\ arrived' \in    [cut : 0..Size(wire), changed : {-1}, embedded : {FALSE}]
                \cup [cut : {Size(wire)}, changed : {-1}, embedded : {TRUE}]
                \cup [cut : {Size(wire)}, changed : DOMAIN wire, embedded : {FALSE}]
  /\ LET cap == Size(wire) + Spare
         buffer == [i \in 0..(cap - 1) |->
                      IF i = arrived'.changed THEN Changed(wire[i])
                      ELSE IF i \in DOMAIN wire THEN wire[i] ELSE Zero]
     IN stack' = <<set_readable_length(NewDecoder(buffer, cap),
                                       IF arrived'.embedded THEN cap ELSE arrived'.cut)>>
  /\ UNCHANGED <<ms, tuned, wire, inner, out>>

Top == stack[Len(stack)]

\* Fault: the loop goes on at the end of an embedded batch.
MoreAtEnd ==
  /\ ok(Top)
  /\ Len(stack) = 1 /\ arrived.embedded => Top.cursor <= Size(wire)

\* The condition of the loop; only an embedded batch has an encoded_length.
MoreToDecode ==
  /\ ok(Top)
  /\ Len(stack) = 1 /\ arrived.embedded => Top.cursor < Size(wire)

\* Whether a byte of d from that place on was changed.
ChangedFrom(d, at) == \E i \in DOMAIN d.bytes : i >= at /\ d.bytes[i].is = "changed"

\* The lowest two bits of the attributes, of which one value is no compression
\* that io_bytes knows.
CompressionsAt(d) ==
  LET at == d.cursor IN
  IF at \notin DOMAIN d.bytes THEN {"None"}
  ELSE IF d.bytes[at] = Changed(Attributes("None")) THEN Compressions \cup {"Unknown"}
  ELSE {IF d.bytes[at].is = "attributes" THEN d.bytes[at].comp ELSE "None"}

\* The length at the cursor: some other one if a byte of it was changed, or one
\* of a length before it, from which on the fields are not where they were.
LensAt(d, from) ==
  IF \E i \in DOMAIN d.bytes \cap from..(d.cursor + Field - 1) : d.bytes[i] = Changed(Length(0))
  THEN WrongLens ELSE {IntAt(d, d.cursor)}

\* io_bytes of a value whose length was read as len.  What was compressed is
\* decompressed; of anything else the library may make an error or something,
\* or nothing, of which at(0) throws.
IoValue(d, comp, len, intact) ==
  LET sized == TakeInt(d, Field)
      read == TakeSliceOf(d, Field, len)
      decompressed == {read, set_err(sized, "COMPRESS_FAIL")} \cup
                      IF comp = "Snappy" THEN {[read EXCEPT !.wild = TRUE]} ELSE {}
  IN IF comp = "Unknown" /\ len # -1 THEN {can_read(sized, len)}
     ELSE IF comp \in {"None", "Unknown"} \/ intact \/ len = -1 \/ ~ok(read) THEN {read}
     ELSE decompressed

SizeOf(len) == IF len = -1 THEN 0 ELSE len

\* The body of the loop.  Errors of a nested decoder are not looked at, and
\* neither is the result of push.
DecodeMessage ==
  /\ phase = "decoding" /\ MoreToDecode
  /\ LET length == TakeInt(Top, 8)
         crc == Skip(length)
         attributes == TakeInt(Skip(crc), 1)
         key == TakeInt(attributes, 1)
         intact == ~ChangedFrom(Top, attributes.cursor)
     IN \E comp \in CompressionsAt(attributes), keyLen \in LensAt(key, key.cursor) :
        LET value == TakeSliceOf(key, Field, keyLen) IN
        \E valueLen \in LensAt(value, key.cursor) :
        \E end \in IoValue(value, comp, valueLen, intact) :
        LET d == IF end.wild THEN end ELSE verify_crc(end, crc.cursor)
            read == [stack EXCEPT ![Len(stack)] = d]
        IN \/ d.wild /\ phase' = "wild" /\ UNCHANGED <<stack, out>>
           \/ /\ ~d.wild /\ ok(d) /\ comp = "None"
              /\ out' = push(out, [key |-> SizeOf(keyLen), value |-> SizeOf(valueLen)])
              /\ stack' = read
              /\ UNCHANGED phase
           \/ /\ ~d.wild /\ ok(d) /\ comp # "None"
              /\ stack' = Append(read, Decompressed(inner, Size(inner), comp = "GZIP"))
              /\ UNCHANGED <<phase, out>>
           \/ ~d.wild /\ ~ok(d) /\ stack' = read /\ UNCHANGED <<phase, out>>
  /\ UNCHANGED <<ms, tuned, wire, inner, arrived>>

\* Fault: every error is taken for the end of the buffer.
ForgiveAll(d) == set_err(d, "NONE")

\* Running out of bytes is not an error.
Forgive(d) == IF d.err = "TRUNCATED" THEN set_err(d, "NONE") ELSE d

\* The end of the loop, and of a nested decoder.
DecodeEnd ==
  /\ phase = "decoding" /\ ~MoreToDecode
  /\ \/ /\ Len(stack) = 1
        /\ stack' = <<Forgive(Top)>>
        /\ phase' = "done"
     \/ /\ Len(stack) > 1
        /\ stack' = SubSeq(stack, 1, Len(stack) - 1)
        /\ UNCHANGED phase
  /\ UNCHANGED <<ms, tuned, wire, inner, arrived, out>>
-------------------------------------------------------------------------------
BatchInit ==
  /\ ms = Empty /\ tuned = FALSE /\ phase = "building"
  /\ wire = <<>> /\ inner = <<>> /\ arrived = <<>>
  /\ stack = <<>> /\ out = Empty

BatchNext == Push \/ Tune \/ Encode \/ Arrive \/ DecodeMessage \/ DecodeEnd

BatchSpec == BatchInit /\ [][BatchNext]_batchVars
-------------------------------------------------------------------------------
(* Properties *)

\* The size that push() keeps, which the limit is tested with and the buffer for
\* compression is made for, is the size of what the encoder writes.
SizeIsExact ==
  phase \notin {"building", "failed"} => ms.size = Size(IF ms.comp = "None" THEN wire ELSE inner)

\* A batch that push() let grow is within the limit, unless the limit was set
\* later; a compressed one exceeds it by its own message's header at most, which
\* push() does not count.
NearLimit ==
  phase \notin {"building", "failed"} /\ ~tuned =>
    Size(wire) <= ms.max + IF ms.comp = "None" THEN 0
                           ELSE get_msg_encoded_size([key |-> 0, value |-> 0])

\* Where message k ends.
EndOf(k) ==
  LET end[j \in 0..k] == IF j = 0 THEN 0 ELSE end[j - 1] + get_msg_encoded_size(ms.msgs[j])
  IN end[k]

\* How many messages are whole in the first n bytes.
WholeIn(n) == IF ms.comp # "None" THEN IF n = Size(wire) THEN Len(ms.msgs) ELSE 0
              ELSE CHOOSE k \in 0..Len(ms.msgs) :
                     EndOf(k) <= n /\ (k = Len(ms.msgs) \/ EndOf(k + 1) > n)

\* What a new MessageSet holds after those were pushed.
Received(k) ==
  LET set[j \in 0..k] == IF j = 0 THEN Empty ELSE push(set[j - 1], ms.msgs[j]) IN set[k]

\* Decoding gives the messages that arrived whole, in order, and no error, with
\* every compression; it leaves what follows an embedded batch alone.
DecodesWhatArrived ==
  phase = "done" /\ arrived.changed = -1 =>
    /\ ok(stack[1]) /\ out = Received(WholeIn(arrived.cut))
    /\ arrived.embedded => stack[1].cursor = Size(wire)

\* Where the messages of the encoded batch begin.
Starts == IF ms.comp = "None" THEN {EndOf(k) : k \in 0..(Len(ms.msgs) - 1)} ELSE {0}

\* What a changed byte costs.  In the offset or the length of a message it
\* costs nothing: neither is looked at.  Anywhere else decoding ends at that
\* message, with all before it and nothing of it or after it.  It ends with an
\* error, unless the byte is of the length of a key or a value: that length may
\* point past the end, and running out of bytes is no error.
ChangeIsContained ==
  phase = "done" /\ arrived.changed # -1 =>
    IF \E at \in Starts : arrived.changed \in at..(at + 11)
    THEN ok(stack[1]) /\ out = Received(Len(ms.msgs))
    ELSE /\ out = Received(WholeIn(arrived.changed))
         /\ ok(stack[1]) => wire[arrived.changed].is = "length"

\* Decoding never reads past the readable bytes, with these exceptions: they end
\* inside the length or the checksum of a message, which are skipped without a
\* test; the zeros behind the output of GZIP, decoded like a message, end where
\* its key or value of length 0 begins, for which at() throws; a byte changed to
\* such a length does the same at the end of the buffer, or makes Snappy announce
\* an output of length 0.
WildOnlyInFields ==
  phase = "wild" =>
    \/ Top.size - Top.cursor \in 8..15 \cup IF Len(stack) > 1 THEN {22, 26} ELSE {}
    \/ arrived.changed # -1 /\ wire[arrived.changed].is = "length" /\ Spare = 0
    \/ /\ arrived.changed # -1
       /\ ms.comp = "Snappy" \/ wire[arrived.changed].is = "attributes"

\* No change of a byte is missed: "Any other error should be left though."
ChangeIsNoticed ==
  phase = "done" /\ arrived.changed # -1 /\ ok(stack[1]) => out = Received(Len(ms.msgs))

\* "Reset compression to avoid confusion": encoding leaves the batch as it was.
EncodeKeepsBatch == [][phase = "building" /\ phase' # "building" => ms' = ms]_batchVars

\* "Not having enough bytes to read more is a normal termination condition for
\* reads regardless of if we had partial message at end off buffer or not."
PartialIsNormal == phase # "wild"

\* "we must be conservative and assume that worst case compression and headers"
WithinLimit == phase \notin {"building", "failed"} /\ ~tuned => Size(wire) <= ms.max

\* Message_set_full means "no further pushes will succeed".
FullStaysFull ==
  [][\A m \in Messages : IsFull(ms, m) /\ ms'.max = ms.max /\ ms'.comp = ms.comp => ms'.msgs = ms.msgs]_batchVars
===============================================================================
