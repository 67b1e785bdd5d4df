----------------------------- MODULE PacketDecoder -----------------------------
(***************************************************************************)
(* packet_decoder.cpp: the operations of a decoder on a buffer of which    *)
(* only the first size_ bytes are readable.                                *)
(*                                                                         *)
(* The decoder is one record, like the encoder of module PacketEncoder,    *)
(* whose bytes it reads.  wild says that a read went past the readable     *)
(* bytes, and found what nobody sent, or that at() threw.  Nothing is      *)
(* known of a decoder after that.                                          *)
(***************************************************************************)
EXTENDS Integers, PacketCodec

CONSTANTS Word,     \* how many values a size_t has
          Chunk     \* CHUNK_SIZE, what the GZIP output grows by

ASSUME DecoderAssumption == Word \in Nat \ {0} /\ Chunk \in Nat \ {0}

Field == 4    \* sizeof(int32_t)
Zero == [is |-> "zero"]    \* a byte nothing was written to

\* The constructor takes all of the buffer as readable.
NewDecoder(bytes, cap) ==
  [bytes |-> bytes, cursor |-> 0, size |-> cap, cap |-> cap, err |-> "NONE", wild |-> FALSE]

set_readable_length(d, n) == [d EXCEPT !.size = n]

\* A number between -Word and Word as a size_t.
AsSize(n) == IF n < 0 THEN n + Word ELSE n

\* Fault: one byte more than there is.
CanReadOneMore(d, n) ==
  IF ok(d) /\ AsSize(n) > AsSize(d.size - d.cursor + 1) THEN set_err(d, "TRUNCATED") ELSE d

\* The subtraction is one of size_t, and a negative length becomes one.
can_read(d, n) ==
  IF ok(d) /\ AsSize(n) > AsSize(d.size - d.cursor) THEN set_err(d, "TRUNCATED") ELSE d

\* n bytes are used where the cursor is; at() checks the first of them.
Take(d, n) == [d EXCEPT !.cursor = @ + n,
                        !.wild = @ \/ d.cursor + n > d.size \/ d.cursor >= d.cap]

Use(d, n) == LET r == can_read(d, n) IN IF ok(r) THEN Take(r, n) ELSE r

\* io of an integer of n bytes.
TakeInt(d, n) == Use(d, n)

\* The integer whose first byte is at c.
IntAt(d, c) == IF c \in DOMAIN d.bytes /\ d.bytes[c].is = "length" THEN d.bytes[c].n ELSE 0

\* io(slice) with a length of w = 2 bytes, io_bytes with 4, when the length read
\* is len; -1 is a null value.
TakeSliceOf(d, w, len) ==
  LET sized == TakeInt(d, w) IN IF len = -1 THEN sized ELSE Use(sized, len)

TakeSlice(d, w) == TakeSliceOf(d, w, IntAt(d, d.cursor))

\* Fault: the field is taken to be as wide as the offset.
SkipWide(d) == [d EXCEPT !.cursor = @ + 2 * Field]

\* start_crc and start_length.
Skip(d) == [d EXCEPT !.cursor = @ + Field]

\* end_crc.  Only the bytes a checksum was computed from have that checksum.
verify_crc(d, at) ==
  LET from == at + Field
      covered == [i \in 1..(d.cursor - from) |-> d.bytes[from + i - 1]]
  IN IF ok(d) /\ \E i \in at..(from - 1) : d.bytes[i] # [is |-> "crc", of |-> covered]
     THEN set_err(d, "CHECKSUM_FAIL") ELSE d

\* The buffer io_bytes decompresses n bytes into.  For GZIP it is not cut to
\* what was written; it grew by a chunk whenever one was full.
Decompressed(bytes, n, gzip) ==
  LET cap == IF gzip THEN Chunk * (n \div Chunk + 1) ELSE n IN
  NewDecoder([i \in 0..(cap - 1) |-> IF i < n THEN bytes[i] ELSE Zero], cap)
===============================================================================
