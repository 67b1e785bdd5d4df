----------------------------- MODULE PacketEncoder -----------------------------
(***************************************************************************)
(* packet_encoder.cpp: the growing buffer a request is written to, with    *)
(* the fields (lengths, checksums) that are reserved first and written     *)
(* when what they cover is complete.                                       *)
(*                                                                         *)
(* The encoder is one record, so that operations compose the way the C++   *)
(* methods call each other.  A byte is what was written there: data, part  *)
(* of a length, or part of the checksum of the bytes it was computed from. *)
(***************************************************************************)
EXTENDS Integers, PacketCodec

CONSTANTS
  MaxString,     \* numeric_limits<int16_t>::max()
  MaxInt,        \* numeric_limits<int32_t>::max()
  Overhead       \* deflateBound or MaxCompressedLength, beyond the input's size

ASSUME EncoderAssumption == {MaxString, MaxInt, Overhead} \subseteq Nat

Prefix == 4    \* sizeof(int32_t)
Data == [is |-> "data"]
Reserved == [is |-> "reserved"]
Length(n) == [is |-> "length", n |-> n]
Checksum(bytes) == [is |-> "crc", of |-> bytes]
-------------------------------------------------------------------------------
(* The buffer *)

\* Fault: the buffer is only grown for what is longer than all of it.
EnsureLength(e, len) == IF e.cap < len THEN [e EXCEPT !.cap = 2 * len] ELSE e

\* n << p for each p up to most.
Shifted(n, most) == LET size[p \in 0..most] == IF p = 0 THEN n ELSE 2 * size[p - 1] IN size

\* Double until it fits, at least once.
ensure_space_for(e, len) ==
  LET need == e.size + len
      size == Shifted(e.cap, need)
      power == CHOOSE p \in 1..need : size[p] >= need /\ \A q \in 1..(p - 1) : size[q] < need
  IN IF e.cap >= need THEN e ELSE [e EXCEPT !.cap = size[power]]

\* Fault: bytes written again are counted again.
CountAlways(e, n) == [e EXCEPT !.size = @ + n, !.cursor = @ + n]

update_size_after_write(e, n) ==
  [e EXCEPT !.size = IF e.cursor = e.size THEN @ + n ELSE @, !.cursor = @ + n]

\* n bytes are written at the cursor; the buffer has been made large enough.
Put(e, n, what) ==
  update_size_after_write(
    [e EXCEPT !.bytes = [i \in DOMAIN @ \cup e.cursor..(e.cursor + n - 1) |->
                           IF i \in e.cursor..(e.cursor + n - 1) THEN what ELSE @[i]]], n)

\* io of an integer of n bytes.
IoInt(e, n, what) == IF ok(e) THEN Put(ensure_space_for(e, n), n, what) ELSE e

\* An integer is written at an earlier place, and the cursor comes back.
Patch(e, at, what) ==
  [IoInt([e EXCEPT !.cursor = at], Prefix, what) EXCEPT !.cursor = e.cursor]

\* start_length and start_crc.
Reserve(e) == IF ok(e) THEN Put(ensure_space_for(e, Prefix), Prefix, Reserved) ELSE e

\* A size_t narrowed to an int32_t.
AsInt(n) == IF n <= MaxInt THEN n ELSE ((n + MaxInt + 1) % (2 * MaxInt + 2)) - MaxInt - 1

\* Fault: the length counts its own field.
LengthWithField(e, at) == IF ok(e) THEN Patch(e, at, Length(AsInt(e.cursor - at))) ELSE e

end_length(e, at) ==
  IF ok(e) THEN Patch(e, at, Length(AsInt(e.cursor - at - Prefix))) ELSE e

\* What is checksummed does not depend on where in the buffer it is.
Covered(e, from, to) == [i \in 1..(to - from) |-> e.bytes[from + i - 1]]

end_crc(e, at) ==
  IF ok(e) THEN Patch(e, at, Checksum(Covered(e, at + Prefix, e.cursor))) ELSE e

\* Fault: the prefix counts itself.
UpdateLengthWhole(e, extra) == Patch(e, 0, Length(AsInt(e.size + extra)))

\* The packet's own length prefix, for a packet that goes on with extra bytes of
\* another buffer.
update_length(e, extra) == Patch(e, 0, Length(AsInt(e.size - Prefix + extra)))

\* get_as_slice(false): all but the packet's own length prefix.
AsSlice(e) == [i \in 0..(e.size - Prefix - 1) |-> e.bytes[i + Prefix]]

\* The number of bytes, the first of which is byte 0.
Size(bytes) == CHOOSE n \in {0} \cup {i + 1 : i \in DOMAIN bytes} : DOMAIN bytes = 0..(n - 1)
-------------------------------------------------------------------------------
(* Strings and byte arrays *)

\* io(slice) with its 2-byte length, io_bytes without compression with 4 bytes;
\* an empty value is a length of -1.
IoSlice(e, w, len) ==
  LET sized == IoInt(ensure_space_for(e, w + len), w, Length(IF len = 0 THEN -1 ELSE len)) IN
  IF ~ok(e) THEN e
  ELSE IF len > (IF w = 2 THEN MaxString ELSE MaxInt) THEN set_err(e, "INVALID_VALUE")
  ELSE IF len = 0 THEN sized ELSE Put(sized, len, Data)

\* io_bytes with compression to n bytes, for which room was made.
IoCompressed(e, len, n) ==
  LET started == Reserve(ensure_space_for(e, Prefix + len + Overhead)) IN
  IF ok(e) THEN end_length(Put(started, n, Data), e.cursor) ELSE e

\* Compression fails: the library's initialization, or the work itself.
CompressFails(e, len) ==
  {set_err(e, "COMPRESS_FAIL"),
   set_err(Reserve(ensure_space_for(e, Prefix + len + Overhead)), "COMPRESS_FAIL")}

\* The constructor: room for n bytes after the packet's own length prefix.
NewEncoder(n) ==
  Put([cursor |-> 0, size |-> 0, cap |-> n + Prefix, bytes |-> <<>>, err |-> "NONE"],
      Prefix, Reserved)
===============================================================================
