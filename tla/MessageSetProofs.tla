---------------------------- MODULE MessageSetProofs ---------------------------
(***************************************************************************)
(* The properties of MessageSet for messages of every size, batches of     *)
(* every length and every limit: what push() counts is what the encoder    *)
(* writes.                                                                 *)
(***************************************************************************)
EXTENDS MessageSet, EncoderProofs
-------------------------------------------------------------------------------
(* The batch and its size *)

\* f adds up the sizes of the messages.
Sums(f, msgs) ==
  /\ f \in [0..Len(msgs) -> Nat] /\ f[0] = 0
  /\ \A k \in 1..Len(msgs) : f[k] = f[k - 1] + get_msg_encoded_size(msgs[k])

\* What is encoded has the size that was counted; a compressed batch is as large
\* as the library makes it at most, and a message's header.
Counted(set, plain, packed) ==
  IF set.comp = "None" THEN Size(packed) = set.size
  ELSE Size(plain) = set.size /\ Size(packed) \in Nat /\ Size(packed) <= set.size + Overhead + 26

\* A batch and its size, the sum over its messages; push() kept it below the
\* limit unless the limit or the compression changed.
Batch(set, changed) ==
  /\ set \in [msgs : Seq(Messages), comp : Compressions, max : Nat, size : Nat]
  /\ \E f : Sums(f, set.msgs) /\ set.size = f[Len(set.msgs)]
  /\ set.msgs # <<>> /\ ~changed => get_worst_case_compressed_size(set, set.size) <= set.max

SizeInv ==
  /\ phase = "failed" \/ Batch(ms, tuned)
  /\ phase \notin {"building", "failed"} => ms.msgs # <<>> /\ Counted(ms, inner, wire)

\* Nothing has been pushed.
LEMMA EmptyBatch ==
  Batch(Empty, FALSE)
<1>1. Empty \in [msgs : Seq(Messages), comp : Compressions, max : Nat, size : Nat]
  <2>1. DefaultMax \in Nat /\ <<>> \in Seq(Messages) /\ "None" \in Compressions
    BY SMTT(60), BatchAssumption DEF Compressions
  <2> HIDE DEF Messages
  <2>. QED BY <2>1 DEF Empty
<1> DEFINE f == [k \in 0..0 |-> 0]
<1>2. Sums(f, <<>>) /\ f[Len(<<>>)] = 0
  BY DEF Sums
<1> HIDE DEF f
<1>. QED BY SMTT(60), <1>1, <1>2 DEF Batch, Empty

\* The parts of a batch.
LEMMA BatchTypes ==
  ASSUME NEW set, NEW changed, Batch(set, changed)
  PROVE  /\ set.msgs \in Seq(Messages) /\ Len(set.msgs) \in Nat
         /\ set.comp \in Compressions /\ set.max \in Nat /\ set.size \in Nat
<1>1. /\ set.msgs \in Seq(Messages) /\ set.comp \in Compressions
      /\ set.max \in Nat /\ set.size \in Nat
  BY DEF Batch
<1>. QED BY SMTT(60), <1>1

\* The lengths of a message.
LEMMA MessageTypes ==
  ASSUME NEW m \in Messages
  PROVE  m.key \in Nat /\ m.value \in Nat /\ get_msg_encoded_size(m) = 26 + m.key + m.value
<1>1. m.key \in Nat /\ m.value \in Nat
  BY SMTT(60), BatchAssumption DEF Messages
<1>. QED BY SMTT(60), <1>1 DEF get_msg_encoded_size

\* push() adds a message and its size.
LEMMA PushKeepsBatch ==
  ASSUME NEW set, NEW changed, Batch(set, changed), NEW m \in Messages
  PROVE  Batch(push(set, m), changed)
<1> DEFINE n == Len(set.msgs)
           size == get_msg_encoded_size(m)
           r == push(set, m)
<1>1. CASE IsFull(set, m)
  BY SMTT(60), <1>1 DEF push
<1>2. CASE ~IsFull(set, m)
  <2>1. PICK f : Sums(f, set.msgs) /\ set.size = f[n]
    BY DEF Batch
  <2>2. /\ set.msgs \in Seq(Messages) /\ n \in Nat /\ set.comp \in Compressions
        /\ set.max \in Nat /\ set.size \in Nat
    BY SMTT(60), BatchTypes
  <2>3. size \in Nat
    BY SMTT(60), MessageTypes
  <2>4. PICK msgs : msgs = Append(set.msgs, m)
    BY ZenonT(60)
  <2>5. PICK total : total = set.size + size
    OBVIOUS
  <2>6. r = [set EXCEPT !.msgs = msgs, !.size = total]
    BY SMTT(60), <1>2, <2>4, <2>5 DEF push
  <2>7. /\ msgs \in Seq(Messages) /\ Len(msgs) = n + 1 /\ msgs[n + 1] = m
        /\ \A k \in 1..n : msgs[k] = set.msgs[k]
    <3> HIDE DEF Messages
    <3>. QED BY SMTT(60), <2>2, <2>4
  <2> HIDE DEF r, size
  <2>8. /\ r \in [msgs : Seq(Messages), comp : Compressions, max : Nat, size : Nat]
        /\ r.msgs = msgs /\ r.size = total /\ r.comp = set.comp /\ r.max = set.max
    <3>1. total \in Nat
      BY SMTT(60), <2>2, <2>3, <2>5
    <3>2. set \in [msgs : Seq(Messages), comp : Compressions, max : Nat, size : Nat]
      BY DEF Batch
    <3> HIDE DEF Messages
    <3>. QED BY ZenonT(60), <3>1, <3>2, <2>6, <2>7
  <2> DEFINE g == [k \in 0..(n + 1) |-> IF k = n + 1 THEN total ELSE f[k]]
  <2>9. Sums(g, msgs) /\ total = g[Len(msgs)]
    <3>1. f \in [0..n -> Nat] /\ f[0] = 0 /\ f[n] = set.size
      BY SMTT(60), <2>1 DEF Sums
    <3>2. \A k \in 1..n : f[k] = f[k - 1] + get_msg_encoded_size(msgs[k])
      BY SMTT(60), <2>1, <2>7 DEF Sums
    <3>3. total \in Nat /\ n \in Nat /\ total = f[n] + get_msg_encoded_size(msgs[n + 1])
      BY SMTT(60), <2>2, <2>3, <2>5, <2>7, <3>1 DEF size
    <3> HIDE DEF n
    <3>4. g \in [0..(n + 1) -> Nat]
      BY SMTT(60), <3>1, <3>3
    <3>5. g[0] = 0 /\ g[n + 1] = total
      BY SMTT(60), <3>1, <3>3
    <3>6. ASSUME NEW k \in 1..(n + 1) PROVE g[k] = g[k - 1] + get_msg_encoded_size(msgs[k])
      <4>1. CASE k = n + 1
        <5>1. g[k - 1] = f[n]
          BY SMTT(60), <4>1, <3>3
        <5>. QED BY SMTT(60), <4>1, <5>1, <3>3, <3>5
      <4>2. CASE k # n + 1
        <5>1. k \in 1..n /\ g[k] = f[k] /\ g[k - 1] = f[k - 1]
          BY SMTT(60), <4>2, <3>3
        <5>. QED BY SMTT(60), <5>1, <3>2
      <4>. QED BY SMTT(60), <4>1, <4>2
    <3> HIDE DEF g
    <3>. QED BY SMTT(60), <3>4, <3>5, <3>6, <2>7 DEF Sums
  <2>10. get_worst_case_compressed_size(r, r.size) <= r.max
    <3>1. ~(get_worst_case_compressed_size(set, total) > set.max)
      BY SMTT(60), <1>2, <2>5 DEF IsFull, size
    <3>2. get_worst_case_compressed_size(set, total) = get_worst_case_compressed_size(r, r.size)
      BY SMTT(60), <2>8 DEF get_worst_case_compressed_size
    <3>3. get_worst_case_compressed_size(set, total) \in Nat
      BY SMTT(60), <2>2, <2>3, <2>5, EncoderAssumption DEF get_worst_case_compressed_size
    <3>. QED BY SMTT(60), <3>1, <3>2, <3>3, <2>2, <2>8
  <2> HIDE DEF g
  <2>11. Batch(r, changed)
    BY SMTT(60), <2>8, <2>9, <2>10 DEF Batch
  <2>. QED BY SMTT(60), <2>11 DEF r
<1>. QED BY SMTT(60), <1>1, <1>2

\* Every action but Encode keeps the batch and what is encoded, or goes on
\* building.
LEMMA OthersKeepSize ==
  ASSUME SizeInv, [BatchNext]_batchVars, ~Encode
  PROVE  SizeInv'
<1>1. CASE Push
  <2>1. PICK m \in Messages : ms' = push(ms, m)
    BY SMTT(60), <1>1 DEF Push
  <2>2. phase = "building" /\ phase' = "building" /\ tuned' = tuned
    BY SMTT(60), <1>1 DEF Push
  <2>3. Batch(ms, tuned)
    BY SMTT(60), <2>2 DEF SizeInv
  <2>4. Batch(push(ms, m), tuned)
    BY SMTT(60), <2>1, <2>3, PushKeepsBatch
  <2>. QED BY ZenonT(60), <2>1, <2>2, <2>4 DEF SizeInv
<1>2. CASE Tune
  <2>1. /\ phase = "building" /\ phase' = "building"
        /\ tuned' = (tuned \/ ms.msgs # <<>>)
    BY SMTT(60), <1>2 DEF Tune
  <2>2. Batch(ms, tuned)
    BY SMTT(60), <2>1 DEF SizeInv
  <2>3. /\ ms' \in [msgs : Seq(Messages), comp : Compressions, max : Nat, size : Nat]
        /\ ms'.msgs = ms.msgs /\ ms'.size = ms.size
    <3>1. ms \in [msgs : Seq(Messages), comp : Compressions, max : Nat, size : Nat]
      BY <2>2 DEF Batch
    <3>2. Maxes \subseteq Nat
      BY SMTT(60), BatchAssumption
    <3> HIDE DEF Messages, Compressions
    <3>3. CASE \E c \in Compressions : ms' = [ms EXCEPT !.comp = c]
      BY SMTT(60), <3>1, <3>3
    <3>4. CASE \E n \in Maxes : ms' = [ms EXCEPT !.max = n]
      BY SMTT(60), <3>1, <3>2, <3>4
    <3>. QED BY SMTT(60), <1>2, <3>3, <3>4 DEF Tune
  <2>4. \E f : Sums(f, ms'.msgs) /\ ms'.size = f[Len(ms'.msgs)]
    BY SMTT(60), <2>2, <2>3 DEF Batch
  <2>5. ~(ms'.msgs # <<>> /\ ~tuned')
    BY ZenonT(60), <2>1, <2>3
  <2>6. Batch(ms, tuned)'
    BY ZenonT(60), <2>3, <2>4, <2>5 DEF Batch
  <2>. QED BY ZenonT(60), <2>1, <2>6 DEF SizeInv
<1>3. CASE Arrive \/ DecodeMessage \/ DecodeEnd
  <2>1. phase \notin {"building", "failed"} /\ UNCHANGED <<ms, tuned, wire, inner>>
    BY ZenonT(60), <1>3 DEF Arrive, DecodeMessage, DecodeEnd
  <2>2. Batch(ms, tuned) /\ ms.msgs # <<>> /\ Counted(ms, inner, wire)
    BY ZenonT(60), <2>1 DEF SizeInv
  <2>. QED BY ZenonT(60), <2>1, <2>2 DEF SizeInv
<1>4. CASE UNCHANGED batchVars
  <2>1. UNCHANGED <<ms, tuned, wire, inner, phase>>
    BY SMTT(60), <1>4 DEF batchVars
  <2>. QED BY ZenonT(60), <2>1 DEF SizeInv
<1>. QED BY ZenonT(60), <1>1, <1>2, <1>3, <1>4 DEF BatchNext

\* A batch with messages is not empty.
LEMMA BatchIsLarge ==
  ASSUME NEW set, NEW changed, Batch(set, changed), set.msgs # <<>>
  PROVE  set.size >= 26
<1>1. PICK f : Sums(f, set.msgs) /\ set.size = f[Len(set.msgs)]
  BY DEF Batch
<1> DEFINE n == Len(set.msgs)
<1>2. n \in Nat /\ n # 0 /\ set.msgs[n] \in Messages
  <2>1. set.msgs \in Seq(Messages)
    BY SMTT(60), BatchTypes
  <2> HIDE DEF Messages
  <2>. QED BY SMTT(60), <2>1
<1>3. get_msg_encoded_size(set.msgs[n]) \in Nat /\ get_msg_encoded_size(set.msgs[n]) >= 26
  BY SMTT(60), <1>2, MessageTypes
<1> HIDE DEF n
<1>4. n \in 1..n /\ n - 1 \in 0..n
  BY SMTT(60), <1>2
<1>5. f[n] = f[n - 1] + get_msg_encoded_size(set.msgs[n]) /\ f[n - 1] \in Nat
  BY ZenonT(60), <1>1, <1>4 DEF Sums, n
<1>. QED BY SMTT(60), <1>1, <1>3, <1>5 DEF n

\* What the encoder has to keep to: the messages take the size of the batch,
\* unless one cannot be encoded, and a batch that was compressed to n bytes its header and those.
EncodesExactly ==
  /\ \A set, changed, room :
       Batch(set, changed) /\ room \in Nat /\ ok(PlainIo(NewEncoder(room), set.msgs)) =>
         Size(AsSlice(PlainIo(NewEncoder(room), set.msgs))) = set.size
  /\ \A comp, value, n :
       comp # "None" /\ value \in Nat /\ n \in 1..(value + Overhead) =>
         Size(AsSlice(EntryIo(NewEncoder(0), [key |-> 0, value |-> value], comp, n))) = 26 + n

\* What is encoded has the size that was counted.
LEMMA EncodeCounts ==
  ASSUME EncodesExactly, SizeInv, Encode
  PROVE  SizeInv'
<1>1. tuned' = tuned /\ ms.msgs # <<>> /\ phase = "building"
  BY ZenonT(60) DEF Encode
<1>2. Batch(ms, tuned)
  BY ZenonT(60), <1>1 DEF SizeInv
<1> SUFFICES ASSUME phase' # "failed" PROVE SizeInv'
  BY ZenonT(60) DEF SizeInv
<1>3. ms.size \in Nat /\ ms.size >= 26 /\ Overhead \in Nat
  BY SMTT(60), <1>1, <1>2, BatchTypes, BatchIsLarge, EncoderAssumption
<1>4. ms' = ms /\ Counted(ms, inner', wire')
  <2>1. CASE ms.comp = "None"
    <3>1. /\ wire' = AsSlice(PlainIo(NewEncoder(0), ms.msgs)) /\ ms' = ms
          /\ ok(PlainIo(NewEncoder(0), ms.msgs))
      BY ZenonT(60), <2>1 DEF Encode, EncodeFails
    <3>2. 0 \in Nat
      OBVIOUS
    <3>3. Size(wire') = ms.size
      BY ZenonT(60), <3>1, <3>2, <1>2 DEF EncodesExactly
    <3>. QED BY ZenonT(60), <2>1, <3>1, <3>3 DEF Counted
  <2>2. CASE ms.comp # "None"
    <3>1. /\ inner' = AsSlice(PlainIo(NewEncoder(ms.size), ms.msgs)) /\ ms' = ms
          /\ ok(PlainIo(NewEncoder(ms.size), ms.msgs))
      BY ZenonT(60), <2>2 DEF Encode, EncodeFails
    <3>2. Size(inner') = ms.size
      BY ZenonT(60), <3>1, <1>2, <1>3 DEF EncodesExactly
    <3>3. PICK n \in {1, Size(inner') + Overhead} :
            wire' = AsSlice(EntryIo(NewEncoder(0), [key |-> 0, value |-> Size(inner')], ms.comp, n))
      BY ZenonT(60), <2>2 DEF Encode, EncodeFails
    <3>4. n \in 1..(ms.size + Overhead)
      BY SMTT(60), <3>2, <3>3, <1>3
    <3>5. wire' = AsSlice(EntryIo(NewEncoder(0), [key |-> 0, value |-> ms.size], ms.comp, n))
      BY ZenonT(60), <3>2, <3>3
    <3>6. Size(wire') = 26 + n
      <4> DEFINE packed == AsSlice(EntryIo(NewEncoder(0), [key |-> 0, value |-> ms.size], ms.comp, n))
      <4>1. \A value, k :
              value \in Nat /\ k \in 1..(value + Overhead) =>
                Size(AsSlice(EntryIo(NewEncoder(0), [key |-> 0, value |-> value], ms.comp, k))) = 26 + k
        BY ZenonT(60), <2>2 DEF EncodesExactly
      <4>2. Size(packed) = 26 + n
        BY ZenonT(60), <4>1, <3>4, <1>3
      <4>. QED BY ZenonT(60), <4>2, <3>5
    <3>7. Size(wire') \in Nat /\ Size(wire') <= ms.size + Overhead + 26
      BY SMTT(60), <3>4, <3>6, <1>3
    <3>. QED BY ZenonT(60), <2>2, <3>1, <3>2, <3>7 DEF Counted
  <2>. QED BY SMTT(60), <2>1, <2>2
<1>. QED BY ZenonT(60), <1>1, <1>2, <1>4 DEF SizeInv

\* What the properties follow from.
LEMMA SizeInvSuffices ==
  ASSUME SizeInv
  PROVE  SizeIsExact /\ NearLimit
<1> SUFFICES ASSUME phase \notin {"building", "failed"} PROVE SizeIsExact /\ NearLimit
  BY DEF SizeIsExact, NearLimit
<1>1. Batch(ms, tuned) /\ Counted(ms, inner, wire)
  BY ZenonT(60) DEF SizeInv
<1>2. /\ ms.size \in Nat /\ ms.max \in Nat /\ Overhead \in Nat
      /\ get_msg_encoded_size([key |-> 0, value |-> 0]) = 26
  BY SMTT(60), <1>1, BatchTypes, EncoderAssumption DEF get_msg_encoded_size
<1>3. SizeIsExact
  BY ZenonT(60), <1>1 DEF Counted, SizeIsExact
<1>4. ASSUME ~tuned
      PROVE  Size(wire) <= ms.max + IF ms.comp = "None" THEN 0 ELSE 26
  <2>1. get_worst_case_compressed_size(ms, ms.size) <= ms.max
    <3>1. ms.msgs # <<>>
      BY ZenonT(60) DEF SizeInv
    <3>. QED BY ZenonT(60), <1>1, <1>4, <3>1 DEF Batch
  <2>. QED BY SMTT(60), <2>1, <1>1, <1>2 DEF Counted, get_worst_case_compressed_size
<1>. QED BY ZenonT(60), <1>2, <1>3, <1>4 DEF NearLimit
-------------------------------------------------------------------------------
(* What is encoded *)

\* A message is the calls EncoderProofs knows.
LEMMA SameEntry ==
  \A e, m, comp, n :
    EntryIo(e, m, comp, n) = EntryCalls(e, m.key, m.value, Attributes(comp), comp, n)
BY ZenonT(60) DEF EntryIo, MessageIo, EntryCalls

\* u has the encoder after every message.
Steps(u, e, msgs, n) ==
  u = [k \in 0..n |-> IF k = 0 THEN e ELSE EntryIo(u[k - 1], msgs[k], "None", 0)]

\* The loop over the messages is what its recursive definition says.
LEMMA PlainSteps ==
  ASSUME NEW e, NEW msgs, Len(msgs) \in Nat
  PROVE  \E u : Steps(u, e, msgs, Len(msgs)) /\ PlainIo(e, msgs) = u[Len(msgs)]
<1> DEFINE T == {n \in Nat : ~ \E u : Steps(u, e, msgs, n)}
<1>1. T = {}
  <2> SUFFICES ASSUME T # {} PROVE FALSE
    BY SMTT(60)
  <2>1. T \in SUBSET Nat
    BY SMTT(60)
  <2>2. PICK n \in T : \A j \in T : n <= j
    BY ZenonT(60), <2>1, LeastNumber
  <2>3. n # 0
    <3> DEFINE u == [k \in 0..0 |-> e]
    <3>1. Steps(u, e, msgs, 0)
      BY SMTT(60) DEF Steps
    <3> HIDE DEF u
    <3>. QED BY ZenonT(60), <3>1
  <2>4. n - 1 \in Nat /\ n - 1 \notin T
    <3> HIDE DEF T
    <3>. QED BY SMTT(60), <2>1, <2>2, <2>3
  <2>5. PICK u : Steps(u, e, msgs, n - 1)
    BY SMTT(60), <2>4
  <2> DEFINE g == [k \in 0..n |-> IF k = 0 THEN e ELSE EntryIo(u[k - 1], msgs[k], "None", 0)]
  <2>6. ASSUME NEW k \in 0..n, k # 0 PROVE g[k - 1] = u[k - 1]
    <3>1. k - 1 \in 0..n /\ k - 1 \in 0..(n - 1) /\ (k - 1 = 0 \/ k - 1 # 0)
      BY SMTT(60), <2>6, <2>4
    <3>2. g[k - 1] = IF k - 1 = 0 THEN e ELSE EntryIo(u[k - 1 - 1], msgs[k - 1], "None", 0)
      BY ZenonT(60), <3>1
    <3>3. u[k - 1] = IF k - 1 = 0 THEN e ELSE EntryIo(u[k - 1 - 1], msgs[k - 1], "None", 0)
      BY ZenonT(60), <3>1, <2>5 DEF Steps
    <3>. QED BY ZenonT(60), <3>2, <3>3
  <2>7. Steps(g, e, msgs, n)
    <3> DEFINE h == [k \in 0..n |-> IF k = 0 THEN e ELSE EntryIo(g[k - 1], msgs[k], "None", 0)]
    <3>1. ASSUME NEW k \in 0..n PROVE g[k] = h[k]
      BY ZenonT(60), <2>6
    <3>2. g = h
      BY ZenonT(60), <3>1
    <3>. QED BY ZenonT(60), <3>2 DEF Steps
  <2>8. n \notin T
    <3> HIDE DEF g
    <3>. QED BY SMTT(60), <2>7
  <2>. QED BY SMTT(60), <2>2, <2>8
<1>2. PICK v : Steps(v, e, msgs, Len(msgs))
  BY SMTT(60), <1>1
<1> DEFINE u == CHOOSE u : u = [k \in 0..Len(msgs) |->
                                 IF k = 0 THEN e ELSE EntryIo(u[k - 1], msgs[k], "None", 0)]
<1>3. Steps(u, e, msgs, Len(msgs))
  BY ZenonT(60), <1>2 DEF Steps
<1>4. PlainIo(e, msgs) = u[Len(msgs)]
  BY ZenonT(60) DEF PlainIo
<1>. QED BY ZenonT(60), <1>3, <1>4

\* The messages take the room that was counted.
LEMMA PlainAppends ==
  ASSUME NEW e, AtEnd(e), Overhead \in Nat, MaxInt \in Nat,
         NEW msgs, Len(msgs) \in Nat, NEW f, Sums(f, msgs),
         \A k \in 1..Len(msgs) : msgs[k].key \in Nat /\ msgs[k].value \in Nat
  PROVE  LET r == PlainIo(e, msgs)
         IN  ok(r) => Longer(e, r, f[Len(msgs)])
<1> DEFINE n == Len(msgs)
<1>1. n \in Nat /\ \A k \in 1..n : msgs[k].key \in Nat /\ msgs[k].value \in Nat
  BY SMTT(60)
<1>2. PICK u : Steps(u, e, msgs, n) /\ PlainIo(e, msgs) = u[n]
  BY SMTT(60), <1>1, PlainSteps
<1>3. u[0] = e
  <2>1. 0 \in 0..n
    BY SMTT(60), <1>1
  <2>. QED BY ZenonT(60), <2>1, <1>2 DEF Steps
<1>4. \A k \in 1..n :
        u[k] = EntryCalls(u[k - 1], msgs[k].key, msgs[k].value, Attributes("None"), "None", 0)
  <2>1. \A k \in 1..n : k \in 0..n /\ k # 0
    BY SMTT(60), <1>1
  <2>2. \A k \in 1..n : u[k] = EntryIo(u[k - 1], msgs[k], "None", 0)
    BY ZenonT(60), <2>1, <1>2 DEF Steps
  <2>. QED BY ZenonT(60), <2>2, SameEntry
<1>5. /\ f \in [0..n -> Nat] /\ f[0] = 0
      /\ \A k \in 1..n : f[k] = f[k - 1] + (26 + msgs[k].key + msgs[k].value)
  <2>1. \A k \in 1..n : get_msg_encoded_size(msgs[k]) = 26 + msgs[k].key + msgs[k].value
    BY SMTT(60), <1>1 DEF get_msg_encoded_size
  <2>. QED BY ZenonT(60), <2>1 DEF Sums
<1> HIDE DEF n
<1>6. AtEnd(u[0])
  BY ZenonT(60), <1>3
<1>7. Entries(u, f, msgs, n, Attributes("None"))
  BY ZenonT(60), <1>1, <1>4, <1>5 DEF Entries
<1>8. ok(u[n]) => Longer(u[0], u[n], f[n])
  BY ZenonT(60), <1>1, <1>6, <1>7, EntriesAppend
<1>. QED BY ZenonT(60), <1>2, <1>3, <1>8 DEF n

\* A new encoder with the messages in it, as a slice.
LEMMA PlainSize ==
  ASSUME NEW set, NEW changed, Batch(set, changed), NEW room \in Nat,
         ok(PlainIo(NewEncoder(room), set.msgs))
  PROVE  Size(AsSlice(PlainIo(NewEncoder(room), set.msgs))) = set.size
<1> DEFINE e == NewEncoder(room)
           msgs == set.msgs
           r == PlainIo(e, msgs)
<1>1. AtEnd(e) /\ e.size = 4
  BY ZenonT(60), NewEncoderAtEnd DEF Prefix
<1>2. PICK f : Sums(f, msgs) /\ set.size = f[Len(msgs)]
  BY ZenonT(60) DEF Batch
<1>3. msgs \in Seq(Messages) /\ Len(msgs) \in Nat /\ set.size \in Nat
  BY ZenonT(60), BatchTypes
<1>4. \A k \in 1..Len(msgs) : msgs[k].key \in Nat /\ msgs[k].value \in Nat
  <2> HIDE DEF msgs
  <2>1. \A k \in 1..Len(msgs) : msgs[k] \in Messages
    BY SMTT(60), <1>3
  <2>. QED BY ZenonT(60), <2>1, MessageTypes
<1>5. Overhead \in Nat /\ MaxInt \in Nat /\ ok(r)
  BY SMTT(60), EncoderAssumption
<1> HIDE DEF e, msgs
<1>6. Longer(e, r, f[Len(msgs)])
  BY ZenonT(60), <1>1, <1>2, <1>3, <1>4, <1>5, PlainAppends
<1> HIDE DEF r
<1>7. AtEnd(r) /\ r.size = 4 + set.size
  BY SMTT(60), <1>1, <1>2, <1>6 DEF Longer
<1>8. r.size - Prefix = set.size
  BY SMTT(60), <1>3, <1>7 DEF Prefix
<1>. QED BY ZenonT(60), <1>7, <1>8, SliceSize DEF r, e, msgs

\* A compressed batch, as a slice.
LEMMA CompressedSize ==
  ASSUME Overhead \in Nat, MaxInt \in Nat, NEW comp, comp # "None", NEW value \in Nat,
         NEW n \in 1..(value + Overhead)
  PROVE  LET m == [key |-> 0, value |-> value]
         IN  Size(AsSlice(EntryIo(NewEncoder(0), m, comp, n))) = 26 + n
<1> DEFINE e == NewEncoder(0)
           r == EntryIo(e, [key |-> 0, value |-> value], comp, n)
<1>1. AtEnd(e) /\ ok(e) /\ e.size = 4
  <2>1. 0 \in Nat
    BY SMTT(60)
  <2>. QED BY ZenonT(60), <2>1, NewEncoderAtEnd DEF Prefix
<1>2. r = EntryCalls(e, 0, value, Attributes(comp), comp, n)
  <2> HIDE DEF e
  <2>1. PICK m : m = [key |-> 0, value |-> value]
    BY ZenonT(60)
  <2>2. m.key = 0 /\ m.value = value
    BY SMTT(60), <2>1
  <2>. QED BY ZenonT(60), <2>1, <2>2, SameEntry
<1> HIDE DEF e, r
<1>3. Longer(e, r, 26 + 0 + n)
  <2>1. IF comp = "None" THEN n = value /\ n <= MaxInt ELSE n = n /\ n \in 1..(value + Overhead)
    BY SMTT(60)
  <2>2. 0 \in Nat /\ n \in Nat /\ 0 <= MaxInt
    BY SMTT(60)
  <2>3. PICK zero : zero = 0
    BY SMTT(60)
  <2>4. LET q == EntryCalls(e, zero, value, Attributes(comp), comp, n)
        IN  Longer(e, q, 26 + zero + n)
    BY SMTT(60), <2>1, <2>2, <2>3, <1>1, EntryAppends
  <2>. QED BY ZenonT(60), <2>3, <2>4, <1>2
<1>4. AtEnd(r) /\ r.size - Prefix = 26 + n
  BY SMTT(60), <1>1, <1>3 DEF Longer, Prefix
<1>. QED BY ZenonT(60), <1>4, SliceSize DEF r, e

\* The encoder writes what was counted.
LEMMA EncoderIsExact == EncodesExactly
<1>1. Overhead \in Nat /\ MaxInt \in Nat
  BY SMTT(60), EncoderAssumption
<1>. QED BY ZenonT(60), <1>1, PlainSize, CompressedSize DEF EncodesExactly
-------------------------------------------------------------------------------
(* Theorems *)

\* The batch and what was encoded of it agree in every reachable state.
LEMMA SizeInvHolds == BatchSpec => []SizeInv
<1>1. BatchInit => SizeInv
  BY ZenonT(60), EmptyBatch DEF BatchInit, SizeInv
<1>2. SizeInv /\ [BatchNext]_batchVars => SizeInv'
  BY ZenonT(60), OthersKeepSize, EncodeCounts, EncoderIsExact
<1>. QED BY <1>1, <1>2, PTL DEF BatchSpec

\* push() counts exactly the bytes that the encoder then writes for the batch, for
\* every batch, with and without compression.
THEOREM SizesAreExact == BatchSpec => []SizeIsExact
<1>1. SizeInv => SizeIsExact
  BY ZenonT(60), SizeInvSuffices
<1>. QED BY <1>1, SizeInvHolds, PTL

\* A batch is within the limit that push() tests, but for the header of the
\* message it is compressed into.
THEOREM LimitIsNear == BatchSpec => []NearLimit
<1>1. SizeInv => NearLimit
  BY ZenonT(60), SizeInvSuffices
<1>. QED BY <1>1, SizeInvHolds, PTL
===============================================================================
