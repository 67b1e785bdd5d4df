---------------------------- MODULE ResponseProofs ----------------------------
(***************************************************************************)
(* ReadsWithin, ElementsWereSent and SuccessIsComplete for every size of   *)
(* the buffer and whatever lengths and counts the peer sends, as long as   *)
(* they are those of the assumption: far enough from the largest size_t    *)
(* that unsigned arithmetic tells a negative length from a small one.      *)
(***************************************************************************)
EXTENDS Response, SequenceTheorems, TLAPS

Decoders ==
  [bytes : {<<>>}, cursor : Nat, size : Nat, cap : Nat, err : {"NONE", "TRUNCATED"}, wild : BOOLEAN]

\* A decoder that is inside what is readable; wild only where at() throws.
Within(d) ==
  /\ d \in Decoders
  /\ d.cursor <= d.size /\ d.size <= d.cap /\ 2 * d.cap < Word
  /\ d.wild => d.cursor = d.cap

Small(n) == n \in Int /\ -Word < 4 * n /\ 4 * n < Word

\* The structures an array is of, and the io calls that may be still to make.
Bodies == {<<Num(4)>>, Broker, PartitionMetaData, TopicMetaData,
           ProduceResponsePartition, ProduceResponseTopic}
Items == {Num(2), Num(4), Num(8), Str} \cup {Array(b) : b \in Bodies}
           \cup {Loop(b, n) : b \in Bodies, n \in Int}
           \cup {Element(b, n) : b \in Bodies, n \in Int}

Inv == Within(dec) /\ todo \in Seq(Items)

\* Word is a positive number, and so is Buffer.
LEMMA Constants ==
  Word \in Nat /\ Word > 32 /\ Buffer \in Nat /\ Buffer > 4 /\ 2 * Buffer < Word /\ Field = 4
  BY DecoderAssumption, ResponseAssumption DEF Field

\* can_read() and what is read after it keep the decoder inside.
LEMMA UseWithin ==
  ASSUME NEW d, Within(d), NEW n, Small(n)
  PROVE  Within(Use(d, n))
<1> DEFINE r == can_read(d, n)
<1>1. CASE ~ok(r)
  <2>1. Use(d, n) = r
    BY <1>1 DEF Use
  <2>2. r = d \/ r = [d EXCEPT !.err = "TRUNCATED"]
    BY DEF can_read, set_err
  <2>. HIDE DEF r
  <2>. QED BY <2>1, <2>2 DEF Within, Decoders
<1>2. CASE ok(r)
  <2>1. r = d
    BY <1>2 DEF can_read, set_err, ok, Within, Decoders
  <2>2. ~(AsSize(n) > AsSize(d.size - d.cursor))
    BY <1>2, <2>1 DEF can_read, set_err, ok, Within, Decoders
  <2>3. 0 <= n /\ n <= d.size - d.cursor
    BY <2>2, Constants DEF AsSize, Within, Decoders, Small
  <2>4. Use(d, n) = [d EXCEPT !.cursor = @ + n, !.wild = @ \/ d.cursor + n > d.size \/ d.cursor >= d.cap]
    BY <1>2, <2>1 DEF Use, Take
  <2>. DEFINE w == d.wild \/ d.cursor + n > d.size \/ d.cursor >= d.cap
  <2>5. w \in BOOLEAN
    OBVIOUS
  <2>6. w => d.cursor + n = d.cap
    BY <2>3 DEF Within, Decoders, Small
  <2>7. d.cursor + n \in Nat /\ d.cursor + n <= d.size
    BY <2>3 DEF Within, Decoders, Small
  <2>8. Use(d, n) = [d EXCEPT !.cursor = d.cursor + n, !.wild = w]
    BY <2>4 DEF Within, Decoders
  <2>. HIDE DEF w
  <2>. QED BY Zenon, <2>5, <2>6, <2>7, <2>8 DEF Within, Decoders
<1>. QED BY <1>1, <1>2

\* What can_read() and the read after it do to the cursor.
LEMMA UseStep ==
  ASSUME NEW d, Within(d), NEW n, Small(n)
  PROVE  /\ Use(d, n).cursor >= d.cursor
         /\ ok(Use(d, n)) => ok(d) /\ Use(d, n).cursor = d.cursor + n
         /\ n > 0 /\ ~d.wild => ~Use(d, n).wild
<1> DEFINE r == can_read(d, n)
<1>1. CASE ~ok(r)
  <2>1. Use(d, n) = r
    BY <1>1 DEF Use
  <2>2. r = d \/ r = [d EXCEPT !.err = "TRUNCATED"]
    BY DEF can_read, set_err
  <2>. HIDE DEF r
  <2>. QED BY <1>1, <2>1, <2>2 DEF Within, Decoders
<1>2. CASE ok(r)
  <2>1. r = d
    BY <1>2 DEF can_read, set_err, ok, Within, Decoders
  <2>2. ~(AsSize(n) > AsSize(d.size - d.cursor))
    BY <1>2, <2>1 DEF can_read, set_err, ok, Within, Decoders
  <2>3. 0 <= n /\ n <= d.size - d.cursor
    BY <2>2, Constants DEF AsSize, Within, Decoders, Small
  <2>4. Use(d, n) = [d EXCEPT !.cursor = @ + n, !.wild = @ \/ d.cursor + n > d.size \/ d.cursor >= d.cap]
    BY <1>2, <2>1 DEF Use, Take
  <2>5. Use(d, n).cursor = d.cursor + n
        /\ Use(d, n).wild = (d.wild \/ d.cursor + n > d.size \/ d.cursor >= d.cap)
    BY <2>4 DEF Within, Decoders
  <2>6. d.cursor + n >= d.cursor
    BY <2>3 DEF Within, Decoders, Small
  <2>7. n > 0 => ~(d.cursor + n > d.size) /\ ~(d.cursor >= d.cap)
    BY <2>3 DEF Within, Decoders, Small
  <2>8. ok(d)
    BY <1>2, <2>1
  <2>. QED BY Zenon, <2>5, <2>6, <2>7, <2>8
<1>. QED BY <1>1, <1>2

\* A string, whatever its length is said to be.
LEMMA SliceWithin ==
  ASSUME NEW d, Within(d), NEW len, Small(len)
  PROVE  Within(TakeSliceOf(d, 2, len))
<1>1. Small(2)
  BY Constants DEF Small
<1>2. Within(TakeInt(d, 2))
  BY <1>1, UseWithin DEF TakeInt
<1>3. Within(Use(TakeInt(d, 2), len))
  BY <1>2, UseWithin
<1>. QED BY <1>2, <1>3 DEF TakeSliceOf

\* The decoder when the length of the response was read.
LEMMA LengthWithin == Within(FrameLength) /\ FrameLength.cursor <= 4 /\ ~FrameLength.wild
<1> DEFINE new == NewDecoder(<<>>, Buffer)
           d == set_readable_length(new, Field)
<1>1. new \in Decoders /\ new.cursor = 0 /\ new.cap = Buffer /\ ~new.wild /\ ok(new)
  BY Constants DEF NewDecoder, Decoders, ok
<1> HIDE DEF new
<1>2. Within(d) /\ d.size = 4 /\ d.cursor = 0 /\ d.cap = Buffer /\ ~d.wild
  BY <1>1, Constants DEF Within, Decoders, set_readable_length, ok
<1> HIDE DEF d
<1>3. Small(4)
  BY Constants DEF Small
<1>4. Within(FrameLength)
  BY <1>2, <1>3, Constants, UseWithin DEF FrameLength, TakeInt, d, new
<1>5. FrameLength.size = 4 /\ ~FrameLength.wild
  BY <1>2, Constants DEF FrameLength, TakeInt, Use, can_read, set_err, Take, d, new, Within, Decoders
<1>. QED BY <1>4, <1>5 DEF Within, Decoders

\* Every structure is a list of io calls.
LEMMA BodiesAreItems ==
  /\ \A b \in Bodies : b \in Seq(Items)
  /\ MetadataResponse \in Seq(Items) /\ ProduceResponse \in Seq(Items)
<1>1. /\ Num(2) \in Items /\ Num(4) \in Items /\ Num(8) \in Items /\ Str \in Items
      /\ \A b \in Bodies : Array(b) \in Items
  BY DEF Items
<1>2. \A b \in Bodies : b = <<Num(4)>> \/ b = Broker \/ b = PartitionMetaData \/ b = TopicMetaData
                        \/ b = ProduceResponsePartition \/ b = ProduceResponseTopic
  BY DEF Bodies
<1>3. /\ <<Num(4)>> \in Bodies /\ Broker \in Bodies /\ PartitionMetaData \in Bodies
      /\ TopicMetaData \in Bodies /\ ProduceResponsePartition \in Bodies
      /\ ProduceResponseTopic \in Bodies
  BY DEF Bodies
<1> HIDE DEF Items, Bodies
<1>4. <<Num(4)>> \in Seq(Items)
  BY <1>1
<1>5. Broker \in Seq(Items)
  BY <1>1 DEF Broker
<1>6. PartitionMetaData \in Seq(Items)
  BY <1>1, <1>3 DEF PartitionMetaData
<1>7. TopicMetaData \in Seq(Items)
  BY <1>1, <1>3 DEF TopicMetaData
<1>8. ProduceResponsePartition \in Seq(Items)
  BY <1>1 DEF ProduceResponsePartition
<1>9. ProduceResponseTopic \in Seq(Items)
  BY <1>1, <1>3 DEF ProduceResponseTopic
<1>10. MetadataResponse \in Seq(Items) /\ ProduceResponse \in Seq(Items)
  BY <1>1, <1>3 DEF MetadataResponse, ProduceResponse
<1>. QED BY Zenon, <1>2, <1>4, <1>5, <1>6, <1>7, <1>8, <1>9, <1>10

\* What an io call that is still to be made looks like.
LEMMA ItemShape ==
  ASSUME NEW i \in Items
  PROVE  /\ i.io = "int" => i.n \in {2, 4, 8}
         /\ i.io \in {"array", "loop", "element"} => i.of \in Bodies
         /\ i.io \in {"loop", "element"} => i.left \in Int
BY DEF Items, Num, Str, Array, Loop, Element

\* The decoder when the header was read too, of a response of n bytes.
LEMMA HeaderWithin ==
  ASSUME NEW n \in Frames, n > 0
  PROVE  LET r == TakeInt(set_readable_length(Larger(n), Field + n), Field)
         IN  Within(r) /\ ~r.wild
<1> DEFINE d == set_readable_length(Larger(n), Field + n)
<1>1. n \in Int /\ 4 * (n + 4) < Word
  BY ResponseAssumption DEF Field
<1>2. Within(FrameLength) /\ FrameLength.cursor <= 4 /\ ~FrameLength.wild
  BY LengthWithin
<1> DEFINE cap == IF FrameLength.cap < 4 + n THEN 4 + n ELSE FrameLength.cap
<1>3. cap \in Nat /\ 4 + n \in Nat /\ 4 + n <= cap /\ 2 * cap < Word
  BY <1>1, <1>2, Constants DEF Within, Decoders
<1> DEFINE large == [FrameLength EXCEPT !.cap = cap]
<1>4. d = [large EXCEPT !.size = 4 + n]
  BY <1>2, Constants DEF Larger, set_readable_length, Within, Decoders
<1> HIDE DEF cap, d
<1>5. large \in Decoders /\ large.cap = cap /\ large.cursor <= 4 /\ ~large.wild
  BY SMTT(60), <1>2, <1>3 DEF Within, Decoders
<1> HIDE DEF large
<1>6. Within(d) /\ ~d.wild
  BY SMTT(60), <1>1, <1>3, <1>4, <1>5 DEF Within, Decoders
<1>7. Small(4)
  BY Constants DEF Small
<1>8. Within(Use(d, 4)) /\ ~Use(d, 4).wild
  BY <1>6, <1>7, UseWithin, UseStep
<1>. QED BY <1>8, Constants DEF TakeInt, d

\* Only the structures themselves are to be read when a response has arrived.
LEMMA ReceiveInv == Inv /\ Receive => Inv'
<1> SUFFICES ASSUME Inv, Receive PROVE Inv'
  OBVIOUS
<1>1. PICK n \in Frames, body \in {MetadataResponse, ProduceResponse} :
        /\ dec' = IF n > 0 THEN TakeInt(set_readable_length(Larger(n), Field + n), Field)
                  ELSE FrameLength
        /\ todo' = body \/ todo' = todo
  BY DEF Receive
<1>2. Within(dec')
  BY <1>1, HeaderWithin, LengthWithin
<1>3. todo' \in Seq(Items)
  BY <1>1, BodiesAreItems DEF Inv
<1>. QED BY <1>2, <1>3 DEF Inv, Within

\* What is left to do is a list of io calls again.
LEMMA ThenInv ==
  ASSUME Within(dec'), NEW rest \in Seq(Items), todo' = Then(rest)
  PROVE  Inv'
<1>1. todo' \in Seq(Items)
  BY DEF Then
<1>. QED BY <1>1 DEF Inv, Within

\* The invariant is kept by every step.
LEMMA NextInv == Inv /\ [ResponseNext]_responseVars => Inv'
<1> SUFFICES ASSUME Inv, [ResponseNext]_responseVars PROVE Inv'
  OBVIOUS
<1>1. CASE Receive
  BY <1>1, ReceiveInv
<1> DEFINE rest == Tail(todo)
<1>2. ASSUME todo # <<>>
      PROVE  Item \in Items /\ rest \in Seq(Items)
  BY <1>2 DEF Inv, Item
<1>3. CASE ReadInt
  <2>1. Item \in Items /\ rest \in Seq(Items) /\ Item.io = "int"
    BY <1>2, <1>3 DEF ReadInt
  <2>2. Small(Item.n)
    BY <2>1, ItemShape, Constants DEF Small
  <2>3. Within(dec')
    BY <2>2, <1>3, UseWithin DEF ReadInt, TakeInt, Inv
  <2>. QED BY Zenon, <2>1, <2>3, <1>3, ThenInv DEF ReadInt
<1>4. CASE ReadString
  <2>1. rest \in Seq(Items)
    BY <1>2, <1>4 DEF ReadString
  <2>2. PICK len \in Lens : dec' = TakeSliceOf(dec, 2, len)
    BY <1>4 DEF ReadString
  <2>3. Small(len)
    BY Constants, ResponseAssumption DEF Small
  <2>4. Within(dec')
    BY <2>2, <2>3, SliceWithin DEF Inv
  <2>. QED BY Zenon, <2>1, <2>4, <1>4, ThenInv DEF ReadString
<1>5. CASE ReadCount
  <2>1. Item \in Items /\ rest \in Seq(Items) /\ Item.io = "array"
    BY <1>2, <1>5 DEF ReadCount
  <2>2. Small(4)
    BY Constants DEF Small
  <2>3. Within(dec')
    BY <2>2, <1>5, UseWithin DEF ReadCount, TakeInt, Inv
  <2>4. PICK n \in Counts \cup {0} : todo' = Then(<<Loop(Item.of, n)>> \o rest)
    BY <1>5 DEF ReadCount
  <2>5. n \in Int
    BY ResponseAssumption
  <2>6. Loop(Item.of, n) \in Items
    BY <2>1, <2>5, ItemShape DEF Items
  <2>7. <<Loop(Item.of, n)>> \o rest \in Seq(Items)
    BY <2>1, <2>6
  <2>. QED BY Zenon, <2>3, <2>4, <2>7, ThenInv
<1>6. CASE Iterate
  <2>1. Item \in Items /\ rest \in Seq(Items) /\ Item.io = "loop"
    BY <1>2, <1>6 DEF Iterate
  <2>2. Item.of \in Bodies /\ Item.left \in Int
    BY <2>1, ItemShape
  <2>3. Element(Item.of, Item.left) \in Items
    BY <2>2 DEF Items
  <2>4. Item.of \in Seq(Items)
    BY <2>2, BodiesAreItems
  <2>5. Item.of \o <<Element(Item.of, Item.left)>> \o rest \in Seq(Items)
    BY <2>1, <2>3, <2>4
  <2>. QED BY <2>1, <2>5, <1>6 DEF Iterate, Inv, Within
<1>7. CASE Keep
  <2>1. Item \in Items /\ rest \in Seq(Items) /\ Item.io = "element"
    BY <1>2, <1>7 DEF Keep
  <2>2. Item.of \in Bodies /\ Item.left \in Int
    BY <2>1, ItemShape
  <2>3. Item.left - 1 \in Int
    BY <2>2
  <2>4. Loop(Item.of, Item.left - 1) \in Items
    BY <2>2, <2>3 DEF Items
  <2>5. <<Loop(Item.of, Item.left - 1)>> \o rest \in Seq(Items)
    BY <2>1, <2>4
  <2>. QED BY Zenon, <2>1, <2>5, <1>7 DEF Keep, Inv, Within
<1>8. CASE Return
  BY <1>8 DEF Return, Inv, Within
<1>9. CASE UNCHANGED responseVars
  BY <1>9 DEF responseVars, Inv, Within
<1>. QED BY <1>1, <1>3, <1>4, <1>5, <1>6, <1>7, <1>8, <1>9 DEF ResponseNext

\* Whatever a peer answers, decoding never reads past the response: neither into
\* what an earlier use has left in the buffer nor out of the buffer, where at most
\* at() throws.
THEOREM NeverReadsPastResponse == ResponseSpec => []ReadsWithin
<1>1. ResponseInit => Inv
  <2>1. ResponseInit => Within(dec)
    BY Constants DEF ResponseInit, NewDecoder, Within, Decoders
  <2>. QED BY <2>1 DEF ResponseInit, Inv
<1>2. Inv => ReadsWithin
  BY DEF Inv, Within, ReadsWithin
<1>. QED BY <1>1, <1>2, NextInv, PTL DEF ResponseSpec
-------------------------------------------------------------------------------
(***************************************************************************)
(* What is kept and what is reported.  Both need an account of the calls   *)
(* still to make: of the bytes that were read and not yet paid for an      *)
(* element, and of the elements that were announced and not yet kept.      *)
(***************************************************************************)

\* What a call takes from, and an element gives back to, the bytes in hand.
Cost(x) ==
  CASE x.io = "int" -> -x.n
    [] x.io = "string" -> -2
    [] x.io = "array" -> -4
    [] x.io = "loop" -> 0
    [] x.io = "element" -> 4

\* The elements a call still has to keep.
Owed(x) ==
  CASE x.io = "loop" -> IF x.left > 0 THEN x.left ELSE 0
    [] x.io = "element" -> x.left
    [] x.io \in {"int", "string", "array"} -> 0

\* An element is followed by a balance that is not negative, and there is one.
Covered(x, n) ==
  /\ x.io \in {"array", "loop", "element"} => n >= 0
  /\ x.io = "element" => x.left > 0

\* The two running accounts of the calls in q, from the last one backwards.
Accounts(q, need, due) ==
  /\ need \in [1..(Len(q) + 1) -> Int] /\ due \in [1..(Len(q) + 1) -> Int]
  /\ need[Len(q) + 1] >= 0 /\ due[Len(q) + 1] = 0
  /\ \A i \in 1..Len(q) : /\ need[i] = need[i + 1] + Cost(q[i])
                          /\ due[i] = due[i + 1] + Owed(q[i])
                          /\ Covered(q[i], need[i + 1])

\* The calls in q can be made with n bytes in hand, and a elements are to be kept.
Balance(q, n, a) ==
  \E need, due : Accounts(q, need, due) /\ need[1] = n /\ due[1] = a

\* The accounts of nothing.
LEMMA BalanceNone ==
  /\ \A n \in Nat : Balance(<<>>, n, 0)
  /\ \A n, a : Balance(<<>>, n, a) => a = 0
<1>1. ASSUME NEW n \in Nat PROVE Balance(<<>>, n, 0)
  <2> DEFINE need == [i \in 1..1 |-> n]
             due == [i \in 1..1 |-> 0]
  <2>1. Accounts(<<>>, need, due) /\ need[1] = n /\ due[1] = 0
    BY DEF Accounts
  <2> HIDE DEF need, due
  <2>. QED BY <2>1 DEF Balance
<1>2. ASSUME NEW n, NEW a, Balance(<<>>, n, a) PROVE a = 0
  BY <1>2 DEF Balance, Accounts
<1>. QED BY <1>1, <1>2

\* What the calls of Items cost and owe is a number.
LEMMA ItemTypes == ASSUME NEW x \in Items PROVE Cost(x) \in Int /\ Owed(x) \in Int
<1>1. x.io \in {"int", "string", "array", "loop", "element"}
  BY DEF Items, Num, Str, Array, Loop, Element
<1>. QED BY <1>1, ItemShape DEF Cost, Owed

\* A call before those in q.
LEMMA BalancePush ==
  ASSUME NEW q \in Seq(Items), NEW x \in Items, NEW n \in Int, NEW a \in Int,
         Balance(q, n, a), Covered(x, n)
  PROVE  Balance(<<x>> \o q, n + Cost(x), a + Owed(x))
<1>1. PICK need, due : Accounts(q, need, due) /\ need[1] = n /\ due[1] = a
  BY DEF Balance
<1> DEFINE s == <<x>> \o q
           nn == [i \in 1..(Len(s) + 1) |-> IF i = 1 THEN n + Cost(x) ELSE need[i - 1]]
           dd == [i \in 1..(Len(s) + 1) |-> IF i = 1 THEN a + Owed(x) ELSE due[i - 1]]
<1>2. Len(s) = Len(q) + 1 /\ Len(q) \in Nat /\ s[1] = x
      /\ \A i \in 2..Len(s) : s[i] = q[i - 1]
  OBVIOUS
<1> HIDE DEF s
<1>3. nn \in [1..(Len(s) + 1) -> Int] /\ dd \in [1..(Len(s) + 1) -> Int]
  <2>1. Cost(x) \in Int /\ Owed(x) \in Int
    BY ItemTypes
  <2>2. ASSUME NEW i \in 2..(Len(s) + 1) PROVE need[i - 1] \in Int /\ due[i - 1] \in Int
    <3>1. PICK j \in 1..(Len(q) + 1) : j = i - 1
      BY <1>2
    <3>. QED BY Zenon, <3>1, <1>1 DEF Accounts
  <2>3. n + Cost(x) \in Int /\ a + Owed(x) \in Int
    BY <2>1
  <2>4. \A i \in 1..(Len(s) + 1) : i = 1 \/ i \in 2..(Len(s) + 1)
    BY <1>2
  <2>. QED BY <2>2, <2>3, <2>4, Zenon
<1>4. nn[Len(s) + 1] >= 0 /\ dd[Len(s) + 1] = 0
  BY <1>1, <1>2 DEF Accounts
<1>5. ASSUME NEW i \in 1..Len(s)
      PROVE  nn[i] = nn[i + 1] + Cost(s[i]) /\ dd[i] = dd[i + 1] + Owed(s[i])
             /\ Covered(s[i], nn[i + 1])
  <2>1. CASE i = 1
    BY <2>1, <1>1, <1>2
  <2>2. CASE i # 1
    <3>1. PICK j \in 1..Len(q) : j = i - 1
      BY <2>2, <1>2
    <3>2. /\ need[j] = need[j + 1] + Cost(q[j]) /\ due[j] = due[j + 1] + Owed(q[j])
          /\ Covered(q[j], need[j + 1])
      BY <1>1 DEF Accounts
    <3>3. nn[i] = need[j] /\ nn[i + 1] = need[j + 1] /\ dd[i] = due[j]
          /\ dd[i + 1] = due[j + 1] /\ s[i] = q[j]
      BY <2>2, <3>1, <1>2
    <3>. QED BY <3>2, <3>3
  <2>. QED BY <2>1, <2>2
<1>6. nn[1] = n + Cost(x) /\ dd[1] = a + Owed(x)
  BY <1>2
<1> HIDE DEF nn, dd
<1>7. Accounts(s, nn, dd)
  BY <1>3, <1>4, <1>5 DEF Accounts
<1>. QED BY <1>6, <1>7 DEF Balance, s

\* The calls after the first one of q.
LEMMA BalancePop ==
  ASSUME NEW q \in Seq(Items), q # <<>>, NEW n \in Int, NEW a \in Int, Balance(q, n, a)
  PROVE  /\ Balance(Tail(q), n - Cost(Head(q)), a - Owed(Head(q)))
         /\ Covered(Head(q), n - Cost(Head(q)))
<1>1. PICK need, due : Accounts(q, need, due) /\ need[1] = n /\ due[1] = a
  BY DEF Balance
<1> DEFINE s == Tail(q)
           nn == [i \in 1..(Len(s) + 1) |-> need[i + 1]]
           dd == [i \in 1..(Len(s) + 1) |-> due[i + 1]]
<1>2. Len(q) = Len(s) + 1 /\ Len(s) \in Nat /\ Head(q) = q[1] /\ q[1] \in Items
      /\ \A i \in 1..Len(s) : s[i] = q[i + 1]
  OBVIOUS
<1> HIDE DEF s
<1>3. nn \in [1..(Len(s) + 1) -> Int] /\ dd \in [1..(Len(s) + 1) -> Int]
  BY SMTT(60), <1>1, <1>2 DEF Accounts
<1>4. nn[Len(s) + 1] >= 0 /\ dd[Len(s) + 1] = 0
  BY <1>1, <1>2 DEF Accounts
<1>5. ASSUME NEW i \in 1..Len(s)
      PROVE  nn[i] = nn[i + 1] + Cost(s[i]) /\ dd[i] = dd[i + 1] + Owed(s[i])
             /\ Covered(s[i], nn[i + 1])
  <2>1. PICK j \in 1..Len(q) : j = i + 1
    BY <1>2
  <2>2. /\ need[j] = need[j + 1] + Cost(q[j]) /\ due[j] = due[j + 1] + Owed(q[j])
        /\ Covered(q[j], need[j + 1])
    BY <1>1 DEF Accounts
  <2>3. nn[i] = need[j] /\ nn[i + 1] = need[j + 1] /\ dd[i] = due[j]
        /\ dd[i + 1] = due[j + 1] /\ s[i] = q[j]
    BY <2>1, <1>2
  <2>. QED BY <2>2, <2>3
<1>6. /\ need[1] = need[2] + Cost(q[1]) /\ due[1] = due[2] + Owed(q[1])
      /\ Covered(q[1], need[2]) /\ need[2] \in Int /\ due[2] \in Int
  <2>1. 1 \in 1..Len(q) /\ 1 + 1 = 2 /\ 2 \in 1..(Len(q) + 1)
    BY <1>2
  <2>2. /\ need[1] = need[1 + 1] + Cost(q[1]) /\ due[1] = due[1 + 1] + Owed(q[1])
        /\ Covered(q[1], need[1 + 1])
    BY <1>1, <2>1 DEF Accounts
  <2>3. need[2] \in Int /\ due[2] \in Int
    BY SMTT(60), <1>1, <2>1 DEF Accounts
  <2>. QED BY <2>1, <2>2, <2>3
<1>7. nn[1] = need[2] /\ dd[1] = due[2]
  BY <1>2
<1> HIDE DEF nn, dd
<1>8. Accounts(s, nn, dd)
  BY <1>3, <1>4, <1>5 DEF Accounts
<1>9. need[2] = n - Cost(q[1]) /\ due[2] = a - Owed(q[1])
  <2>1. Cost(q[1]) \in Int /\ Owed(q[1]) \in Int
    BY <1>2, ItemTypes
  <2>2. need[1] = n /\ due[1] = a
    BY Zenon, <1>1
  <2>. QED BY SMTT(60), <1>6, <2>1, <2>2
<1>. QED BY <1>2, <1>6, <1>7, <1>8, <1>9 DEF Balance, s

\* A call before those of a structure that stand before q.
LEMMA BalanceBefore ==
  ASSUME NEW q \in Seq(Items), NEW p \in Seq(Items), NEW x \in Items, NEW n \in Int,
         NEW a \in Int, Balance(p \o q, n, a), Covered(x, n)
  PROVE  Balance((<<x>> \o p) \o q, n + Cost(x), a + Owed(x))
<1>1. <<x>> \in Seq(Items) /\ p \o q \in Seq(Items)
  OBVIOUS
<1>2. (<<x>> \o p) \o q = <<x>> \o (p \o q)
  BY <1>1, ConcatAssociative
<1>3. Balance(<<x>> \o (p \o q), n + Cost(x), a + Owed(x))
  BY Zenon, <1>1, BalancePush
<1>. QED BY Zenon, <1>2, <1>3

\* What the io calls of the structures cost; only arrays ask for anything.
LEMMA Costs ==
  /\ \A n \in {2, 4, 8} : /\ Num(n) \in Items /\ Cost(Num(n)) = -n /\ Owed(Num(n)) = 0
                          /\ \A m : Covered(Num(n), m)
  /\ Str \in Items /\ Cost(Str) = -2 /\ Owed(Str) = 0 /\ \A m : Covered(Str, m)
  /\ \A b \in Bodies : /\ Array(b) \in Items /\ Cost(Array(b)) = -4 /\ Owed(Array(b)) = 0
                       /\ \A m \in Nat : Covered(Array(b), m)
<1>1. ASSUME NEW n \in {2, 4, 8}
      PROVE  /\ Num(n) \in Items /\ Cost(Num(n)) = -n /\ Owed(Num(n)) = 0
             /\ \A m : Covered(Num(n), m)
  BY DEF Items, Cost, Owed, Covered, Num
<1>2. Str \in Items /\ Cost(Str) = -2 /\ Owed(Str) = 0 /\ \A m : Covered(Str, m)
  BY DEF Items, Cost, Owed, Covered, Str
<1>3. ASSUME NEW b \in Bodies
      PROVE  /\ Array(b) \in Items /\ Cost(Array(b)) = -4 /\ Owed(Array(b)) = 0
             /\ \A m \in Nat : Covered(Array(b), m)
  <2>1. Array(b) \in Items
    BY DEF Items
  <2>2. Array(b).io = "array"
    BY DEF Array
  <2>. QED BY <2>1, <2>2 DEF Cost, Owed, Covered
<1>. QED BY <1>1, <1>2, <1>3

\* A structure is read with at least the four bytes that its element then stands
\* for, and its arrays are reached with what is not negative.
LEMMA BalanceBody ==
  ASSUME NEW b \in Bodies, NEW q \in Seq(Items), NEW n \in Nat, NEW a \in Int,
         Balance(q, n + 4, a)
  PROVE  \E m \in Int : m <= n /\ Balance(b \o q, m, a)
<1> DEFINE Reach(p, m) == p \in Seq(Items) /\ Balance(p \o q, m, a)
<1>1. Reach(<<>>, n + 4)
  BY ConcatEmptySeq
<1>2. ASSUME NEW p, NEW m \in Int, Reach(p, m), NEW x \in Items, NEW r,
             m + Cost(x) = r, Owed(x) = 0, Covered(x, m)
      PROVE  Reach(<<x>> \o p, r)
  <2>1. Balance((<<x>> \o p) \o q, m + Cost(x), a + Owed(x))
    BY Zenon, <1>2, BalanceBefore
  <2>2. a + Owed(x) = a
    BY <1>2
  <2>3. <<x>> \o p \in Seq(Items)
    BY <1>2
  <2>. QED BY <2>1, <2>2, <2>3, <1>2
<1> HIDE DEF Reach
<1>3. ASSUME NEW p, NEW m \in Int, Reach(p, m), NEW k \in {2, 4, 8}, NEW r, r = m - k
      PROVE  Reach(<<Num(k)>> \o p, r)
  <2>1. Num(k) \in Items /\ Cost(Num(k)) = -k /\ Owed(Num(k)) = 0 /\ Covered(Num(k), m)
    BY Costs
  <2>2. m + Cost(Num(k)) = r
    BY <2>1, <1>3
  <2>. QED BY <1>2, <1>3, <2>1, <2>2, Zenon
<1>4. ASSUME NEW p, NEW m \in Int, Reach(p, m), NEW r, r = m - 2
      PROVE  Reach(<<Str>> \o p, r)
  <2>1. Str \in Items /\ Cost(Str) = -2 /\ Owed(Str) = 0 /\ Covered(Str, m)
    BY Costs
  <2>2. m + Cost(Str) = r
    BY <2>1, <1>4
  <2>. QED BY <1>2, <1>4, <2>1, <2>2, Zenon
<1>5. ASSUME NEW p, NEW m \in Nat, Reach(p, m), NEW c \in Bodies, NEW r, r = m - 4
      PROVE  Reach(<<Array(c)>> \o p, r)
  <2>1. Array(c) \in Items /\ Cost(Array(c)) = -4 /\ Owed(Array(c)) = 0 /\ Covered(Array(c), m)
    BY Costs
  <2>2. m + Cost(Array(c)) = r /\ m \in Int
    BY <2>1, <1>5
  <2>. QED BY <1>2, <1>5, <2>1, <2>2, Zenon
<1> DEFINE p1 == <<Num(4)>> \o <<>>
<1>6. Reach(p1, n)
  <2>1. n + 4 \in Int /\ n = (n + 4) - 4
    OBVIOUS
  <2>. QED BY Zenon, <2>1, <1>1, <1>3
<1>7. CASE b = Broker
  <2>0. n \in Int /\ n - 2 = n - 2
    OBVIOUS
  <2>1. Reach(<<Str>> \o p1, n - 2)
    BY Zenon, <1>6, <1>4, <2>0
  <2>2. n - 2 \in Int /\ n - 6 = (n - 2) - 4
    OBVIOUS
  <2>3. Reach(<<Num(4)>> \o (<<Str>> \o p1), n - 6)
    BY Zenon, <2>1, <2>2, <1>3
  <2>4. Broker = <<Num(4)>> \o (<<Str>> \o p1)
    BY DEF Broker
  <2>. QED BY <2>3, <2>4, <1>7 DEF Reach
<1> DEFINE ids == <<Array(<<Num(4)>>)>>
<1>8. CASE b = PartitionMetaData
  <2>1. <<Num(4)>> \in Bodies /\ n + 4 \in Nat /\ n = (n + 4) - 4
    BY DEF Bodies
  <2>2. Reach(ids \o <<>>, n)
    BY Zenon, <2>1, <1>1, <1>5
  <2>3. Reach(ids \o (ids \o <<>>), n - 4)
    BY <2>1, <2>2, <1>5
  <2>4. n - 4 \in Int /\ n - 8 = (n - 4) - 4
    OBVIOUS
  <2>5. Reach(<<Num(4)>> \o (ids \o (ids \o <<>>)), n - 8)
    BY Zenon, <2>3, <2>4, <1>3
  <2>6. n - 8 \in Int /\ n - 12 = (n - 8) - 4
    OBVIOUS
  <2>7. Reach(<<Num(4)>> \o (<<Num(4)>> \o (ids \o (ids \o <<>>))), n - 12)
    BY Zenon, <2>5, <2>6, <1>3
  <2>8. n - 12 \in Int /\ n - 14 = (n - 12) - 2
    OBVIOUS
  <2>9. Reach(<<Num(2)>> \o (<<Num(4)>> \o (<<Num(4)>> \o (ids \o (ids \o <<>>)))), n - 14)
    BY Zenon, <2>7, <2>8, <1>3
  <2>10. PartitionMetaData = <<Num(2)>> \o (<<Num(4)>> \o (<<Num(4)>> \o (ids \o (ids \o <<>>))))
    BY DEF PartitionMetaData
  <2>. QED BY <2>9, <2>10, <1>8 DEF Reach
<1>9. CASE b = TopicMetaData
  <2> DEFINE parts == <<Array(PartitionMetaData)>>
  <2>1. PartitionMetaData \in Bodies /\ n + 4 \in Nat /\ n = (n + 4) - 4
    BY DEF Bodies
  <2>2. Reach(parts \o <<>>, n)
    BY Zenon, <2>1, <1>1, <1>5
  <2>3. Reach(<<Str>> \o (parts \o <<>>), n - 2)
    BY <2>2, <1>4
  <2>4. n - 2 \in Int /\ n - 4 = (n - 2) - 2
    OBVIOUS
  <2>5. Reach(<<Num(2)>> \o (<<Str>> \o (parts \o <<>>)), n - 4)
    BY Zenon, <2>3, <2>4, <1>3
  <2>6. TopicMetaData = <<Num(2)>> \o (<<Str>> \o (parts \o <<>>))
    BY DEF TopicMetaData
  <2>. QED BY <2>5, <2>6, <1>9 DEF Reach
<1>10. CASE b = ProduceResponsePartition
  <2>1. n + 4 \in Int /\ n - 4 \in Int /\ n - 4 = (n + 4) - 8 /\ n - 6 \in Int
        /\ n - 6 = (n - 4) - 2 /\ n - 10 = (n - 6) - 4
    OBVIOUS
  <2>2. Reach(<<Num(8)>> \o <<>>, n - 4)
    BY Zenon, <2>1, <1>1, <1>3
  <2>3. Reach(<<Num(2)>> \o (<<Num(8)>> \o <<>>), n - 6)
    BY Zenon, <2>1, <2>2, <1>3
  <2>4. Reach(<<Num(4)>> \o (<<Num(2)>> \o (<<Num(8)>> \o <<>>)), n - 10)
    BY Zenon, <2>1, <2>3, <1>3
  <2>5. ProduceResponsePartition = <<Num(4)>> \o (<<Num(2)>> \o (<<Num(8)>> \o <<>>))
    BY DEF ProduceResponsePartition
  <2>. QED BY <2>4, <2>5, <1>10 DEF Reach
<1>11. CASE b = ProduceResponseTopic
  <2> DEFINE parts == <<Array(ProduceResponsePartition)>>
  <2>1. ProduceResponsePartition \in Bodies /\ n + 4 \in Nat /\ n = (n + 4) - 4
    BY DEF Bodies
  <2>2. Reach(parts \o <<>>, n)
    BY Zenon, <2>1, <1>1, <1>5
  <2>3. Reach(<<Str>> \o (parts \o <<>>), n - 2)
    BY <2>2, <1>4
  <2>4. ProduceResponseTopic = <<Str>> \o (parts \o <<>>)
    BY DEF ProduceResponseTopic
  <2>. QED BY <2>3, <2>4, <1>11 DEF Reach
<1>12. CASE b = <<Num(4)>>
  <2>1. <<Num(4)>> = p1
    OBVIOUS
  <2>. QED BY <2>1, <1>6, <1>12 DEF Reach
<1>. QED BY <1>7, <1>8, <1>9, <1>10, <1>11, <1>12 DEF Bodies

\* With c bytes read, of which p elements of four have been kept, the calls of q
\* can be made, and they keep what is missing of an elements.
Settled(q, c, p, an) ==
  \E n \in Int, a \in Int : Balance(q, n, a) /\ n <= c - 4 * p /\ an = p + a

\* The accounts hold while decoding goes well; nothing is kept after it does not.
Kept ==
  /\ Inv
  /\ pushed \in Nat /\ announced \in Nat /\ ElementsWereSent
  /\ reply = "none" => todo = <<>> /\ pushed = 0 /\ announced = 0
  /\ reply = "no_error" => todo = <<>> /\ ok(dec) /\ ~dec.wild
  /\ dec.wild => todo = <<>>
  /\ ok(dec) /\ ~dec.wild => Settled(todo, dec.cursor, pushed, announced)

\* A string takes at least the two bytes of its length.
LEMMA SliceStep ==
  ASSUME NEW d, Within(d), NEW len, Small(len)
  PROVE  /\ TakeSliceOf(d, 2, len).cursor >= d.cursor
         /\ ok(TakeSliceOf(d, 2, len)) => ok(d) /\ TakeSliceOf(d, 2, len).cursor >= d.cursor + 2
<1>1. Small(2)
  BY Constants DEF Small
<1>2. PICK i : i = TakeInt(d, 2)
  OBVIOUS
<1>3. Within(i) /\ i.cursor >= d.cursor /\ (ok(i) => ok(d) /\ i.cursor = d.cursor + 2)
  BY <1>1, <1>2, UseWithin, UseStep DEF TakeInt
<1>4. PICK u : u = Use(i, len)
  OBVIOUS
<1>5. Within(u) /\ u.cursor >= i.cursor /\ (ok(u) => ok(i))
  BY <1>3, <1>4, UseWithin, UseStep
<1>6. TakeSliceOf(d, 2, len) = i \/ TakeSliceOf(d, 2, len) = u
  BY <1>2, <1>4 DEF TakeSliceOf
<1>7. d.cursor \in Int /\ i.cursor \in Int /\ u.cursor \in Int
  BY <1>3, <1>5 DEF Within, Decoders
<1>. QED BY <1>3, <1>5, <1>6, <1>7

\* An integer or a string was read, or could not be.
LEMMA ReadKept ==
  ASSUME Kept, todo # <<>>, Item.io \in {"int", "string"}, Inv',
         dec'.cursor >= dec.cursor,
         ok(dec') => ok(dec) /\ dec'.cursor >= dec.cursor - Cost(Item),
         todo' = Then(Tail(todo)), UNCHANGED <<pushed, announced, reply>>
  PROVE  Kept'
<1>1. todo \in Seq(Items) /\ Item \in Items /\ Cost(Item) \in Int /\ Owed(Item) = 0
  BY ItemTypes DEF Kept, Inv, Item, Owed
<1>2. dec.cursor \in Nat /\ dec'.cursor \in Nat /\ pushed \in Nat /\ announced \in Nat
  BY DEF Kept, Inv, Within, Decoders
<1>3. reply # "none" /\ reply # "no_error" /\ ~dec.wild
  BY DEF Kept
<1>4. ElementsWereSent'
  BY <1>2 DEF Kept, ElementsWereSent
<1>5. dec'.wild => todo' = <<>>
  BY DEF Then
<1>6. ASSUME ok(dec'), ~dec'.wild
      PROVE  Settled(todo', dec'.cursor, pushed', announced')
  <2>1. PICK n \in Int, a \in Int :
          Balance(todo, n, a) /\ n <= dec.cursor - 4 * pushed /\ announced = pushed + a
    BY <1>3, <1>6 DEF Kept, Settled
  <2>2. Balance(Tail(todo), n - Cost(Item), a - Owed(Item))
    BY <2>1, <1>1, BalancePop DEF Item
  <2>3. n - Cost(Item) \in Int /\ a - Owed(Item) = a
        /\ n - Cost(Item) <= dec'.cursor - 4 * pushed
    BY SMTT(60), <2>1, <1>1, <1>2, <1>6
  <2>4. todo' = Tail(todo)
    BY <1>6 DEF Then
  <2>. QED BY Zenon, <2>1, <2>2, <2>3, <2>4 DEF Settled
<1>. QED BY <1>2, <1>3, <1>4, <1>5, <1>6 DEF Kept

\* When a response has arrived nothing was kept, and its arrays are to be read.
LEMMA ReceiveKept == Kept /\ Receive => Kept'
<1> SUFFICES ASSUME Kept, Receive PROVE Kept'
  OBVIOUS
<1>1. Inv'
  BY ReceiveInv DEF Kept
<1>2. todo = <<>> /\ pushed = 0 /\ announced = 0 /\ pushed' = 0 /\ announced' = 0
  BY DEF Kept, Receive
<1>3. dec'.cursor \in Nat /\ ElementsWereSent'
  BY <1>1, <1>2 DEF Inv, Within, Decoders, ElementsWereSent
<1>4. ~dec'.wild
  <2>1. PICK n \in Frames :
          dec' = IF n > 0 THEN TakeInt(set_readable_length(Larger(n), Field + n), Field) ELSE FrameLength
    BY DEF Receive
  <2>2. CASE ~(n > 0)
    BY <2>1, <2>2, LengthWithin
  <2>3. CASE n > 0
    BY <2>1, <2>3, HeaderWithin
  <2>. QED BY <2>2, <2>3
<1>5. reply' # "none" /\ reply' # "no_error"
  BY DEF Receive
<1>6. \A n \in Nat : Balance(<<>>, n, 0)
  BY BalanceNone
<1>7. Settled(todo', dec'.cursor, pushed', announced')
  <2>1. todo' = <<>> \/ todo' = MetadataResponse \/ todo' = ProduceResponse
    BY <1>2 DEF Receive
  <2>2. Broker \in Bodies /\ TopicMetaData \in Bodies /\ ProduceResponseTopic \in Bodies
    BY DEF Bodies
  <2>3. ASSUME NEW q \in Seq(Items), NEW n \in Nat, Balance(q, n, 0), NEW b \in Bodies
        PROVE  Balance(<<Array(b)>> \o q, n - 4, 0)
    <3>1. Array(b) \in Items /\ Cost(Array(b)) = -4 /\ Owed(Array(b)) = 0 /\ Covered(Array(b), n)
      BY Costs
    <3>2. Balance(<<Array(b)>> \o q, n + Cost(Array(b)), 0 + Owed(Array(b)))
      BY <2>3, <3>1, BalancePush
    <3>3. n + Cost(Array(b)) = n - 4 /\ 0 + Owed(Array(b)) = 0
      BY <3>1
    <3>. QED BY <3>2, <3>3
  <2>4. /\ <<>> \in Seq(Items) /\ <<Array(TopicMetaData)>> \in Seq(Items)
        /\ <<Array(TopicMetaData)>> = <<Array(TopicMetaData)>> \o <<>>
        /\ ProduceResponse = <<Array(ProduceResponseTopic)>> \o <<>>
        /\ MetadataResponse = <<Array(Broker)>> \o <<Array(TopicMetaData)>>
    <3>1. Array(TopicMetaData) \in Items
      BY <2>2, Costs
    <3>. QED BY <3>1 DEF ProduceResponse, MetadataResponse
  <2>5. 4 - 4 = 0 /\ 0 - 4 = -4
    OBVIOUS
  <2>6. Balance(<<>>, 0, 0)
    BY <1>6
  <2>7. Balance(<<>>, 4, 0)
    BY <1>6
  <2>8. Balance(ProduceResponse, 4 - 4, 0) /\ Balance(<<Array(TopicMetaData)>>, 4 - 4, 0)
    BY Zenon, <2>2, <2>3, <2>4, <2>7
  <2>9. Balance(MetadataResponse, 0 - 4, 0)
    BY Zenon, <2>2, <2>3, <2>4, <2>5, <2>8
  <2>10. Balance(todo', 0, 0) \/ Balance(todo', -4, 0)
    BY <2>1, <2>5, <2>6, <2>8, <2>9
  <2>11. 0 <= dec'.cursor - 4 * 0 /\ -4 <= dec'.cursor - 4 * 0 /\ 0 = 0 + 0
    BY <1>3
  <2>. QED BY <2>10, <2>11, <1>2 DEF Settled
<1>. QED BY <1>1, <1>2, <1>3, <1>4, <1>5, <1>7 DEF Kept

\* A count adds to what was announced what its loop then has to keep.
LEMMA CountKept == Kept /\ ReadCount => Kept'
<1> SUFFICES ASSUME Kept, ReadCount PROVE Kept'
  OBVIOUS
<1>1. Inv'
  BY NextInv DEF Kept, ResponseNext
<1>2. todo \in Seq(Items) /\ todo # <<>> /\ Item \in Items /\ Item.io = "array"
      /\ Tail(todo) \in Seq(Items) /\ Item.of \in Bodies
  BY ItemShape DEF Kept, Inv, Item, ReadCount
<1>3. dec.cursor \in Nat /\ dec'.cursor \in Nat /\ pushed \in Nat /\ announced \in Nat
  BY <1>1 DEF Kept, Inv, Within, Decoders
<1>4. reply # "none" /\ reply # "no_error" /\ ~dec.wild
  BY <1>2 DEF Kept
<1>5. Small(4)
  BY Constants DEF Small
<1>6. dec'.cursor >= dec.cursor /\ (ok(dec') => ok(dec) /\ dec'.cursor = dec.cursor + 4)
      /\ ~dec'.wild
  BY <1>4, <1>5, UseStep DEF ReadCount, TakeInt, Kept, Inv
<1>7. PICK n \in Int : /\ todo' = <<Loop(Item.of, n)>> \o Tail(todo)
                       /\ announced' = announced + IF n > 0 THEN n ELSE 0
  <2>1. PICK n \in Counts \cup {0} : /\ todo' = Then(<<Loop(Item.of, n)>> \o Tail(todo))
                                     /\ announced' = announced + IF n > 0 THEN n ELSE 0
    BY DEF ReadCount
  <2>2. n \in Int
    BY ResponseAssumption
  <2>. QED BY <1>6, <2>1, <2>2 DEF Then
<1>8. announced' \in Nat
  BY <1>3, <1>7
<1>9. pushed' = pushed /\ reply' = reply
  BY DEF ReadCount
<1>10. ElementsWereSent'
  BY <1>3, <1>6, <1>9 DEF Kept, ElementsWereSent
<1>11. ASSUME ok(dec')
       PROVE  Settled(todo', dec'.cursor, pushed', announced')
  <2>1. PICK m \in Int, a \in Int :
          Balance(todo, m, a) /\ m <= dec.cursor - 4 * pushed /\ announced = pushed + a
    BY <1>4, <1>6, <1>11 DEF Kept, Settled
  <2>2. Cost(Item) = -4 /\ Owed(Item) = 0
    BY <1>2 DEF Cost, Owed
  <2>3. Balance(Tail(todo), m - Cost(Item), a - Owed(Item)) /\ Covered(Item, m - Cost(Item))
    BY <2>1, <1>2, BalancePop DEF Item
  <2>4. m - Cost(Item) = m + 4 /\ a - Owed(Item) = a
    BY <2>2
  <2>5. m + 4 >= 0
    BY <1>2, <2>3, <2>4 DEF Covered
  <2> DEFINE l == Loop(Item.of, n)
  <2>6. l \in Items /\ l.io = "loop" /\ l.left = n
    BY <1>2 DEF Items, Loop
  <2> HIDE DEF l
  <2>7. Cost(l) = 0 /\ Owed(l) = (IF n > 0 THEN n ELSE 0) /\ Covered(l, m + 4)
    BY <2>5, <2>6 DEF Cost, Owed, Covered
  <2>8. Balance(<<l>> \o Tail(todo), (m + 4) + Cost(l), a + Owed(l))
    <3>1. Balance(Tail(todo), m + 4, a) /\ m + 4 \in Int
      BY <2>3, <2>4
    <3>. QED BY Zenon, <3>1, <2>6, <2>7, <1>2, BalancePush
  <2>9. (m + 4) + Cost(l) \in Int /\ a + Owed(l) \in Int
        /\ (m + 4) + Cost(l) <= dec'.cursor - 4 * pushed'
        /\ announced' = pushed' + (a + Owed(l))
    <3>1. PICK o \in Int : o = (IF n > 0 THEN n ELSE 0) /\ Owed(l) = o
      BY <2>7
    <3>2. announced' = announced + o
      BY <3>1, <1>7
    <3>3. (m + 4) + Cost(l) = m + 4 /\ a + Owed(l) = a + o
      BY <3>1, <2>7
    <3>. QED BY <3>2, <3>3, <2>1, <1>3, <1>6, <1>9, <1>11
  <2>. QED BY <2>8, <2>9, <1>7 DEF Settled, l
<1>. QED BY <1>1, <1>3, <1>4, <1>6, <1>8, <1>9, <1>10, <1>11 DEF Kept

\* One more element is to be read, or the loop has ended.
LEMMA IterateKept == Kept /\ Iterate => Kept'
<1> SUFFICES ASSUME Kept, Iterate PROVE Kept'
  OBVIOUS
<1>1. Inv'
  BY NextInv DEF Kept, ResponseNext
<1>2. todo \in Seq(Items) /\ todo # <<>> /\ Item \in Items /\ Item.io = "loop"
      /\ Tail(todo) \in Seq(Items) /\ Item.of \in Bodies /\ Item.left \in Int
  BY ItemShape DEF Kept, Inv, Item, Iterate
<1>3. dec.cursor \in Nat /\ pushed \in Nat /\ announced \in Nat
  BY DEF Kept, Inv, Within, Decoders
<1>4. reply # "none" /\ reply # "no_error" /\ ~dec.wild
  BY <1>2 DEF Kept
<1>5. UNCHANGED <<dec, pushed, announced, reply>>
  BY DEF Iterate
<1>6. ASSUME ok(dec)
      PROVE  Settled(todo', dec.cursor, pushed, announced)
  <2>1. PICK m \in Int, a \in Int :
          Balance(todo, m, a) /\ m <= dec.cursor - 4 * pushed /\ announced = pushed + a
    BY <1>4, <1>6 DEF Kept, Settled
  <2>2. Cost(Item) = 0 /\ Owed(Item) = IF Item.left > 0 THEN Item.left ELSE 0
    BY <1>2 DEF Cost, Owed
  <2>3. Balance(Tail(todo), m - Cost(Item), a - Owed(Item)) /\ Covered(Item, m - Cost(Item))
    BY <2>1, <1>2, BalancePop DEF Item
  <2>4. m - Cost(Item) = m
    BY <2>2
  <2>5. m \in Nat
    BY <1>2, <2>3, <2>4 DEF Covered
  <2>6. CASE ~(Item.left > 0)
    <3>1. todo' = Tail(todo) /\ a - Owed(Item) = a
      BY <2>2, <2>6 DEF Iterate
    <3>. QED BY <3>1, <2>1, <2>3, <2>4 DEF Settled
  <2>7. CASE Item.left > 0
    <3> DEFINE e == Element(Item.of, Item.left)
               q == <<e>> \o Tail(todo)
    <3>1. e \in Items /\ e.io = "element" /\ e.left = Item.left
      BY <1>2 DEF Items, Element
    <3> HIDE DEF e
    <3>2. Cost(e) = 4 /\ Owed(e) = Item.left /\ Covered(e, m)
      BY <2>5, <2>7, <3>1 DEF Cost, Owed, Covered
    <3>3. Balance(Tail(todo), m, a - Item.left) /\ a - Item.left \in Int
      BY <2>2, <2>3, <2>4, <2>7, <1>2
    <3>4. Balance(q, m + Cost(e), (a - Item.left) + Owed(e))
      BY Zenon, <3>1, <3>2, <3>3, <1>2, BalancePush
    <3>5. m + Cost(e) = m + 4 /\ (a - Item.left) + Owed(e) = a
      BY <3>2, <1>2
    <3>6. q \in Seq(Items)
      BY <3>1, <1>2
    <3> HIDE DEF q
    <3>7. PICK k \in Int : k <= m /\ Balance(Item.of \o q, k, a)
      BY <2>5, <3>4, <3>5, <3>6, <1>2, BalanceBody
    <3>8. todo' = (Item.of \o <<e>>) \o Tail(todo)
      BY <2>7 DEF Iterate, e
    <3>9. Item.of \in Seq(Items) /\ <<e>> \in Seq(Items)
      BY <1>2, <3>1, BodiesAreItems
    <3>10. todo' = Item.of \o q
      BY SMTT(60), <3>8, <3>9, <1>2, ConcatAssociative DEF q
    <3>11. k <= dec.cursor - 4 * pushed
      BY <3>7, <2>1, <1>3
    <3>. QED BY <3>7, <3>10, <3>11, <2>1 DEF Settled
  <2>. QED BY <2>6, <2>7
<1>. QED BY <1>1, <1>4, <1>5, <1>6 DEF Kept, ElementsWereSent

\* An element that was decoded is paid for with bytes of its own.
LEMMA KeepKept == Kept /\ Keep => Kept'
<1> SUFFICES ASSUME Kept, Keep PROVE Kept'
  OBVIOUS
<1>1. Inv'
  BY NextInv DEF Kept, ResponseNext
<1>2. todo \in Seq(Items) /\ todo # <<>> /\ Item \in Items /\ Item.io = "element"
      /\ Tail(todo) \in Seq(Items) /\ Item.of \in Bodies /\ Item.left \in Int
  BY ItemShape DEF Kept, Inv, Item, Keep
<1>3. dec.cursor \in Nat /\ pushed \in Nat /\ announced \in Nat
  BY DEF Kept, Inv, Within, Decoders
<1>4. reply # "none" /\ reply # "no_error" /\ ~dec.wild
  BY <1>2 DEF Kept
<1>5. UNCHANGED <<dec, announced, reply>>
  BY DEF Keep
<1>6. CASE ~ok(dec)
  <2>1. pushed' = pushed
    BY <1>6 DEF Keep
  <2>. QED BY <1>1, <1>4, <1>5, <1>6, <2>1 DEF Kept, ElementsWereSent
<1>7. CASE ok(dec)
  <2>1. PICK m \in Int, a \in Int :
          Balance(todo, m, a) /\ m <= dec.cursor - 4 * pushed /\ announced = pushed + a
    BY <1>4, <1>7 DEF Kept, Settled
  <2>2. Cost(Item) = 4 /\ Owed(Item) = Item.left
    BY <1>2 DEF Cost, Owed
  <2>3. Balance(Tail(todo), m - Cost(Item), a - Owed(Item)) /\ Covered(Item, m - Cost(Item))
    BY <2>1, <1>2, BalancePop DEF Item
  <2>4. Balance(Tail(todo), m - 4, a - Item.left) /\ m - 4 >= 0 /\ Item.left > 0
    BY <1>2, <2>2, <2>3 DEF Covered
  <2>5. pushed' = pushed + 1 /\ todo' = <<Loop(Item.of, Item.left - 1)>> \o Tail(todo)
    BY <1>7 DEF Keep
  <2>6. pushed' \in Nat /\ m - 4 <= dec.cursor - 4 * pushed' /\ 4 * pushed' <= dec.cursor
    BY <2>1, <2>4, <2>5, <1>3
  <2> DEFINE l == Loop(Item.of, Item.left - 1)
  <2>7. l \in Items /\ l.io = "loop" /\ l.left = Item.left - 1
    <3>1. PICK k \in Int : k = Item.left - 1
      BY <1>2
    <3>2. Loop(Item.of, k) \in Items
      BY <1>2 DEF Items
    <3>. QED BY <3>1, <3>2 DEF Loop
  <2> HIDE DEF l
  <2>8. Cost(l) = 0 /\ Owed(l) = Item.left - 1 /\ Covered(l, m - 4)
    BY <2>4, <2>7, <1>2 DEF Cost, Owed, Covered
  <2>9. m - 4 \in Int /\ a - Item.left \in Int
    BY <1>2
  <2>10. Balance(<<l>> \o Tail(todo), (m - 4) + Cost(l), (a - Item.left) + Owed(l))
    BY Zenon, <2>4, <2>7, <2>8, <2>9, <1>2, BalancePush
  <2>11. (m - 4) + Cost(l) = m - 4 /\ (a - Item.left) + Owed(l) = a - 1
    BY <2>8, <1>2
  <2>12. Balance(todo', m - 4, a - 1)
    BY <2>5, <2>10, <2>11 DEF l
  <2>13. a - 1 \in Int /\ announced = pushed' + (a - 1)
    BY <2>1, <2>5, <1>3
  <2>14. Settled(todo', dec.cursor, pushed', announced)
    BY <2>6, <2>9, <2>12, <2>13 DEF Settled
  <2>15. ElementsWereSent'
    BY <2>6, <1>5 DEF ElementsWereSent
  <2>. QED BY <1>1, <1>3, <1>4, <1>5, <2>6, <2>14, <2>15 DEF Kept
<1>. QED BY <1>6, <1>7

\* The accounts are kept by every step.
LEMMA NextKept == Kept /\ [ResponseNext]_responseVars => Kept'
<1> SUFFICES ASSUME Kept, [ResponseNext]_responseVars PROVE Kept'
  OBVIOUS
<1>1. Inv'
  BY NextInv DEF Kept
<1>2. CASE ReadInt
  <2>1. todo # <<>> /\ Item \in Items /\ Item.io = "int" /\ Item.n \in {2, 4, 8} /\ Within(dec)
    BY <1>2, ItemShape DEF ReadInt, Kept, Inv, Item
  <2>2. Small(Item.n) /\ dec.cursor \in Nat
    BY SMTT(60), <2>1, Constants DEF Small, Within, Decoders
  <2>3. dec' = Use(dec, Item.n) /\ todo' = Then(Tail(todo)) /\ UNCHANGED <<pushed, announced, reply>>
    BY <1>2 DEF ReadInt, TakeInt
  <2>4. dec'.cursor >= dec.cursor /\ (ok(dec') => ok(dec) /\ dec'.cursor = dec.cursor + Item.n)
    BY <2>1, <2>2, <2>3, UseStep
  <2>5. Cost(Item) = -Item.n
    BY <2>1 DEF Cost
  <2>6. ok(dec') => ok(dec) /\ dec'.cursor >= dec.cursor - Cost(Item)
    BY <2>1, <2>2, <2>4, <2>5
  <2>. QED BY <1>1, <2>1, <2>3, <2>4, <2>6, ReadKept
<1>3. CASE ReadString
  <2>1. todo # <<>> /\ Item.io = "string" /\ Within(dec) /\ dec.cursor \in Nat
    BY <1>3 DEF ReadString, Kept, Inv, Within, Decoders
  <2>2. PICK len \in Lens : dec' = TakeSliceOf(dec, 2, len)
    BY <1>3 DEF ReadString
  <2>3. Small(len)
    BY Constants, ResponseAssumption DEF Small
  <2>4. todo' = Then(Tail(todo)) /\ UNCHANGED <<pushed, announced, reply>>
    BY <1>3 DEF ReadString
  <2>5. dec'.cursor >= dec.cursor /\ (ok(dec') => ok(dec) /\ dec'.cursor >= dec.cursor + 2)
    BY <2>1, <2>2, <2>3, SliceStep
  <2>6. Cost(Item) = -2
    BY <2>1 DEF Cost
  <2>7. ok(dec') => ok(dec) /\ dec'.cursor >= dec.cursor - Cost(Item)
    BY <2>1, <2>5, <2>6
  <2>. QED BY <1>1, <2>1, <2>4, <2>5, <2>7, ReadKept
<1>4. CASE Return
  <2>1. UNCHANGED <<dec, todo, pushed, announced>> /\ todo = <<>> /\ reply' # "none"
        /\ (reply' = "no_error" => ~dec.wild /\ ok(dec))
    BY <1>4 DEF Return
  <2>. QED BY <1>1, <2>1 DEF Kept, ElementsWereSent
<1>5. CASE UNCHANGED responseVars
  BY <1>1, <1>5 DEF responseVars, Kept, ElementsWereSent
<1>. QED BY <1>2, <1>3, <1>4, <1>5, ReceiveKept, CountKept, IterateKept, KeepKept DEF ResponseNext

\* The accounts are in order before a response has come.
LEMMA InitKept == ResponseInit => Kept
<1> SUFFICES ASSUME ResponseInit PROVE Kept
  OBVIOUS
<1>1. Inv /\ dec.cursor = 0 /\ ~dec.wild
  BY Constants DEF ResponseInit, NewDecoder, Inv, Within, Decoders
<1>2. Balance(<<>>, 0, 0)
  BY BalanceNone
<1>3. Settled(<<>>, 0, 0, 0)
  BY <1>2 DEF Settled
<1>. QED BY <1>1, <1>3 DEF ResponseInit, Kept, ElementsWereSent

\* The arrays of a response never grow beyond what was sent, whatever counts it
\* announces and however its arrays are nested: for every element that is kept at
\* least four bytes have been read.
THEOREM ElementsWereAllSent == ResponseSpec => []ElementsWereSent
<1>1. Kept => ElementsWereSent
  BY DEF Kept
<1>. QED BY <1>1, InitKept, NextKept, PTL DEF ResponseSpec

\* When sync_call() reports success every element that any array of the response
\* announced was decoded and kept.
THEOREM SuccessIsWhole == ResponseSpec => []SuccessIsComplete
<1>1. Kept => SuccessIsComplete
  <2> SUFFICES ASSUME Kept, reply = "no_error" PROVE pushed = announced /\ dec.cursor <= dec.size
    BY DEF SuccessIsComplete
  <2>1. todo = <<>> /\ ok(dec) /\ ~dec.wild
    BY DEF Kept
  <2>2. PICK n \in Int, a \in Int :
          Balance(<<>>, n, a) /\ n <= dec.cursor - 4 * pushed /\ announced = pushed + a
    BY <2>1 DEF Kept, Settled
  <2>3. a = 0
    BY <2>2, BalanceNone
  <2>. QED BY <2>2, <2>3 DEF Kept, Inv, Within, Decoders
<1>. QED BY <1>1, InitKept, NextKept, PTL DEF ResponseSpec
===============================================================================
