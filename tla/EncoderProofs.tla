----------------------------- MODULE EncoderProofs -----------------------------
(***************************************************************************)
(* The properties of Request for every size of the buffer, every length of *)
(* what is written and every nesting of its fields: the bytes stay inside  *)
(* the buffer, and lengths and checksums are those of what they cover.     *)
(* The lemmas about the operators of PacketEncoder are for their other     *)
(* users, too: a message, and messages one after the other.                *)
(***************************************************************************)
EXTENDS Request, WellFoundedInduction, TLAPS

\* A set of natural numbers that is not empty has a least element.
LEMMA LeastNumber ==
  ASSUME NEW T \in SUBSET Nat, T # {}
  PROVE  \E x \in T : \A y \in T : x <= y
<1>1. IsWellFoundedOn(OpToRel(<, Nat), Nat)
  BY Zenon, NatLessThanWellFounded
<1>2. PICK x \in T : \A y \in T : ~(<<y, x>> \in OpToRel(<, Nat))
  BY Zenon, <1>1, WFMin
<1>3. ASSUME NEW y \in Nat, NEW z \in Nat, y < z
      PROVE  <<y, z>> \in OpToRel(<, Nat)
  <2>1. <<y, z>> \in Nat \X Nat
    OBVIOUS
  <2>2. <<y, z>>[1] = y /\ <<y, z>>[2] = z
    OBVIOUS
  <2>3. <<y, z>>[1] < <<y, z>>[2]
    BY <1>3, <2>2
  <2>. QED BY <2>1, <2>3, Zenon DEF OpToRel
<1>4. \A y \in T : y \in Nat /\ x \in Nat /\ ~(y < x)
  BY Zenon, <1>2, <1>3
<1>. QED BY <1>4
-------------------------------------------------------------------------------
(* The buffer's growth *)

\* The doublings of n: each is twice the one before.
LEMMA ShiftedDoubles ==
  ASSUME NEW n \in Nat, NEW most \in Nat
  PROVE  LET size == Shifted(n, most)
         IN  size = [p \in 0..most |-> IF p = 0 THEN n ELSE 2 * size[p - 1]]
<1> DEFINE Doubles(f, k) == f = [p \in 0..k |-> IF p = 0 THEN n ELSE 2 * f[p - 1]]
           T == {k \in Nat : ~ \E f : Doubles(f, k)}
<1>1. T = {}
  <2> SUFFICES ASSUME T # {} PROVE FALSE
    OBVIOUS
  <2>1. T \in SUBSET Nat
    OBVIOUS
  <2>2. PICK k \in T : \A j \in T : k <= j
    BY Zenon, <2>1, LeastNumber
  <2>3. k # 0
    <3> DEFINE f == [p \in 0..0 |-> n]
    <3>1. Doubles(f, 0)
      OBVIOUS
    <3> HIDE DEF f
    <3>. QED BY Zenon, <3>1
  <2>4. k - 1 \in Nat /\ k - 1 \notin T
    <3> HIDE DEF T
    <3>. QED BY <2>1, <2>2, <2>3
  <2>5. PICK f : Doubles(f, k - 1)
    BY <2>4
  <2> DEFINE g == [p \in 0..k |-> IF p = 0 THEN n ELSE 2 * f[p - 1]]
  <2>6. ASSUME NEW p \in 0..k, p # 0 PROVE g[p - 1] = f[p - 1]
    <3>1. PICK q \in 0..(k - 1) : q = p - 1
      BY <2>6
    <3>2. f[q] = IF q = 0 THEN n ELSE 2 * f[q - 1]
      BY <2>5
    <3>3. q \in 0..k
      BY <2>4
    <3>. QED BY <3>1, <3>2, <3>3
  <2>7. Doubles(g, k)
    BY Zenon, <2>6
  <2> HIDE DEF g
  <2>. QED BY <2>7
<1>2. \E f : Doubles(f, most)
  BY Zenon, <1>1
<1>. QED BY Zenon, <1>2 DEF Shifted

\* The doublings of a number that is not 0 are numbers and reach whatever is needed.
LEMMA ShiftedGrows ==
  ASSUME NEW n \in Nat, n > 0, NEW most \in Nat
  PROVE  LET size == Shifted(n, most)
         IN  \A p \in 0..most : size[p] \in Nat /\ size[p] > p
<1> DEFINE size == Shifted(n, most)
           T == {p \in 0..most : ~(size[p] \in Nat /\ size[p] > p)}
<1>1. size = [p \in 0..most |-> IF p = 0 THEN n ELSE 2 * size[p - 1]]
  BY ShiftedDoubles
<1> HIDE DEF size
<1>2. T = {}
  <2> SUFFICES ASSUME T # {} PROVE FALSE
    OBVIOUS
  <2>1. T \in SUBSET Nat
    OBVIOUS
  <2>2. PICK k \in T : \A j \in T : k <= j
    BY Zenon, <2>1, LeastNumber
  <2>3. k \in 0..most
    OBVIOUS
  <2>4. size[k] = IF k = 0 THEN n ELSE 2 * size[k - 1]
    BY <1>1, <2>3
  <2>5. k # 0
    BY <2>4
  <2>6. k - 1 \in 0..most /\ k - 1 \notin T
    <3> HIDE DEF T
    <3>. QED BY <2>1, <2>2, <2>3, <2>5
  <2>7. PICK m : m = size[k - 1]
    OBVIOUS
  <2>8. m \in Nat /\ m > k - 1
    BY <2>6, <2>7
  <2>9. size[k] = 2 * m
    BY <2>4, <2>5, <2>7
  <2>10. 2 * m \in Nat /\ 2 * m > k
    BY <2>3, <2>5, <2>8
  <2>. QED BY <2>9, <2>10
<1>. QED BY <1>2 DEF size

\* Encoders whose buffer is large enough for what was written, and for a field.
Fits(e) ==
  /\ e \in [cursor : Nat, size : Nat, cap : Nat, bytes : {e.bytes}, err : {e.err}]
  /\ e.bytes = [i \in 0..(e.size - 1) |-> e.bytes[i]]
  /\ e.cursor <= e.size /\ e.size <= e.cap /\ Prefix <= e.cap

\* An encoder by its parts.
Rec(cursor, size, cap, bytes, err) ==
  [cursor |-> cursor, size |-> size, cap |-> cap, bytes |-> bytes, err |-> err]

\* What Fits asks of the parts.
LEMMA FitsByParts ==
  ASSUME NEW c \in Nat, NEW s \in Nat, NEW k \in Nat, NEW b, NEW x,
         b = [i \in 0..(s - 1) |-> b[i]], c <= s, s <= k, Prefix <= k
  PROVE  Fits(Rec(c, s, k, b, x))
BY DEF Fits, Rec

\* The parts of an encoder.
LEMMA Parts ==
  ASSUME NEW e, Fits(e)
  PROVE  /\ e = Rec(e.cursor, e.size, e.cap, e.bytes, e.err)
         /\ e.cursor \in Nat /\ e.size \in Nat /\ e.cap \in Nat
         /\ e.bytes = [i \in 0..(e.size - 1) |-> e.bytes[i]]
         /\ e.cursor <= e.size /\ e.size <= e.cap /\ Prefix <= e.cap
BY DEF Fits, Rec

\* After ensure_space_for() there is room for len bytes more; nothing else changed.
LEMMA EnsureMakesRoom ==
  ASSUME NEW e, Fits(e), NEW len \in Nat
  PROVE  LET r == ensure_space_for(e, len)
         IN  /\ r = [e EXCEPT !.cap = r.cap] /\ Fits(r)
             /\ e.size + len <= r.cap
             /\ e.size + len <= e.cap => r = e
<1> DEFINE r == ensure_space_for(e, len)
           need == e.size + len
           size == Shifted(e.cap, need)
           Enough(p) == size[p] >= need /\ \A q \in 1..(p - 1) : size[q] < need
           power == CHOOSE p \in 1..need : Enough(p)
<1>1. r = IF e.cap >= need THEN e ELSE [e EXCEPT !.cap = size[power]]
  BY DEF ensure_space_for
<1>2. need \in Nat /\ e.cap \in Nat /\ e.cap > 0 /\ e.size \in Nat /\ e.size <= e.cap
  BY DEF Fits, Prefix
<1>3. CASE e.cap >= need
  <2>1. r = e
    BY <1>1, <1>3
  <2>2. e = [e EXCEPT !.cap = e.cap]
    BY DEF Fits
  <2> HIDE DEF r
  <2>. QED BY <2>1, <2>2, <1>2, <1>3 DEF r
<1>4. CASE ~(e.cap >= need)
  <2>1. \A p \in 0..need : size[p] \in Nat /\ size[p] > p
    BY <1>2, ShiftedGrows
  <2> HIDE DEF size
  <2> DEFINE T == {p \in 1..need : size[p] >= need}
  <2>2. need \in T /\ T \in SUBSET Nat
    BY <1>2, <1>4, <2>1
  <2>3. PICK p \in T : \A q \in T : p <= q
    BY Zenon, <2>2, LeastNumber
  <2>4. p \in 1..need /\ Enough(p)
    BY <2>1, <2>3, <1>2
  <2>5. power \in 1..need /\ Enough(power)
    BY <2>4, Zenon
  <2>6. size[power] \in Nat /\ size[power] >= need
    BY <2>1, <2>5, <1>2
  <2>7. PICK c \in Nat : c = size[power]
    BY Zenon, <2>6
  <2>8. r = [e EXCEPT !.cap = c]
    BY <1>1, <1>4, <2>7
  <2>9. c >= need /\ c >= e.cap
    BY <2>6, <2>7, <1>2, <1>4
  <2> HIDE DEF r, need, power
  <2>10. r.cap = c /\ r = [e EXCEPT !.cap = r.cap]
    BY <2>8 DEF Fits
  <2>11. Fits(r)
    <3>1. r = Rec(e.cursor, e.size, c, e.bytes, e.err)
      BY Zenon, <2>8 DEF Fits, Rec
    <3>2. /\ e.cursor \in Nat /\ e.bytes = [i \in 0..(e.size - 1) |-> e.bytes[i]]
          /\ e.cursor <= e.size /\ 4 <= e.cap
      BY Parts DEF Prefix
    <3>3. e.size <= c /\ Prefix <= c
      BY <2>9, <1>2, <3>2 DEF Prefix
    <3>. QED BY SMTT(60), <3>1, <3>2, <3>3, <1>2, FitsByParts
  <2>. QED BY <2>9, <2>10, <2>11, <1>2, <1>4 DEF r, need
<1>. QED BY <1>3, <1>4

\* The bytes after n of them were written at c.
Written(b, c, n, what, size) ==
  [i \in 0..(size - 1) |-> IF i \in c..(c + n - 1) THEN what ELSE b[i]]

\* Where n bytes are written there is room for them: at the end, or over others.
LEMMA PutWrites ==
  ASSUME NEW e, Fits(e), NEW n \in Nat, NEW what, e.cursor + n <= e.cap,
         e.cursor = e.size \/ (e.cursor # e.size /\ e.cursor + n <= e.size)
  PROVE  LET size == IF e.cursor = e.size THEN e.size + n ELSE e.size
             r == Put(e, n, what)
         IN  /\ r = Rec(e.cursor + n, size, e.cap, Written(e.bytes, e.cursor, n, what, size), e.err)
             /\ Fits(r)
<1> DEFINE size == IF e.cursor = e.size THEN e.size + n ELSE e.size
           w == Written(e.bytes, e.cursor, n, what, size)
<1>1. /\ e = Rec(e.cursor, e.size, e.cap, e.bytes, e.err)
      /\ e.cursor \in Nat /\ e.size \in Nat /\ e.cap \in Nat
      /\ e.bytes = [i \in 0..(e.size - 1) |-> e.bytes[i]]
      /\ e.cursor <= e.size /\ e.size <= e.cap /\ Prefix <= e.cap
  BY Parts
<1>2. size \in Nat /\ e.cursor + n \in Nat /\ e.cursor + n <= size /\ size <= e.cap
  BY <1>1
<1>3. DOMAIN e.bytes \cup e.cursor..(e.cursor + n - 1) = 0..(size - 1)
  <2>1. DOMAIN e.bytes = 0..(e.size - 1)
    BY <1>1, Zenon
  <2>2. PICK c, s : c = e.cursor /\ s = e.size
    OBVIOUS
  <2>3. CASE c = s
    BY <2>1, <2>2, <2>3, <1>1
  <2>4. CASE c # s
    BY SMTT(60), <2>1, <2>2, <2>4, <1>1
  <2>. QED BY <2>3, <2>4
<1> DEFINE b == [i \in DOMAIN e.bytes \cup e.cursor..(e.cursor + n - 1) |->
                   IF i \in e.cursor..(e.cursor + n - 1) THEN what ELSE e.bytes[i]]
<1>4. b = w
  BY <1>3, Zenon DEF Written
<1>5. w = [i \in 0..(size - 1) |-> w[i]]
  BY Zenon DEF Written
<1>6. Put(e, n, what) = update_size_after_write([e EXCEPT !.bytes = b], n)
  BY DEF Put
<1> HIDE DEF b, w, size
<1>7. [e EXCEPT !.bytes = b] = Rec(e.cursor, e.size, e.cap, w, e.err)
  BY <1>1, <1>4 DEF Rec
<1>8. Put(e, n, what) = Rec(e.cursor + n, size, e.cap, w, e.err)
  BY ZenonT(60), <1>6, <1>7 DEF update_size_after_write, Rec, size
<1>9. Fits(Rec(e.cursor + n, size, e.cap, w, e.err))
  BY <1>1, <1>2, <1>5, FitsByParts
<1>. QED BY <1>8, <1>9 DEF w, size
-------------------------------------------------------------------------------
(* What the operations do *)

\* As between two operations.
AtEnd(e) == Fits(e) /\ e.cursor = e.size /\ Prefix <= e.size

\* r is e with n bytes more.
Longer(e, r, n) ==
  /\ AtEnd(r) /\ r.size = e.size + n
  /\ \A i \in 0..(e.size - 1) : r.bytes[i] = e.bytes[i]

\* r is e with a field at at filled in.
Patched(e, r, at, what) ==
  /\ AtEnd(r) /\ r.size = e.size /\ r.err = e.err
  /\ \A i \in 0..(e.size - 1) :
       r.bytes[i] = IF i \in at..(at + Prefix - 1) THEN what ELSE e.bytes[i]

\* n bytes are written at the end.
LEMMA PutAppends ==
  ASSUME NEW e, AtEnd(e), NEW n \in Nat, NEW what, e.size + n <= e.cap
  PROVE  LET r == Put(e, n, what)
         IN  /\ Longer(e, r, n) /\ r.cap = e.cap /\ r.err = e.err
             /\ \A i \in e.size..(e.size + n - 1) : r.bytes[i] = what
<1> DEFINE r == Put(e, n, what)
           size == e.size + n
           w == Written(e.bytes, e.size, n, what, size)
<1>1. Fits(e) /\ e.cursor = e.size /\ e.size \in Nat /\ e.cap \in Nat /\ Prefix <= e.size
  BY Zenon, Parts DEF AtEnd
<1>2. r = Rec(size, size, e.cap, w, e.err) /\ Fits(r)
  BY <1>1, PutWrites
<1>3. \A i \in 0..(e.size - 1) : w[i] = e.bytes[i]
  BY <1>1 DEF Written
<1>4. \A i \in e.size..(size - 1) : w[i] = what
  BY <1>1 DEF Written
<1>5. Prefix <= size
  BY <1>1 DEF Prefix
<1> HIDE DEF w, size, r
<1>6. r.cursor = size /\ r.size = size /\ r.cap = e.cap /\ r.bytes = w /\ r.err = e.err
  BY <1>2 DEF Rec
<1>7. Longer(e, r, n)
  BY <1>2, <1>3, <1>5, <1>6 DEF Longer, AtEnd, size
<1>8. \A i \in e.size..(e.size + n - 1) : r.bytes[i] = what
  BY <1>1, <1>4, <1>6 DEF size
<1>. QED BY <1>6, <1>7, <1>8, Zenon DEF r

\* Room is made, and the encoder stays where it is.
LEMMA EnsureAtEnd ==
  ASSUME NEW e, AtEnd(e), NEW len \in Nat
  PROVE  LET r == ensure_space_for(e, len)
         IN  /\ Longer(e, r, 0) /\ r.err = e.err /\ r.cursor = e.cursor
             /\ r.size = e.size /\ r.bytes = e.bytes /\ e.size + len <= r.cap
             /\ e.size + len <= e.cap => r = e
<1> DEFINE r == ensure_space_for(e, len)
<1>1. /\ r = [e EXCEPT !.cap = r.cap] /\ Fits(r)
      /\ e.size + len <= r.cap /\ (e.size + len <= e.cap => r = e)
  BY EnsureMakesRoom DEF AtEnd
<1> HIDE DEF r
<1>2. r.err = e.err /\ r.cursor = e.cursor /\ r.size = e.size /\ r.bytes = e.bytes
  <2>1. PICK c : c = r.cap
    OBVIOUS
  <2>2. r = [e EXCEPT !.cap = c]
    BY <1>1, <2>1
  <2>. QED BY <2>2 DEF AtEnd, Fits
<1>3. e.size = e.size + 0
  BY DEF AtEnd, Fits
<1>. QED BY <1>1, <1>2, <1>3 DEF Longer, AtEnd, r

\* io of an integer, and with 4 bytes the start of a field.
LEMMA IoIntAppends ==
  ASSUME NEW e, AtEnd(e), ok(e), NEW n \in Nat, NEW what
  PROVE  LET r == IoInt(e, n, what)
         IN  /\ Longer(e, r, n) /\ r.err = e.err
             /\ e.size + n <= e.cap => r.cap = e.cap
             /\ \A i \in e.size..(e.size + n - 1) : r.bytes[i] = what
<1> DEFINE g == ensure_space_for(e, n)
           r == Put(g, n, what)
<1>1. /\ AtEnd(g) /\ g.err = e.err /\ g.size = e.size /\ g.bytes = e.bytes
      /\ e.size + n <= g.cap /\ (e.size + n <= e.cap => g = e)
  <2>1. Longer(e, g, 0) => AtEnd(g)
    BY DEF Longer
  <2>. QED BY <2>1, EnsureAtEnd
<1> HIDE DEF g
<1>2. /\ Longer(g, r, n) /\ r.cap = g.cap /\ r.err = g.err
      /\ \A i \in g.size..(g.size + n - 1) : r.bytes[i] = what
  BY <1>1, PutAppends
<1>3. IoInt(e, n, what) = r
  BY DEF IoInt, g
<1> HIDE DEF r
<1>. QED BY <1>1, <1>2, <1>3 DEF Longer

\* start_length and start_crc are io of four bytes.
LEMMA ReserveIsIo == \A e : Reserve(e) = IoInt(e, Prefix, Reserved)
BY DEF Reserve, IoInt

\* A field is filled in, though the buffer may be made larger for it.
LEMMA PatchWrites ==
  ASSUME NEW e, AtEnd(e), ok(e), NEW at \in Nat, NEW what, at + Prefix <= e.size
  PROVE  Patched(e, Patch(e, at, what), at, what)
<1> DEFINE back == [e EXCEPT !.cursor = at]
           g == ensure_space_for(back, Prefix)
           p == Put(g, Prefix, what)
           r == Patch(e, at, what)
<1>1. /\ e.size \in Nat /\ e.cap \in Nat
      /\ e.bytes = [i \in 0..(e.size - 1) |-> e.bytes[i]]
      /\ e.size <= e.cap /\ Prefix <= e.cap /\ Prefix = 4 /\ e.cursor = e.size
  BY Parts DEF AtEnd, Prefix
<1>2. at + 4 <= e.size /\ at <= e.size /\ at # e.size
  BY <1>1
<1>3. back = Rec(at, e.size, e.cap, e.bytes, e.err)
  BY DEF Rec, AtEnd, Fits
<1>4. Fits(back) /\ back.size = e.size /\ back.cursor = at
  <2>1. Fits(Rec(at, e.size, e.cap, e.bytes, e.err))
    BY <1>1, <1>2, FitsByParts
  <2>. QED BY <1>3, <2>1 DEF Rec
<1>5. ok(back)
  BY <1>3 DEF Rec, ok
<1> HIDE DEF back
<1>6. /\ g = [back EXCEPT !.cap = g.cap] /\ Fits(g) /\ back.size + Prefix <= g.cap
  BY Zenon, <1>1, <1>4, EnsureMakesRoom
<1> HIDE DEF g
<1>7. g = Rec(at, e.size, g.cap, e.bytes, e.err)
  <2>1. PICK c : c = g.cap
    OBVIOUS
  <2>2. g = [back EXCEPT !.cap = c]
    BY <1>6, <2>1
  <2>3. g = Rec(at, e.size, c, e.bytes, e.err)
    BY <1>3, <2>2 DEF Rec
  <2>. QED BY <2>1, <2>3
<1>8. /\ g.cursor = at /\ g.size = e.size /\ g.bytes = e.bytes /\ g.err = e.err
      /\ g.cap \in Nat /\ g.size <= g.cap /\ Prefix <= g.cap
  <2>1. g.cursor = at /\ g.size = e.size /\ g.bytes = e.bytes /\ g.err = e.err
    <3>1. PICK c : c = g.cap
      OBVIOUS
    <3>2. g = Rec(at, e.size, c, e.bytes, e.err)
      BY <1>7, <3>1
    <3>. QED BY <3>2 DEF Rec
  <2>2. g.cap \in Nat /\ g.size <= g.cap /\ Prefix <= g.cap
    BY Zenon, <1>6, Parts
  <2>. QED BY <2>1, <2>2
<1> DEFINE w == Written(e.bytes, at, 4, what, e.size)
<1>9. p = Rec(at + 4, e.size, g.cap, w, e.err) /\ Fits(p)
  <2>1. g.cursor # g.size /\ g.cursor + 4 <= g.size /\ g.cursor + 4 <= g.cap
    BY <1>1, <1>2, <1>8
  <2>2. 4 \in Nat
    OBVIOUS
  <2> DEFINE size == IF g.cursor = g.size THEN g.size + 4 ELSE g.size
  <2>3. /\ Put(g, 4, what) = Rec(g.cursor + 4, size, g.cap,
                                 Written(g.bytes, g.cursor, 4, what, size), g.err)
        /\ Fits(Put(g, 4, what))
    BY <1>6, <2>1, <2>2, PutWrites
  <2>4. size = e.size /\ p = Put(g, 4, what)
    BY <1>1, <1>8, <2>1
  <2>. QED BY <1>8, <2>3, <2>4
<1>10. r = [p EXCEPT !.cursor = e.size]
  BY <1>1, <1>5 DEF Patch, IoInt, back, g
<1> HIDE DEF p, r, w
<1>11. r = Rec(e.size, e.size, g.cap, w, e.err)
  BY <1>9, <1>10 DEF Rec
<1>12. w = [i \in 0..(e.size - 1) |-> w[i]]
  BY Zenon DEF w, Written
<1>13. Fits(r)
  BY SMTT(60), <1>1, <1>8, <1>11, <1>12, FitsByParts
<1>14. r.cursor = e.size /\ r.size = e.size /\ r.bytes = w /\ r.err = e.err
  BY <1>11 DEF Rec
<1>15. AtEnd(r)
  BY <1>13, <1>14 DEF AtEnd
<1>16. \A i \in 0..(e.size - 1) :
         w[i] = IF i \in at..(at + 4 - 1) THEN what ELSE e.bytes[i]
  BY Zenon DEF w, Written
<1>. QED BY Zenon, <1>1, <1>14, <1>15, <1>16 DEF Patched, r

\* A string or a byte array: its length, then its bytes.
LEMMA SliceAppends ==
  ASSUME NEW e, AtEnd(e), ok(e), NEW w \in {2, 4}, NEW len \in Nat
  PROVE  LET r == IoSlice(e, w, len)
             most == IF w = 2 THEN MaxString ELSE MaxInt
         IN  \/ len > most /\ r = set_err(e, "INVALID_VALUE")
             \/ /\ ~(len > most)
                /\ Longer(e, r, w + len) /\ r.err = e.err
                /\ \A i \in e.size..(e.size + w - 1) :
                     r.bytes[i] = Length(IF len = 0 THEN -1 ELSE len)
                /\ \A i \in (e.size + w)..(e.size + w + len - 1) : r.bytes[i] = Data
<1> DEFINE g == ensure_space_for(e, w + len)
           l == Length(IF len = 0 THEN -1 ELSE len)
           sized == IoInt(g, w, l)
           r == IF len = 0 THEN sized ELSE Put(sized, len, Data)
<1>1. w \in Nat /\ w + len \in Nat /\ e.size \in Nat
  BY SMTT(60) DEF AtEnd, Fits
<1>2. /\ Longer(e, g, 0) /\ g.err = e.err /\ g.size = e.size /\ g.bytes = e.bytes
      /\ e.size + (w + len) <= g.cap
  BY <1>1, EnsureAtEnd
<1>3. AtEnd(g) /\ ok(g) /\ g.cap \in Nat
  BY <1>2 DEF Longer, AtEnd, Fits, ok
<1> HIDE DEF g, l
<1>4. g.size + w <= g.cap
  BY <1>1, <1>2, <1>3
<1>5. /\ Longer(g, sized, w) /\ sized.err = g.err /\ sized.cap = g.cap
      /\ \A i \in g.size..(g.size + w - 1) : sized.bytes[i] = l
  BY <1>1, <1>3, <1>4, IoIntAppends
<1> HIDE DEF sized
<1>6. AtEnd(sized) /\ sized.size = e.size + w
      /\ \A i \in 0..(e.size - 1) : sized.bytes[i] = e.bytes[i]
  BY <1>2, <1>5 DEF Longer
<1>7. Longer(e, r, w + len) /\ r.err = e.err
  <2>1. CASE len = 0
    <3>1. r = sized /\ w + len = w
      BY <2>1
    <3>. QED BY <3>1, <1>2, <1>5, <1>6 DEF Longer
  <2>2. CASE len # 0
    <3>1. r = Put(sized, len, Data)
      BY <2>2
    <3>2. sized.size + len <= sized.cap
      BY <1>1, <1>2, <1>3, <1>5, <1>6
    <3>3. Longer(sized, r, len) /\ r.err = sized.err
      BY <1>6, <3>1, <3>2, PutAppends
    <3> HIDE DEF r
    <3>4. r.size = e.size + (w + len)
      BY <1>1, <1>6, <3>3 DEF Longer
    <3>5. \A i \in 0..(e.size - 1) : r.bytes[i] = e.bytes[i]
      <4>1. \A i \in 0..(e.size - 1) : i \in 0..(sized.size - 1)
        BY <1>1, <1>6
      <4>. QED BY <4>1, <1>6, <3>3 DEF Longer
    <3>. QED BY <1>2, <1>5, <3>3, <3>4, <3>5 DEF Longer
  <2>. QED BY <2>1, <2>2
<1>8. /\ \A i \in e.size..(e.size + w - 1) : r.bytes[i] = l
      /\ \A i \in (e.size + w)..(e.size + w + len - 1) : r.bytes[i] = Data
  <2>1. \A i \in e.size..(e.size + w - 1) : sized.bytes[i] = l /\ i \in 0..(sized.size - 1)
    BY <1>1, <1>2, <1>5, <1>6
  <2>2. CASE len = 0
    BY <2>1, <2>2, <1>1
  <2>3. CASE len # 0
    <3>1. r = Put(sized, len, Data)
      BY <2>3
    <3>2. sized.size + len <= sized.cap
      BY <1>1, <1>2, <1>3, <1>5, <1>6
    <3>3. /\ Longer(sized, r, len)
          /\ \A i \in sized.size..(sized.size + len - 1) : r.bytes[i] = Data
      BY <1>6, <3>1, <3>2, PutAppends
    <3> HIDE DEF r
    <3>4. \A i \in 0..(sized.size - 1) : r.bytes[i] = sized.bytes[i]
      BY <3>3 DEF Longer
    <3>5. \A i \in e.size..(e.size + w - 1) : r.bytes[i] = l
      BY <2>1, <3>4
    <3>. QED BY <3>3, <3>5, <1>6
  <2>. QED BY <2>2, <2>3
<1> DEFINE most == IF w = 2 THEN MaxString ELSE MaxInt
<1>9. IoSlice(e, w, len) = IF len > most THEN set_err(e, "INVALID_VALUE") ELSE r
  BY DEF IoSlice, sized, g, l
<1> HIDE DEF r, most
<1>. QED BY <1>7, <1>8, <1>9 DEF l, most

\* What stands where in a byte array that was compressed to n bytes: a length,
\* which counts them, and then them.
LEMMA CompressedAppends ==
  ASSUME NEW e, AtEnd(e), ok(e), NEW len \in Nat, Overhead \in Nat,
         NEW n \in 1..(len + Overhead)
  PROVE  LET r == IoCompressed(e, len, n)
         IN  /\ Longer(e, r, Prefix + n) /\ r.err = e.err
             /\ \A i \in e.size..(e.size + Prefix - 1) : r.bytes[i] = Length(AsInt(n))
             /\ \A i \in (e.size + Prefix)..(e.size + Prefix + n - 1) : r.bytes[i] = Data
<1> DEFINE g == ensure_space_for(e, Prefix + len + Overhead)
           started == Reserve(g)
           p == Put(started, n, Data)
           r == end_length(p, e.cursor)
<1>1. /\ Prefix + len + Overhead \in Nat /\ e.size \in Nat /\ n \in Nat /\ Prefix = 4
      /\ e.cursor = e.size /\ n <= len + Overhead /\ 4 <= e.size
  BY SMTT(60) DEF AtEnd, Fits, Prefix
<1>2. /\ Longer(e, g, 0) /\ g.err = e.err /\ g.size = e.size /\ g.bytes = e.bytes
      /\ e.size + (Prefix + len + Overhead) <= g.cap
  BY <1>1, EnsureAtEnd
<1>3. AtEnd(g) /\ ok(g) /\ g.cap \in Nat
  BY <1>2 DEF Longer, AtEnd, Fits, ok
<1> HIDE DEF g
<1>4. g.size + 4 <= g.cap
  BY <1>1, <1>2, <1>3
<1>5. started = IoInt(g, 4, Reserved) /\ 4 \in Nat
  BY <1>1, ReserveIsIo
<1> HIDE DEF started
<1>6. Longer(g, started, 4) /\ started.err = g.err /\ started.cap = g.cap
  BY <1>3, <1>4, <1>5, IoIntAppends
<1>7. AtEnd(started) /\ started.size = e.size + 4
      /\ \A i \in 0..(e.size - 1) : started.bytes[i] = e.bytes[i]
  BY <1>2, <1>6 DEF Longer
<1>8. started.size + n <= started.cap
  BY <1>1, <1>2, <1>3, <1>6, <1>7
<1>9. /\ Longer(started, p, n) /\ p.err = started.err
      /\ \A i \in started.size..(started.size + n - 1) : p.bytes[i] = Data
  BY <1>1, <1>7, <1>8, PutAppends
<1> HIDE DEF p
<1>10. AtEnd(p) /\ ok(p) /\ p.size = e.size + (4 + n) /\ p.cursor = p.size
       /\ \A i \in 0..(e.size - 1) : p.bytes[i] = e.bytes[i]
  <2>1. \A i \in 0..(e.size - 1) : i \in 0..(started.size - 1)
    BY <1>1, <1>7
  <2>2. p.size = e.size + (4 + n)
    BY <1>1, <1>7, <1>9 DEF Longer
  <2>3. AtEnd(p) /\ p.cursor = p.size
    BY <1>9 DEF Longer, AtEnd
  <2>4. ok(p)
    BY <1>2, <1>6, <1>9 DEF ok
  <2>. QED BY <2>1, <2>2, <2>3, <2>4, <1>7, <1>9 DEF Longer
<1> DEFINE l == Length(AsInt(p.cursor - e.cursor - Prefix))
<1>11. l = Length(AsInt(n))
  <2>1. p.cursor - e.cursor - Prefix = n
    BY <1>1, <1>10
  <2>. QED BY <2>1
<1>12. r = Patch(p, e.size, Length(AsInt(n)))
  BY <1>1, <1>10, <1>11 DEF end_length
<1> HIDE DEF l, r
<1>13. Patched(p, r, e.size, Length(AsInt(n)))
  <2>1. e.size + Prefix <= p.size
    BY <1>1, <1>10
  <2>. QED BY <2>1, <1>1, <1>10, <1>12, PatchWrites
<1>14. AtEnd(r) /\ r.size = e.size + (Prefix + n) /\ r.err = e.err
  BY <1>1, <1>2, <1>6, <1>9, <1>10, <1>13 DEF Patched
<1>15. \A i \in 0..(p.size - 1) :
         r.bytes[i] = IF i \in e.size..(e.size + 4 - 1) THEN Length(AsInt(n)) ELSE p.bytes[i]
  BY <1>1, <1>13 DEF Patched
<1>16. ASSUME NEW i \in 0..(e.size - 1) PROVE r.bytes[i] = e.bytes[i]
  <2>1. i \in 0..(p.size - 1) /\ ~(i \in e.size..(e.size + 4 - 1))
    BY <1>1, <1>10
  <2>. QED BY <2>1, <1>10, <1>15
<1>17. ASSUME NEW i \in e.size..(e.size + 4 - 1) PROVE r.bytes[i] = Length(AsInt(n))
  <2>1. i \in 0..(p.size - 1)
    BY <1>1, <1>10
  <2>. QED BY <2>1, <1>15
<1>18. ASSUME NEW i \in (e.size + 4)..(e.size + 4 + n - 1) PROVE r.bytes[i] = Data
  <2>1. i \in 0..(p.size - 1) /\ ~(i \in e.size..(e.size + 4 - 1))
    BY <1>1, <1>10
  <2>2. p.bytes[i] = Data
    BY <1>1, <1>7, <1>9
  <2>. QED BY <2>1, <2>2, <1>15
<1>19. IoCompressed(e, len, n) = r
  BY DEF IoCompressed, r, p, started, g
<1>. QED BY <1>1, <1>14, <1>16, <1>17, <1>18, <1>19 DEF Longer

\* The encoder when an error was noted.
LEMMA FailStays ==
  ASSUME NEW e, AtEnd(e), NEW x
  PROVE  LET r == set_err(e, x) IN Longer(e, r, 0) /\ r.err = x
<1>1. set_err(e, x) = Rec(e.cursor, e.size, e.cap, e.bytes, x)
  <2>1. PICK c, s, k, b, y : c = e.cursor /\ s = e.size /\ k = e.cap /\ b = e.bytes /\ y = e.err
    OBVIOUS
  <2>2. e = Rec(c, s, k, b, y)
    BY Zenon, <2>1, Parts DEF AtEnd
  <2>3. set_err(e, x) = Rec(c, s, k, b, x)
    BY <2>2 DEF set_err, Rec
  <2>. QED BY <2>1, <2>3
<1>2. /\ e.cursor \in Nat /\ e.size \in Nat /\ e.cap \in Nat /\ e.cursor = e.size
      /\ e.bytes = [i \in 0..(e.size - 1) |-> e.bytes[i]]
      /\ e.cursor <= e.size /\ e.size <= e.cap /\ Prefix <= e.cap /\ Prefix <= e.size
  BY Parts DEF AtEnd
<1>3. Fits(Rec(e.cursor, e.size, e.cap, e.bytes, x))
  BY <1>2, FitsByParts
<1> DEFINE r == set_err(e, x)
<1>4. r.cursor = e.cursor /\ r.size = e.size /\ r.bytes = e.bytes /\ r.err = x /\ Fits(r)
  BY <1>1, <1>3 DEF Rec
<1> HIDE DEF r
<1>5. e.size = e.size + 0
  BY <1>2
<1>. QED BY <1>2, <1>4, <1>5 DEF Longer, AtEnd, r

\* A new encoder: the prefix was reserved.
LEMMA NewEncoderAtEnd ==
  ASSUME NEW n \in Nat
  PROVE  AtEnd(NewEncoder(n)) /\ ok(NewEncoder(n)) /\ NewEncoder(n).size = Prefix
<1> DEFINE e == Rec(0, 0, n + 4, <<>>, "NONE")
<1>1. Fits(e) /\ e.cursor = 0 /\ e.size = 0 /\ e.cap = n + 4 /\ e.bytes = <<>> /\ e.err = "NONE"
  <2>1. <<>> = [i \in 0..(0 - 1) |-> <<>>[i]]
    OBVIOUS
  <2>2. n + 4 \in Nat /\ 0 \in Nat /\ 0 <= 0 /\ 0 <= n + 4 /\ Prefix <= n + 4
    BY DEF Prefix
  <2>3. Fits(e)
    BY Zenon, <2>1, <2>2, FitsByParts
  <2>. QED BY <2>3 DEF Rec
<1>2. NewEncoder(n) = Put(e, 4, Reserved)
  BY DEF NewEncoder, Rec, Prefix
<1> HIDE DEF e
<1> DEFINE r == Put(e, 4, Reserved)
           w == Written(e.bytes, e.cursor, 4, Reserved, e.size + 4)
<1>3. r = Rec(e.cursor + 4, e.size + 4, e.cap, w, e.err) /\ Fits(r)
  <2>1. 4 \in Nat /\ e.cursor + 4 <= e.cap /\ e.cursor = e.size
    BY <1>1
  <2> HIDE DEF w
  <2>. QED BY <1>1, <2>1, PutWrites DEF w
<1> HIDE DEF r, w
<1>4. r.cursor = 4 /\ r.size = 4 /\ r.err = "NONE"
  <2>1. PICK c, x : c = e.cap /\ x = w
    OBVIOUS
  <2>2. r = Rec(0 + 4, 0 + 4, c, x, "NONE")
    BY <1>1, <1>3, <2>1
  <2>. QED BY <2>2 DEF Rec
<1>. QED BY <1>2, <1>3, <1>4 DEF AtEnd, ok, Prefix, r
-------------------------------------------------------------------------------
(* The bytes of a message *)

\* The calls message_set.cpp makes for a message: offset, length, checksum, magic
\* byte, attributes, key and value, which is compressed to n bytes or not.
EntryCalls(e, key, value, attributes, comp, n) ==
  LET sized == Reserve(IoInt(e, 8, Data))
      header == IoInt(IoInt(Reserve(sized), 1, Data), 1, attributes)
      keyed == IoSlice(header, 4, key)
      valued == IF comp = "None" THEN IoSlice(keyed, 4, value) ELSE IoCompressed(keyed, value, n)
  IN end_length(end_crc(valued, sized.cursor), e.cursor + 8)

\* The bytes from at on are a message with a key and a value of these lengths,
\* as they are written, and with these attributes.
HasEntry(b, at, key, value, attributes) ==
  LET end == at + 26 + key + value IN
  /\ \A i \in at..(at + 7) : b[i] = [is |-> "data"]
  /\ \A i \in (at + 8)..(at + 11) : b[i] = [is |-> "length", n |-> AsInt(end - at - 12)]
  /\ \A i \in (at + 12)..(at + 15) :
       b[i] = [is |-> "crc", of |-> [j \in 1..(end - at - 16) |-> b[at + 15 + j]]]
  /\ b[at + 16] = [is |-> "data"] /\ b[at + 17] = attributes
  /\ \A i \in (at + 18)..(at + 21) : b[i] = [is |-> "length", n |-> IF key = 0 THEN -1 ELSE key]
  /\ \A i \in (at + 22)..(at + 21 + key) : b[i] = [is |-> "data"]
  /\ \A i \in (at + 22 + key)..(at + 25 + key) :
       b[i] = [is |-> "length", n |-> IF value = 0 THEN -1 ELSE AsInt(value)]
  /\ \A i \in (at + 26 + key)..(end - 1) : b[i] = [is |-> "data"]

\* What the bytes are.
LEMMA ByteValues ==
  /\ Prefix = 4 /\ Data = [is |-> "data"]
  /\ \A n : Length(n) = [is |-> "length", n |-> n]
  /\ \A b : Checksum(b) = [is |-> "crc", of |-> b]
BY DEF Prefix, Data, Length, Checksum

\* What an int32_t can say is not changed by the conversion.
LEMMA AsIntFits ==
  ASSUME NEW n, n <= MaxInt
  PROVE  AsInt(n) = n
BY DEF AsInt

\* Bytes that are written stay.
LEMMA LongerStill ==
  ASSUME NEW x, NEW y, NEW z, NEW n \in Nat, NEW k \in Nat, NEW j, j = n + k,
         x.size \in Nat, Longer(x, y, n), Longer(y, z, k)
  PROVE  Longer(x, z, j)
<1>1. y.size = x.size + n /\ z.size = y.size + k /\ AtEnd(z)
  BY DEF Longer
<1>2. \A i \in 0..(x.size - 1) : i \in 0..(y.size - 1)
  BY <1>1
<1>3. \A i \in 0..(x.size - 1) : z.bytes[i] = x.bytes[i]
  BY <1>2 DEF Longer
<1>4. z.size = x.size + j
  BY <1>1
<1>. QED BY <1>1, <1>3, <1>4 DEF Longer

\* The types of an encoder between two operations.
LEMMA AtEndTypes ==
  ASSUME NEW e, AtEnd(e)
  PROVE  e.size \in Nat /\ e.cursor = e.size
BY DEF AtEnd, Fits

\* A key or a value: its length, then its bytes.
LEMMA SliceOfEntry ==
  ASSUME NEW x, AtEnd(x), ok(x), NEW len \in Nat, len <= MaxInt, MaxInt \in Nat
  PROVE  LET y == IoSlice(x, 4, len)
         IN  /\ Longer(x, y, 4 + len) /\ y.err = x.err /\ AtEnd(y) /\ ok(y)
             /\ y.size = x.size + (4 + len)
             /\ \A i \in x.size..(x.size + 3) : y.bytes[i] = Length(IF len = 0 THEN -1 ELSE len)
             /\ \A i \in (x.size + 4)..(x.size + 3 + len) : y.bytes[i] = Data
<1> DEFINE y == IoSlice(x, 4, len)
<1>1. 4 \in {2, 4} /\ 4 # 2 /\ ~(len > MaxInt)
  OBVIOUS
<1>2. /\ Longer(x, y, 4 + len) /\ y.err = x.err
      /\ \A i \in x.size..(x.size + 4 - 1) : y.bytes[i] = Length(IF len = 0 THEN -1 ELSE len)
      /\ \A i \in (x.size + 4)..(x.size + 4 + len - 1) : y.bytes[i] = Data
  BY <1>1, SliceAppends
<1>3. x.size \in Nat
  BY AtEndTypes
<1> HIDE DEF y
<1>4. /\ Longer(x, y, 4 + len) /\ y.err = x.err /\ AtEnd(y) /\ ok(y)
      /\ y.size = x.size + (4 + len)
      /\ \A i \in x.size..(x.size + 3) : y.bytes[i] = Length(IF len = 0 THEN -1 ELSE len)
      /\ \A i \in (x.size + 4)..(x.size + 3 + len) : y.bytes[i] = Data
  BY <1>2, <1>3 DEF Longer, ok
<1>. QED BY <1>4 DEF y

\* The encoding of a message: its size and its bytes.
LEMMA EntryAppends ==
  ASSUME NEW e, AtEnd(e), ok(e), Overhead \in Nat, NEW key \in Nat, NEW value \in Nat,
         NEW attributes, NEW comp, NEW n, NEW v \in Nat,
         MaxInt \in Nat, key <= MaxInt,
         IF comp = "None" THEN v = value /\ v <= MaxInt ELSE n = v /\ n \in 1..(value + Overhead)
  PROVE  LET r == EntryCalls(e, key, value, attributes, comp, n)
         IN  /\ Longer(e, r, 26 + key + v) /\ r.err = e.err
             /\ HasEntry(r.bytes, e.size, key, v, attributes)
<1> DEFINE s == e.size
           a1 == IoInt(e, 8, Data)
           a2 == Reserve(a1)
           a3 == Reserve(a2)
           a4 == IoInt(a3, 1, Data)
           a5 == IoInt(a4, 1, attributes)
           a6 == IoSlice(a5, 4, key)
           a7 == IF comp = "None" THEN IoSlice(a6, 4, value) ELSE IoCompressed(a6, value, n)
           a8 == end_crc(a7, a2.cursor)
           a9 == end_length(a8, e.cursor + 8)
<1>1. EntryCalls(e, key, value, attributes, comp, n) = a9
  BY DEF EntryCalls
<1>2. s \in Nat /\ e.cursor = s
  BY AtEndTypes
<1>3. /\ Longer(e, a1, 8) /\ a1.err = e.err /\ AtEnd(a1) /\ ok(a1) /\ a1.size = s + 8
      /\ \A i \in s..(s + 7) : a1.bytes[i] = Data
  <2>1. /\ Longer(e, a1, 8) /\ a1.err = e.err
        /\ \A i \in e.size..(e.size + 8 - 1) : a1.bytes[i] = Data
    BY IoIntAppends
  <2> HIDE DEF a1
  <2>. QED BY <2>1, <1>2 DEF Longer, ok
<1> HIDE DEF a1
<1>4. ASSUME NEW x, AtEnd(x), ok(x), NEW y, y = Reserve(x)
      PROVE  Longer(x, y, 4) /\ y.err = x.err /\ AtEnd(y) /\ ok(y) /\ y.size = x.size + 4
  <2>1. y = IoInt(x, 4, Reserved)
    BY Zenon, <1>4, ReserveIsIo, ByteValues
  <2>2. Longer(x, y, 4) /\ y.err = x.err
    <3>1. PICK k \in Nat, what \in {Reserved} : k = 4
      OBVIOUS
    <3>2. Longer(x, IoInt(x, k, what), k) /\ IoInt(x, k, what).err = x.err
      BY <1>4, IoIntAppends
    <3>3. k = 4 /\ what = Reserved
      BY ZenonT(60), <3>1
    <3>. QED BY ZenonT(60), <2>1, <3>2, <3>3
  <2>. QED BY <2>2, <1>4 DEF Longer, ok
<1>5. Longer(a1, a2, 4) /\ a2.err = e.err /\ AtEnd(a2) /\ ok(a2) /\ a2.size = s + 12
  <2>1. Longer(a1, a2, 4) /\ a2.err = a1.err /\ AtEnd(a2) /\ ok(a2) /\ a2.size = a1.size + 4
    BY <1>3, <1>4
  <2> HIDE DEF a2
  <2>. QED BY <2>1, <1>3, <1>2
<1> HIDE DEF a2
<1>6. Longer(a2, a3, 4) /\ a3.err = e.err /\ AtEnd(a3) /\ ok(a3) /\ a3.size = s + 16
  <2>1. Longer(a2, a3, 4) /\ a3.err = a2.err /\ AtEnd(a3) /\ ok(a3) /\ a3.size = a2.size + 4
    BY <1>5, <1>4
  <2> HIDE DEF a3
  <2>. QED BY <2>1, <1>5, <1>2
<1> HIDE DEF a3
<1>7. /\ Longer(a3, a4, 1) /\ a4.err = e.err /\ AtEnd(a4) /\ ok(a4) /\ a4.size = s + 17
      /\ a4.bytes[s + 16] = Data
  <2>1. /\ Longer(a3, a4, 1) /\ a4.err = a3.err
        /\ \A i \in a3.size..(a3.size + 1 - 1) : a4.bytes[i] = Data
    BY <1>6, IoIntAppends
  <2> HIDE DEF a4
  <2>. QED BY <2>1, <1>2, <1>6 DEF Longer, ok
<1> HIDE DEF a4
<1>8. /\ Longer(a4, a5, 1) /\ a5.err = e.err /\ AtEnd(a5) /\ ok(a5) /\ a5.size = s + 18
      /\ a5.bytes[s + 17] = attributes
  <2>1. /\ Longer(a4, a5, 1) /\ a5.err = a4.err
        /\ \A i \in a4.size..(a4.size + 1 - 1) : a5.bytes[i] = attributes
    BY <1>7, IoIntAppends
  <2> HIDE DEF a5
  <2>. QED BY <2>1, <1>2, <1>7 DEF Longer, ok
<1> HIDE DEF a5
<1>10. /\ Longer(a5, a6, 4 + key) /\ a6.err = e.err /\ AtEnd(a6) /\ ok(a6)
       /\ a6.size = s + 22 + key
       /\ \A i \in (s + 18)..(s + 21) : a6.bytes[i] = Length(IF key = 0 THEN -1 ELSE key)
       /\ \A i \in (s + 22)..(s + 21 + key) : a6.bytes[i] = Data
  <2>1. /\ Longer(a5, a6, 4 + key) /\ a6.err = a5.err /\ AtEnd(a6) /\ ok(a6)
        /\ a6.size = a5.size + (4 + key)
        /\ \A i \in a5.size..(a5.size + 3) : a6.bytes[i] = Length(IF key = 0 THEN -1 ELSE key)
        /\ \A i \in (a5.size + 4)..(a5.size + 3 + key) : a6.bytes[i] = Data
    BY Zenon, <1>8, SliceOfEntry
  <2> HIDE DEF a6
  <2>. QED BY <2>1, <1>2, <1>8
<1> HIDE DEF a6
<1>11. /\ Longer(a6, a7, 4 + v) /\ a7.err = e.err /\ AtEnd(a7) /\ ok(a7)
       /\ a7.size = s + 26 + key + v /\ a7.cursor = a7.size
       /\ \A i \in (s + 22 + key)..(s + 25 + key) :
            a7.bytes[i] = Length(IF v = 0 THEN -1 ELSE AsInt(v))
       /\ \A i \in (s + 26 + key)..(s + 25 + key + v) : a7.bytes[i] = Data
  <2>1. /\ Longer(a6, a7, 4 + v) /\ a7.err = a6.err
        /\ \A i \in a6.size..(a6.size + 3) : a7.bytes[i] = Length(IF v = 0 THEN -1 ELSE AsInt(v))
        /\ \A i \in (a6.size + 4)..(a6.size + 3 + v) : a7.bytes[i] = Data
    <3>1. CASE comp = "None"
      <4>1. v = value /\ a7 = IoSlice(a6, 4, v) /\ v <= MaxInt
        BY <3>1
      <4>2. AsInt(v) = v
        BY <4>1, AsIntFits
      <4> HIDE DEF a7
      <4>3. /\ Longer(a6, a7, 4 + v) /\ a7.err = a6.err
            /\ \A i \in a6.size..(a6.size + 3) : a7.bytes[i] = Length(IF v = 0 THEN -1 ELSE v)
            /\ \A i \in (a6.size + 4)..(a6.size + 3 + v) : a7.bytes[i] = Data
        BY ZenonT(60), <4>1, <1>10, SliceOfEntry
      <4>4. (IF v = 0 THEN -1 ELSE AsInt(v)) = IF v = 0 THEN -1 ELSE v
        BY <4>2
      <4>. QED BY ZenonT(60), <4>3, <4>4
    <3>2. CASE comp # "None"
      <4>1. a7 = IoCompressed(a6, value, v) /\ v \in 1..(value + Overhead) /\ v # 0
        BY <3>2
      <4> HIDE DEF a7
      <4>2. /\ Longer(a6, a7, Prefix + v) /\ a7.err = a6.err
            /\ \A i \in a6.size..(a6.size + Prefix - 1) : a7.bytes[i] = Length(AsInt(v))
            /\ \A i \in (a6.size + Prefix)..(a6.size + Prefix + v - 1) : a7.bytes[i] = Data
        BY SMTT(60), <4>1, <1>10, CompressedAppends
      <4>3. Prefix = 4 /\ a6.size \in Nat
        BY ByteValues, <1>10, AtEndTypes
      <4>. QED BY <4>1, <4>2, <4>3
    <3>. QED BY <3>1, <3>2
  <2> HIDE DEF a7
  <2>2. AtEnd(a7) /\ a7.size = a6.size + (4 + v)
    BY <2>1 DEF Longer
  <2>3. a7.cursor = a7.size
    BY <2>2, AtEndTypes
  <2>. QED BY SMTT(60), <2>1, <2>2, <2>3, <1>2, <1>10 DEF ok
<1> HIDE DEF a7
<1> DEFINE size == s + 26 + key + v
<1>12. /\ Longer(a5, a7, 8 + key + v) /\ Longer(a4, a7, 9 + key + v)
       /\ Longer(a1, a7, 18 + key + v) /\ Longer(e, a7, 26 + key + v)
  <2>1. Longer(a5, a7, 8 + key + v)
    <3>1. 4 + key \in Nat /\ 4 + v \in Nat /\ 8 + key + v = (4 + key) + (4 + v) /\ a5.size \in Nat
      BY <1>2, <1>8
    <3>. QED BY <3>1, <1>10, <1>11, LongerStill
  <2>2. Longer(a4, a7, 9 + key + v)
    <3>1. 1 \in Nat /\ 8 + key + v \in Nat /\ 9 + key + v = 1 + (8 + key + v) /\ a4.size \in Nat
      BY <1>2, <1>7
    <3>. QED BY <2>1, <3>1, <1>8, LongerStill
  <2>3. Longer(a3, a7, 10 + key + v)
    <3>1. 1 \in Nat /\ 9 + key + v \in Nat /\ 10 + key + v = 1 + (9 + key + v) /\ a3.size \in Nat
      BY <1>2, <1>6
    <3>. QED BY <2>2, <3>1, <1>7, LongerStill
  <2>4. Longer(a2, a7, 14 + key + v)
    <3>1. 4 \in Nat /\ 10 + key + v \in Nat /\ 14 + key + v = 4 + (10 + key + v) /\ a2.size \in Nat
      BY <1>2, <1>5
    <3>. QED BY <2>3, <3>1, <1>6, LongerStill
  <2>5. Longer(a1, a7, 18 + key + v)
    <3>1. 4 \in Nat /\ 14 + key + v \in Nat /\ 18 + key + v = 4 + (14 + key + v) /\ a1.size \in Nat
      BY <1>2, <1>3
    <3>. QED BY <2>4, <3>1, <1>5, LongerStill
  <2>6. Longer(e, a7, 26 + key + v)
    <3>1. 8 \in Nat /\ 18 + key + v \in Nat /\ 26 + key + v = 8 + (18 + key + v)
      OBVIOUS
    <3>. QED BY <2>5, <3>1, <1>2, <1>3, LongerStill
  <2>. QED BY SMTT(60), <2>1, <2>2, <2>5, <2>6
<1>13. \A i \in s..(s + 7) : a7.bytes[i] = Data
  <2>1. \A i \in s..(s + 7) : i \in 0..(a1.size - 1)
    BY SMTT(60), <1>2, <1>3
  <2>. QED BY <2>1, <1>3, <1>12 DEF Longer
<1>14. a7.bytes[s + 16] = Data /\ a7.bytes[s + 17] = attributes
  <2>1. s + 16 \in 0..(a4.size - 1) /\ s + 17 \in 0..(a5.size - 1)
    BY SMTT(60), <1>2, <1>7, <1>8
  <2>. QED BY <2>1, <1>7, <1>8, <1>12 DEF Longer
<1>15. /\ \A i \in (s + 18)..(s + 21) : a7.bytes[i] = Length(IF key = 0 THEN -1 ELSE key)
       /\ \A i \in (s + 22)..(s + 21 + key) : a7.bytes[i] = Data
  <2>1. /\ \A i \in (s + 18)..(s + 21) : i \in 0..(a6.size - 1)
        /\ \A i \in (s + 22)..(s + 21 + key) : i \in 0..(a6.size - 1)
    BY <1>2, <1>10
  <2>. QED BY <2>1, <1>10, <1>11 DEF Longer
<1> DEFINE c == Checksum(Covered(a7, s + 16, size))
           l == Length(AsInt(size - s - 12))
<1>16. Patched(a7, a8, s + 12, c)
  <2>1. a2.cursor = s + 12 /\ s + 12 + 4 = s + 16 /\ a7.cursor = size
    BY SMTT(60), <1>2, <1>5, <1>11, AtEndTypes
  <2>2. a8 = Patch(a7, s + 12, c)
    BY SMTT(60), <2>1, <1>11, ByteValues DEF end_crc
  <2>3. s + 12 \in Nat /\ s + 12 + Prefix <= a7.size
    BY <1>2, <1>11, ByteValues
  <2> HIDE DEF a8, c
  <2>. QED BY SMTT(60), <2>2, <2>3, <1>11, PatchWrites
<1> HIDE DEF a8
<1>17. AtEnd(a8) /\ a8.err = e.err /\ ok(a8) /\ a8.size = size /\ a8.cursor = size
  <2>1. AtEnd(a8) /\ a8.err = e.err /\ a8.size = size
    BY <1>11, <1>16 DEF Patched
  <2>. QED BY SMTT(60), <2>1, AtEndTypes DEF ok
<1>18. Patched(a8, a9, s + 8, l)
  <2>1. e.cursor + 8 = s + 8 /\ size - (s + 8) - 4 = size - s - 12
    BY <1>2
  <2>2. a9 = Patch(a8, s + 8, l)
    BY <2>1, <1>17, ByteValues DEF end_length
  <2>3. s + 8 \in Nat /\ s + 8 + Prefix <= a8.size
    BY <1>2, <1>17, ByteValues
  <2> HIDE DEF a9, l
  <2>. QED BY <2>2, <2>3, <1>17, PatchWrites
<1> HIDE DEF a9
<1>19. AtEnd(a9) /\ a9.size = size /\ a9.err = e.err
  BY <1>17, <1>18 DEF Patched
<1>20. \A i \in 0..(size - 1) :
         a9.bytes[i] = IF i \in (s + 8)..(s + 11) THEN l
                       ELSE IF i \in (s + 12)..(s + 15) THEN c ELSE a7.bytes[i]
  <2>1. \A i \in 0..(size - 1) :
          a8.bytes[i] = IF i \in (s + 12)..(s + 12 + Prefix - 1) THEN c ELSE a7.bytes[i]
    BY <1>11, <1>16 DEF Patched
  <2>2. \A i \in 0..(size - 1) :
          a9.bytes[i] = IF i \in (s + 8)..(s + 8 + Prefix - 1) THEN l ELSE a8.bytes[i]
    BY <1>17, <1>18 DEF Patched
  <2>3. s + 12 + Prefix - 1 = s + 15 /\ s + 8 + Prefix - 1 = s + 11
    BY <1>2, ByteValues
  <2>. QED BY ZenonT(60), <2>1, <2>2, <2>3
<1>21. Longer(e, a9, 26 + key + v)
  <2>1. \A i \in 0..(s - 1) : a7.bytes[i] = e.bytes[i]
    BY <1>12 DEF Longer
  <2>2. \A i \in 0..(s - 1) : a9.bytes[i] = a7.bytes[i]
    BY <1>2, <1>20
  <2>3. a9.size = e.size + (26 + key + v)
    BY <1>2, <1>19
  <2>. QED BY SMTT(60), <1>19, <2>1, <2>2, <2>3 DEF Longer
<1>22. HasEntry(a9.bytes, s, key, v, attributes)
  <2> DEFINE b == a9.bytes
  <2>1. \A i \in s..(s + 7) : b[i] = [is |-> "data"]
    BY SMTT(60), <1>2, <1>13, <1>20, ByteValues
  <2>2. \A i \in (s + 8)..(s + 11) : b[i] = [is |-> "length", n |-> AsInt(size - s - 12)]
    BY SMTT(60), <1>2, <1>20, ByteValues
  <2>3. /\ b[s + 16] = [is |-> "data"] /\ b[s + 17] = attributes
    BY SMTT(60), <1>2, <1>14, <1>20, ByteValues
  <2>4. \A i \in (s + 18)..(s + 21) :
          b[i] = [is |-> "length", n |-> IF key = 0 THEN -1 ELSE key]
    BY SMTT(60), <1>2, <1>15, <1>20, ByteValues
  <2>5. \A i \in (s + 22)..(s + 21 + key) : b[i] = [is |-> "data"]
    BY SMTT(60), <1>2, <1>15, <1>20, ByteValues
  <2>6. \A i \in (s + 22 + key)..(s + 25 + key) :
          b[i] = [is |-> "length", n |-> IF v = 0 THEN -1 ELSE AsInt(v)]
    BY SMTT(60), <1>2, <1>11, <1>20, ByteValues
  <2>7. \A i \in (s + 26 + key)..(size - 1) : b[i] = [is |-> "data"]
    BY <1>2, <1>11, <1>20, ByteValues
  <2> DEFINE f == [j \in 1..(size - s - 16) |-> b[s + 15 + j]]
  <2>8. Covered(a7, s + 16, size) = f
    <3>1. size - (s + 16) = size - s - 16
      BY SMTT(60), <1>2
    <3>2. \A j \in 1..(size - s - 16) : a7.bytes[(s + 16) + j - 1] = b[s + 15 + j]
      <4> TAKE j \in 1..(size - s - 16)
      <4>1. (s + 16) + j - 1 = s + 15 + j /\ s + 15 + j \in 0..(size - 1)
            /\ ~(s + 15 + j \in (s + 8)..(s + 11)) /\ ~(s + 15 + j \in (s + 12)..(s + 15))
        BY SMTT(60), <1>2
      <4>. QED BY <4>1, <1>20
    <3> HIDE DEF b, size
    <3>. QED BY Zenon, <3>1, <3>2 DEF Covered
  <2>9. \A i \in (s + 12)..(s + 15) : b[i] = [is |-> "crc", of |-> f]
    <3>1. c = [is |-> "crc", of |-> f]
      BY Zenon, <2>8, ByteValues
    <3>2. \A i \in (s + 12)..(s + 15) : i \in 0..(size - 1) /\ ~(i \in (s + 8)..(s + 11))
      BY <1>2
    <3> HIDE DEF c, f, b
    <3>. QED BY SMTT(60), <3>1, <3>2, <1>20 DEF b
  <2>. QED BY ZenonT(60), <2>1, <2>2, <2>3, <2>4, <2>5, <2>6, <2>7, <2>9 DEF HasEntry
<1>. QED BY <1>1, <1>19, <1>21, <1>22

\* The encoder is at its end unless there was an error.
Good(e) == ok(e) => AtEnd(e)

\* After an error nothing is written.
LEMMA IoIntGood ==
  ASSUME NEW x, Good(x), NEW n \in Nat, NEW what, NEW y, y = IoInt(x, n, what)
  PROVE  Good(y) /\ (ok(y) => ok(x))
<1>1. CASE ok(x)
  <2>1. Longer(x, y, n)
    BY ZenonT(60), <1>1, IoIntAppends DEF Good
  <2>. QED BY ZenonT(60), <1>1, <2>1 DEF Longer, Good
<1>2. CASE ~ok(x)
  BY <1>2 DEF IoInt, Good
<1>. QED BY <1>1, <1>2

\* A key or a value that is too long is an error.
LEMMA SliceGood ==
  ASSUME NEW x, Good(x), NEW len \in Nat, MaxInt \in Nat, NEW y, y = IoSlice(x, 4, len)
  PROVE  Good(y) /\ (ok(y) => ok(x) /\ len <= MaxInt)
<1>1. CASE ok(x) /\ len <= MaxInt
  <2>1. AtEnd(y)
    BY ZenonT(60), <1>1, SliceOfEntry DEF Good
  <2>. QED BY <1>1, <2>1 DEF Good
<1>2. CASE ok(x) /\ ~(len <= MaxInt)
  <2>1. len > MaxInt /\ 4 # 2
    BY <1>2
  <2>2. y = set_err(x, "INVALID_VALUE")
    BY <1>2, <2>1 DEF IoSlice
  <2>3. y.err = "INVALID_VALUE"
    BY <1>2, <2>2, FailStays DEF Good
  <2>. QED BY <2>3 DEF Good, ok
<1>3. CASE ~ok(x)
  BY <1>3 DEF IoSlice, Good
<1>. QED BY <1>1, <1>2, <1>3

\* A message that was encoded without error is not too long, and there was no
\* error before it.
LEMMA OkEntry ==
  ASSUME NEW e, Good(e), NEW key \in Nat, NEW value \in Nat, MaxInt \in Nat, NEW attributes,
         NEW comp, comp = "None", NEW n, ok(EntryCalls(e, key, value, attributes, comp, n))
  PROVE  ok(e) /\ key <= MaxInt /\ value <= MaxInt
<1> DEFINE a1 == IoInt(e, 8, Data)
           a2 == Reserve(a1)
           a3 == Reserve(a2)
           a4 == IoInt(a3, 1, Data)
           a5 == IoInt(a4, 1, attributes)
           a6 == IoSlice(a5, 4, key)
           a7 == IoSlice(a6, 4, value)
           a8 == end_crc(a7, a2.cursor)
           a9 == end_length(a8, e.cursor + 8)
<1>1. ok(a9)
  BY ZenonT(60) DEF EntryCalls
<1>2. Good(a1) /\ (ok(a1) => ok(e))
  BY IoIntGood
<1> HIDE DEF a1
<1>3. \A x, y : Good(x) /\ y = Reserve(x) => Good(y) /\ (ok(y) => ok(x))
  <2>1. Prefix \in Nat
    BY ByteValues
  <2>. QED BY <2>1, IoIntGood, ReserveIsIo
<1>4. Good(a2) /\ (ok(a2) => ok(a1))
  BY <1>2, <1>3
<1> HIDE DEF a2
<1>5. Good(a3) /\ (ok(a3) => ok(a2))
  BY <1>3, <1>4
<1> HIDE DEF a3
<1>6. Good(a4) /\ (ok(a4) => ok(a3))
  BY <1>5, IoIntGood
<1> HIDE DEF a4
<1>7. Good(a5) /\ (ok(a5) => ok(a4))
  BY <1>6, IoIntGood
<1> HIDE DEF a5
<1>8. Good(a6) /\ (ok(a6) => ok(a5) /\ key <= MaxInt)
  BY ZenonT(60), <1>7, SliceGood
<1> HIDE DEF a6
<1>9. Good(a7) /\ (ok(a7) => ok(a6) /\ value <= MaxInt)
  BY ZenonT(60), <1>8, SliceGood
<1> HIDE DEF a7
<1>10. ok(a7)
  <2>1. ok(a8)
    <3> HIDE DEF a8
    <3>. QED BY ZenonT(60), <1>1 DEF end_length
  <2>. QED BY ZenonT(60), <2>1 DEF end_crc
<1>. QED BY <1>2, <1>4, <1>5, <1>6, <1>7, <1>8, <1>9, <1>10

\* n messages one after the other: u[k] is the encoder after k of them, and f[k]
\* the size of those.
Entries(u, f, msgs, n, attributes) ==
  /\ \A k \in 1..n : msgs[k].key \in Nat /\ msgs[k].value \in Nat
  /\ f \in [0..n -> Nat] /\ f[0] = 0
  /\ \A k \in 1..n :
       /\ f[k] = f[k - 1] + (26 + msgs[k].key + msgs[k].value)
       /\ u[k] = EntryCalls(u[k - 1], msgs[k].key, msgs[k].value, attributes, "None", 0)

\* They take the room of each of them.
LEMMA EntriesAppend ==
  ASSUME NEW n \in Nat, NEW u, NEW f, NEW msgs, NEW attributes,
         AtEnd(u[0]), Overhead \in Nat, MaxInt \in Nat,
         Entries(u, f, msgs, n, attributes), ok(u[n])
  PROVE  Longer(u[0], u[n], f[n])
<1> USE DEF Entries
<1> DEFINE T == {k \in 0..n : ~(ok(u[k]) => Longer(u[0], u[k], f[k]))}
<1>1. T = {}
  <2> SUFFICES ASSUME T # {} PROVE FALSE
    OBVIOUS
  <2>1. T \in SUBSET Nat
    OBVIOUS
  <2>2. PICK k \in T : \A j \in T : k <= j
    BY Zenon, <2>1, LeastNumber
  <2>3. k \in 0..n /\ ok(u[k]) /\ ~Longer(u[0], u[k], f[k])
    OBVIOUS
  <2>4. u[0].size \in Nat
    BY AtEndTypes
  <2>5. k # 0
    <3>1. Longer(u[0], u[0], f[0])
      BY SMTT(60), <2>4 DEF Longer
    <3>. QED BY SMTT(60), <3>1, <2>3
  <2>6. k \in 1..n /\ k - 1 \in 0..n /\ k - 1 \notin T
    <3> HIDE DEF T
    <3>. QED BY SMTT(60), <2>1, <2>2, <2>3, <2>5
  <2> DEFINE a == u[k - 1]
             key == msgs[k].key
             value == msgs[k].value
  <2>7. (ok(a) => Longer(u[0], a, f[k - 1])) /\ f[k - 1] \in Nat /\ key \in Nat /\ value \in Nat
    BY SMTT(60), <2>6
  <2>8. PICK comp, z : comp = "None" /\ z = 0
    OBVIOUS
  <2>9. u[k] = EntryCalls(a, key, value, attributes, comp, z) /\ f[k] = f[k - 1] + (26 + key + value)
    BY Zenon, <2>6, <2>8
  <2> HIDE DEF a, key, value
  <2>10. ok(a) /\ key <= MaxInt /\ value <= MaxInt
    <3>1. Good(a)
      BY <2>7 DEF Good, Longer
    <3>2. ok(EntryCalls(a, key, value, attributes, comp, z)) /\ comp = "None"
      BY ZenonT(60), <2>3, <2>8, <2>9
    <3>. QED BY ZenonT(60), <2>7, <3>1, <3>2, OkEntry
  <2>11. Longer(a, u[k], 26 + key + value)
    <3>1. AtEnd(a)
      BY ZenonT(60), <2>7, <2>10 DEF Longer
    <3>2. IF comp = "None" THEN value = value /\ value <= MaxInt
          ELSE z = value /\ z \in 1..(value + Overhead)
      BY <2>8, <2>10
    <3>. QED BY SMTT(60), <2>7, <2>9, <2>10, <3>1, <3>2, EntryAppends
  <2>12. 26 + key + value \in Nat
    BY <2>7
  <2>13. Longer(u[0], u[k], f[k])
    <3>1. PICK x, y, b, j : /\ x = u[0] /\ y = u[k] /\ b = 26 + key + value /\ j = f[k]
      OBVIOUS
    <3>2. PICK c \in Nat : c = f[k - 1]
      BY ZenonT(60), <2>7
    <3>3. b \in Nat /\ j = c + b /\ x.size \in Nat /\ Longer(x, a, c) /\ Longer(a, y, b)
      BY ZenonT(60), <2>4, <2>7, <2>9, <2>10, <2>11, <2>12, <3>1, <3>2
    <3>4. Longer(x, y, j)
      BY SMTT(60), <3>2, <3>3, LongerStill
    <3>. QED BY ZenonT(60), <3>1, <3>4
  <2>. QED BY <2>3, <2>13
<1>2. n \in 0..n
  OBVIOUS
<1>. QED BY Zenon, <1>1, <1>2
-------------------------------------------------------------------------------
(* The invariant *)

\* Field f of e holds what belongs there: FieldsStand, for one field.
Stands(f, e) ==
  \A i \in f.at..(f.at + Prefix - 1) :
    e.bytes[i] = IF f.kind = "length" THEN Length(AsInt(f.end - f.at - Prefix))
                 ELSE Checksum(Covered(e, f.at + Prefix, f.end))

\* A field that was ended is after the packet's own prefix and before the end.
Inside(f, size) ==
  f.at \in Nat /\ f.end \in Nat /\ Prefix <= f.at /\ f.at + Prefix <= f.end /\ f.end <= size

\* The fields in q lie one behind the other.
InOrder(q, size) ==
  \A k \in 1..Len(q) : /\ Prefix <= q[k].at /\ q[k].at + Prefix <= size
                       /\ \A j \in 1..(k - 1) : q[j].at + Prefix <= q[k].at

\* What an open field will overwrite is no part of what an ended one has or covers.
Apart(q, ended) ==
  \A f \in ended : \A k \in 1..Len(q) : q[k].at + Prefix <= f.at \/ f.end <= q[k].at

OpenFields == [kind : {"length", "crc"}, at : Nat]

EncInv ==
  /\ AtEnd(enc)
  /\ open \in Seq(OpenFields)
  /\ \A f \in closed : Inside(f, enc.size) /\ Stands(f, enc)
  /\ ok(enc) => InOrder(open, enc.size) /\ Apart(open, closed)
  /\ head # <<>> => AtEnd(head[1])
  /\ FrameIsExact

\* A field stands as long as nothing is written over it or what it covers.
LEMMA StandsOn ==
  ASSUME NEW f, NEW e, NEW r, NEW size, Inside(f, size), Stands(f, e),
         \A i \in f.at..(f.end - 1) : r.bytes[i] = e.bytes[i]
  PROVE  Stands(f, r)
<1>1. PICK a \in Nat, b \in Nat : a = f.at /\ b = f.end /\ a + 4 <= b
  BY DEF Inside, Prefix
<1>2. Covered(r, a + 4, b) = Covered(e, a + 4, b)
  <2>1. \A i \in 1..(b - (a + 4)) : a + 4 + i - 1 \in a..(b - 1)
    BY <1>1
  <2>2. \A i \in 1..(b - (a + 4)) : r.bytes[a + 4 + i - 1] = e.bytes[a + 4 + i - 1]
    BY <1>1, <2>1
  <2>. QED BY <2>2, Zenon DEF Covered
<1>3. \A i \in a..(a + 4 - 1) : i \in a..(b - 1)
  BY <1>1
<1>. QED BY <1>1, <1>2, <1>3 DEF Stands, Prefix

\* What was ended stays so when bytes are appended.
LEMMA FieldsLonger ==
  ASSUME NEW e, AtEnd(e), NEW n \in Nat, NEW r, Longer(e, r, n),
         NEW f, Inside(f, e.size), Stands(f, e)
  PROVE  Inside(f, r.size) /\ Stands(f, r)
<1>1. e.size \in Nat /\ r.size = e.size + n
  BY DEF AtEnd, Fits, Longer
<1>2. Inside(f, r.size)
  BY <1>1 DEF Inside
<1>3. \A i \in f.at..(f.end - 1) : i \in 0..(e.size - 1)
  BY SMTT(60), <1>1 DEF Inside
<1>4. \A i \in f.at..(f.end - 1) : r.bytes[i] = e.bytes[i]
  BY <1>3 DEF Longer
<1>. QED BY <1>2, <1>4, StandsOn

\* What was ended stays so when a field outside it is filled in.
LEMMA FieldsPatched ==
  ASSUME NEW e, AtEnd(e), NEW r, NEW at \in Nat, NEW what, Patched(e, r, at, what),
         NEW f, Inside(f, e.size), Stands(f, e), at + Prefix <= f.at \/ f.end <= at
  PROVE  Inside(f, r.size) /\ Stands(f, r)
<1>1. e.size \in Nat /\ r.size = e.size
  BY DEF AtEnd, Fits, Patched
<1>2. \A i \in f.at..(f.end - 1) : i \in 0..(e.size - 1) /\ ~(i \in at..(at + Prefix - 1))
  BY SMTT(60), <1>1 DEF Inside, Prefix
<1>3. \A i \in f.at..(f.end - 1) : r.bytes[i] = e.bytes[i]
  BY <1>2 DEF Patched
<1>. QED BY <1>1, <1>3, StandsOn

\* Where the open fields are.
LEMMA OpenTypes ==
  ASSUME EncInv
  PROVE  \A k \in 1..Len(open) : open[k] \in OpenFields /\ open[k].at \in Nat
<1>1. \A k \in 1..Len(open) : open[k] \in OpenFields
  BY DEF EncInv
<1>2. \A x \in OpenFields : x.at \in Nat
  BY DEF OpenFields
<1>. QED BY <1>1, <1>2

\* The last packet stays what it was.
LEMMA FrameKept ==
  ASSUME EncInv, UNCHANGED <<head, sent>>
  PROVE  (head # <<>> => AtEnd(head[1]))' /\ FrameIsExact'
BY ZenonT(60) DEF EncInv, FrameIsExact

\* A step that hands nothing over keeps the invariant if it keeps the encoder's part.
LEMMA EncoderStep ==
  ASSUME EncInv, UNCHANGED <<head, sent>>, AtEnd(enc'), open' \in Seq(OpenFields),
         \A f \in closed' : Inside(f, enc'.size) /\ Stands(f, enc'),
         ok(enc') => InOrder(open', enc'.size) /\ Apart(open', closed')
  PROVE  EncInv'
<1>1. (head # <<>> => AtEnd(head[1]))' /\ FrameIsExact'
  BY ZenonT(60), FrameKept
<1>. QED BY ZenonT(60), <1>1 DEF EncInv

\* A failed encoder is left as it is.
LEMMA FailedStep ==
  ASSUME EncInv, ~ok(enc), enc' = enc, UNCHANGED <<closed, head, sent>>, open' \in Seq(OpenFields)
  PROVE  EncInv'
<1>1. AtEnd(enc') /\ (\A f \in closed' : Inside(f, enc'.size) /\ Stands(f, enc')) /\ ~ok(enc')
  BY ZenonT(60) DEF EncInv
<1>. QED BY ZenonT(60), <1>1, EncoderStep

\* Bytes are appended, or an error is noted, with the same fields open and ended.
LEMMA LongerInv ==
  ASSUME EncInv, NEW n \in Nat, Longer(enc, enc', n), ok(enc') => ok(enc),
         UNCHANGED <<open, closed, head, sent>>
  PROVE  EncInv'
<1>1. AtEnd(enc) /\ enc.size \in Nat /\ enc'.size = enc.size + n /\ AtEnd(enc')
  BY DEF EncInv, AtEnd, Fits, Longer
<1>2. \A f \in closed : Inside(f, enc'.size) /\ Stands(f, enc')
  BY ZenonT(60), <1>1, FieldsLonger DEF EncInv
<1>3. ASSUME ok(enc') PROVE InOrder(open, enc'.size) /\ Apart(open, closed)
  <2>1. InOrder(open, enc.size) /\ Apart(open, closed)
    BY <1>3 DEF EncInv
  <2>2. \A k \in 1..Len(open) : open[k].at \in Nat
    BY OpenTypes
  <2>3. PICK a \in Nat, b \in Nat : a = enc.size /\ b = enc'.size /\ a <= b
    BY <1>1
  <2>4. \A k \in 1..Len(open) : open[k].at + Prefix <= b
    <3>1. Prefix \in Nat /\ \A k \in 1..Len(open) : open[k].at + Prefix <= a
      BY <2>1, <2>3 DEF InOrder, Prefix
    <3>. QED BY <2>2, <2>3, <3>1
  <2>. QED BY ZenonT(60), <2>1, <2>3, <2>4 DEF InOrder
<1>4. /\ open' \in Seq(OpenFields)
      /\ \A f \in closed' : Inside(f, enc'.size) /\ Stands(f, enc')
      /\ ok(enc') => InOrder(open', enc'.size) /\ Apart(open', closed')
  BY ZenonT(60), <1>2, <1>3 DEF EncInv
<1>. QED BY ZenonT(60), <1>1, <1>4, EncoderStep

\* The number of bytes of a slice without its prefix.
LEMMA SliceSize ==
  ASSUME NEW e, AtEnd(e)
  PROVE  Size(AsSlice(e)) = e.size - Prefix /\ e.size - Prefix \in Nat
<1>1. PICK k \in Nat : k = e.size - Prefix
  BY DEF AtEnd, Fits, Prefix
<1> DEFINE b == AsSlice(e)
<1>2. DOMAIN b = 0..(k - 1)
  BY <1>1 DEF AsSlice
<1> HIDE DEF b
<1> DEFINE S == {0} \cup {i + 1 : i \in DOMAIN b}
<1>3. k \in S
  <2>1. CASE k = 0
    BY <2>1
  <2>2. CASE k # 0
    <3>1. k - 1 \in DOMAIN b /\ k = (k - 1) + 1
      BY <1>2, <2>2
    <3>. QED BY <3>1
  <2>. QED BY <2>1, <2>2
<1>4. ASSUME NEW n \in S, DOMAIN b = 0..(n - 1) PROVE n = k
  <2>1. n \in Nat
    BY <1>2
  <2>2. 0..(n - 1) = 0..(k - 1)
    BY <1>2, <1>4
  <2>3. ~(n < k)
    <3> SUFFICES ASSUME n < k PROVE FALSE
      OBVIOUS
    <3>1. n \in 0..(k - 1) /\ n \notin 0..(n - 1)
      BY <2>1
    <3>. QED BY <3>1, <2>2
  <2>4. ~(k < n)
    <3> SUFFICES ASSUME k < n PROVE FALSE
      OBVIOUS
    <3>1. k \in 0..(n - 1) /\ k \notin 0..(k - 1)
      BY <2>1
    <3>. QED BY <3>1, <2>2
  <2>. QED BY <2>1, <2>3, <2>4
<1>5. Size(b) = k
  BY ZenonT(60), <1>2, <1>3, <1>4 DEF Size
<1>. QED BY <1>1, <1>5 DEF b

\* What update_length does to the bytes.
LEMMA LengthUpdated ==
  ASSUME NEW e, AtEnd(e), ok(e), NEW extra \in Nat, NEW r, r = update_length(e, extra)
  PROVE  /\ Patched(e, r, 0, Length(AsInt(e.size - Prefix + extra)))
         /\ AtEnd(r) /\ r.size = e.size /\ r.err = e.err
         /\ \A i \in 0..3 : r.bytes[i] = Length(AsInt(e.size - Prefix + extra))
<1> DEFINE l == Length(AsInt(e.size - Prefix + extra))
<1>1. PICK at \in Nat : at = 0 /\ at + Prefix <= e.size
  BY DEF AtEnd, Fits, Prefix
<1>2. Patched(e, r, at, l)
  <2>1. r = Patch(e, at, l)
    BY ZenonT(60), <1>1 DEF update_length
  <2> HIDE DEF l
  <2>. QED BY ZenonT(60), <1>1, <2>1, PatchWrites
<1> HIDE DEF l
<1>3. AtEnd(r) /\ r.size = e.size /\ r.err = e.err
  BY <1>2 DEF Patched
<1>4. \A i \in 0..3 : r.bytes[i] = l
  <2>1. \A i \in 0..3 : i \in 0..(e.size - 1) /\ i \in at..(at + Prefix - 1)
    BY <1>1 DEF AtEnd, Fits, Prefix
  <2>. QED BY <2>1, <1>2 DEF Patched
<1>. QED BY <1>1, <1>2, <1>3, <1>4 DEF l

\* Bytes that start with their number are a packet.
LEMMA PacketIsExact ==
  ASSUME NEW b, NEW n \in Nat, DOMAIN b = 0..(4 + n - 1), MaxInt \in Nat,
         \A i \in 0..3 : b[i] = Length(AsInt(n))
  PROVE  \/ Prefix + MaxInt \in DOMAIN b
         \/ /\ \A i \in 0..(Prefix - 1) : b[i] = b[0]
            /\ b[0].is = "length" /\ DOMAIN b = 0..(Prefix + b[0].n - 1)
<1>1. Prefix = 4 /\ Prefix - 1 = 3 /\ 0 \in 0..3
  BY DEF Prefix
<1>2. CASE n <= MaxInt
  <2>1. AsInt(n) = n
    BY <1>2, AsIntFits
  <2>2. b[0] = Length(n) /\ \A i \in 0..3 : b[i] = b[0]
    BY <2>1
  <2>3. b[0].is = "length" /\ b[0].n = n
    BY <2>2 DEF Length
  <2>. QED BY SMTT(60), <1>1, <2>2, <2>3
<1>3. CASE ~(n <= MaxInt)
  BY SMTT(60), <1>1, <1>3
<1>. QED BY <1>2, <1>3

\* The length prefix of the packet is not part of any field.
LEMMA TakeFrameInv == EncInv /\ TakeFrame => EncInv'
<1> SUFFICES ASSUME EncInv, TakeFrame PROVE EncInv'
  OBVIOUS
<1>1. /\ AtEnd(enc) /\ ok(enc) /\ enc' = update_length(enc, 0) /\ sent' = enc'.bytes
      /\ UNCHANGED <<open, closed, head>>
  BY DEF EncInv, TakeFrame
<1>2. PICK zero \in Nat, n \in Nat : zero = 0 /\ n = enc.size - Prefix + zero /\ Prefix = 4
  BY <1>1 DEF AtEnd, Fits, Prefix
<1>3. /\ Patched(enc, enc', 0, Length(AsInt(n)))
      /\ AtEnd(enc') /\ enc'.size = enc.size /\ enc'.err = enc.err
      /\ \A i \in 0..3 : enc'.bytes[i] = Length(AsInt(n))
  <2>1. enc' = update_length(enc, zero)
    BY ZenonT(60), <1>1, <1>2
  <2>2. PICK l : l = Length(AsInt(enc.size - Prefix + zero)) /\ l = Length(AsInt(n))
    BY ZenonT(60), <1>2
  <2>3. /\ Patched(enc, enc', 0, l)
        /\ AtEnd(enc') /\ enc'.size = enc.size /\ enc'.err = enc.err
        /\ \A i \in 0..3 : enc'.bytes[i] = l
    <3>1. \A r : r = update_length(enc, zero) =>
            /\ Patched(enc, r, 0, Length(AsInt(enc.size - Prefix + zero)))
            /\ AtEnd(r) /\ r.size = enc.size /\ r.err = enc.err
            /\ \A i \in 0..3 : r.bytes[i] = Length(AsInt(enc.size - Prefix + zero))
      <4>1. AtEnd(enc) /\ ok(enc) /\ zero \in Nat
        BY <1>1
      <4>. QED BY ZenonT(60), <4>1, LengthUpdated
    <3>. QED BY ZenonT(60), <2>1, <2>2, <3>1
  <2>. QED BY ZenonT(60), <2>2, <2>3
<1>4. FrameIsExact'
  <2>1. enc'.bytes = [i \in 0..(enc'.size - 1) |-> enc'.bytes[i]]
    BY <1>3 DEF AtEnd, Fits
  <2>2. DOMAIN enc'.bytes = 0..(enc'.size - 1)
    BY <2>1, ZenonT(60)
  <2>3. enc'.size - 1 = 4 + n - 1
    BY <1>1, <1>2, <1>3 DEF AtEnd, Fits
  <2>4. DOMAIN sent' = 0..(4 + n - 1) /\ \A i \in 0..3 : sent'[i] = Length(AsInt(n))
    BY ZenonT(60), <1>1, <1>3, <2>2, <2>3
  <2>5. MaxInt \in Nat
    BY EncoderAssumption
  <2>. QED BY ZenonT(60), <1>2, <2>4, <2>5, PacketIsExact DEF FrameIsExact
<1>5. ASSUME NEW f \in closed PROVE Inside(f, enc'.size) /\ Stands(f, enc')
  <2>1. Inside(f, enc.size) /\ Stands(f, enc)
    BY DEF EncInv
  <2>2. 0 + Prefix <= f.at /\ 0 \in Nat
    BY <1>2, <2>1 DEF Inside
  <2>. QED BY ZenonT(60), <1>1, <1>3, <2>1, <2>2, FieldsPatched
<1>. QED BY <1>1, <1>3, <1>4, <1>5 DEF EncInv, ok

\* The encoder of a header is at its end, also when the client id is too long.
LEMMA HeaderAtEnd ==
  ASSUME NEW len \in Nat
  PROVE  AtEnd(HeaderIo(len))
<1>1. ASSUME NEW e, AtEnd(e), ok(e), NEW n \in Nat, NEW r, r = IoInt(e, n, Data)
      PROVE  AtEnd(r) /\ ok(r)
  BY ZenonT(60), <1>1, IoIntAppends DEF Longer, ok
<1> DEFINE a == NewEncoder(20)
           b == IoInt(a, 2, Data)
           c == IoInt(b, 2, Data)
           d == IoInt(c, 4, Data)
           h == IoSlice(d, 2, len)
<1>2. AtEnd(a) /\ ok(a)
  BY NewEncoderAtEnd
<1> HIDE DEF a
<1>3. AtEnd(b) /\ ok(b)
  BY <1>1, <1>2
<1> HIDE DEF b
<1>4. AtEnd(c) /\ ok(c)
  BY <1>1, <1>3
<1> HIDE DEF c
<1>5. AtEnd(d) /\ ok(d)
  BY <1>1, <1>4
<1> HIDE DEF d
<1>6. h = set_err(d, "INVALID_VALUE") \/ Longer(d, h, 2 + len)
  BY <1>5, SliceAppends
<1> HIDE DEF h
<1>7. AtEnd(h)
  BY <1>5, <1>6, FailStays DEF Longer
<1>. QED BY <1>7 DEF HeaderIo, h, d, c, b, a

\* The two buffers of a request are one packet.
LEMMA EncodeRequestInv == EncInv /\ encode_request => EncInv'
<1> SUFFICES ASSUME EncInv, encode_request PROVE EncInv'
  OBVIOUS
<1>1. PICK len \in Lengths :
        LET header == IF head = <<>> THEN HeaderIo(len) ELSE head[1]
            request == AsSlice(enc)
        IN \/ /\ ok(header)
              /\ head' = <<update_length(header, Size(request))>>
              /\ sent' = Joined(head'[1], request)
           \/ ~ok(header) /\ head' = <<header>> /\ UNCHANGED sent
  BY DEF encode_request
<1>2. len \in Nat /\ AtEnd(enc) /\ UNCHANGED <<enc, open, closed>>
  BY RequestAssumption DEF EncInv, encode_request
<1> DEFINE h == IF head = <<>> THEN HeaderIo(len) ELSE head[1]
           b == AsSlice(enc)
<1>3. AtEnd(h)
  BY <1>2, HeaderAtEnd DEF EncInv
<1>4. \/ /\ ok(h) /\ head' = <<update_length(h, Size(b))>> /\ sent' = Joined(head'[1], b)
      \/ ~ok(h) /\ head' = <<h>> /\ UNCHANGED sent
  BY ZenonT(60), <1>1
<1> HIDE DEF h, b
<1>5. CASE ~ok(h) /\ head' = <<h>> /\ UNCHANGED sent
  <2>1. head'[1] = h
    BY <1>5
  <2>2. FrameIsExact'
    BY <1>5 DEF EncInv, FrameIsExact
  <2>. QED BY <1>2, <1>3, <2>1, <2>2 DEF EncInv
<1>6. CASE ok(h) /\ head' = <<update_length(h, Size(b))>> /\ sent' = Joined(head'[1], b)
  <2>1. PICK k \in Nat, n \in Nat, s \in Nat :
          k = Size(b) /\ s = h.size /\ n = s - Prefix + k /\ Prefix = 4 /\ 4 <= s
    <3>1. Size(b) \in Nat
      BY <1>2, SliceSize DEF b
    <3>. QED BY <1>3, <3>1 DEF AtEnd, Fits, Prefix
  <2>2. PICK r : r = update_length(h, Size(b)) /\ r = head'[1]
    BY <1>6
  <2>3. AtEnd(r) /\ r.size = s /\ \A i \in 0..3 : r.bytes[i] = Length(AsInt(n))
    <3>1. r = update_length(h, k) /\ n = h.size - Prefix + k
      BY ZenonT(60), <2>1, <2>2
    <3>2. /\ AtEnd(r) /\ r.size = h.size
          /\ \A i \in 0..3 : r.bytes[i] = Length(AsInt(h.size - Prefix + k))
      BY ZenonT(60), <1>3, <1>6, <3>1, LengthUpdated
    <3>. QED BY ZenonT(60), <2>1, <3>1, <3>2
  <2>4. sent' = [i \in 0..(s + k - 1) |-> IF i < s THEN r.bytes[i] ELSE b[i - s]]
    BY ZenonT(60), <1>6, <2>1, <2>2, <2>3 DEF Joined
  <2>5. s + k - 1 = 4 + n - 1 /\ \A i \in 0..3 : i \in 0..(s + k - 1) /\ i < s
    BY <2>1
  <2>6. DOMAIN sent' = 0..(4 + n - 1) /\ \A i \in 0..3 : sent'[i] = Length(AsInt(n))
    BY ZenonT(60), <2>3, <2>4, <2>5
  <2>7. MaxInt \in Nat
    BY EncoderAssumption
  <2>8. FrameIsExact'
    BY ZenonT(60), <2>1, <2>6, <2>7, PacketIsExact DEF FrameIsExact
  <2>. QED BY <1>2, <2>2, <2>3, <2>8 DEF EncInv
<1>. QED BY <1>4, <1>5, <1>6

\* Integers, strings and byte arrays are appended, or an error is noted.
LEMMA WriteInv ==
  EncInv /\ (WriteInt \/ WriteSlice) => EncInv'
<1> SUFFICES ASSUME EncInv, WriteInt \/ WriteSlice PROVE EncInv'
  OBVIOUS
<1>1. AtEnd(enc) /\ UNCHANGED <<open, closed, head, sent>>
  BY DEF EncInv, WriteInt, WriteSlice
<1>2. CASE WriteInt
  <2>1. PICK n \in {1, 2, 4, 8} : enc' = IoInt(enc, n, Data)
    BY <1>2 DEF WriteInt
  <2>2. CASE ok(enc)
    BY SMTT(60), <1>1, <2>1, <2>2, IoIntAppends, LongerInv
  <2>3. CASE ~ok(enc)
    <3>1. enc' = enc
      BY ZenonT(60), <2>1, <2>3 DEF IoInt
    <3>2. open' \in Seq(OpenFields)
      BY ZenonT(60), <1>1 DEF EncInv
    <3>. QED BY ZenonT(60), <1>1, <2>3, <3>1, <3>2, FailedStep
  <2>. QED BY <2>2, <2>3
<1>3. CASE WriteSlice
  <2>1. PICK w \in {2, 4}, len \in Lengths : enc' = IoSlice(enc, w, len)
    BY SMTT(60), <1>3 DEF WriteSlice
  <2>2. ok(enc) /\ len \in Nat /\ w + len \in Nat
    BY <1>3, RequestAssumption DEF WriteSlice
  <2>3. CASE enc' = set_err(enc, "INVALID_VALUE")
    <3>1. Longer(enc, enc', 0)
      BY <1>1, <2>3, FailStays
    <3>. QED BY <1>1, <2>2, <3>1, LongerInv
  <2>4. CASE Longer(enc, enc', w + len)
    BY SMTT(60), <1>1, <2>2, <2>4, LongerInv
  <2>. QED BY SMTT(60), <1>1, <2>1, <2>2, <2>3, <2>4, SliceAppends
<1>. QED BY <1>2, <1>3

\* A byte array that was compressed brings an ended field with it.
LEMMA WriteCompressedInv ==
  EncInv /\ WriteCompressed => EncInv'
<1> SUFFICES ASSUME EncInv, WriteCompressed PROVE EncInv'
  OBVIOUS
<1>1. AtEnd(enc) /\ ok(enc) /\ Overhead \in Nat /\ enc.size \in Nat /\ enc.cursor = enc.size
      /\ Prefix = 4 /\ 4 <= enc.size /\ UNCHANGED <<open, head, sent>>
  BY EncoderAssumption DEF EncInv, WriteCompressed, AtEnd, Fits, Prefix
<1>2. PICK len \in Lengths :
        \/ \E n \in 1..(len + Overhead) :
             /\ enc' = IoCompressed(enc, len, n)
             /\ closed' = closed \cup {[kind |-> "length", at |-> enc.cursor,
                                        end |-> enc.cursor + Prefix + n]}
        \/ enc' \in CompressFails(enc, len) /\ UNCHANGED closed
  BY DEF WriteCompressed
<1>3. len \in Nat
  BY RequestAssumption
<1>6. CASE enc' = set_err(enc, "COMPRESS_FAIL") /\ UNCHANGED closed
  <2>1. Longer(enc, enc', 0)
    BY <1>1, <1>6, FailStays
  <2>. QED BY <1>1, <1>6, <2>1, LongerInv
<1>4. CASE /\ enc' = set_err(Reserve(ensure_space_for(enc, Prefix + len + Overhead)), "COMPRESS_FAIL")
           /\ UNCHANGED closed
  <2> DEFINE g == ensure_space_for(enc, Prefix + len + Overhead)
             s == Reserve(g)
  <2>1. /\ Longer(enc, g, 0) /\ g.err = enc.err /\ g.size = enc.size /\ g.bytes = enc.bytes
    <3>1. Prefix + len + Overhead \in Nat
      BY SMTT(60), <1>1, <1>3
    <3>. QED BY <1>1, <3>1, EnsureAtEnd
  <2>2. AtEnd(g) /\ ok(g)
    BY SMTT(60), <1>1, <2>1 DEF Longer, ok
  <2> HIDE DEF g
  <2>3. Longer(g, s, 4)
    <3>1. s = IoInt(g, 4, Reserved) /\ 4 \in Nat
      BY <1>1, ReserveIsIo
    <3>. QED BY <2>2, <3>1, IoIntAppends
  <2> HIDE DEF s
  <2>4. enc' = set_err(s, "COMPRESS_FAIL")
    BY SMTT(60), <1>4 DEF s, g
  <2>5. Longer(s, enc', 0) /\ AtEnd(s)
    BY SMTT(60), <2>3, <2>4, FailStays DEF Longer
  <2>6. Longer(enc, enc', 4)
    <3>1. s.size = enc.size + 4 /\ enc'.size = enc.size + 4 /\ AtEnd(enc')
      BY <1>1, <2>1, <2>3, <2>5 DEF Longer
    <3>2. \A i \in 0..(enc.size - 1) : i \in 0..(s.size - 1)
      BY SMTT(60), <1>1, <3>1
    <3>. QED BY SMTT(60), <2>1, <2>3, <2>5, <3>1, <3>2 DEF Longer
  <2>. QED BY SMTT(60), <1>1, <1>4, <2>6, LongerInv
<1>5. ASSUME NEW n \in 1..(len + Overhead), enc' = IoCompressed(enc, len, n),
             closed' = closed \cup {[kind |-> "length", at |-> enc.cursor,
                                     end |-> enc.cursor + Prefix + n]}
      PROVE  EncInv'
  <2>1. /\ Longer(enc, enc', Prefix + n) /\ enc'.err = enc.err
        /\ \A i \in enc.size..(enc.size + Prefix - 1) : enc'.bytes[i] = Length(AsInt(n))
    <3>1. AtEnd(enc) /\ ok(enc) /\ len \in Nat /\ Overhead \in Nat
      BY <1>1, <1>3
    <3>2. PICK r : r = IoCompressed(enc, len, n)
      OBVIOUS
    <3>3. /\ Longer(enc, r, Prefix + n) /\ r.err = enc.err
          /\ \A i \in enc.size..(enc.size + Prefix - 1) : r.bytes[i] = Length(AsInt(n))
      BY SMTT(60), <3>1, <3>2, CompressedAppends
    <3>. QED BY ZenonT(60), <1>5, <3>2, <3>3
  <2>2. n \in Nat /\ 4 + n \in Nat /\ AtEnd(enc') /\ enc'.size = enc.size + (4 + n)
    BY <1>1, <1>3, <2>1 DEF Longer
  <2> DEFINE f == [kind |-> "length", at |-> enc.size, end |-> enc.size + 4 + n]
  <2>3. closed' = closed \cup {f}
    BY SMTT(60), <1>1, <1>5
  <2>4. f.kind = "length" /\ f.at = enc.size /\ f.end = enc.size + 4 + n
    OBVIOUS
  <2> HIDE DEF f
  <2>5. Inside(f, enc'.size)
    BY SMTT(60), <1>1, <2>2, <2>4 DEF Inside
  <2>6. Stands(f, enc')
    <3>1. f.end - f.at - Prefix = n
      BY SMTT(60), <1>1, <2>2, <2>4
    <3>. QED BY SMTT(60), <1>1, <2>1, <2>4, <3>1 DEF Stands
  <2>7. \A h \in closed : Inside(h, enc'.size) /\ Stands(h, enc')
    BY SMTT(60), <1>1, <2>1, <2>2, FieldsLonger DEF EncInv
  <2>8. InOrder(open, enc.size) /\ Apart(open, closed)
    BY SMTT(60), <1>1 DEF EncInv
  <2>9. \A k \in 1..Len(open) : open[k].at \in Nat
    BY SMTT(60), OpenTypes
  <2>10. InOrder(open, enc'.size)
    <3>1. \A k \in 1..Len(open) : open[k].at + Prefix <= enc'.size
      <4>1. \A k \in 1..Len(open) : open[k].at + Prefix <= enc.size
        BY SMTT(60), <2>8 DEF InOrder
      <4>. QED BY SMTT(60), <4>1, <1>1, <2>2, <2>9
    <3>. QED BY SMTT(60), <2>8, <3>1 DEF InOrder
  <2>11. Apart(open, closed')
    BY <1>1, <2>3, <2>4, <2>8 DEF Apart, InOrder
  <2>12. \A h \in closed' : Inside(h, enc'.size) /\ Stands(h, enc')
    BY ZenonT(60), <2>3, <2>5, <2>6, <2>7
  <2>13. open' = open /\ open' \in Seq(OpenFields)
    BY ZenonT(60), <1>1 DEF EncInv
  <2>14. InOrder(open', enc'.size) /\ Apart(open', closed')
    BY ZenonT(60), <2>10, <2>11, <2>13
  <2>. QED BY ZenonT(60), <1>1, <2>2, <2>12, <2>13, <2>14, EncoderStep
<1>7. \A x : x \in CompressFails(enc, len) =>
             \/ x = set_err(enc, "COMPRESS_FAIL")
             \/ x = set_err(Reserve(ensure_space_for(enc, Prefix + len + Overhead)), "COMPRESS_FAIL")
  BY DEF CompressFails
<1>. QED BY SMTT(60), <1>2, <1>4, <1>5, <1>6, <1>7

\* A field is opened behind all others.
LEMMA StartFieldInv == EncInv /\ StartField => EncInv'
<1> SUFFICES ASSUME EncInv, StartField PROVE EncInv'
  OBVIOUS
<1>1. AtEnd(enc) /\ enc.size \in Nat /\ enc.cursor = enc.size /\ Prefix = 4 /\ 4 <= enc.size
      /\ UNCHANGED <<closed, head, sent>> /\ enc' = IoInt(enc, 4, Reserved)
  BY ReserveIsIo DEF EncInv, StartField, AtEnd, Fits, Prefix
<1>2. PICK kind \in {"length", "crc"} : open' = Append(open, [kind |-> kind, at |-> enc.cursor])
  BY SMTT(60) DEF StartField
<1> DEFINE g == [kind |-> kind, at |-> enc.size]
<1>3. g \in OpenFields /\ g.at = enc.size /\ open' = Append(open, g) /\ open \in Seq(OpenFields)
  BY Zenon, <1>1, <1>2 DEF OpenFields, EncInv
<1> HIDE DEF g
<1>4. open' \in Seq(OpenFields) /\ Len(open) \in Nat /\ Len(open') = Len(open) + 1
      /\ open'[Len(open) + 1] = g /\ \A k \in 1..Len(open) : open'[k] = open[k]
  <2>1. PICK q, S, q2 : q = open /\ S = OpenFields /\ q2 = open'
    OBVIOUS
  <2>2. q \in Seq(S) /\ g \in S /\ q2 = Append(q, g)
    BY ZenonT(60), <1>3, <2>1
  <2>3. /\ q2 \in Seq(S) /\ Len(q) \in Nat /\ Len(q2) = Len(q) + 1
        /\ q2[Len(q) + 1] = g /\ \A k \in 1..Len(q) : q2[k] = q[k]
    BY SMTT(60), <2>2
  <2>. QED BY ZenonT(60), <2>1, <2>3
<1>5. CASE ~ok(enc)
  <2>1. enc' = enc
    BY ZenonT(60), <1>1, <1>5 DEF IoInt
  <2>. QED BY ZenonT(60), <1>1, <1>4, <1>5, <2>1, FailedStep
<1>6. CASE ok(enc)
  <2>1. Longer(enc, enc', 4) /\ enc'.err = enc.err
    <3>1. 4 \in Nat
      OBVIOUS
    <3>. QED BY SMTT(60), <1>1, <1>6, <3>1, IoIntAppends
  <2>2. AtEnd(enc') /\ enc'.size = enc.size + 4
    BY ZenonT(60), <2>1 DEF Longer
  <2>3. \A h \in closed : Inside(h, enc'.size) /\ Stands(h, enc')
    BY <1>1, <2>1, FieldsLonger DEF EncInv
  <2>4. InOrder(open, enc.size) /\ Apart(open, closed)
    BY <1>6 DEF EncInv
  <2>5. \A k \in 1..Len(open) : open[k].at \in Nat
    BY SMTT(60), OpenTypes
  <2>6. ASSUME NEW k \in 1..Len(open')
        PROVE  /\ Prefix <= open'[k].at /\ open'[k].at + Prefix <= enc'.size
               /\ \A j \in 1..(k - 1) : open'[j].at + Prefix <= open'[k].at
    <3>1. CASE k \in 1..Len(open)
      <4>1. /\ Prefix <= open[k].at /\ open[k].at + Prefix <= enc.size
            /\ \A j \in 1..(k - 1) : open[j].at + Prefix <= open[k].at
        BY SMTT(60), <2>4, <3>1 DEF InOrder
      <4>2. open'[k] = open[k] /\ \A j \in 1..(k - 1) : open'[j] = open[j]
        BY SMTT(60), <1>4, <3>1
      <4>3. open[k].at + Prefix <= enc'.size
        BY SMTT(60), <1>1, <2>2, <2>5, <3>1, <4>1
      <4>. QED BY SMTT(60), <4>1, <4>2, <4>3
    <3>2. CASE k = Len(open) + 1
      <4>1. open'[k].at = enc.size /\ \A j \in 1..(k - 1) : open'[j] = open[j]
        BY SMTT(60), <1>3, <1>4, <3>2
      <4>2. \A j \in 1..(k - 1) : open[j].at + Prefix <= enc.size
        BY SMTT(60), <2>4, <1>4, <3>2 DEF InOrder
      <4>3. Prefix <= enc.size /\ enc.size + Prefix <= enc'.size
        BY <1>1, <2>2
      <4>. QED BY SMTT(60), <4>1, <4>2, <4>3
    <3>. QED BY SMTT(60), <3>1, <3>2, <1>4
  <2>7. ASSUME NEW f \in closed, NEW k \in 1..Len(open')
        PROVE  open'[k].at + Prefix <= f.at \/ f.end <= open'[k].at
    <3>1. CASE k \in 1..Len(open)
      BY SMTT(60), <1>4, <2>4, <3>1 DEF Apart
    <3>2. CASE k = Len(open) + 1
      <4>1. f.end <= enc.size
        BY DEF EncInv, Inside
      <4>. QED BY SMTT(60), <1>3, <1>4, <3>2, <4>1
    <3>. QED BY SMTT(60), <3>1, <3>2, <1>4
  <2>8. InOrder(open', enc'.size) /\ Apart(open', closed')
    BY <1>1, <2>6, <2>7 DEF InOrder, Apart
  <2>9. \A h \in closed' : Inside(h, enc'.size) /\ Stands(h, enc')
    BY ZenonT(60), <1>1, <2>3
  <2>. QED BY ZenonT(60), <1>1, <1>4, <2>2, <2>8, <2>9, EncoderStep
<1>. QED BY <1>5, <1>6

\* The innermost field is filled in: it covers all that was ended since it was
\* opened, and touches nothing else that was.
LEMMA EndFieldInv == EncInv /\ EndField => EncInv'
<1> SUFFICES ASSUME EncInv, EndField PROVE EncInv'
  OBVIOUS
<1> DEFINE n == Len(open)
<1>1. AtEnd(enc) /\ enc.size \in Nat /\ enc.cursor = enc.size /\ Prefix = 4
      /\ UNCHANGED <<head, sent>> /\ open # <<>> /\ open \in Seq(OpenFields)
  BY DEF EncInv, EndField, AtEnd, Fits, Prefix
<1>2. n \in Nat /\ n >= 1 /\ n \in 1..n
  BY <1>1
<1>3. PICK f \in OpenFields : f = open[n]
  BY SMTT(60), <1>1, <1>2, OpenTypes
<1>4. /\ enc' = IF f.kind = "crc" THEN end_crc(enc, f.at) ELSE end_length(enc, f.at)
      /\ closed' = IF ok(enc) THEN closed \cup {[kind |-> f.kind, at |-> f.at, end |-> enc.size]}
                   ELSE closed
      /\ open' = SubSeq(open, 1, n - 1)
  BY SMTT(60), <1>1, <1>3 DEF EndField
<1>5. open' \in Seq(OpenFields) /\ Len(open') = n - 1
      /\ \A k \in 1..(n - 1) : open'[k] = open[k]
  <2>1. PICK m \in Nat : m = n - 1 /\ m - 1 + 1 = m
    BY <1>2
  <2>2. \A k \in 1..m : open[k] \in OpenFields
    BY <1>1, <2>1
  <2>3. /\ SubSeq(open, 1, m) \in Seq(OpenFields)
        /\ Len(SubSeq(open, 1, m)) = IF 1 <= m THEN m - 1 + 1 ELSE 0
        /\ \A k \in 1..(m - 1 + 1) : SubSeq(open, 1, m)[k] = open[1 + k - 1]
    BY <2>2
  <2>4. \A k \in 1..m : 1 + k - 1 = k
    OBVIOUS
  <2>5. /\ SubSeq(open, 1, m) \in Seq(OpenFields) /\ Len(SubSeq(open, 1, m)) = m
        /\ \A k \in 1..m : SubSeq(open, 1, m)[k] = open[k]
    BY SMTT(60), <2>1, <2>3, <2>4
  <2>. QED BY ZenonT(60), <1>4, <2>1, <2>5
<1>6. f.kind \in {"length", "crc"} /\ f.at \in Nat
  BY DEF OpenFields
<1>7. CASE ~ok(enc)
  <2>1. enc' = enc /\ closed' = closed
    BY ZenonT(60), <1>4, <1>7 DEF end_crc, end_length
  <2>. QED BY ZenonT(60), <1>1, <1>5, <1>7, <2>1, FailedStep
<1>8. CASE ok(enc)
  <2>1. InOrder(open, enc.size) /\ Apart(open, closed)
    BY <1>8 DEF EncInv
  <2>2. Prefix <= f.at /\ f.at + Prefix <= enc.size
        /\ \A j \in 1..(n - 1) : open[j].at + Prefix <= f.at
    BY SMTT(60), <1>2, <1>3, <2>1 DEF InOrder
  <2>3. \A h \in closed : f.at + Prefix <= h.at \/ h.end <= f.at
    BY SMTT(60), <1>2, <1>3, <2>1 DEF Apart
  <2> DEFINE new == [kind |-> f.kind, at |-> f.at, end |-> enc.size]
             what == IF f.kind = "crc" THEN Checksum(Covered(enc, f.at + Prefix, enc.size))
                     ELSE Length(AsInt(enc.size - f.at - Prefix))
  <2>4. enc' = Patch(enc, f.at, what)
    BY SMTT(60), <1>1, <1>4, <1>8 DEF end_crc, end_length
  <2>5. closed' = closed \cup {new}
    BY <1>4, <1>8
  <2>6. new.kind = f.kind /\ new.at = f.at /\ new.end = enc.size
    OBVIOUS
  <2> HIDE DEF new, what
  <2>7. Patched(enc, enc', f.at, what)
    BY SMTT(60), <1>1, <1>6, <1>8, <2>2, <2>4, PatchWrites
  <2>8. AtEnd(enc') /\ enc'.size = enc.size /\ enc'.err = enc.err
    BY ZenonT(60), <2>7 DEF Patched
  <2>9. \A h \in closed : Inside(h, enc'.size) /\ Stands(h, enc')
    BY SMTT(60), <1>1, <1>6, <2>3, <2>7, FieldsPatched DEF EncInv
  <2>10. Inside(new, enc'.size)
    BY SMTT(60), <1>1, <1>6, <2>2, <2>6, <2>8 DEF Inside
  <2>11. Stands(new, enc')
    <3>1. PICK a \in Nat, s \in Nat : a = f.at /\ s = enc.size /\ a + 4 <= s /\ 4 <= a
      BY SMTT(60), <1>1, <1>6, <2>2
    <3>2. \A i \in 0..(s - 1) : enc'.bytes[i] = IF i \in a..(a + 4 - 1) THEN what ELSE enc.bytes[i]
      BY SMTT(60), <1>1, <2>7, <3>1 DEF Patched
    <3>3. \A i \in a..(a + 4 - 1) : i \in 0..(s - 1)
      BY <3>1
    <3>4. \A i \in a..(a + 4 - 1) : enc'.bytes[i] = what
      BY <3>2, <3>3
    <3>5. Covered(enc', a + 4, s) = Covered(enc, a + 4, s)
      <4>1. \A i \in 1..(s - (a + 4)) : /\ a + 4 + i - 1 \in 0..(s - 1)
                                        /\ ~(a + 4 + i - 1 \in a..(a + 4 - 1))
        BY <3>1
      <4>2. \A i \in 1..(s - (a + 4)) : enc'.bytes[a + 4 + i - 1] = enc.bytes[a + 4 + i - 1]
        BY SMTT(60), <3>2, <4>1
      <4>. QED BY <4>2, Zenon DEF Covered
    <3>6. what = IF f.kind = "length" THEN Length(AsInt(s - a - 4)) ELSE Checksum(Covered(enc', a + 4, s))
      BY SMTT(60), <1>1, <1>6, <3>1, <3>5 DEF what
    <3>. QED BY SMTT(60), <1>1, <2>6, <3>1, <3>4, <3>6 DEF Stands
  <2>12. InOrder(open', enc'.size)
    <3>1. \A k \in 1..(n - 1) : k \in 1..n /\ \A j \in 1..(k - 1) : j \in 1..(n - 1)
      BY <1>2
    <3>. QED BY ZenonT(60), <1>5, <2>1, <2>8, <3>1 DEF InOrder
  <2>13. Apart(open', closed')
    <3>1. ASSUME NEW h \in closed', NEW k \in 1..Len(open')
          PROVE  open'[k].at + Prefix <= h.at \/ h.end <= open'[k].at
      <4>1. k \in 1..(n - 1) /\ k \in 1..n /\ open'[k] = open[k]
        BY <1>2, <1>5
      <4>2. CASE h \in closed
        BY SMTT(60), <2>1, <4>1, <4>2 DEF Apart
      <4>3. CASE h = new
        BY <2>2, <2>6, <4>1, <4>3
      <4>. QED BY SMTT(60), <2>5, <4>2, <4>3
    <3>. QED BY <3>1 DEF Apart
  <2>14. \A h \in closed' : Inside(h, enc'.size) /\ Stands(h, enc')
    BY ZenonT(60), <2>5, <2>9, <2>10, <2>11
  <2>. QED BY ZenonT(60), <1>1, <1>5, <2>8, <2>12, <2>13, <2>14, EncoderStep
<1>. QED BY SMTT(60), <1>7, <1>8

\* The invariant holds at the start and is kept by every step.
LEMMA EncInvHolds == RequestSpec => []EncInv
<1>1. RequestInit => EncInv
  <2> SUFFICES ASSUME RequestInit PROVE EncInv
    OBVIOUS
  <2>1. BufferSize \in Nat
    BY RequestAssumption
  <2>2. AtEnd(enc)
    BY <2>1, NewEncoderAtEnd DEF RequestInit
  <2>. QED BY <2>2 DEF RequestInit, EncInv, InOrder, Apart, FrameIsExact
<1>2. EncInv /\ [RequestNext]_requestVars => EncInv'
  <2> SUFFICES ASSUME EncInv, [RequestNext]_requestVars PROVE EncInv'
    OBVIOUS
  <2>1. CASE UNCHANGED requestVars
    BY <2>1 DEF requestVars, EncInv, FrameIsExact
  <2>. QED BY <2>1, WriteInv, WriteCompressedInv, StartFieldInv, EndFieldInv, TakeFrameInv, EncodeRequestInv DEF RequestNext
<1>. QED BY <1>1, <1>2, PTL DEF RequestSpec
-------------------------------------------------------------------------------
(* Theorems *)

\* Whatever is written, between two operations the cursor is at the end of it.
THEOREM CursorStaysAtEnd == RequestSpec => []CursorAtEnd
<1>1. EncInv => CursorAtEnd
  <2> SUFFICES ASSUME EncInv PROVE CursorAtEnd
    OBVIOUS
  <2>1. enc.cursor = enc.size /\ enc.bytes = [i \in 0..(enc.size - 1) |-> enc.bytes[i]]
    BY DEF EncInv, AtEnd, Fits
  <2>2. DOMAIN enc.bytes = 0..(enc.size - 1)
    BY <2>1, ZenonT(60)
  <2>. QED BY <2>1, <2>2 DEF CursorAtEnd
<1>. QED BY <1>1, EncInvHolds, PTL

\* The buffer is always as large as what is written to it, also when a late field
\* makes it grow or a compressor needs its worst case.
THEOREM NeverOutOfBounds == RequestSpec => []InBounds
<1>1. EncInv => InBounds
  <2> SUFFICES ASSUME EncInv, NEW i \in DOMAIN enc.bytes PROVE i < enc.cap
    BY DEF InBounds
  <2>1. enc.bytes = [j \in 0..(enc.size - 1) |-> enc.bytes[j]] /\ enc.size \in Nat
        /\ enc.cap \in Nat /\ enc.size <= enc.cap
    BY DEF EncInv, AtEnd, Fits
  <2>2. i \in 0..(enc.size - 1)
    BY <2>1, ZenonT(60)
  <2>. QED BY SMTT(60), <2>1, <2>2
<1>. QED BY <1>1, EncInvHolds, PTL

\* However fields are nested, one that was ended keeps the length or the checksum
\* of exactly what it covers.
THEOREM EndedFieldsStand == RequestSpec => []FieldsStand
<1>1. EncInv => FieldsStand
  <2> SUFFICES ASSUME EncInv, NEW f \in closed,
                      f.kind = "length" => f.end - f.at - Prefix <= MaxInt,
                      NEW i \in f.at..(f.at + Prefix - 1)
               PROVE  enc.bytes[i] = IF f.kind = "length" THEN Length(f.end - f.at - Prefix)
                                     ELSE Checksum(Covered(enc, f.at + Prefix, f.end))
    BY DEF FieldsStand
  <2>1. enc.bytes[i] = IF f.kind = "length" THEN Length(AsInt(f.end - f.at - Prefix))
                       ELSE Checksum(Covered(enc, f.at + Prefix, f.end))
    BY ZenonT(60) DEF EncInv, Stands
  <2>. QED BY ZenonT(60), <2>1, AsIntFits
<1>. QED BY <1>1, EncInvHolds, PTL

\* Whatever the header and the request are, their two buffers end where the length
\* prefix says, as long as an int32_t can say it.
THEOREM FramesAreExact == RequestSpec => []FrameIsExact
<1>1. EncInv => FrameIsExact
  BY DEF EncInv
<1>. QED BY <1>1, EncInvHolds, PTL
===============================================================================
