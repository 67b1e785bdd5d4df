----------------------------- MODULE BrokerProofs ------------------------------
(***************************************************************************)
(* Proofs about the Broker objects of ProducerClient, for any number of    *)
(* threads, nodes and failures: the pointers in brokers_ are to objects    *)
(* made for their node and address, and only a thread whose own call on an *)
(* object has failed, or new metadata, takes it out of the map.  The types *)
(* of the client's state come last, as they need the objects.              *)
(***************************************************************************)
EXTENDS ProducerClientProofs

\* Where a thread has a pointer to a Broker.
Holding == {"connect", "send", "await", "erase", "discard", "recheck", "fetch", "await_meta",
            "discard_meta", "stamp"}

Record(b) == b = [node |-> b.node, addr |-> b.addr, st |-> b.st] /\ b.st \in ConnStates

Pointers == ptr \in [Nodes -> Objs \cup {Null}] /\ obj \in [Threads -> Objs \cup {Null}]

Objects ==
  heap = [o \in Objs |-> heap[o]] /\ \A o \in Objs : heap[o] = NoBroker \/ Record(heap[o])

\* A pointer is null or to an object that exists, and such objects are pointed to.
Counted ==
  /\ \A n \in Nodes : ptr[n] # Null => heap[ptr[n]] # NoBroker
  /\ \A t \in Threads : obj[t] # Null => heap[obj[t]] # NoBroker
  /\ \A o \in Objs : heap[o] # NoBroker =>
       (\E n \in Nodes : ptr[n] = o) \/ (\E t \in Threads : obj[t] = o)

Memory == Pointers /\ Objects /\ Counted

\* A thread has a pointer exactly where it is in use, and an error where it
\* discards what it points to.
Holds ==
  /\ err = [t \in Threads |-> err[t]]
  /\ \A t \in Threads :
       /\ pc[t] \in Holding => obj[t] # Null
       /\ pc[t] \notin Holding \cup {"dead"} => obj[t] = Null
       /\ pc[t] \in {"discard", "discard_meta"} => err[t] # NoError

BrokerInv == Memory /\ PointersMatch /\ Holds
-------------------------------------------------------------------------------
\* A null pointer is no object, and no object is one that is gone.
LEMMA NoSuchBroker == Null \notin Objs /\ ~Record(NoBroker)
  BY ClientAssumption DEF ClientAssumption, Null, Record, NoBroker, ConnStates

\* There is an object left for a thread that points to none.
LEMMA FreeObject ==
  ASSUME Memory, NEW t \in Threads, obj[t] = Null
  PROVE  NewObj \in Objs /\ heap[NewObj] = NoBroker
<1>1. ptr \in [Nodes -> Objs \cup {Null}] /\ obj \in [Threads -> Objs \cup {Null}]
  BY DEF Memory, Pointers
<1>2. PICK o \in Objs : (\A n \in Nodes : ptr[n] # o) /\ (\A u \in Threads : obj[u] # o)
  BY ZenonT(60), <1>1, MemoryAssumption DEF MemoryAssumption
<1>3. heap[o] = NoBroker
  BY <1>2 DEF Memory, Counted
<1> QED BY <1>2, <1>3 DEF NewObj

\* Pointers change to objects that exist: what is left is counted again.
LEMMA PointMemory ==
  ASSUME NEW p \in [Nodes -> Objs \cup {Null}], NEW q \in [Threads -> Objs \cup {Null}], NEW h,
         \A o \in Objs : h[o] = NoBroker \/ Record(h[o]),
         \A n \in Nodes : p[n] # Null => h[p[n]] # NoBroker,
         \A t \in Threads : q[t] # Null => h[q[t]] # NoBroker,
         Point(p, q, h)
  PROVE  Memory' /\ \A n \in Nodes : ptr'[n] # Null => heap'[ptr'[n]] = h[ptr'[n]]
<1>1. /\ ptr' = p /\ obj' = q
      /\ heap' = [o \in Objs |-> IF (\E n \in Nodes : p[n] = o) \/ (\E t \in Threads : q[t] = o)
                                 THEN h[o] ELSE NoBroker]
  BY DEF Point
<1>2. Pointers'
  BY <1>1 DEF Pointers
<1>3. Objects'
  BY <1>1 DEF Objects, Record
<1>4. \A n \in Nodes : p[n] # Null => heap'[p[n]] = h[p[n]]
  BY <1>1
<1>5. \A t \in Threads : q[t] # Null => heap'[q[t]] = h[q[t]]
  BY <1>1
<1>6. Counted'
  BY SMTT(60), <1>1, <1>4, <1>5 DEF Counted
<1> QED BY SMTT(60), <1>1, <1>2, <1>3, <1>4, <1>6 DEF Memory

\* Objects change their connection state only.
LEMMA StateMemory ==
  ASSUME Memory, PointersMatch, UNCHANGED <<ptr, obj, brokers_>>, heap' = [o \in Objs |-> heap'[o]],
         \A o \in Objs : \/ heap'[o] = heap[o]
                         \/ /\ Record(heap[o]) /\ Record(heap'[o])
                            /\ heap'[o].node = heap[o].node /\ heap'[o].addr = heap[o].addr
  PROVE  Memory' /\ PointersMatch'
<1>1. Pointers' /\ Objects'
  BY DEF Memory, Pointers, Objects, Record
<1>2. \A o \in Objs : heap'[o] = NoBroker <=> heap[o] = NoBroker
  BY NoSuchBroker
<1>3. Counted'
  BY <1>2 DEF Memory, Pointers, Counted
<1>4. PointersMatch'
  BY DEF Memory, Pointers, PointersMatch
<1> QED BY <1>1, <1>3, <1>4 DEF Memory

\* An object in a given connection state is otherwise the same.
LEMMA WithState ==
  ASSUME Memory, NEW o \in Objs, heap[o] # NoBroker, NEW st \in ConnStates
  PROVE  /\ With(o, st) = [u \in Objs |-> With(o, st)[u]]
         /\ \A u \in Objs \ {o} : With(o, st)[u] = heap[u]
         /\ With(o, st)[o] # NoBroker
         /\ Record(heap[o]) /\ Record(With(o, st)[o])
         /\ With(o, st)[o].node = heap[o].node /\ With(o, st)[o].addr = heap[o].addr
<1>1. heap = [u \in Objs |-> heap[u]] /\ Record(heap[o])
  BY DEF Memory, Objects
<1>2. With(o, st) = [u \in Objs |-> IF u = o THEN [heap[o] EXCEPT !.st = st] ELSE heap[u]]
  BY <1>1 DEF With
<1>3. [heap[o] EXCEPT !.st = st] = [node |-> heap[o].node, addr |-> heap[o].addr, st |-> st]
  BY <1>1 DEF Record
<1>4. With(o, st)[o] = [node |-> heap[o].node, addr |-> heap[o].addr, st |-> st]
  BY <1>2, <1>3
<1>5. Record(With(o, st)[o])
  BY <1>4 DEF Record
<1> QED BY SMTT(60), <1>1, <1>2, <1>4, <1>5, NoSuchBroker

\* A thread lets go of its object.
LEMMA DropStep ==
  ASSUME Memory, PointersMatch, NEW t \in Threads, Point(ptr, Hold(t, Null), heap), UNCHANGED brokers_
  PROVE  Memory' /\ PointersMatch'
<1>1. /\ Hold(t, Null) \in [Threads -> Objs \cup {Null}]
      /\ \A u \in Threads : Hold(t, Null)[u] # Null => Hold(t, Null)[u] = obj[u]
  BY DEF Memory, Pointers, Hold
<1>2. ptr' = ptr
  BY DEF Point
<1>3. Memory' /\ \A n \in Nodes : ptr'[n] # Null => heap'[ptr'[n]] = heap[ptr'[n]]
  BY SMTT(60), <1>1, PointMemory DEF Memory, Pointers, Objects, Counted
<1> QED BY <1>2, <1>3 DEF PointersMatch

\* A thread takes the object of a node.
LEMMA TakeStep ==
  ASSUME Memory, PointersMatch, NEW t \in Threads, NEW n \in Nodes, ptr[n] # Null,
         Point(ptr, Hold(t, ptr[n]), heap), UNCHANGED brokers_
  PROVE  Memory' /\ PointersMatch'
<1>1. /\ Hold(t, ptr[n]) \in [Threads -> Objs \cup {Null}]
      /\ \A u \in Threads : Hold(t, ptr[n])[u] \in {obj[u], ptr[n]}
  BY DEF Memory, Pointers, Hold
<1>2. ptr' = ptr
  BY DEF Point
<1>3. Memory' /\ \A m \in Nodes : ptr'[m] # Null => heap'[ptr'[m]] = heap[ptr'[m]]
  BY SMTT(60), <1>1, PointMemory DEF Memory, Pointers, Objects, Counted
<1> QED BY <1>2, <1>3 DEF PointersMatch

\* What make_shared returns is a new object; the others stay.
LEMMA NewBroker ==
  ASSUME Memory, NEW t \in Threads, obj[t] = Null, NEW n, NEW a, NEW st \in ConnStates
  PROVE  /\ NewObj \in Objs /\ heap[NewObj] = NoBroker
         /\ MakeBroker(n, a, st)[NewObj] = [node |-> n, addr |-> a, st |-> st]
         /\ \A o \in Objs \ {NewObj} : MakeBroker(n, a, st)[o] = heap[o]
         /\ \A o \in Objs : MakeBroker(n, a, st)[o] = NoBroker \/ Record(MakeBroker(n, a, st)[o])
         /\ \A o \in Objs : MakeBroker(n, a, st)[o] = NoBroker => heap[o] = NoBroker /\ o # NewObj
<1> DEFINE b == [node |-> n, addr |-> a, st |-> st]
<1>1. NewObj \in Objs /\ heap[NewObj] = NoBroker
  BY FreeObject
<1>2. Record(b) /\ b # NoBroker
  BY NoSuchBroker DEF Record
<1>3. MakeBroker(n, a, st) = [o \in Objs |-> IF o = NewObj THEN b ELSE heap[o]]
  BY DEF MakeBroker, Memory, Objects
<1> HIDE DEF b
<1>4. \A o \in Objs : heap[o] = NoBroker \/ Record(heap[o])
  BY DEF Memory, Objects
<1>5. MakeBroker(n, a, st)[NewObj] = b
  BY <1>1, <1>3
<1>6. \A o \in Objs \ {NewObj} : MakeBroker(n, a, st)[o] = heap[o]
  BY <1>3
<1> QED BY SMTT(60), <1>1, <1>2, <1>4, <1>5, <1>6 DEF b

\* A thread makes the object of a node, in place of none or of a closed one.
LEMMA MakeStep ==
  ASSUME Memory, PointersMatch, NEW t \in Threads, obj[t] = Null, NEW n \in DOMAIN brokers_,
         n \in Nodes, UNCHANGED brokers_,
         Point([ptr EXCEPT ![n] = NewObj], Hold(t, NewObj), MakeBroker(n, brokers_[n], "INIT"))
  PROVE  Memory' /\ PointersMatch'
<1> DEFINE p == [ptr EXCEPT ![n] = NewObj]
           q == Hold(t, NewObj)
           h == MakeBroker(n, brokers_[n], "INIT")
<1>1. /\ NewObj \in Objs /\ heap[NewObj] = NoBroker
      /\ h[NewObj] = [node |-> n, addr |-> brokers_[n], st |-> "INIT"]
      /\ \A o \in Objs \ {NewObj} : h[o] = heap[o]
      /\ \A o \in Objs : h[o] = NoBroker \/ Record(h[o])
      /\ \A o \in Objs : h[o] = NoBroker => heap[o] = NoBroker /\ o # NewObj
  <2>1. "INIT" \in ConnStates
    BY DEF ConnStates
  <2> QED BY <2>1, NewBroker
<1>2. /\ p \in [Nodes -> Objs \cup {Null}] /\ q \in [Threads -> Objs \cup {Null}]
      /\ p[n] = NewObj /\ \A m \in Nodes \ {n} : p[m] = ptr[m]
      /\ \A u \in Threads : q[u] \in {obj[u], NewObj}
  BY <1>1 DEF Memory, Pointers, Hold
<1>3. Point(p, q, h) /\ ptr' = p
  BY DEF Point
<1> HIDE DEF p, q, h
<1>4. (\A m \in Nodes : p[m] # Null => h[p[m]] # NoBroker) /\ (\A u \in Threads : q[u] # Null => h[q[u]] # NoBroker)
  BY SMTT(60), <1>1, <1>2 DEF Memory, Pointers, Counted
<1>5. Memory' /\ \A m \in Nodes : ptr'[m] # Null => heap'[ptr'[m]] = h[ptr'[m]]
  BY SMTT(60), <1>1, <1>2, <1>3, <1>4, PointMemory
<1>6. ASSUME NEW m \in Nodes, p[m] # Null
      PROVE  m \in DOMAIN brokers_ /\ h[p[m]].node = m /\ h[p[m]].addr = brokers_[m]
  <2>1. CASE m = n
    BY SMTT(60), <1>1, <1>2, <2>1
  <2>2. CASE m # n
    <3>1. p[m] = ptr[m] /\ ptr[m] \in Objs \ {NewObj}
      BY SMTT(60), <1>1, <1>2, <1>6, <2>2 DEF Memory, Pointers, Counted
    <3>2. h[ptr[m]] = heap[ptr[m]] /\ ptr[m] # Null
      BY SMTT(60), <1>1, <1>6, <3>1
    <3> QED BY SMTT(60), <3>1, <3>2 DEF PointersMatch
  <2> QED BY SMTT(60), <2>1, <2>2
<1> QED BY SMTT(60), <1>3, <1>5, <1>6 DEF PointersMatch

\* A thread makes the object of a bootstrap broker.
LEMMA BootStep ==
  ASSUME Memory, PointersMatch, NEW t \in Threads, obj[t] = Null, NEW id, NEW a, UNCHANGED brokers_,
         Point(ptr, Hold(t, NewObj), MakeBroker(id, a, "CONNECTED"))
  PROVE  Memory' /\ PointersMatch'
<1> DEFINE q == Hold(t, NewObj)
           h == MakeBroker(id, a, "CONNECTED")
<1>1. /\ NewObj \in Objs /\ heap[NewObj] = NoBroker
      /\ h[NewObj] = [node |-> id, addr |-> a, st |-> "CONNECTED"]
      /\ \A o \in Objs \ {NewObj} : h[o] = heap[o]
      /\ \A o \in Objs : h[o] = NoBroker \/ Record(h[o])
      /\ \A o \in Objs : h[o] = NoBroker => heap[o] = NoBroker /\ o # NewObj
  <2>1. "CONNECTED" \in ConnStates
    BY DEF ConnStates
  <2> QED BY <2>1, NewBroker
<1>2. q \in [Threads -> Objs \cup {Null}] /\ \A u \in Threads : q[u] \in {obj[u], NewObj}
  BY <1>1 DEF Memory, Pointers, Hold
<1>3. Point(ptr, q, h) /\ ptr' = ptr
  BY SMTT(60) DEF Point
<1> HIDE DEF q, h
<1>4. (\A m \in Nodes : ptr[m] # Null => h[ptr[m]] # NoBroker) /\ (\A u \in Threads : q[u] # Null => h[q[u]] # NoBroker)
  BY SMTT(60), <1>1, <1>2 DEF Memory, Pointers, Counted
<1>5. Memory' /\ \A m \in Nodes : ptr'[m] # Null => heap'[ptr'[m]] = h[ptr'[m]]
  BY SMTT(60), <1>1, <1>2, <1>3, <1>4, PointMemory DEF Memory, Pointers
<1>6. \A m \in Nodes : ptr[m] # Null => ptr[m] \in Objs \ {NewObj}
  BY <1>1 DEF Memory, Pointers, Counted
<1> QED BY SMTT(60), <1>1, <1>3, <1>5, <1>6 DEF PointersMatch

\* The connection of a thread's object changes its state.
LEMMA StateStep ==
  ASSUME Memory, PointersMatch, NEW t \in Threads, obj[t] # Null, NEW st \in ConnStates,
         heap' = With(obj[t], st), UNCHANGED <<ptr, obj, brokers_>>
  PROVE  Memory' /\ PointersMatch'
<1>1. obj[t] \in Objs /\ heap[obj[t]] # NoBroker
  BY DEF Memory, Pointers, Counted
<1>2. heap' = [o \in Objs |-> heap'[o]]
  BY SMTT(60), <1>1, WithState
<1>3. \A o \in Objs : \/ heap'[o] = heap[o]
                      \/ /\ Record(heap[o]) /\ Record(heap'[o])
                         /\ heap'[o].node = heap[o].node /\ heap'[o].addr = heap[o].addr
  BY <1>1, WithState
<1> QED BY <1>2, <1>3, StateMemory

\* Connections to an address are lost.
LEMMA CutStep ==
  ASSUME Memory, PointersMatch, NEW a, Cut(a), UNCHANGED <<ptr, obj, brokers_>>
  PROVE  Memory' /\ PointersMatch'
<1>1. heap' = [o \in Objs |-> heap'[o]]
  BY DEF Cut
<1>2. ASSUME NEW o \in Objs
      PROVE  \/ heap'[o] = heap[o]
             \/ /\ Record(heap[o]) /\ Record(heap'[o])
                /\ heap'[o].node = heap[o].node /\ heap'[o].addr = heap[o].addr
  <2>1. CASE heap[o].st = "CONNECTED" /\ heap[o].addr = a
    <3>1. Record(heap[o])
      <4>1. heap[o] # NoBroker
        BY <2>1 DEF NoBroker
      <4> QED BY <4>1 DEF Memory, Objects
    <3>2. heap'[o] = [heap[o] EXCEPT !.st = "BROKEN"]
      BY <2>1 DEF Cut
    <3>3. heap'[o] = [node |-> heap[o].node, addr |-> heap[o].addr, st |-> "BROKEN"]
      BY <3>1, <3>2 DEF Record
    <3> QED BY <3>1, <3>3 DEF Record, ConnStates
  <2>2. CASE ~(heap[o].st = "CONNECTED" /\ heap[o].addr = a)
    BY <2>2 DEF Cut
  <2> QED BY SMTT(60), <2>1, <2>2
<1> QED BY <1>1, <1>2, StateMemory

\* close_broker: the map may lose the pointer, and the thread loses its own.
LEMMA CloseStep ==
  ASSUME Memory, PointersMatch, DOMAIN brokers_ \subseteq Nodes, NEW t \in Threads, obj[t] # Null,
         CloseBroker(t)
  PROVE  Memory' /\ PointersMatch'
<1> DEFINE node == heap[obj[t]].node
           p == IF node \in DOMAIN brokers_ /\ ptr[node] = obj[t] THEN [ptr EXCEPT ![node] = Null] ELSE ptr
           q == Hold(t, Null)
           h == With(obj[t], "CLOSED")
<1>1. obj[t] \in Objs /\ heap[obj[t]] # NoBroker /\ "CLOSED" \in ConnStates
  BY DEF Memory, Pointers, Counted, ConnStates
<1>2. p \in [Nodes -> Objs \cup {Null}] /\ \A m \in Nodes : p[m] \in {ptr[m], Null}
  BY DEF Memory, Pointers
<1>3. q \in [Threads -> Objs \cup {Null}] /\ \A u \in Threads : q[u] \in {obj[u], Null}
  BY DEF Memory, Pointers, Hold
<1>4. /\ \A o \in Objs \ {obj[t]} : h[o] = heap[o]
      /\ h[obj[t]] # NoBroker /\ Record(h[obj[t]])
      /\ h[obj[t]].node = heap[obj[t]].node /\ h[obj[t]].addr = heap[obj[t]].addr
  BY SMTT(60), <1>1, WithState
<1>5. Point(p, q, h) /\ ptr' = p /\ UNCHANGED brokers_
  BY DEF CloseBroker, Point
<1> HIDE DEF p, q, h
<1>6. \A o \in Objs : h[o] = NoBroker \/ Record(h[o])
  BY SMTT(60), <1>4 DEF Memory, Objects
<1>7. (\A m \in Nodes : p[m] # Null => h[p[m]] # NoBroker) /\ (\A u \in Threads : q[u] # Null => h[q[u]] # NoBroker)
  BY SMTT(60), <1>2, <1>3, <1>4 DEF Memory, Pointers, Counted
<1>8. Memory' /\ \A m \in Nodes : ptr'[m] # Null => heap'[ptr'[m]] = h[ptr'[m]]
  BY SMTT(60), <1>2, <1>3, <1>5, <1>6, <1>7, PointMemory
<1>9. ASSUME NEW m \in Nodes, ptr'[m] # Null
      PROVE  m \in DOMAIN brokers_ /\ heap'[ptr'[m]].node = m /\ heap'[ptr'[m]].addr = brokers_[m]
  <2>1. ptr'[m] = ptr[m] /\ ptr[m] # Null /\ ptr[m] \in Objs
    BY SMTT(60), <1>2, <1>5, <1>9 DEF Memory, Pointers
  <2>2. h[ptr[m]].node = heap[ptr[m]].node /\ h[ptr[m]].addr = heap[ptr[m]].addr
    BY SMTT(60), <1>4, <2>1
  <2>3. heap'[ptr'[m]] = h[ptr[m]]
    BY SMTT(60), <1>8, <1>9, <2>1
  <2>4. m \in DOMAIN brokers_ /\ heap[ptr[m]].node = m /\ heap[ptr[m]].addr = brokers_[m]
    BY SMTT(60), <2>1 DEF PointersMatch
  <2> QED BY <2>2, <2>3, <2>4
<1> QED BY SMTT(60), <1>5, <1>8, <1>9 DEF PointersMatch

\* New metadata: the objects of brokers that moved or are gone are dropped, and
\* the others keep their address.
LEMMA ApplyStep ==
  ASSUME Memory, PointersMatch, NEW t \in Threads, Apply(t)
  PROVE  Memory' /\ PointersMatch'
<1> DEFINE ns == Moved(resp[t]) \cup Removed(resp[t])
           p == [n \in Nodes |-> IF n \in ns THEN Null ELSE ptr[n]]
           h == [o \in Objs |-> IF \E n \in ns : ptr[n] = o THEN [heap[o] EXCEPT !.st = "CLOSED"]
                                ELSE heap[o]]
<1>1. Point(p, obj, h) /\ ptr' = p /\ brokers_' = Configs(resp[t])
  BY DEF Apply, Disconnect, Point
<1>2. ns \subseteq DOMAIN brokers_
  BY DEF Moved, Removed
<1>3. ASSUME NEW o \in Objs
      PROVE  /\ h[o] = NoBroker \/ Record(h[o])
             /\ heap[o] # NoBroker => h[o] # NoBroker /\ h[o].node = heap[o].node /\ h[o].addr = heap[o].addr
  <2>1. CASE \E n \in ns : ptr[n] = o
    <3>1. heap[o] = NoBroker \/ Record(heap[o])
      BY DEF Memory, Objects
    <3>2. h[o] = [heap[o] EXCEPT !.st = "CLOSED"]
      BY <2>1
    <3>3. h[o] = [node |-> heap[o].node, addr |-> heap[o].addr, st |-> "CLOSED"]
      BY <3>1, <3>2 DEF Record, NoBroker
    <3>4. Record(h[o])
      BY <3>3 DEF Record, ConnStates
    <3> QED BY <3>3, <3>4, NoSuchBroker
  <2>2. CASE ~\E n \in ns : ptr[n] = o
    BY <2>2 DEF Memory, Objects
  <2> QED BY <2>1, <2>2
<1>4. p \in [Nodes -> Objs \cup {Null}] /\ \A n \in Nodes : p[n] # Null => n \notin ns /\ p[n] = ptr[n]
  BY SMTT(60) DEF Memory, Pointers
<1> HIDE DEF p, h
<1>5. (\A n \in Nodes : p[n] # Null => h[p[n]] # NoBroker) /\ (\A u \in Threads : obj[u] # Null => h[obj[u]] # NoBroker)
  BY SMTT(60), <1>3, <1>4 DEF Memory, Pointers, Counted
<1>6. Memory' /\ \A n \in Nodes : ptr'[n] # Null => heap'[ptr'[n]] = h[ptr'[n]]
  BY SMTT(60), <1>1, <1>3, <1>4, <1>5, PointMemory DEF Memory, Pointers
<1>7. ASSUME NEW n \in Nodes, ptr'[n] # Null
      PROVE  n \in DOMAIN brokers_' /\ heap'[ptr'[n]].node = n /\ heap'[ptr'[n]].addr = brokers_'[n]
  <2>1. ptr'[n] = ptr[n] /\ ptr[n] # Null /\ ptr[n] \in Objs /\ n \notin ns
    BY SMTT(60), <1>1, <1>4, <1>7 DEF Memory, Pointers
  <2>2. n \in DOMAIN brokers_ /\ heap[ptr[n]].node = n /\ heap[ptr[n]].addr = brokers_[n]
    BY SMTT(60), <2>1 DEF PointersMatch
  <2>3. heap'[ptr'[n]] = h[ptr[n]] /\ heap[ptr[n]] # NoBroker
    BY SMTT(60), <1>6, <1>7, <2>1 DEF Memory, Counted
  <2>4. h[ptr[n]].node = heap[ptr[n]].node /\ h[ptr[n]].addr = heap[ptr[n]].addr
    BY SMTT(60), <1>3, <2>1, <2>3
  <2>5. n \in DOMAIN brokers_' /\ brokers_'[n] = brokers_[n]
    BY <1>1, <2>1, <2>2 DEF Configs, Removed
  <2> QED BY SMTT(60), <2>2, <2>3, <2>4, <2>5
<1> QED BY <1>6, <1>7 DEF PointersMatch
-------------------------------------------------------------------------------
\* The client starts without objects.
LEMMA BrokerInit == Init => BrokerInv
<1> SUFFICES ASSUME Init PROVE BrokerInv
  OBVIOUS
<1>1. Memory
  BY DEF Init, Memory, Pointers, Objects, Counted
<1>2. PointersMatch /\ Holds
  BY DEF Init, PointersMatch, Holds, Holding
<1> QED BY <1>1, <1>2 DEF BrokerInv

\* A step of one thread keeps its own pointer and error right, and no other's.
LEMMA HoldsStep ==
  ASSUME Holds, Shapes, Pointers, NEW t \in Threads,
         pc' = [pc EXCEPT ![t] = pc'[t]], obj' = [obj EXCEPT ![t] = obj'[t]],
         err' = [err EXCEPT ![t] = err'[t]],
         pc'[t] \in Holding => obj'[t] # Null,
         pc'[t] \notin Holding \cup {"dead"} => obj'[t] = Null,
         pc'[t] \in {"discard", "discard_meta"} => err'[t] # NoError
  PROVE  Holds'
<1>1. \A u \in Threads \ {t} : pc'[u] = pc[u] /\ obj'[u] = obj[u] /\ err'[u] = err[u]
  BY DEF Holds, Shapes, Pointers
<1>2. err' = [u \in Threads |-> err'[u]]
  BY DEF Holds
<1> QED BY SMTT(60), <1>1, <1>2 DEF Holds

\* The call of a thread.
LEMMA CallHolds ==
  ASSUME BrokerInv, Shapes, NEW t \in Threads, Call(t)
  PROVE  BrokerInv'
<1>0. /\ Memory /\ PointersMatch /\ Holds /\ Pointers
      /\ pc = [u \in Threads |-> pc[u]] /\ err = [u \in Threads |-> err[u]]
      /\ obj = [u \in Threads |-> obj[u]] /\ DOMAIN brokers_ \subseteq Nodes
  BY SMTT(60) DEF BrokerInv, Memory, Pointers, Holds, Shapes
<1>1. CASE Lookup(t)
  <2>1. pc[t] = "lookup" /\ obj[t] = Null /\ UNCHANGED <<err, brokers_>>
    BY <1>0, <1>1 DEF Lookup, Holds, Holding, cacheVars
  <2> DEFINE n == partition_map_[part[t]]
  <2>2. CASE n \notin DOMAIN brokers_
    <3>1. UNCHANGED <<ptr, obj, heap>> /\ pc' = [pc EXCEPT ![t] = pc'[t]]
          /\ pc'[t] \in {"thrown", "request", "explain"}
      BY SMTT(60), <1>0, <1>1, <2>2 DEF Lookup, Goto, objVars
    <3>2. Memory' /\ PointersMatch'
      BY SMTT(60), <1>0, <2>1, <3>1 DEF Memory, Pointers, Objects, Counted, PointersMatch
    <3>3. Holds'
      BY <1>0, <2>1, <3>1, HoldsStep DEF Holding
    <3> QED BY SMTT(60), <3>2, <3>3 DEF BrokerInv
  <2>3. CASE n \in DOMAIN brokers_ /\ Open(n)
    <3>1. Point(ptr, Hold(t, ptr[n]), heap) /\ pc' = [pc EXCEPT ![t] = "connect"]
      BY SMTT(60), <1>1, <2>3 DEF Lookup, Goto
    <3>2. ptr[n] # Null
      BY <2>3 DEF Open
    <3>3. Memory' /\ PointersMatch'
      BY SMTT(60), <1>0, <2>1, <2>3, <3>1, <3>2, TakeStep
    <3>4. Holds'
      BY ZenonT(60), <1>0, <2>1, <3>1, <3>2, HoldsStep DEF Point, Hold, Holding
    <3> QED BY <3>3, <3>4 DEF BrokerInv
  <2>4. CASE n \in DOMAIN brokers_ /\ ~Open(n)
    <3>1. /\ Point([ptr EXCEPT ![n] = NewObj], Hold(t, NewObj), MakeBroker(n, brokers_[n], "INIT"))
          /\ pc' = [pc EXCEPT ![t] = "connect"]
      BY SMTT(60), <1>1, <2>4 DEF Lookup, Goto
    <3>2. Memory' /\ PointersMatch'
      BY SMTT(60), <1>0, <2>1, <2>4, <3>1, MakeStep
    <3>3. NewObj # Null
      BY SMTT(60), <1>0, <2>1, FreeObject, NoSuchBroker
    <3>4. Holds'
      BY ZenonT(60), <1>0, <2>1, <3>1, <3>3, HoldsStep DEF Point, Hold, Holding
    <3> QED BY <3>2, <3>4 DEF BrokerInv
  <2> QED BY SMTT(60), <2>2, <2>3, <2>4
<1>2. ASSUME NEW ec, Finish(t, ec), UNCHANGED brokers_ PROVE BrokerInv'
  <2>1. /\ Point(ptr, Hold(t, Null), heap) /\ pc' = [pc EXCEPT ![t] = "idle"]
        /\ err' = [err EXCEPT ![t] = NoError]
    BY <1>2 DEF Finish, Goto
  <2>2. Memory' /\ PointersMatch'
    BY SMTT(60), <1>0, <1>2, <2>1, DropStep
  <2>3. Holds'
    BY ZenonT(60), <1>0, <2>1, HoldsStep DEF Point, Hold, Holding
  <2> QED BY <2>2, <2>3 DEF BrokerInv
<1>3. ASSUME UNCHANGED <<ptr, obj, heap, err, brokers_>>, pc' = [pc EXCEPT ![t] = pc'[t]],
             \/ pc[t] \in Holding /\ pc'[t] \in Holding \ {"discard", "discard_meta"}
             \/ pc[t] = "explain" /\ pc'[t] = "explain_error"
      PROVE  BrokerInv'
  <2>1. Memory' /\ PointersMatch'
    BY ZenonT(60), <1>0, <1>3 DEF Memory, Pointers, Objects, Counted, PointersMatch
  <2>2. Holds'
    BY <1>0, <1>3, HoldsStep DEF Holds, Holding
  <2> QED BY <2>1, <2>2 DEF BrokerInv
<1>4. ASSUME NEW st \in ConnStates, heap' = With(obj[t], st), UNCHANGED <<ptr, obj, brokers_>>,
             pc[t] \in Holding, pc' = [pc EXCEPT ![t] = pc'[t]], err' = [err EXCEPT ![t] = err'[t]],
             \/ pc'[t] \in {"discard", "discard_meta"} /\ err'[t] # NoError
             \/ pc' = pc /\ err' = err
      PROVE  BrokerInv'
  <2>1. obj[t] # Null
    BY SMTT(60), <1>0, <1>4 DEF Holds
  <2>2. Memory' /\ PointersMatch'
    BY SMTT(60), <1>0, <1>4, <2>1, StateStep
  <2>3. Holds'
    BY SMTT(60), <1>0, <1>4, <2>1, HoldsStep DEF Holds, Holding
  <2> QED BY SMTT(60), <2>2, <2>3 DEF BrokerInv
<1>5. CASE Explain(t)
  BY SMTT(60), <1>0, <1>2, <1>3, <1>5 DEF Explain, Goto, objVars, cacheVars
<1>6. CASE ExplainError(t)
  BY <1>2, <1>6 DEF ExplainError, cacheVars
<1>7. CASE ConnectOK(t)
  <2>1. "CONNECTED" \in ConnStates /\ "connect" \in Holding /\ "send" \in Holding \ {"discard", "discard_meta"}
    BY DEF ConnStates, Holding
  <2>2. pc[t] = "connect" /\ UNCHANGED brokers_
    BY Zenon, <1>7 DEF ConnectOK, cacheVars
  <2>3. CASE Finish(t, NoError)
    BY SMTT(60), <1>2, <2>2, <2>3
  <2>4. CASE Goto(t, "send") /\ UNCHANGED <<objVars, err, resp, result>>
    BY SMTT(60), <1>0, <1>3, <2>1, <2>2, <2>4 DEF Goto, objVars
  <2>5. CASE heap' = With(obj[t], "CONNECTED") /\ UNCHANGED <<ptr, obj, pc, err, resp, result>>
    BY SMTT(60), <1>0, <1>4, <2>1, <2>2, <2>5
  <2> QED BY ZenonT(60), <1>7, <2>3, <2>4, <2>5 DEF ConnectOK
<1>8. CASE ConnectFails(t)
  BY <1>0, <1>4, <1>8 DEF ConnectFails, Goto, cacheVars, ConnStates, Holding, NoError
<1>9. CASE Send(t)
  <2>1. pc[t] \in {"send", "fetch"} /\ UNCHANGED <<ptr, obj, brokers_>>
    BY ZenonT(60), <1>9 DEF Send, cacheVars
  <2>2. CASE /\ Goto(t, IF pc[t] = "send" THEN "await" ELSE "await_meta")
             /\ UNCHANGED <<err, heap>>
    BY SMTT(60), <1>0, <1>3, <2>1, <2>2 DEF Goto, Holding
  <2>3. CASE /\ heap' = With(obj[t], "CLOSED") /\ err' = [err EXCEPT ![t] = "network_fail"]
             /\ Goto(t, IF pc[t] = "send" THEN "discard" ELSE "discard_meta")
    BY SMTT(60), <1>0, <1>4, <2>1, <2>3 DEF Goto, ConnStates, Holding, NoError
  <2> QED BY ZenonT(60), <1>9, <2>2, <2>3 DEF Send
<1>10. CASE CallFails(t)
  <2>1. /\ pc[t] \in {"await", "await_meta"} /\ UNCHANGED <<ptr, obj, brokers_>>
        /\ pc' = [pc EXCEPT ![t] = IF pc[t] = "await" THEN "discard" ELSE "discard_meta"]
    BY <1>10 DEF CallFails, Goto, cacheVars
  <2>2. CASE heap' = With(obj[t], "CLOSED") /\ err' = [err EXCEPT ![t] = "network_fail"]
    BY SMTT(60), <1>0, <1>4, <2>1, <2>2 DEF ConnStates, Holding, NoError
  <2>3. CASE UNCHANGED heap /\ err' = [err EXCEPT ![t] = "network_timeout"]
    <3>1. Memory' /\ PointersMatch'
      BY ZenonT(60), <1>0, <2>1, <2>3 DEF Memory, Pointers, Objects, Counted, PointersMatch
    <3>2. obj[t] # Null
      BY <1>0, <2>1 DEF Holds, Holding
    <3>3. Holds'
      BY ZenonT(60), <1>0, <2>1, <2>3, <3>2, HoldsStep DEF Holding, NoError
    <3> QED BY <3>1, <3>3 DEF BrokerInv
  <2> QED BY SMTT(60), <1>10, <2>2, <2>3 DEF CallFails
<1>11. CASE ProduceAnswered(t)
  <2>1. pc[t] = "await" /\ UNCHANGED brokers_
    BY ZenonT(60), <1>11 DEF ProduceAnswered, cacheVars
  <2>2. CASE Finish(t, resp[t].code)
    BY SMTT(60), <1>2, <2>1, <2>2
  <2>3. CASE Goto(t, "erase") /\ UNCHANGED <<objVars, err, resp, result>>
    BY SMTT(60), <1>0, <1>3, <2>1, <2>3 DEF Goto, objVars, Holding
  <2> QED BY ZenonT(60), <1>11, <2>2, <2>3 DEF ProduceAnswered
<1>12. CASE Erase(t)
  BY ZenonT(60), <1>2, <1>12 DEF Erase
<1>13. CASE Discard(t)
  <2>1. /\ pc[t] = "discard" /\ CloseBroker(t) /\ pc' = [pc EXCEPT ![t] = "idle"]
        /\ err' = [err EXCEPT ![t] = NoError]
    BY <1>13 DEF Discard, Goto
  <2>2. obj[t] # Null
    BY <1>0, <2>1 DEF Holds, Holding
  <2>3. Memory' /\ PointersMatch'
    BY SMTT(60), <1>0, <2>1, <2>2, CloseStep
  <2>4. Holds'
    BY ZenonT(60), <1>0, <2>1, HoldsStep DEF CloseBroker, Point, Hold, Holding
  <2> QED BY <2>3, <2>4 DEF BrokerInv
<1> QED BY SMTT(60), <1>1, <1>5, <1>6, <1>7, <1>8, <1>9, <1>10, <1>11, <1>12, <1>13 DEF Call

\* The refresh of the metadata by a thread.
LEMMA RefreshHolds ==
  ASSUME BrokerInv, Shapes, NEW t \in Threads, RefreshMeta(t)
  PROVE  BrokerInv'
<1>0. /\ Memory /\ PointersMatch /\ Holds /\ Pointers
      /\ pc = [u \in Threads |-> pc[u]] /\ err = [u \in Threads |-> err[u]]
      /\ obj = [u \in Threads |-> obj[u]] /\ DOMAIN brokers_ \subseteq Nodes
  BY DEF BrokerInv, Memory, Pointers, Holds, Shapes
<1>1. ASSUME UNCHANGED <<ptr, obj, heap, brokers_>>, pc' = [pc EXCEPT ![t] = pc'[t]],
             err' = [err EXCEPT ![t] = err'[t]],
             \/ pc[t] \in Holding /\ pc'[t] \in Holding \ {"discard", "discard_meta"}
             \/ pc[t] \notin Holding \cup {"dead"} /\ pc'[t] \notin Holding
      PROVE  BrokerInv'
  <2>1. Memory' /\ PointersMatch'
    BY ZenonT(60), <1>0, <1>1 DEF Memory, Pointers, Objects, Counted, PointersMatch
  <2>2. Holds'
    BY SMTT(60), <1>0, <1>1, HoldsStep DEF Holds, Holding
  <2> QED BY <2>1, <2>2 DEF BrokerInv
<1>2. ASSUME Point(ptr, Hold(t, Null), heap), UNCHANGED brokers_, LeaveRefresh(t) PROVE BrokerInv'
  <2>1. Memory' /\ PointersMatch'
    BY <1>0, <1>2, DropStep
  <2>2. Holds'
    BY ZenonT(60), <1>0, <1>2, HoldsStep DEF Point, Hold, Holding, LeaveRefresh, Goto
  <2> QED BY <2>1, <2>2 DEF BrokerInv
<1>3. CASE Request(t)
  BY SMTT(60), <1>0, <1>1, <1>3 DEF Request, Goto, Holding, objVars, cacheVars
<1>4. CASE MetaLock(t)
  BY SMTT(60), <1>0, <1>1, <1>4 DEF MetaLock, LeaveRefresh, Goto, Holding, objVars, cacheVars
<1>5. CASE Pick(t)
  <2>1. pc[t] = "pick" /\ obj[t] = Null /\ UNCHANGED <<err, brokers_>>
    BY <1>0, <1>5 DEF Pick, Holds, Holding, cacheVars
  <2>2. ASSUME NEW n \in DOMAIN brokers_, Open(n), Point(ptr, Hold(t, ptr[n]), heap),
               Goto(t, "recheck")
        PROVE  BrokerInv'
    <3>1. ptr[n] # Null
      BY <2>2 DEF Open
    <3>2. Memory' /\ PointersMatch'
      BY SMTT(60), <1>0, <2>1, <2>2, <3>1, TakeStep
    <3>3. Holds'
      BY ZenonT(60), <1>0, <2>1, <2>2, <3>1, HoldsStep DEF Point, Hold, Holding, Goto
    <3> QED BY SMTT(60), <3>2, <3>3 DEF BrokerInv
  <2>3. CASE Goto(t, "boot") /\ UNCHANGED objVars
    BY SMTT(60), <1>0, <1>1, <2>1, <2>3 DEF Goto, objVars, Holding
  <2> QED BY SMTT(60), <1>5, <2>2, <2>3 DEF Pick
<1>6. CASE Recheck(t)
  <2>1. pc[t] = "recheck" /\ UNCHANGED brokers_
    BY SMTT(60), <1>6 DEF Recheck, cacheVars
  <2>2. CASE Goto(t, "fetch") /\ UNCHANGED <<objVars, meta_fetch_mu_, refresh, err, resp>>
    BY SMTT(60), <1>0, <1>1, <2>1, <2>2 DEF Goto, objVars, Holding
  <2>3. CASE LeaveRefresh(t) /\ Point(ptr, Hold(t, Null), heap)
    BY SMTT(60), <1>2, <2>1, <2>3
  <2> QED BY SMTT(60), <1>6, <2>2, <2>3 DEF Recheck
<1>7. CASE BootOK(t)
  <2>1. PICK id : id = 0
    OBVIOUS
  <2>2. pc[t] = "boot" /\ obj[t] = Null /\ UNCHANGED <<err, brokers_>> /\ pc' = [pc EXCEPT ![t] = "fetch"]
    BY SMTT(60), <1>0, <1>7 DEF BootOK, Holds, Holding, Goto
  <2>3. PICK a : Point(ptr, Hold(t, NewObj), MakeBroker(id, a, "CONNECTED"))
    BY SMTT(60), <1>7, <2>1 DEF BootOK
  <2>4. Memory' /\ PointersMatch'
    BY SMTT(60), <1>0, <2>2, <2>3, BootStep
  <2>5. NewObj # Null
    BY <1>0, <2>2, FreeObject, NoSuchBroker
  <2>6. Holds'
    BY ZenonT(60), <1>0, <2>2, <2>3, <2>5, HoldsStep DEF Point, Hold, Holding
  <2> QED BY <2>4, <2>6 DEF BrokerInv
<1>8. CASE BootFails(t)
  BY SMTT(60), <1>0, <1>1, <1>8 DEF BootFails, LeaveRefresh, Goto, Holding, objVars
<1>9. CASE DiscardMeta(t)
  <2>1. /\ pc[t] = "discard_meta" /\ CloseBroker(t) /\ pc' = [pc EXCEPT ![t] = "note_error"]
        /\ UNCHANGED err
    BY SMTT(60), <1>9 DEF DiscardMeta, Goto
  <2>2. obj[t] # Null
    BY SMTT(60), <1>0, <2>1 DEF Holds, Holding
  <2>3. Memory' /\ PointersMatch'
    BY SMTT(60), <1>0, <2>1, <2>2, CloseStep
  <2>4. Holds'
    BY ZenonT(60), <1>0, <2>1, HoldsStep DEF CloseBroker, Point, Hold, Holding
  <2> QED BY <2>3, <2>4 DEF BrokerInv
<1>10. CASE NoteError(t)
  BY SMTT(60), <1>0, <1>1, <1>10 DEF NoteError, LeaveRefresh, Goto, Holding, objVars
<1>11. CASE Apply(t)
  <2>1. pc[t] = "await_meta" /\ pc' = [pc EXCEPT ![t] = "stamp"] /\ UNCHANGED <<err, obj>>
    BY <1>11 DEF Apply, Goto, Disconnect, Point
  <2>2. Memory' /\ PointersMatch'
    BY <1>0, <1>11, ApplyStep
  <2>3. Holds'
    BY ZenonT(60), <1>0, <2>1, HoldsStep DEF Holds, Holding
  <2> QED BY <2>2, <2>3 DEF BrokerInv
<1>12. CASE ApplyCrashes(t)
  <2>1. UNCHANGED <<ptr, obj, heap, err, brokers_>> /\ pc' = [u \in Threads |-> "dead"]
    BY Zenon, <1>12 DEF ApplyCrashes, objVars, cacheVars
  <2>2. Memory' /\ PointersMatch'
    BY ZenonT(60), <1>0, <2>1 DEF Memory, Pointers, Objects, Counted, PointersMatch
  <2>3. Holds'
    BY SMTT(60), <1>0, <2>1 DEF Holds, Holding
  <2> QED BY <2>2, <2>3 DEF BrokerInv
<1>13. CASE Stamp(t)
  BY SMTT(60), <1>2, <1>13 DEF Stamp, cacheVars
<1> QED BY SMTT(60), <1>3, <1>4, <1>5, <1>6, <1>7, <1>8, <1>9, <1>10, <1>11, <1>12, <1>13 DEF RefreshMeta

\* Every step keeps the objects and the pointers to them in order.
LEMMA BrokerStep == BrokerInv /\ Inv /\ [Next]_vars => BrokerInv'
<1> SUFFICES ASSUME BrokerInv, Inv, [Next]_vars PROVE BrokerInv'
  OBVIOUS
<1>0. Memory /\ PointersMatch /\ Holds /\ Shapes
  BY DEF BrokerInv, Inv
<1>1. ASSUME UNCHANGED <<ptr, obj, heap, err, brokers_, pc>> PROVE BrokerInv'
  BY ZenonT(60), <1>0, <1>1 DEF BrokerInv, Memory, Pointers, Objects, Counted, PointersMatch, Holds
<1>2. ASSUME NEW t \in Threads, Start(t) PROVE BrokerInv'
  <2>1. UNCHANGED <<ptr, obj, heap, err, brokers_>> /\ pc[t] = "idle" /\ pc' = [pc EXCEPT ![t] = "lookup"]
    BY SMTT(60), <1>2 DEF Start, Goto, objVars, cacheVars
  <2>2. Memory' /\ PointersMatch'
    BY SMTT(60), <1>0, <2>1 DEF Memory, Pointers, Objects, Counted, PointersMatch
  <2>3. Holds'
    BY SMTT(60), <1>0, <2>1 DEF Holds, Shapes, Holding
  <2> QED BY <2>2, <2>3 DEF BrokerInv
<1>3. ASSUME NEW t \in Threads, Kafka(t) PROVE BrokerInv'
  BY <1>1, <1>3 DEF Kafka, KafkaProduce, KafkaMeta, objVars, cacheVars
<1>4. ASSUME NEW a, Cut(a), UNCHANGED <<ptr, obj, err, brokers_, pc>> PROVE BrokerInv'
  <2>1. Memory' /\ PointersMatch'
    BY SMTT(60), <1>0, <1>4, CutStep
  <2>2. Holds'
    BY SMTT(60), <1>0, <1>4 DEF Holds
  <2> QED BY <2>1, <2>2 DEF BrokerInv
<1>5. ASSUME NEW n \in Nodes, NodeDown(n) PROVE BrokerInv'
  BY SMTT(60), <1>4, <1>5 DEF NodeDown, cacheVars, threadVars
<1>6. ASSUME NEW n \in Nodes, NodeUp(n) PROVE BrokerInv'
  BY SMTT(60), <1>1, <1>6 DEF NodeUp, objVars, cacheVars, threadVars
<1>7. ASSUME NEW p \in Partitions, NEW n \in Nodes, Elect(p, n) PROVE BrokerInv'
  BY SMTT(60), <1>1, <1>7 DEF Elect, objVars, cacheVars, threadVars
<1>8. ASSUME NEW n \in Nodes, NEW a \in Addrs, Move(n, a) PROVE BrokerInv'
  BY SMTT(60), <1>4, <1>8 DEF Move, cacheVars, threadVars
<1>9. CASE UNCHANGED vars
  BY <1>1, <1>9 DEF vars, objVars, cacheVars, threadVars
<1> QED BY SMTT(60), <1>0, <1>2, <1>3, <1>5, <1>6, <1>7, <1>8, <1>9, CallHolds, RefreshHolds DEF Next

\* The invariant of the objects holds in every reachable state.
THEOREM BrokersInv == Spec => []BrokerInv
<1>1. BrokerInv /\ Inv /\ [Next]_vars => BrokerInv'
  BY BrokerStep
<1> QED BY <1>1, BrokerInit, ClientInv, PTL DEF Spec

\* The object brokers_ points to for a node was made by get_broker_for_partition
\* for that node and the address in brokers_, whatever threads discard, replace
\* and refresh at the same time.
THEOREM PointersAreRight == Spec => []PointersMatch
  BY BrokersInv, PTL DEF BrokerInv

\* A step of a thread that takes a pointer out of the map is one of those that
\* LostByItsUser allows.
LEMMA LossStep ==
  ASSUME BrokerInv, Shapes, [Next]_vars, NEW n \in Nodes, ptr[n] # Null, ptr'[n] = Null
  PROVE  \/ \E t \in Threads : obj[t] = ptr[n] /\ err[t] # NoError
         \/ \E t \in Threads : pc[t] = "await_meta" /\ pc'[t] = "stamp"
<1>0. Memory /\ Holds /\ Pointers
  BY DEF BrokerInv, Memory
<1>1. ptr' # ptr
  OBVIOUS
<1>2. ASSUME NEW t \in Threads, CloseBroker(t), pc[t] \in {"discard", "discard_meta"}
      PROVE  obj[t] = ptr[n] /\ err[t] # NoError
  <2>1. ptr' = IF heap[obj[t]].node \in DOMAIN brokers_ /\ ptr[heap[obj[t]].node] = obj[t]
               THEN [ptr EXCEPT ![heap[obj[t]].node] = Null] ELSE ptr
    BY ZenonT(60), <1>2 DEF CloseBroker, Point
  <2>2. obj[t] = ptr[n]
    BY <1>0, <1>1, <2>1 DEF Pointers
  <2> QED BY SMTT(60), <1>0, <1>2, <2>2 DEF Holds
<1>3. ASSUME NEW t \in Threads, Call(t) PROVE obj[t] = ptr[n] /\ err[t] # NoError
  <2>1. ~Lookup(t)
    <3> SUFFICES ASSUME Lookup(t) PROVE FALSE
      BY SMTT(60)
    <3>1. obj[t] = Null
      BY <1>0 DEF Lookup, Holds, Holding
    <3>2. NewObj # Null
      BY ZenonT(60), <1>0, <3>1, FreeObject, NoSuchBroker
    <3>3. ptr' = [ptr EXCEPT ![partition_map_[part[t]]] = NewObj]
      BY <1>1 DEF Lookup, Point, objVars
    <3> QED BY SMTT(60), <1>0, <3>2, <3>3 DEF Pointers
  <2>2. Discard(t)
    BY ZenonT(60), <1>1, <1>3, <2>1 DEF Call, Explain, ExplainError, ConnectOK, ConnectFails, Send, CallFails,
                            ProduceAnswered, Erase, Finish, Point, objVars
  <2> QED BY ZenonT(60), <1>2, <2>2 DEF Discard
<1>4. ASSUME NEW t \in Threads, RefreshMeta(t)
      PROVE  \/ obj[t] = ptr[n] /\ err[t] # NoError
             \/ pc[t] = "await_meta" /\ pc'[t] = "stamp"
  <2>1. DiscardMeta(t) \/ Apply(t)
    BY ZenonT(60), <1>1, <1>4 DEF RefreshMeta, Request, MetaLock, Pick, Recheck, BootOK, BootFails, NoteError,
                      ApplyCrashes, Stamp, Point, objVars
  <2>2. CASE DiscardMeta(t)
    BY ZenonT(60), <1>2, <2>2 DEF DiscardMeta
  <2>3. CASE Apply(t)
    BY <2>3 DEF Apply, Goto, Shapes
  <2> QED BY ZenonT(60), <2>1, <2>2, <2>3
<1>5. \E t \in Threads : Call(t) \/ RefreshMeta(t)
  BY Zenon, <1>1 DEF Next, Start, Kafka, KafkaProduce, KafkaMeta, NodeDown, NodeUp, Elect, Move, objVars, vars
<1> QED BY SMTT(60), <1>3, <1>4, <1>5

\* close_broker on an object that has been replaced does not take its
\* replacement out of the map, with any number of threads doing so at once.
THEOREM LostOnlyByItsUser == Spec => LostByItsUser
<1>1. BrokerInv /\ Inv /\ [Next]_vars =>
        [\A n \in Nodes :
           ptr[n] # Null /\ ptr'[n] = Null =>
             \/ \E t \in Threads : obj[t] = ptr[n] /\ err[t] # NoError
             \/ \E t \in Threads : pc[t] = "await_meta" /\ pc'[t] = "stamp"]_vars
  BY Zenon, LossStep DEF Inv
<1> QED BY <1>1, BrokersInv, ClientInv, PTL DEF Spec, LostByItsUser
-------------------------------------------------------------------------------
\* The types of the client's state, its mutexes, retry counter, errors and
\* cached metadata, and a live Broker behind every pointer that a thread uses.
THEOREM ClientTypesHold == Spec => []TypeOK
<1>1. ClientTypes /\ Inv /\ [Next]_vars => ClientTypes'
  BY TypesStep
<1>2. ASSUME ClientTypes, BrokerInv PROVE TypeOK
  <2>1. Pointers /\ Objects /\ Counted /\ Holds
    BY SMTT(60), <1>2 DEF BrokerInv, Memory
  <2>2. \A t \in Threads : pc[t] \in Holding => obj[t] \in Objs /\ heap[obj[t]] # NoBroker
    BY SMTT(60), <2>1 DEF Pointers, Counted, Holds
  <2>3. \A o \in Objs : heap[o] = NoBroker \/ heap[o].st \in ConnStates
    BY <2>1 DEF Objects, Record
  <2> QED BY SMTT(60), <1>2, <2>1, <2>2, <2>3 DEF TypeOK, ClientTypes, CacheTypes, LockTypes, ThreadTypes,
                                        AnswerTypes, Pointers, Holding
<1>3. ClientTypes /\ BrokerInv => TypeOK
  BY <1>2
<1> QED BY <1>1, <1>3, TypesInit, ClientInv, BrokersInv, PTL DEF Spec
===============================================================================
