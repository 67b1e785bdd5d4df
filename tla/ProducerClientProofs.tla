------------------------- MODULE ProducerClientProofs -------------------------
(***************************************************************************)
(* Proofs about ProducerClient, for any number of threads, partitions,     *)
(* nodes, retries and failures: the lookup that "can't happen (tm)" does   *)
(* not happen, and the mutexes are held where the code says.               *)
(***************************************************************************)
EXTENDS ProducerClient, TLAPS

\* Metadata in which every leader is one of the brokers listed.
Consistent(meta) ==
  /\ DOMAIN meta.nodes \subseteq Nodes
  /\ meta.leaders = [p \in Partitions |-> meta.leaders[p]]
  /\ \A p \in Partitions : meta.leaders[p] \in Nodes => meta.leaders[p] \in DOMAIN meta.nodes

\* Where a thread may have an answer that it has not dealt with.
Answered == {"await", "await_meta", "erase", "discard", "discard_meta", "note_error", "stamp"}

\* The variables the argument is about are functions on their domains.
Shapes ==
  /\ pc = [t \in Threads |-> pc[t]]
  /\ resp = [t \in Threads |-> resp[t]]
  /\ part = [t \in Threads |-> part[t]]
  /\ partition_map_ = [p \in Partitions |-> partition_map_[p]]
  /\ leader \in [Partitions -> Nodes]
  /\ DOMAIN brokers_ \subseteq Nodes

\* A thread starts a call without the answer to an earlier one.
NoOldAnswer == \A t \in Threads : pc[t] \notin Answered \cup {"dead"} => resp[t] = NoAnswer

\* A call is about some partition.
HasPartition == \A t \in Threads : pc[t] \notin {"idle", "dead"} => part[t] \in Partitions

\* What a thread is about to apply is consistent metadata.
MetaConsistent ==
  \A t \in Threads : pc[t] = "await_meta" /\ resp[t] # NoAnswer => Consistent(resp[t])

\* No thread has closed the client and thrown.
NotThrown == \A t \in Threads : pc[t] # "thrown"

Inv ==
  Shapes /\ NoOldAnswer /\ HasPartition /\ MetaConsistent /\ KnownLeaders /\ NotThrown
-------------------------------------------------------------------------------
\* The special leader values are not node ids.
LEMMA NotNodes == Unknown \notin Nodes /\ NoLeader \notin Nodes
  BY ClientAssumption DEF ClientAssumption, Unknown, NoLeader

\* The client starts with an empty cache.
LEMMA InitInv == Init => Inv
  BY NotNodes DEF Init, Inv, Shapes, NoOldAnswer, HasPartition, MetaConsistent,
                  KnownLeaders, NotThrown, NoAnswer, Answered

\* What Kafka answers to a metadata request is consistent.
LEMMA KafkaMetaInv ==
  ASSUME Inv, NEW t \in Threads, KafkaMeta(t) PROVE Inv'
  <1> DEFINE meta == [code |-> NoError,
                      nodes |-> [n \in {m \in Nodes : Live(m)} |-> addrOf[n]],
                      leaders |-> [p \in Partitions |->
                                     IF Live(leader[p]) THEN leader[p] ELSE NoLeader]]
  <1>1. Consistent(meta)
    BY NotNodes DEF Inv, Shapes, Consistent
  <1>2. resp' = [resp EXCEPT ![t] = meta]
    BY DEF KafkaMeta
  <1> HIDE DEF meta
  <1>3. pc[t] = "await_meta" /\ UNCHANGED <<pc, part, partition_map_, leader, brokers_>>
    BY DEF KafkaMeta, cacheVars, clusterVars, argVars
  <1> QED
    BY Zenon, <1>1, <1>2, <1>3 DEF Inv, Shapes, NoOldAnswer, HasPartition, MetaConsistent,
                            KnownLeaders, NotThrown, Answered, Consistent

\* Consistent metadata makes a consistent cache: brokers_ and partition_map_
\* change in one critical section.
LEMMA ApplyInv ==
  ASSUME Inv, NEW t \in Threads, Apply(t) PROVE Inv'
  <1>1. /\ Consistent(resp[t])
        /\ brokers_' = Configs(resp[t]) /\ partition_map_' = resp[t].leaders
        /\ pc' = [pc EXCEPT ![t] = "stamp"] /\ UNCHANGED <<resp, part, leader>>
    BY DEF Inv, MetaConsistent, Apply, Goto, argVars, clusterVars
  <1>2. DOMAIN brokers_' = DOMAIN resp[t].nodes
    BY <1>1 DEF Configs
  <1>3. KnownLeaders' /\ Shapes'
    BY <1>1, <1>2 DEF Inv, Shapes, KnownLeaders, Consistent
  <1>4. NoOldAnswer' /\ HasPartition' /\ MetaConsistent' /\ NotThrown'
    <2>1. \A u \in Threads : pc'[u] = IF u = t THEN "stamp" ELSE pc[u]
      BY <1>1 DEF Inv, Shapes
    <2>2. pc[t] = "await_meta"
      BY DEF Apply
    <2>3. \A m : Consistent(m)' <=> Consistent(m)
      BY SMTT(60) DEF Consistent
    <2> QED
      BY <1>1, <2>1, <2>2, <2>3 DEF Inv, NoOldAnswer, HasPartition, MetaConsistent, NotThrown,
                                    Answered
  <1> QED
    BY <1>3, <1>4 DEF Inv

\* The steps that leave brokers_ alone and at most forget leaders.
LEMMA NextInv == Inv /\ [Next]_vars => Inv'
  <1> SUFFICES ASSUME Inv, [Next]_vars PROVE Inv'
    OBVIOUS
  <1> USE DEF Inv, Shapes, NoOldAnswer, HasPartition, MetaConsistent, KnownLeaders, NotThrown,
              Answered, Goto, argVars
  <1>1. ASSUME NEW t \in Threads, Start(t) PROVE Inv'
    BY ZenonT(60), <1>1 DEF Start, cacheVars, clusterVars
  <1>2. ASSUME NEW t \in Threads, Call(t) PROVE Inv'
    <2>1. CASE Lookup(t)
      BY <2>1, NotNodes DEF Lookup, cacheVars, clusterVars
    <2>2. CASE Explain(t)
      BY SMTT(60), <2>2 DEF Explain, Finish, cacheVars, clusterVars
    <2>3. CASE ExplainError(t)
      BY Zenon, <2>3 DEF ExplainError, Finish, cacheVars, clusterVars
    <2>4. CASE ConnectOK(t)
      BY SMTT(60), <2>4 DEF ConnectOK, Finish, cacheVars, clusterVars
    <2>5. CASE ConnectFails(t)
      BY SMTT(60), <2>5 DEF ConnectFails, cacheVars, clusterVars
    <2>6. CASE Send(t)
      BY <2>6 DEF Send, cacheVars, clusterVars
    <2>7. CASE CallFails(t)
      BY <2>7 DEF CallFails, cacheVars, clusterVars
    <2>8. CASE ProduceAnswered(t)
      BY <2>8 DEF ProduceAnswered, Finish, cacheVars, clusterVars
    <2>9. CASE Erase(t)
      BY Zenon, <2>9, NotNodes DEF Erase, Finish, clusterVars
    <2>10. CASE Discard(t)
      BY ZenonT(60), <2>10, NotNodes DEF Discard, CloseBroker, clusterVars
    <2> QED BY ZenonT(60), <1>2, <2>1, <2>2, <2>3, <2>4, <2>5, <2>6, <2>7, <2>8, <2>9, <2>10 DEF Call
  <1>3. ASSUME NEW t \in Threads, RefreshMeta(t) PROVE Inv'
    <2>1. CASE Request(t)
      BY <2>1 DEF Request, cacheVars, clusterVars
    <2>2. CASE MetaLock(t)
      BY <2>2 DEF MetaLock, LeaveRefresh, cacheVars, clusterVars
    <2>3. CASE Pick(t)
      BY <2>3 DEF Pick, cacheVars, clusterVars
    <2>11. CASE Recheck(t)
      BY <2>11 DEF Recheck, LeaveRefresh, cacheVars, clusterVars
    <2>4. CASE BootOK(t)
      BY <2>4 DEF BootOK, clusterVars
    <2>5. CASE BootFails(t)
      BY SMTT(60), <2>5 DEF BootFails, LeaveRefresh, clusterVars
    <2>6. CASE DiscardMeta(t)
      BY <2>6, NotNodes DEF DiscardMeta, CloseBroker, clusterVars
    <2>7. CASE NoteError(t)
      BY <2>7 DEF NoteError, LeaveRefresh, clusterVars
    <2>8. CASE Apply(t)
      BY <2>8, ApplyInv
    <2>9. CASE ApplyCrashes(t)
      BY <2>9 DEF ApplyCrashes, cacheVars, clusterVars
    <2>10. CASE Stamp(t)
      BY Zenon, <2>10 DEF Stamp, LeaveRefresh, cacheVars, clusterVars
    <2> QED BY ZenonT(60), <1>3, <2>1, <2>2, <2>3, <2>4, <2>5, <2>6, <2>7, <2>8, <2>9, <2>10,
                <2>11 DEF RefreshMeta
  <1>4. ASSUME NEW t \in Threads, KafkaProduce(t) PROVE Inv'
    BY <1>4 DEF KafkaProduce, cacheVars, clusterVars
  <1>5. ASSUME NEW t \in Threads, KafkaMeta(t) PROVE Inv'
    BY <1>5, KafkaMetaInv
  <1>6. ASSUME NEW n \in Nodes, NodeDown(n) \/ NodeUp(n) PROVE Inv'
    BY <1>6 DEF NodeDown, NodeUp, cacheVars, threadVars
  <1>7. ASSUME NEW p \in Partitions, NEW n \in Nodes, Elect(p, n) PROVE Inv'
    BY <1>7 DEF Elect, cacheVars, threadVars
  <1>8. ASSUME NEW n \in Nodes, NEW a \in Addrs, Move(n, a) PROVE Inv'
    BY <1>8 DEF Move, cacheVars, threadVars
  <1>9. CASE UNCHANGED vars
    BY <1>9 DEF vars, cacheVars, threadVars, clusterVars
  <1> QED BY <1>1, <1>2, <1>3, <1>4, <1>5, <1>6, <1>7, <1>8, <1>9 DEF Next, Kafka

\* The inductive invariant holds in every reachable state.
THEOREM ClientInv == Spec => []Inv
  BY InitInv, NextInv, PTL DEF Spec

\* get_broker_for_partition always finds the leader of a known partition in
\* brokers_, whatever threads, failures and elections do: the case that "can't
\* happen (tm)" cannot, given that Kafka's metadata lists its own leaders.
THEOREM LeadersKnown == Spec => []KnownLeaders
  BY ClientInv, PTL DEF Inv

\* Hence no call closes the client and throws.
THEOREM NeverThrown == Spec => []NotThrown
  BY ClientInv, PTL DEF Inv
-------------------------------------------------------------------------------
\* As long as no node has moved, every address anybody knows of a node is the one
\* it started with.
SameAddresses ==
  /\ \A n \in Nodes : addrOf[n] \in {n, Down}
  /\ \A n \in DOMAIN brokers_ : brokers_[n] = n
  /\ \A t \in Threads : pc[t] = "await_meta" /\ resp[t] # NoAnswer =>
       \A n \in DOMAIN resp[t].nodes : resp[t].nodes[n] = n
  /\ \A t \in Threads : pc[t] # "dead"

AddressInv == moves \in Nat /\ addrOf = [n \in Nodes |-> addrOf[n]] /\ (moves = 0 => SameAddresses)

\* The nodes start at their addresses.
LEMMA AddressInit == Init => AddressInv
  BY DEF Init, AddressInv, SameAddresses, NoAnswer

\* A step by which no thread gets metadata, crashes, or comes to await an answer
\* that it has.
LEMMA AddressQuiet ==
  ASSUME AddressInv, Shapes, NEW t \in Threads, UNCHANGED <<addrOf, brokers_, moves>>,
         pc' = [pc EXCEPT ![t] = pc'[t]], resp' = [resp EXCEPT ![t] = resp'[t]], pc'[t] # "dead",
         pc'[t] = "await_meta" => resp'[t] = NoAnswer
  PROVE  AddressInv'
<1>1. \A u \in Threads \ {t} : pc'[u] = pc[u] /\ resp'[u] = resp[u]
  BY DEF Shapes
<1> QED BY <1>1 DEF AddressInv, SameAddresses

\* Every step keeps the addresses until a node moves.
LEMMA AddressStep == AddressInv /\ Inv /\ [Next]_vars => AddressInv'
<1> SUFFICES ASSUME AddressInv, Inv, [Next]_vars PROVE AddressInv'
  OBVIOUS
<1>0. /\ Shapes /\ NoOldAnswer
      /\ pc = [u \in Threads |-> pc[u]] /\ resp = [u \in Threads |-> resp[u]]
  BY DEF Inv, Shapes
<1> USE DEF Goto, clusterVars, cacheVars
<1>1. ASSUME NEW t \in Threads, Start(t) PROVE AddressInv'
  BY <1>0, <1>1, AddressQuiet DEF Start
<1>2. ASSUME NEW t \in Threads, Call(t) PROVE AddressInv'
  <2>1. CASE Lookup(t) \/ Explain(t) \/ ExplainError(t) \/ ConnectOK(t)
    <3>1. UNCHANGED <<addrOf, brokers_, moves>>
      BY ZenonT(60), <2>1 DEF Lookup, Explain, ExplainError, ConnectOK
    <3>2. resp' = resp \/ resp' = [resp EXCEPT ![t] = NoAnswer]
      BY ZenonT(60), <2>1 DEF Lookup, Explain, ExplainError, ConnectOK, Finish
    <3>3. \/ pc' = pc /\ pc[t] = "connect"
          \/ \E l \in {"idle", "thrown", "request", "explain", "connect", "explain_error", "send"} :
               pc' = [pc EXCEPT ![t] = l]
      BY ZenonT(60), <2>1 DEF Lookup, Explain, ExplainError, ConnectOK, Finish
    <3>4. /\ pc' = [pc EXCEPT ![t] = pc'[t]] /\ resp' = [resp EXCEPT ![t] = resp'[t]]
          /\ pc'[t] # "dead" /\ pc'[t] # "await_meta"
      BY SMTT(60), <1>0, <3>2, <3>3
    <3> QED BY ZenonT(60), <1>0, <3>1, <3>4, AddressQuiet
  <2>2. CASE ConnectFails(t) \/ CallFails(t)
    BY <1>0, <2>2, AddressQuiet DEF ConnectFails, CallFails
  <2>3. CASE Send(t)
    <3>1. resp[t] = NoAnswer
      BY SMTT(60), <1>0, <2>3 DEF Send, NoOldAnswer, Answered
    <3> QED BY SMTT(60), <1>0, <2>3, <3>1, AddressQuiet DEF Send
  <2>4. CASE ProduceAnswered(t) \/ Erase(t) \/ Discard(t)
    BY <1>0, <2>4, AddressQuiet DEF ProduceAnswered, Erase, Discard, CloseBroker, Finish
  <2> QED BY SMTT(60), <1>2, <2>1, <2>2, <2>3, <2>4 DEF Call
<1>3. ASSUME NEW t \in Threads, RefreshMeta(t) PROVE AddressInv'
  <2>1. CASE Request(t) \/ MetaLock(t) \/ Pick(t) \/ Recheck(t)
    BY <1>0, <2>1, AddressQuiet DEF Request, MetaLock, Pick, Recheck, LeaveRefresh
  <2>2. CASE BootOK(t) \/ BootFails(t)
    BY SMTT(60), <1>0, <2>2, AddressQuiet DEF BootOK, BootFails, LeaveRefresh
  <2>3. CASE DiscardMeta(t) \/ NoteError(t) \/ Stamp(t)
    BY <1>0, <2>3, AddressQuiet DEF DiscardMeta, CloseBroker, NoteError, Stamp, LeaveRefresh
  <2>4. CASE Apply(t)
    <3>1. /\ pc[t] = "await_meta" /\ resp[t] # NoAnswer /\ brokers_' = Configs(resp[t])
          /\ pc' = [pc EXCEPT ![t] = "stamp"] /\ UNCHANGED <<resp, addrOf, moves>>
      BY <2>4 DEF Apply
    <3>2. \A u \in Threads : pc'[u] = IF u = t THEN "stamp" ELSE pc[u]
      BY <1>0, <3>1
    <3>3. ASSUME moves = 0 PROVE \A n \in DOMAIN brokers_' : brokers_'[n] = n
      BY <3>1, <3>3 DEF Configs, AddressInv, SameAddresses
    <3> QED BY <3>1, <3>2, <3>3 DEF AddressInv, SameAddresses
  <2>5. CASE ApplyCrashes(t)
    <3>1. /\ pc[t] = "await_meta" /\ resp[t] # NoAnswer /\ Moved(resp[t]) # {}
          /\ UNCHANGED <<addrOf, moves>>
      BY <2>5 DEF ApplyCrashes
    <3>2. moves # 0
      BY <3>1 DEF AddressInv, SameAddresses, Moved
    <3> QED BY SMTT(60), <3>1, <3>2 DEF AddressInv
  <2> QED BY SMTT(60), <1>3, <2>1, <2>2, <2>3, <2>4, <2>5 DEF RefreshMeta
<1>4. ASSUME NEW t \in Threads, KafkaProduce(t) PROVE AddressInv'
  BY <1>0, <1>4, AddressQuiet DEF KafkaProduce
<1>5. ASSUME NEW t \in Threads, KafkaMeta(t) PROVE AddressInv'
  <2>1. /\ UNCHANGED <<pc, brokers_, addrOf, moves>>
        /\ \A u \in Threads : u # t => resp'[u] = resp[u]
        /\ resp'[t].nodes = [n \in {m \in Nodes : Live(m)} |-> addrOf[n]]
    BY <1>0, <1>5 DEF KafkaMeta
  <2>2. ASSUME moves = 0 PROVE \A n \in DOMAIN resp'[t].nodes : resp'[t].nodes[n] = n
    BY <2>1, <2>2 DEF AddressInv, SameAddresses, Live
  <2> QED BY <2>1, <2>2 DEF AddressInv, SameAddresses
<1>6. ASSUME UNCHANGED <<pc, resp, brokers_, addrOf, moves>> PROVE AddressInv'
  BY <1>6 DEF AddressInv, SameAddresses
<1>7. ASSUME NEW n \in Nodes, NodeDown(n) \/ NodeUp(n) PROVE AddressInv'
  <2>1. /\ UNCHANGED <<pc, resp, brokers_, moves>>
        /\ addrOf' = [addrOf EXCEPT ![n] = addrOf'[n]] /\ addrOf'[n] \in {n, Down}
    BY <1>7 DEF NodeDown, NodeUp, threadVars, AddressInv
  <2> QED BY <2>1 DEF AddressInv, SameAddresses
<1>8. ASSUME NEW p \in Partitions, NEW n \in Nodes, Elect(p, n) PROVE AddressInv'
  BY <1>6, <1>8 DEF Elect, threadVars
<1>9. ASSUME NEW n \in Nodes, NEW a \in Addrs, Move(n, a) PROVE AddressInv'
  BY <1>9 DEF Move, AddressInv
<1>10. CASE UNCHANGED vars
  BY <1>6, <1>10 DEF vars, threadVars
<1> QED BY <1>1, <1>2, <1>3, <1>4, <1>5, <1>7, <1>8, <1>9, <1>10 DEF Next, Kafka

\* Only a broker that comes back at another address can be closed through a null
\* pointer: refresh_meta does not crash on any other change of the cluster.
THEOREM CrashesOnlyByMove == Spec => []CrashOnlyByMove
<1>1. AddressInv /\ Inv /\ [Next]_vars => AddressInv'
  BY AddressStep
<1>2. AddressInv => CrashOnlyByMove
  BY DEF AddressInv, SameAddresses, CrashOnlyByMove
<1> QED BY <1>1, <1>2, AddressInit, ClientInv, PTL DEF Spec
-------------------------------------------------------------------------------
\* One thread uses the client.
OneThread == \A t, u \in Threads : t = u

\* On the way to no_error for a batch of this thread, Kafka has stored it; an
\* error that is to be reported is one.
OnTheWay(t) ==
  /\ result[t] = NoError => acked[t]
  /\ pc[t] = "await" /\ resp[t] # NoAnswer /\ resp[t].code = NoError => acked[t]
  /\ pc[t] = "explain_error" => last_meta_error_ # NoError
  /\ pc[t] = "erase" => resp[t].code # NoError
  /\ pc[t] = "discard" => err[t] # NoError

StoredInv ==
  /\ op = [t \in Threads |-> op[t]] /\ err = [t \in Threads |-> err[t]]
  /\ result = [t \in Threads |-> result[t]] /\ acked = [t \in Threads |-> acked[t]]
  /\ \A t \in Threads : op[t] = "produce" => OnTheWay(t)

\* No call has begun.
LEMMA StoredInit == Init => StoredInv
  BY DEF Init, StoredInv, OnTheWay, NoError, NoAnswer

\* With one thread every step keeps to that way.
LEMMA StoredStep == OneThread /\ StoredInv /\ Inv /\ [Next]_vars => StoredInv'
<1> SUFFICES ASSUME OneThread, StoredInv, Inv, [Next]_vars PROVE StoredInv'
  OBVIOUS
<1>0. /\ Shapes /\ NoOldAnswer
      /\ pc = [u \in Threads |-> pc[u]] /\ resp = [u \in Threads |-> resp[u]]
  BY DEF Inv, Shapes
<1>1. ASSUME NEW t \in Threads,
             op' = [op EXCEPT ![t] = op'[t]], err' = [err EXCEPT ![t] = err'[t]],
             result' = [result EXCEPT ![t] = result'[t]], acked' = [acked EXCEPT ![t] = acked'[t]],
             op'[t] = "produce" => OnTheWay(t)'
      PROVE  StoredInv'
  <2>1. \A u \in Threads : u = t
    BY DEF OneThread
  <2> QED BY <1>1, <2>1 DEF StoredInv
<1> USE DEF Goto, argVars, cacheVars
<1>2. ASSUME NEW t \in Threads, Start(t) PROVE StoredInv'
  <2>1. OnTheWay(t)'
    BY <1>0, <1>2 DEF Start, OnTheWay, NoError, StoredInv
  <2> QED BY ZenonT(60), <1>1, <1>2, <2>1 DEF Start, StoredInv
<1>3. ASSUME NEW t \in Threads, NEW ec, Finish(t, ec), UNCHANGED <<op, acked>>,
             op[t] = "produce" /\ ec = NoError => acked[t]
      PROVE  StoredInv'
  <2>1. op[t] = "produce" => OnTheWay(t)'
    BY SMTT(60), <1>0, <1>3 DEF Finish, OnTheWay, StoredInv
  <2> QED BY ZenonT(60), <1>1, <1>3, <2>1 DEF Finish, StoredInv
<1>4. ASSUME NEW t \in Threads, UNCHANGED <<op, result, acked>>,
             err' = [err EXCEPT ![t] = err'[t]],
             pc' = [pc EXCEPT ![t] = pc'[t]], resp' = [resp EXCEPT ![t] = resp'[t]],
             pc'[t] = "await" => resp'[t] = NoAnswer,
             pc'[t] = "explain_error" => last_meta_error_' # NoError,
             pc'[t] = "erase" => resp'[t].code # NoError,
             pc'[t] = "discard" => err'[t] # NoError
      PROVE  StoredInv'
  <2>1. op[t] = "produce" => OnTheWay(t)'
    BY <1>4 DEF OnTheWay, StoredInv
  <2> QED BY SMTT(60), <1>1, <1>4, <2>1 DEF StoredInv
<1>5. ASSUME NEW t \in Threads, Call(t) PROVE StoredInv'
  <2>1. CASE Lookup(t)
    BY SMTT(60), <1>0, <1>4, <2>1 DEF Lookup, StoredInv
  <2>2. CASE Explain(t)
    <3>1. CASE Finish(t, "UnknownTopicOrPartition")
      BY <1>3, <2>2, <3>1 DEF Explain, NoError
    <3>2. CASE last_meta_error_ # NoError /\ Goto(t, "explain_error") /\ UNCHANGED <<objVars, err, resp, result>>
      BY Zenon, <1>0, <1>4, <2>2, <3>2 DEF Explain, StoredInv
    <3> QED BY <2>2, <3>1, <3>2 DEF Explain
  <2>3. CASE ExplainError(t)
    <3>1. op[t] = "produce" => last_meta_error_ # NoError
      BY <2>3 DEF ExplainError, StoredInv, OnTheWay
    <3> QED BY SMTT(20), <1>3, <2>3, <3>1 DEF ExplainError
  <2>4. CASE ConnectOK(t)
    <3>1. CASE op[t] = "check" /\ Finish(t, NoError)
      BY <1>3, <2>4, <3>1 DEF ConnectOK
    <3>2. CASE pc' = [pc EXCEPT ![t] = "send"] /\ UNCHANGED <<err, resp, result>>
      BY Zenon, <1>0, <1>4, <2>4, <3>2 DEF ConnectOK, StoredInv
    <3>3. CASE UNCHANGED <<pc, err, resp, result>>
      <4>1. pc[t] = "connect"
        BY ZenonT(60), <2>4 DEF ConnectOK
      <4> QED BY Zenon, <1>0, <1>4, <2>4, <3>3, <4>1 DEF ConnectOK, StoredInv
    <3> QED BY SMTT(60), <2>4, <3>1, <3>2, <3>3 DEF ConnectOK
  <2>5. CASE ConnectFails(t) \/ CallFails(t)
    BY SMTT(60), <1>0, <1>4, <2>5 DEF ConnectFails, CallFails, StoredInv, NoError
  <2>6. CASE Send(t)
    <3>1. resp[t] = NoAnswer
      BY SMTT(60), <1>0, <2>6 DEF Send, NoOldAnswer, Answered
    <3> QED BY <1>0, <1>4, <2>6, <3>1 DEF Send, StoredInv, NoError
  <2>7. CASE ProduceAnswered(t)
    <3>1. CASE Finish(t, resp[t].code)
      <4>1. op[t] = "produce" /\ resp[t].code = NoError => acked[t]
        BY <2>7 DEF ProduceAnswered, StoredInv, OnTheWay
      <4> QED BY SMTT(60), <1>3, <2>7, <3>1, <4>1 DEF ProduceAnswered
    <3>2. CASE /\ resp[t].code = "NotLeaderForPartition" /\ Goto(t, "erase")
               /\ UNCHANGED <<objVars, err, resp, result>>
      BY ZenonT(60), <1>0, <1>4, <2>7, <3>2 DEF ProduceAnswered, StoredInv, NoError
    <3> QED BY <2>7, <3>1, <3>2 DEF ProduceAnswered
  <2>8. CASE Erase(t)
    <3>1. op[t] = "produce" => resp[t].code # NoError
      BY <2>8 DEF Erase, StoredInv, OnTheWay
    <3> QED BY <1>3, <2>8, <3>1 DEF Erase
  <2>9. CASE Discard(t)
    <3>1. op[t] = "produce" => err[t] # NoError
      BY <2>9 DEF Discard, StoredInv, OnTheWay
    <3>2. op[t] = "produce" => OnTheWay(t)'
      BY <1>0, <2>9, <3>1 DEF Discard, OnTheWay, StoredInv
    <3> QED BY Zenon, <1>1, <2>9, <3>2 DEF Discard, StoredInv
  <2> QED BY SMTT(60), <1>5, <2>1, <2>2, <2>3, <2>4, <2>5, <2>6, <2>7, <2>8, <2>9 DEF Call
<1>6. ASSUME NEW t \in Threads, RefreshMeta(t) PROVE StoredInv'
  <2>1. CASE Request(t) \/ MetaLock(t) \/ Pick(t) \/ Recheck(t)
    <3>1. UNCHANGED <<op, result, acked>>
      BY ZenonT(60), <2>1 DEF Request, MetaLock, Pick, Recheck
    <3>2. /\ err' = err \/ err' = [err EXCEPT ![t] = NoError]
          /\ resp' = resp \/ resp' = [resp EXCEPT ![t] = NoAnswer]
      BY ZenonT(60), <2>1 DEF Request, MetaLock, Pick, Recheck, LeaveRefresh
    <3>3. \E l \in {"meta_lock", "lookup", "pick", "recheck", "boot", "fetch"} : pc' = [pc EXCEPT ![t] = l]
      BY ZenonT(60), <2>1 DEF Request, MetaLock, Pick, Recheck, LeaveRefresh
    <3>4. err' = [err EXCEPT ![t] = err'[t]] /\ resp' = [resp EXCEPT ![t] = resp'[t]]
      BY SMTT(60), <1>0, <3>2 DEF StoredInv
    <3>5. /\ pc' = [pc EXCEPT ![t] = pc'[t]]
          /\ pc'[t] \notin {"await", "explain_error", "erase", "discard"}
      BY SMTT(60), <1>0, <3>3
    <3> QED BY ZenonT(60), <1>4, <3>1, <3>4, <3>5
  <2>2. CASE BootOK(t) \/ BootFails(t)
    BY SMTT(60), <1>0, <1>4, <2>2 DEF BootOK, BootFails, LeaveRefresh, StoredInv
  <2>3. CASE DiscardMeta(t) \/ NoteError(t) \/ Apply(t) \/ Stamp(t)
    BY <1>0, <1>4, <2>3 DEF DiscardMeta, NoteError, Apply, Stamp, LeaveRefresh, StoredInv
  <2>4. CASE ApplyCrashes(t)
    <3>1. pc' = [u \in Threads |-> "dead"] /\ UNCHANGED <<op, err, result, acked>>
      BY Zenon, <2>4 DEF ApplyCrashes
    <3> QED BY <3>1 DEF StoredInv, OnTheWay
  <2> QED BY SMTT(60), <1>6, <2>1, <2>2, <2>3, <2>4 DEF RefreshMeta
<1>7. ASSUME NEW t \in Threads, KafkaProduce(t) PROVE StoredInv'
  <2>1. /\ pc[t] = "await" /\ UNCHANGED <<pc, op, err, result, last_meta_error_>>
        /\ \/ acked'[t] = TRUE /\ acked' = [acked EXCEPT ![t] = TRUE]
           \/ resp'[t].code # NoError /\ UNCHANGED acked
    BY <1>0, <1>7 DEF KafkaProduce, StoredInv, NoError
  <2>2. op[t] = "produce" => OnTheWay(t)'
    BY <2>1 DEF StoredInv, OnTheWay
  <2> QED BY SMTT(60), <1>1, <2>1, <2>2 DEF StoredInv
<1>8. ASSUME NEW t \in Threads, KafkaMeta(t) PROVE StoredInv'
  <2>1. pc[t] = "await_meta" /\ UNCHANGED <<pc, op, err, result, acked>>
    BY ZenonT(60), <1>8 DEF KafkaMeta
  <2>2. op[t] = "produce" => OnTheWay(t)'
    BY SMTT(60), <2>1 DEF StoredInv, OnTheWay
  <2> QED BY Zenon, <1>1, <2>1, <2>2 DEF StoredInv
<1>9. ASSUME UNCHANGED <<pc, op, err, result, acked, resp, last_meta_error_>> PROVE StoredInv'
  BY SMTT(60), <1>9 DEF StoredInv, OnTheWay
<1>10. ASSUME NEW n \in Nodes, NodeDown(n) \/ NodeUp(n) PROVE StoredInv'
  BY <1>9, <1>10 DEF NodeDown, NodeUp, threadVars
<1>11. ASSUME NEW p \in Partitions, NEW n \in Nodes, Elect(p, n) PROVE StoredInv'
  BY <1>9, <1>11 DEF Elect, threadVars
<1>12. ASSUME NEW n \in Nodes, NEW a \in Addrs, Move(n, a) PROVE StoredInv'
  BY <1>9, <1>12 DEF Move, threadVars
<1>13. CASE UNCHANGED vars
  BY <1>9, <1>13 DEF vars, threadVars
<1> QED BY <1>2, <1>5, <1>6, <1>7, <1>8, <1>10, <1>11, <1>12, <1>13 DEF Next, Kafka

\* When one thread uses the client, produce() returns no_error only for a batch
\* that Kafka has stored, in any cluster and whatever fails.  With two threads
\* it is not so: ExplainError.
THEOREM SingleThreadSuccess == Spec => [](OneThread => SuccessIsStored)
<1>1. StoredInv => SuccessIsStored
  BY DEF StoredInv, OnTheWay, SuccessIsStored
<1>2. CASE OneThread
  <2>1. StoredInv /\ Inv /\ [Next]_vars => StoredInv'
    BY <1>2, StoredStep
  <2>2. Spec => []SuccessIsStored
    BY <1>1, <2>1, StoredInit, ClientInv, PTL DEF Spec
  <2>3. SuccessIsStored => (OneThread => SuccessIsStored)
    OBVIOUS
  <2> QED BY <2>2, <2>3, PTL
<1>3. CASE ~OneThread
  <2>1. OneThread => SuccessIsStored
    BY <1>3
  <2> QED BY <2>1, PTL
<1> QED BY <1>2, <1>3
-------------------------------------------------------------------------------
\* A step by which one thread takes or releases mutexes as its place in the code
\* says.
LEMMA LocksOfOne ==
  ASSUME LocksInOrder, Shapes, NEW t \in Threads, pc[t] # "dead", pc' = [pc EXCEPT ![t] = pc'[t]],
         \/ meta_fetch_mu_' = meta_fetch_mu_
         \/ meta_fetch_mu_ \in {t, Nobody} /\ meta_fetch_mu_' \in {t, Nobody},
         mu_' = mu_ \/ (mu_ \in {t, Nobody} /\ mu_' \in {t, Nobody}),
         pc'[t] \in Fetching <=> meta_fetch_mu_' = t,
         pc'[t] \in {"recheck", "boot"} <=> mu_' = t
  PROVE  LocksInOrder'
<1>1. \A u \in Threads \ {t} : pc'[u] = pc[u]
  BY DEF Shapes
<1>2. \A u \in Threads \ {t} : /\ meta_fetch_mu_' = u <=> meta_fetch_mu_ = u
                               /\ mu_' = u <=> mu_ = u
  BY ThreadAssumption
<1> QED BY <1>1, <1>2 DEF LocksInOrder

\* Every step keeps to the order of the mutexes.
LEMMA LocksStep == LocksInOrder /\ Inv /\ [Next]_vars => LocksInOrder'
<1> SUFFICES ASSUME LocksInOrder, Inv, [Next]_vars PROVE LocksInOrder'
  OBVIOUS
<1>0. Shapes /\ pc = [u \in Threads |-> pc[u]]
  BY DEF Inv, Shapes
<1>1. \A t \in Threads : /\ pc[t] \in Fetching => meta_fetch_mu_ = t
                         /\ meta_fetch_mu_ = t /\ pc[t] # "dead" => pc[t] \in Fetching
                         /\ pc[t] \in {"recheck", "boot"} => mu_ = t
                         /\ mu_ = t /\ pc[t] # "dead" => pc[t] \in {"recheck", "boot"}
                         /\ t # Nobody
  BY ThreadAssumption DEF LocksInOrder, Fetching
<1>2. ASSUME NEW t \in Threads, NEW l \in Labels, pc[t] # "dead", pc' = [pc EXCEPT ![t] = l],
             UNCHANGED <<mu_, meta_fetch_mu_>>, l \in Fetching <=> pc[t] \in Fetching,
             l \notin {"recheck", "boot"}, pc[t] \notin {"recheck", "boot"}
      PROVE  LocksInOrder'
  BY SMTT(60), <1>0, <1>1, <1>2, LocksOfOne
<1> USE DEF Goto, lockVars, MuFree
<1>3. ASSUME NEW t \in Threads, Start(t) PROVE LocksInOrder'
  BY Zenon, <1>2, <1>3 DEF Start, Fetching, Labels
<1>4. ASSUME NEW t \in Threads, Call(t) PROVE LocksInOrder'
  <2>1. CASE Lookup(t)
    BY SMTT(60), <1>2, <2>1 DEF Lookup, Fetching, Labels
  <2>2. CASE Explain(t)
    BY SMTT(60), <1>2, <2>2 DEF Explain, Fetching, Labels, Finish
  <2>3. CASE ExplainError(t)
    BY Zenon, <1>2, <2>3 DEF ExplainError, Fetching, Labels, Finish
  <2>4. CASE ConnectOK(t)
    <3>1. CASE UNCHANGED pc
      BY SMTT(60), <2>4, <3>1 DEF ConnectOK, LocksInOrder
    <3>2. CASE \E l \in {"idle", "send"} : pc' = [pc EXCEPT ![t] = l]
      BY ZenonT(60), <1>2, <2>4, <3>2 DEF ConnectOK, Fetching, Labels
    <3> QED BY ZenonT(60), <2>4, <3>1, <3>2 DEF ConnectOK, Finish
  <2>5. CASE ConnectFails(t)
    BY ZenonT(60), <1>2, <2>5 DEF ConnectFails, Fetching, Labels
  <2>6. CASE Send(t)
    BY SMTT(60), <1>2, <2>6 DEF Send, Fetching, Labels
  <2>7. CASE CallFails(t)
    BY ZenonT(60), <1>2, <2>7 DEF CallFails, Fetching, Labels
  <2>8. CASE ProduceAnswered(t)
    BY SMTT(60), <1>2, <2>8 DEF ProduceAnswered, Fetching, Labels, Finish
  <2>9. CASE Erase(t)
    BY ZenonT(60), <1>2, <2>9 DEF Erase, Fetching, Labels, Finish
  <2>10. CASE Discard(t)
    BY Zenon, <1>2, <2>10 DEF Discard, Fetching, Labels
  <2> QED BY ZenonT(60), <1>4, <2>1, <2>2, <2>3, <2>4, <2>5, <2>6, <2>7, <2>8, <2>9, <2>10 DEF Call
<1>5. ASSUME NEW t \in Threads, RefreshMeta(t) PROVE LocksInOrder'
  <2>1. CASE Request(t)
    BY ZenonT(60), <1>2, <2>1 DEF Request, Fetching, Labels
  <2>2. CASE MetaLock(t)
    BY SMTT(60), <1>0, <1>1, <2>2, LocksOfOne DEF MetaLock, Fetching, LeaveRefresh
  <2>3. CASE Pick(t)
    BY SMTT(60), <1>0, <1>1, <2>3, LocksOfOne DEF Pick, Fetching, LeaveRefresh
  <2>4. CASE Recheck(t)
    BY SMTT(60), <1>0, <1>1, <2>4, LocksOfOne DEF Recheck, Fetching, LeaveRefresh
  <2>5. CASE BootOK(t)
    BY SMTT(60), <1>0, <1>1, <2>5, LocksOfOne DEF BootOK, Fetching, LeaveRefresh
  <2>6. CASE BootFails(t)
    BY SMTT(60), <1>0, <1>1, <2>6, LocksOfOne DEF BootFails, Fetching, LeaveRefresh
  <2>7. CASE DiscardMeta(t)
    BY ZenonT(60), <1>2, <2>7 DEF DiscardMeta, Fetching, Labels
  <2>8. CASE NoteError(t)
    BY SMTT(60), <1>0, <1>1, <2>8, LocksOfOne DEF NoteError, Fetching, LeaveRefresh
  <2>9. CASE Apply(t)
    BY ZenonT(60), <1>2, <2>9 DEF Apply, Fetching, Labels
  <2>10. CASE Stamp(t)
    BY SMTT(60), <1>0, <1>1, <2>10, LocksOfOne DEF Stamp, Fetching, LeaveRefresh
  <2>11. CASE ApplyCrashes(t)
    BY Zenon, <2>11 DEF ApplyCrashes, LocksInOrder
  <2> QED BY ZenonT(60), <1>5, <2>1, <2>2, <2>3, <2>4, <2>5, <2>6, <2>7, <2>8, <2>9, <2>10,
             <2>11 DEF RefreshMeta
<1>6. ASSUME UNCHANGED <<pc, mu_, meta_fetch_mu_>> PROVE LocksInOrder'
  BY SMTT(60), <1>6 DEF LocksInOrder
<1>7. ASSUME NEW t \in Threads, Kafka(t) PROVE LocksInOrder'
  <2>1. UNCHANGED <<pc, lockVars>>
    BY ZenonT(60), <1>7 DEF Kafka, KafkaProduce, KafkaMeta
  <2> QED BY ZenonT(60), <1>6, <2>1 DEF lockVars
<1>8. ASSUME NEW n \in Nodes, NodeDown(n) \/ NodeUp(n) PROVE LocksInOrder'
  BY <1>6, <1>8 DEF NodeDown, NodeUp, threadVars
<1>9. ASSUME NEW p \in Partitions, NEW n \in Nodes, Elect(p, n) PROVE LocksInOrder'
  BY <1>6, <1>9 DEF Elect, threadVars
<1>10. ASSUME NEW n \in Nodes, NEW a \in Addrs, Move(n, a) PROVE LocksInOrder'
  BY <1>6, <1>10 DEF Move, threadVars
<1>11. CASE UNCHANGED vars
  BY <1>6, <1>11 DEF vars, threadVars
<1> QED BY <1>3, <1>4, <1>5, <1>7, <1>8, <1>9, <1>10, <1>11 DEF Next

\* With any number of threads one at a time fetches metadata, mu_ is kept over a
\* step that can block only inside meta_fetch_mu_, and every way out of
\* refresh_meta releases both: no two threads can wait for each other.
THEOREM LocksAreOrdered == Spec => []LocksInOrder
<1>1. LocksInOrder /\ Inv /\ [Next]_vars => LocksInOrder'
  BY LocksStep
<1>2. Init => LocksInOrder
  BY ThreadAssumption DEF Init, LocksInOrder, Fetching
<1> QED BY <1>1, <1>2, ClientInv, PTL DEF Spec
-------------------------------------------------------------------------------
(* The types, apart from those of pointers and objects *)

CacheTypes ==
  /\ broker_configs_ \in Seq(Bootstrap)
  /\ partition_map_ \in [Partitions -> Nodes \cup {NoLeader, Unknown}]
  /\ DOMAIN brokers_ \subseteq Nodes /\ \A n \in DOMAIN brokers_ : brokers_[n] \in Addrs
  /\ last_meta_error_ \in NetworkErrors \cup {NoError}

LockTypes ==
  fresh \subseteq Threads /\ mu_ \in Threads \cup {Nobody} /\ meta_fetch_mu_ \in Threads \cup {Nobody}

ThreadTypes ==
  /\ pc \in [Threads -> Labels]
  /\ refresh \in [Threads -> BOOLEAN] /\ attempts \in [Threads -> 0..RetryAttempts]
  /\ err \in [Threads -> NetworkErrors \cup {NoError}]

\* An answer to a metadata request gives nodes with their addresses and a leader,
\* or none, for each partition.
IsMetadata(meta) ==
  /\ DOMAIN meta.nodes \subseteq Nodes /\ \A n \in DOMAIN meta.nodes : meta.nodes[n] \in Addrs
  /\ meta.leaders \in [Partitions -> Nodes \cup {NoLeader}]

AnswerTypes ==
  /\ resp = [t \in Threads |-> resp[t]] /\ \A t \in Threads : resp[t].code \in Codes
  /\ \A t \in Threads : pc[t] = "await_meta" /\ resp[t] # NoAnswer => IsMetadata(resp[t])

ClusterTypes == addrOf \in [Nodes -> Addrs \cup {Down}] /\ leader \in [Partitions -> Nodes]

ClientTypes == CacheTypes /\ LockTypes /\ ThreadTypes /\ AnswerTypes /\ ClusterTypes

\* The client is constructed with the bootstrap addresses in some order.
LEMMA TypesInit == Init => ClientTypes
<1> SUFFICES ASSUME Init PROVE ClientTypes
  OBVIOUS
<1>1. Cardinality(Bootstrap) \in Nat
  BY ClientAssumption DEF ClientAssumption
<1>2. broker_configs_ \in Seq(Bootstrap)
  BY SMTT(60), <1>1 DEF Init
<1>3. CacheTypes
  BY SMTT(60), <1>2 DEF Init, CacheTypes, NetworkErrors
<1>4. LockTypes /\ ThreadTypes
  BY SMTT(60), ClientAssumption DEF Init, LockTypes, ThreadTypes, Labels, ClientAssumption
<1>5. AnswerTypes
  BY SMTT(60) DEF Init, AnswerTypes, NoAnswer, Codes
<1>6. ClusterTypes
  BY SMTT(60), ClientAssumption DEF Init, ClusterTypes, ClientAssumption
<1> QED BY SMTT(60), <1>3, <1>4, <1>5, <1>6 DEF ClientTypes

\* A step of one thread that gets it no answer and leaves the cluster alone.
LEMMA TypesOfOne ==
  ASSUME ClientTypes, CacheTypes', LockTypes', NEW t \in Threads,
         pc' = [pc EXCEPT ![t] = pc'[t]], pc'[t] \in Labels,
         refresh' = [refresh EXCEPT ![t] = refresh'[t]], refresh'[t] \in BOOLEAN,
         attempts' = [attempts EXCEPT ![t] = attempts'[t]], attempts'[t] \in 0..RetryAttempts,
         err' = [err EXCEPT ![t] = err'[t]], err'[t] \in NetworkErrors \cup {NoError},
         resp' = [resp EXCEPT ![t] = resp'[t]], resp'[t] \in {NoAnswer, resp[t]},
         pc'[t] = "await_meta" => resp'[t] = NoAnswer,
         UNCHANGED <<addrOf, leader>>
  PROVE  ClientTypes'
<1>1. ThreadTypes'
  <2>1. pc' \in [Threads -> Labels] /\ refresh' \in [Threads -> BOOLEAN]
    BY SMTT(60) DEF ClientTypes, ThreadTypes
  <2>2. attempts' \in [Threads -> 0..RetryAttempts]
    BY SMTT(60) DEF ClientTypes, ThreadTypes
  <2>3. err' \in [Threads -> NetworkErrors \cup {NoError}]
    BY SMTT(60) DEF ClientTypes, ThreadTypes
  <2> QED BY SMTT(60), <2>1, <2>2, <2>3 DEF ThreadTypes
<1>2. AnswerTypes'
  <2>1. \A u \in Threads : u # t => pc'[u] = pc[u] /\ resp'[u] = resp[u]
    BY ZenonT(60) DEF ClientTypes, ThreadTypes, AnswerTypes
  <2>2. \A u \in Threads : resp'[u].code \in Codes
    BY <2>1 DEF ClientTypes, AnswerTypes, NoAnswer, Codes
  <2>3. resp' = [u \in Threads |-> resp'[u]]
    BY ZenonT(60) DEF ClientTypes, AnswerTypes
  <2>4. \A m : IsMetadata(m)' <=> IsMetadata(m)
    BY DEF IsMetadata
  <2> QED BY SMTT(60), <2>1, <2>2, <2>3, <2>4 DEF ClientTypes, AnswerTypes
<1>3. ClusterTypes'
  BY SMTT(60) DEF ClientTypes, ClusterTypes
<1> QED BY SMTT(60), <1>1, <1>2, <1>3 DEF ClientTypes

\* Every step keeps the types of the client's state.
LEMMA TypesStep == ClientTypes /\ Inv /\ [Next]_vars => ClientTypes'
<1> SUFFICES ASSUME ClientTypes, Inv, [Next]_vars PROVE ClientTypes'
  OBVIOUS
<1>1. /\ pc \in [Threads -> Labels] /\ refresh \in [Threads -> BOOLEAN]
      /\ attempts \in [Threads -> 0..RetryAttempts]
      /\ err \in [Threads -> NetworkErrors \cup {NoError}] /\ resp = [u \in Threads |-> resp[u]]
  BY SMTT(60) DEF ClientTypes, ThreadTypes, AnswerTypes
<1>2. RetryAttempts \in Nat
  BY ClientAssumption DEF ClientAssumption
<1>3. ASSUME UNCHANGED cacheVars PROVE CacheTypes'
  BY SMTT(60), <1>3 DEF cacheVars, ClientTypes, CacheTypes
<1>4. ASSUME UNCHANGED <<broker_configs_, brokers_, last_meta_error_>>,
             \/ \E p : partition_map_' = [partition_map_ EXCEPT ![p] = Unknown]
             \/ partition_map_' = [p \in Partitions |-> Unknown]
      PROVE  CacheTypes'
  BY SMTT(60), <1>4 DEF ClientTypes, CacheTypes
<1>5. ASSUME UNCHANGED <<broker_configs_, brokers_, partition_map_>>,
             last_meta_error_' \in NetworkErrors \cup {NoError}
      PROVE  CacheTypes'
  BY SMTT(60), <1>5 DEF ClientTypes, CacheTypes
<1>6. ASSUME NEW t \in Threads, fresh' \subseteq Threads, mu_' \in {mu_, t, Nobody},
             meta_fetch_mu_' \in {meta_fetch_mu_, t, Nobody}
      PROVE  LockTypes'
  BY <1>6 DEF ClientTypes, LockTypes
<1>7. fresh \subseteq Threads /\ (UNCHANGED lockVars => LockTypes')
  BY SMTT(60) DEF ClientTypes, LockTypes, lockVars
<1>8. ASSUME NEW t \in Threads, NEW l \in Labels, pc' = [pc EXCEPT ![t] = l],
             CacheTypes', LockTypes', UNCHANGED <<refresh, attempts, resp>>,
             err' = [err EXCEPT ![t] = err'[t]], err'[t] \in NetworkErrors \cup {NoError},
             l = "await_meta" => resp[t] = NoAnswer, UNCHANGED clusterVars
      PROVE  ClientTypes'
  BY ZenonT(60), <1>1, <1>8, TypesOfOne DEF clusterVars
<1>9. ASSUME NEW t \in Threads, NEW ec, Finish(t, ec), CacheTypes', LockTypes',
             UNCHANGED <<argVars, clusterVars>>
      PROVE  ClientTypes'
  BY ZenonT(60), <1>1, <1>9, TypesOfOne DEF Finish, Goto, argVars, clusterVars, Labels
<1>10. ASSUME NEW t \in Threads, LeaveRefresh(t), CacheTypes', LockTypes',
              UNCHANGED <<attempts, clusterVars>>
       PROVE  ClientTypes'
  BY Zenon, <1>1, <1>10, TypesOfOne DEF LeaveRefresh, Goto, clusterVars, Labels
<1> USE DEF Goto, argVars, Labels
<1>11. ASSUME NEW t \in Threads, Start(t) PROVE ClientTypes'
  <2>1. CacheTypes' /\ LockTypes' /\ UNCHANGED <<err, resp, addrOf, leader>>
    BY <1>3, <1>7, <1>11 DEF Start, clusterVars
  <2>2. /\ pc' = [pc EXCEPT ![t] = "lookup"] /\ refresh' = [refresh EXCEPT ![t] = TRUE]
        /\ attempts' = [attempts EXCEPT ![t] = 0]
    BY SMTT(60), <1>11 DEF Start
  <2>3. /\ pc'[t] = "lookup" /\ refresh'[t] = TRUE /\ attempts'[t] = 0
        /\ err = [err EXCEPT ![t] = err[t]] /\ resp = [resp EXCEPT ![t] = resp[t]]
    BY SMTT(60), <1>1, <2>2
  <2>4. pc'[t] \in Labels /\ attempts'[t] \in 0..RetryAttempts
    BY <1>2, <2>3
  <2>5. refresh'[t] \in BOOLEAN
    BY ZenonT(60), <2>3
  <2>6. err[t] \in NetworkErrors \cup {NoError} /\ pc'[t] # "await_meta"
    BY <1>1, <2>3
  <2> QED BY ZenonT(60), <2>1, <2>2, <2>3, <2>4, <2>5, <2>6, TypesOfOne
<1>12. ASSUME NEW t \in Threads, Call(t) PROVE ClientTypes'
  <2>1. CASE Lookup(t)
    BY SMTT(60), <1>1, <1>3, <1>7, <1>8, <2>1 DEF Lookup
  <2>2. CASE Explain(t)
    BY SMTT(60), <1>1, <1>3, <1>7, <1>8, <1>9, <2>2 DEF Explain
  <2>3. CASE ExplainError(t)
    BY SMTT(60), <1>3, <1>7, <1>9, <2>3 DEF ExplainError
  <2>4. CASE ConnectOK(t)
    <3>1. CASE UNCHANGED pc
      BY SMTT(60), <1>1, <1>3, <1>7, <1>8, <2>4, <3>1 DEF ConnectOK, Finish
    <3>2. CASE Finish(t, NoError)
      BY SMTT(60), <1>3, <1>7, <1>9, <2>4, <3>2 DEF ConnectOK
    <3>3. CASE Goto(t, "send") /\ UNCHANGED <<err, resp>>
      <4>1. UNCHANGED <<cacheVars, lockVars, argVars, clusterVars>>
        BY Zenon, <2>4 DEF ConnectOK
      <4>2. CacheTypes' /\ LockTypes'
        BY SMTT(60), <1>3, <1>7, <4>1
      <4> QED BY ZenonT(60), <1>1, <1>8, <3>3, <4>1, <4>2
    <3> QED BY SMTT(60), <2>4, <3>1, <3>2, <3>3 DEF ConnectOK
  <2>5. CASE ConnectFails(t)
    <3>1. /\ err' = [err EXCEPT ![t] = "network_fail"] /\ pc' = [pc EXCEPT ![t] = "discard"]
          /\ UNCHANGED <<cacheVars, lockVars, argVars, resp, clusterVars>>
      BY ZenonT(60), <2>5 DEF ConnectFails
    <3>2. CacheTypes' /\ LockTypes'
      BY SMTT(60), <1>3, <1>7, <3>1
    <3>3. err'[t] \in NetworkErrors \cup {NoError} /\ err' = [err EXCEPT ![t] = err'[t]]
      BY SMTT(60), <1>1, <3>1 DEF NetworkErrors
    <3>4. "discard" \in Labels /\ "discard" # "await_meta"
      BY SMTT(60)
    <3> HIDE DEF Labels
    <3> QED BY ZenonT(60), <1>8, <3>1, <3>2, <3>3, <3>4
  <2>6. CASE Send(t)
    <3>1. resp[t] = NoAnswer
      BY SMTT(60), <2>6 DEF Send, Inv, NoOldAnswer, Answered
    <3> QED BY SMTT(60), <1>1, <1>3, <1>7, <1>8, <2>6, <3>1 DEF Send, NetworkErrors
  <2>7. CASE CallFails(t)
    <3>1. /\ \E e \in NetworkErrors : err' = [err EXCEPT ![t] = e]
          /\ \E l \in {"discard", "discard_meta"} : pc' = [pc EXCEPT ![t] = l]
          /\ UNCHANGED <<cacheVars, lockVars, argVars, resp, clusterVars>>
      BY Zenon, <2>7 DEF CallFails, NetworkErrors
    <3>2. CacheTypes' /\ LockTypes'
      BY <1>3, <1>7, <3>1
    <3>3. err'[t] \in NetworkErrors \cup {NoError} /\ err' = [err EXCEPT ![t] = err'[t]]
      BY <1>1, <3>1
    <3>4. \A l \in {"discard", "discard_meta"} : l \in Labels /\ l # "await_meta"
      BY SMTT(60)
    <3> HIDE DEF Labels
    <3> QED BY ZenonT(60), <1>8, <3>1, <3>2, <3>3, <3>4
  <2>8. CASE ProduceAnswered(t)
    BY SMTT(60), <1>1, <1>3, <1>7, <1>8, <1>9, <2>8 DEF ProduceAnswered
  <2>9. CASE Erase(t)
    BY ZenonT(60), <1>4, <1>7, <1>9, <2>9 DEF Erase
  <2>10. CASE Discard(t)
    BY ZenonT(60), <1>1, <1>4, <1>7, <2>10, TypesOfOne DEF Discard, CloseBroker, clusterVars
  <2> QED BY ZenonT(60), <1>12, <2>1, <2>2, <2>3, <2>4, <2>5, <2>6, <2>7, <2>8, <2>9, <2>10 DEF Call
<1>13. ASSUME NEW t \in Threads, RefreshMeta(t) PROVE ClientTypes'
  <2>1. CASE Request(t)
    BY ZenonT(60), <1>1, <1>3, <1>6, <1>7, <1>8, <2>1 DEF Request
  <2>2. CASE MetaLock(t)
    <3>1. CacheTypes' /\ LockTypes'
      BY SMTT(60), <1>3, <1>6, <1>7, <2>2 DEF MetaLock
    <3> QED BY <1>1, <1>8, <1>10, <2>2, <3>1 DEF MetaLock
  <2>3. CASE Pick(t)
    <3>1. CacheTypes' /\ LockTypes'
      BY SMTT(60), <1>3, <1>6, <1>7, <2>3 DEF Pick
    <3> QED BY SMTT(60), <1>1, <1>8, <2>3, <3>1 DEF Pick
  <2>4. CASE Recheck(t)
    <3>1. CacheTypes' /\ LockTypes'
      BY SMTT(60), <1>3, <1>6, <1>7, <2>4 DEF Recheck
    <3> QED BY SMTT(60), <1>1, <1>8, <1>10, <2>4, <3>1 DEF Recheck
  <2>5. CASE BootOK(t)
    <3>1. CacheTypes' /\ LockTypes'
      BY Zenon, <1>5, <1>6, <1>7, <2>5 DEF BootOK
    <3> QED BY ZenonT(60), <1>1, <1>8, <2>5, <3>1 DEF BootOK
  <2>6. CASE BootFails(t)
    <3>1. CacheTypes' /\ LockTypes'
      BY SMTT(60), <1>5, <1>6, <1>7, <2>6 DEF BootFails, NetworkErrors
    <3>2. CASE UNCHANGED pc
      <4>1. pc[t] = "boot" /\ UNCHANGED <<refresh, attempts, err, resp, clusterVars>>
        BY SMTT(60), <1>1, <2>6, <3>2 DEF BootFails, LeaveRefresh
      <4> QED BY SMTT(60), <1>1, <1>8, <3>1, <3>2, <4>1
    <3> QED BY SMTT(60), <1>10, <2>6, <3>1, <3>2 DEF BootFails
  <2>7. CASE DiscardMeta(t)
    BY ZenonT(60), <1>1, <1>4, <1>7, <1>8, <2>7 DEF DiscardMeta, CloseBroker
  <2>8. CASE NoteError(t)
    <3>1. CacheTypes' /\ LockTypes'
      BY SMTT(60), <1>1, <1>5, <1>6, <1>7, <2>8 DEF NoteError
    <3>2. CASE attempts[t] < RetryAttempts
      <4>1. attempts[t] + 1 \in 0..RetryAttempts
        BY SMTT(60), <1>1, <1>2, <3>2
      <4>2. /\ pc' = [pc EXCEPT ![t] = "request"] /\ err' = [err EXCEPT ![t] = NoError]
            /\ attempts' = [attempts EXCEPT ![t] = attempts[t] + 1]
            /\ resp' = [resp EXCEPT ![t] = NoAnswer] /\ UNCHANGED <<refresh, addrOf, leader>>
        BY SMTT(60), <1>1, <1>2, <2>8, <3>2 DEF NoteError, clusterVars
      <4>3. /\ pc'[t] = "request" /\ err'[t] = NoError /\ attempts'[t] = attempts[t] + 1
            /\ resp'[t] = NoAnswer /\ refresh = [refresh EXCEPT ![t] = refresh[t]]
        BY SMTT(60), <1>1, <4>2
      <4> QED BY ZenonT(60), <1>1, <3>1, <4>1, <4>2, <4>3, TypesOfOne
    <3> QED BY SMTT(60), <1>1, <1>10, <2>8, <3>1, <3>2 DEF NoteError
  <2>9. CASE Apply(t)
    <3>1. IsMetadata(resp[t])
      BY <2>9 DEF Apply, ClientTypes, AnswerTypes
    <3>2. CacheTypes'
      BY ZenonT(60), <2>9, <3>1 DEF Apply, IsMetadata, Configs, ClientTypes, CacheTypes
    <3> QED BY ZenonT(60), <1>1, <1>7, <1>8, <2>9, <3>2 DEF Apply
  <2>10. CASE ApplyCrashes(t)
    <3>1. CacheTypes' /\ LockTypes' /\ ClusterTypes'
      BY SMTT(60), <1>3, <1>7, <2>10 DEF ApplyCrashes, ClientTypes, ClusterTypes, clusterVars
    <3>2. ThreadTypes' /\ AnswerTypes'
      BY SMTT(60), <1>1, <2>10 DEF ApplyCrashes, ClientTypes, ThreadTypes, AnswerTypes
    <3> QED BY SMTT(60), <3>1, <3>2 DEF ClientTypes
  <2>11. CASE Stamp(t)
    <3>1. CacheTypes' /\ LockTypes'
      BY SMTT(60), <1>3, <1>6, <2>11 DEF Stamp
    <3> QED BY SMTT(60), <1>10, <2>11, <3>1 DEF Stamp
  <2> QED BY ZenonT(60), <1>13, <2>1, <2>2, <2>3, <2>4, <2>5, <2>6, <2>7, <2>8, <2>9, <2>10,
             <2>11 DEF RefreshMeta
<1>14. ASSUME NEW t \in Threads, Kafka(t) PROVE ClientTypes'
  <2>1. CacheTypes' /\ LockTypes' /\ ThreadTypes' /\ ClusterTypes'
    BY ZenonT(60), <1>3, <1>7, <1>14 DEF Kafka, KafkaProduce, KafkaMeta, ClientTypes, ThreadTypes, ClusterTypes,
                             clusterVars
  <2>2. CASE KafkaProduce(t)
    <3>1. \E c \in Codes : resp' = [resp EXCEPT ![t] = [code |-> c]]
      BY ZenonT(60), <2>2 DEF KafkaProduce, Codes
    <3>2. pc[t] # "await_meta" /\ UNCHANGED pc
      BY SMTT(60), <2>2 DEF KafkaProduce
    <3>3. AnswerTypes'
      BY SMTT(60), <3>1, <3>2 DEF ClientTypes, AnswerTypes, IsMetadata
    <3> QED BY SMTT(60), <2>1, <3>3 DEF ClientTypes
  <2>3. CASE KafkaMeta(t)
    <3> DEFINE meta == [code |-> NoError,
                        nodes |-> [n \in {m \in Nodes : Live(m)} |-> addrOf[n]],
                        leaders |-> [p \in Partitions |->
                                       IF Live(leader[p]) THEN leader[p] ELSE NoLeader]]
    <3>1. IsMetadata(meta) /\ meta.code \in Codes
      BY SMTT(60) DEF IsMetadata, Codes, ClientTypes, ClusterTypes, Live
    <3>2. resp' = [resp EXCEPT ![t] = meta] /\ UNCHANGED pc
      BY ZenonT(60), <2>3 DEF KafkaMeta
    <3> HIDE DEF meta
    <3>3. AnswerTypes'
      BY SMTT(60), <3>1, <3>2 DEF ClientTypes, AnswerTypes, IsMetadata
    <3> QED BY <2>1, <3>3 DEF ClientTypes
  <2> QED BY SMTT(60), <1>14, <2>2, <2>3 DEF Kafka
<1>15. ASSUME UNCHANGED <<cacheVars, lockVars, pc, refresh, attempts, err, resp>>, ClusterTypes'
       PROVE  ClientTypes'
  <2>1. ThreadTypes' /\ AnswerTypes'
    BY SMTT(60), <1>15 DEF ClientTypes, ThreadTypes, AnswerTypes, IsMetadata
  <2> QED BY SMTT(60), <1>3, <1>7, <1>15, <2>1 DEF ClientTypes
<1>16. ASSUME NEW n \in Nodes, NodeDown(n) \/ NodeUp(n) PROVE ClientTypes'
  <2>1. ClusterTypes'
    BY SMTT(60), <1>16, ClientAssumption DEF NodeDown, NodeUp, ClientTypes, ClusterTypes, ClientAssumption
  <2> QED BY SMTT(60), <1>15, <1>16, <2>1 DEF NodeDown, NodeUp, threadVars, objVars
<1>17. ASSUME NEW p \in Partitions, NEW n \in Nodes, Elect(p, n) PROVE ClientTypes'
  <2>1. ClusterTypes'
    BY SMTT(60), <1>17 DEF Elect, ClientTypes, ClusterTypes
  <2> QED BY SMTT(60), <1>15, <1>17, <2>1 DEF Elect, threadVars
<1>18. ASSUME NEW n \in Nodes, NEW a \in Addrs, Move(n, a) PROVE ClientTypes'
  <2>1. ClusterTypes'
    BY SMTT(60), <1>18 DEF Move, ClientTypes, ClusterTypes
  <2> QED BY SMTT(60), <1>15, <1>18, <2>1 DEF Move, threadVars
<1>19. CASE UNCHANGED vars
  <2>1. ClusterTypes'
    BY <1>19 DEF vars, clusterVars, ClientTypes, ClusterTypes
  <2> QED BY SMTT(60), <1>15, <1>19, <2>1 DEF vars, threadVars
<1> QED BY SMTT(60), <1>11, <1>12, <1>13, <1>14, <1>16, <1>17, <1>18, <1>19 DEF Next
===============================================================================
