---------------------------- MODULE ProducerClient ----------------------------
(***************************************************************************)
(* producer_client.cpp: the threads in produce() and                       *)
(* check_topic_partition_leader_available(), the metadata cache they share *)
(* and the Broker objects it points to.                                    *)
(*                                                                         *)
(* A stretch of code under mu_ that does not block is one step, enabled    *)
(* when mu_ is free.  refresh_meta() holds meta_fetch_mu_ throughout and   *)
(* mu_ while it connects to the bootstrap brokers, so both mutexes are     *)
(* variables.  A Broker is an object with identity and a connection state; *)
(* connect() and sync_call() on it behave as modules Connection and        *)
(* RpcQueues describe.  An object without references is gone (shared_ptr). *)
(*                                                                         *)
(* The Kafka cluster is external: nodes that listen on an address or are   *)
(* down, and a leader for each partition.                                  *)
(***************************************************************************)
EXTENDS Integers, Sequences, FiniteSets

CONSTANTS
  Threads, Partitions,
  Nodes,           \* node ids of Kafka brokers; node n starts at address n
  Addrs,           \* addresses (host and port)
  Objs,            \* identities of Broker objects
  Bootstrap,       \* the addresses the client is constructed with
  RetryAttempts,   \* retry_attempts_
  Ops,             \* which of "produce" and "check" the threads call
  MaxFaults,       \* how many connects or calls fail on a working cluster
  MaxChanges,      \* how many elections, crashes and restarts there are
  MaxMoves         \* how many times a node changes its address

ASSUME ClientAssumption ==
  /\ Nodes \subseteq Nat /\ Objs \subseteq Nat /\ Nodes \subseteq Addrs /\ Addrs \subseteq Nat
  /\ Cardinality(Bootstrap) \in Nat /\ Bootstrap \subseteq Addrs /\ Bootstrap # {}
  /\ Ops \subseteq {"produce", "check"}
  /\ {RetryAttempts, MaxFaults, MaxChanges, MaxMoves} \subseteq Nat

NoLeader == -1     \* what Kafka gives as the leader when there is none
Unknown == -2      \* the partition is not in partition_map_
Null == -1         \* a null pointer
Down == -1         \* the address of a node that is down
Nobody == "nobody" \* the owner of a free mutex
NoError == "no_error"

ASSUME ThreadAssumption == Nobody \notin Threads

\* make_shared does not run out of memory: wherever the map and the other threads
\* point, there is an object left for a thread that points to none.
ASSUME MemoryAssumption ==
  \A p \in [Nodes -> Objs \cup {Null}], q \in [Threads -> Objs \cup {Null}] :
    (\E t \in Threads : q[t] = Null) =>
      \E o \in Objs : (\A n \in Nodes : p[n] # o) /\ (\A t \in Threads : q[t] # o)

VARIABLES
  broker_configs_,  \* the bootstrap addresses, shuffled
  partition_map_,   \* leader of each partition, NoLeader or Unknown
  brokers_,         \* configured address of each broker known
  ptr,              \* the Broker pointers in brokers_
  last_meta_error_,
  fresh,            \* threads with requested_at <= last_meta_fetch_
  mu_, meta_fetch_mu_,
  heap,             \* the Broker objects: node id, address, connection state
  pc, op, part,     \* per thread: where it is, its call and its partition
  refresh,          \* argument of get_broker_for_partition
  attempts, boot,   \* refresh_meta: attempts, position in broker_configs_
  obj,              \* the thread's pointer to a Broker
  err,              \* the error_code a call has just returned
  resp,             \* what Kafka answered to the call in progress
  result,           \* what the last call of the thread returned
  acked,            \* history: Kafka has stored the batch of this call
  addrOf, leader,   \* external: the cluster
  faults, changes, moves

cacheVars == <<broker_configs_, partition_map_, brokers_, last_meta_error_>>
lockVars == <<fresh, mu_, meta_fetch_mu_>>
objVars == <<ptr, obj, heap>>
argVars == <<op, part, refresh, attempts, boot>>
clusterVars == <<addrOf, leader, changes, moves>>
threadVars == <<pc, argVars, err, resp, result, acked>>
vars == <<cacheVars, lockVars, objVars, threadVars, clusterVars, faults>>

\* BROKEN: CONNECTED for the client, but the peer has gone.
ConnStates == {"INIT", "CONNECTED", "BROKEN", "CLOSED"}
NoBroker == [node |-> 0, addr |-> Down, st |-> "GONE"]
NoAnswer == [code |-> "none"]

Init ==
  /\ broker_configs_ \in {s \in [1..Cardinality(Bootstrap) -> Bootstrap] :
                            \A i, j \in DOMAIN s : s[i] = s[j] => i = j}
  /\ partition_map_ = [p \in Partitions |-> Unknown]
  /\ brokers_ = <<>> /\ ptr = [n \in Nodes |-> Null]
  /\ last_meta_error_ = NoError
  /\ fresh = {} /\ mu_ = Nobody /\ meta_fetch_mu_ = Nobody
  /\ heap = [o \in Objs |-> NoBroker]
  /\ pc = [t \in Threads |-> "idle"]
  /\ op = [t \in Threads |-> Nobody] /\ part = [t \in Threads |-> Nobody]
  /\ refresh = [t \in Threads |-> TRUE]
  /\ attempts = [t \in Threads |-> 0] /\ boot = [t \in Threads |-> 1]
  /\ obj = [t \in Threads |-> Null]
  /\ err = [t \in Threads |-> NoError]
  /\ resp = [t \in Threads |-> NoAnswer]
  /\ result = [t \in Threads |-> "none"]
  /\ acked = [t \in Threads |-> FALSE]
  /\ addrOf = [n \in Nodes |-> n] /\ leader \in [Partitions -> Nodes]
  /\ faults = 0 /\ changes = 0 /\ moves = 0
-------------------------------------------------------------------------------
(* Broker objects *)

Goto(t, label) == pc' = [pc EXCEPT ![t] = label]
MuFree == mu_ = Nobody    \* guard of a critical section that is one step

\* The pointers become p and q, the objects are as in h, and objects nobody
\* points to are gone.
Point(p, q, h) ==
  /\ ptr' = p /\ obj' = q
  /\ heap' = [o \in Objs |-> IF (\E n \in Nodes : p[n] = o) \/ (\E t \in Threads : q[t] = o)
                             THEN h[o] ELSE NoBroker]

Hold(t, o) == [obj EXCEPT ![t] = o]
NewObj == CHOOSE o \in Objs : heap[o] = NoBroker

\* Fault: set_node_id is not called.
MakeAnonymous(n, a, st) == [heap EXCEPT ![NewObj] = [node |-> 0, addr |-> a, st |-> st]]

MakeBroker(n, a, st) == [heap EXCEPT ![NewObj] = [node |-> n, addr |-> a, st |-> st]]
With(o, st) == [heap EXCEPT ![o].st = st]
State(t) == heap[obj[t]].st

\* The node pointer can be used: not null and not is_closed().
Open(n) == ptr[n] # Null /\ heap[ptr[n]].st # "CLOSED"

Reachable(a) == \E n \in Nodes : addrOf[n] = a
Fault == faults < MaxFaults /\ faults' = faults + 1

\* A call returns: its locals are gone.
Finish(t, ec) ==
  /\ Goto(t, "idle")
  /\ result' = [result EXCEPT ![t] = ec]
  /\ err' = [err EXCEPT ![t] = NoError] /\ resp' = [resp EXCEPT ![t] = NoAnswer]
  /\ Point(ptr, Hold(t, Null), heap)
-------------------------------------------------------------------------------
(* produce() and check_topic_partition_leader_available() *)

Start(t) ==
  /\ pc[t] = "idle"
  /\ \E o \in Ops, p \in Partitions :
       op' = [op EXCEPT ![t] = o] /\ part' = [part EXCEPT ![t] = p]
  /\ Goto(t, "lookup")
  /\ refresh' = [refresh EXCEPT ![t] = TRUE]
  /\ attempts' = [attempts EXCEPT ![t] = 0] /\ boot' = [boot EXCEPT ![t] = 1]
  /\ acked' = [acked EXCEPT ![t] = FALSE]
  /\ result' = [result EXCEPT ![t] = "none"]
  /\ UNCHANGED <<cacheVars, lockVars, objVars, err, resp, clusterVars, faults>>

\* get_broker_for_partition, under mu_.  A leader that is not in brokers_ makes
\* it close the client and throw.
Lookup(t) ==
  /\ pc[t] = "lookup" /\ MuFree
  /\ LET n == partition_map_[part[t]] IN
     \/ /\ n \notin DOMAIN brokers_
        /\ Goto(t, IF n \in Nodes THEN "thrown" ELSE IF refresh[t] THEN "request" ELSE "explain")
        /\ UNCHANGED objVars
     \/ /\ n \in DOMAIN brokers_
        /\ Open(n)
        /\ Point(ptr, Hold(t, ptr[n]), heap)
        /\ Goto(t, "connect")
     \/ /\ n \in DOMAIN brokers_
        /\ ~Open(n)
        /\ Point([ptr EXCEPT ![n] = NewObj], Hold(t, NewObj), MakeBroker(n, brokers_[n], "INIT"))
        /\ Goto(t, "connect")
  /\ UNCHANGED <<cacheVars, lockVars, argVars, err, resp, result, acked, clusterVars,
                 faults>>

\* No broker: last_meta_error_ is tested, and then read again to be returned,
\* both times without mu_.
Explain(t) ==
  /\ pc[t] = "explain"
  /\ \/ last_meta_error_ = NoError /\ Finish(t, "UnknownTopicOrPartition")
     \/ /\ last_meta_error_ # NoError
        /\ Goto(t, "explain_error") /\ UNCHANGED <<objVars, err, resp, result>>
  /\ UNCHANGED <<cacheVars, lockVars, argVars, acked, clusterVars, faults>>

ExplainError(t) ==
  /\ pc[t] = "explain_error"
  /\ Finish(t, last_meta_error_)
  /\ UNCHANGED <<cacheVars, lockVars, argVars, acked, clusterVars, faults>>

\* broker->connect() succeeds: check...() is done, produce() goes on.
ConnectOK(t) ==
  /\ pc[t] = "connect"
  /\ \/ State(t) \in {"CONNECTED", "BROKEN"} /\ op[t] = "check" /\ Finish(t, NoError)
     \/ State(t) \in {"CONNECTED", "BROKEN"} /\ op[t] = "produce"
        /\ Goto(t, "send") /\ UNCHANGED <<objVars, err, resp, result>>
     \/ /\ State(t) = "INIT" /\ Reachable(heap[obj[t]].addr)
        /\ heap' = With(obj[t], "CONNECTED")
        /\ UNCHANGED <<ptr, obj, pc, err, resp, result>>
  /\ UNCHANGED <<cacheVars, lockVars, argVars, acked, clusterVars, faults>>

ConnectFails(t) ==
  /\ pc[t] = "connect"
  /\ \/ State(t) = "CLOSED" /\ UNCHANGED faults
     \/ State(t) = "INIT" /\ ~Reachable(heap[obj[t]].addr) /\ UNCHANGED faults
     \/ State(t) = "INIT" /\ Fault
  /\ heap' = With(obj[t], "CLOSED")
  /\ err' = [err EXCEPT ![t] = "network_fail"]
  /\ Goto(t, "discard")
  /\ UNCHANGED <<cacheVars, lockVars, ptr, obj, argVars, resp, result, acked,
                 clusterVars>>

\* broker->sync_call(), for a batch or for metadata: on a connection that is
\* not up the queue fails the RPC and closes the connection.
Send(t) ==
  /\ pc[t] \in {"send", "fetch"}
  /\ \/ /\ State(t) \in {"CONNECTED", "BROKEN"}
        /\ Goto(t, IF pc[t] = "send" THEN "await" ELSE "await_meta")
        /\ UNCHANGED <<err, heap>>
     \/ /\ State(t) \in {"INIT", "CLOSED"}
        /\ heap' = With(obj[t], "CLOSED")
        /\ err' = [err EXCEPT ![t] = "network_fail"]
        /\ Goto(t, IF pc[t] = "send" THEN "discard" ELSE "discard_meta")
  /\ UNCHANGED <<cacheVars, lockVars, ptr, obj, argVars, resp, result, acked,
                 clusterVars, faults>>

\* sync_call() returns without a usable answer: the connection was closed or
\* lost, or the call timed out or its answer did not decode, which both leave
\* the connection as it is.
CallFails(t) ==
  /\ pc[t] \in {"await", "await_meta"}
  /\ \/ /\ State(t) \in {"CLOSED", "BROKEN"} /\ UNCHANGED faults
        /\ heap' = With(obj[t], "CLOSED") /\ err' = [err EXCEPT ![t] = "network_fail"]
     \/ /\ Fault
        /\ heap' = With(obj[t], "CLOSED") /\ err' = [err EXCEPT ![t] = "network_fail"]
     \/ /\ Fault
        /\ UNCHANGED heap /\ err' = [err EXCEPT ![t] = "network_timeout"]
  /\ Goto(t, IF pc[t] = "await" THEN "discard" ELSE "discard_meta")
  /\ UNCHANGED <<cacheVars, lockVars, ptr, obj, argVars, resp, result, acked,
                 clusterVars>>

\* Fault: the error code in the response is not looked at.
AnswerIgnored(t) ==
  /\ pc[t] = "await" /\ resp[t] # NoAnswer
  /\ Finish(t, NoError)
  /\ UNCHANGED <<cacheVars, lockVars, argVars, acked, clusterVars, faults>>

\* The response to a produce request: only errors that say the metadata is
\* stale lead to Erase.
ProduceAnswered(t) ==
  /\ pc[t] = "await" /\ resp[t] # NoAnswer
  /\ \/ resp[t].code # "NotLeaderForPartition" /\ Finish(t, resp[t].code)
     \/ /\ resp[t].code = "NotLeaderForPartition"
        /\ Goto(t, "erase") /\ UNCHANGED <<objVars, err, resp, result>>
  /\ UNCHANGED <<cacheVars, lockVars, argVars, acked, clusterVars, faults>>

\* The metadata was stale: forget the partition, under mu_.
Erase(t) ==
  /\ pc[t] = "erase" /\ MuFree
  /\ partition_map_' = [partition_map_ EXCEPT ![part[t]] = Unknown]
  /\ Finish(t, resp[t].code)
  /\ UNCHANGED <<broker_configs_, brokers_, last_meta_error_, lockVars, argVars, acked,
                 clusterVars, faults>>

\* Fault: the map forgets its pointer whatever object it is to.
CloseByNode(t) ==
  LET n == heap[obj[t]].node IN
  /\ MuFree
  /\ Point(IF n \in DOMAIN brokers_ THEN [ptr EXCEPT ![n] = Null] ELSE ptr, Hold(t, Null),
           With(obj[t], "CLOSED"))
  /\ partition_map_' = [p \in Partitions |-> Unknown]
  /\ UNCHANGED <<broker_configs_, brokers_, last_meta_error_>>

\* Fault: partition_map_ is not cleared.
CloseKeepsMap(t) ==
  LET n == heap[obj[t]].node
      mine == n \in DOMAIN brokers_ /\ ptr[n] = obj[t] IN
  /\ MuFree
  /\ Point(IF mine THEN [ptr EXCEPT ![n] = Null] ELSE ptr, Hold(t, Null), With(obj[t], "CLOSED"))
  /\ UNCHANGED cacheVars

\* close_broker, under mu_: the map keeps its pointer if it is to another
\* object, and all that is known of partitions goes.
CloseBroker(t) ==
  LET n == heap[obj[t]].node
      mine == n \in DOMAIN brokers_ /\ ptr[n] = obj[t] IN
  /\ MuFree
  /\ Point(IF mine THEN [ptr EXCEPT ![n] = Null] ELSE ptr, Hold(t, Null), With(obj[t], "CLOSED"))
  /\ partition_map_' = [p \in Partitions |-> Unknown]
  /\ UNCHANGED <<broker_configs_, brokers_, last_meta_error_>>

Discard(t) ==
  /\ pc[t] = "discard"
  /\ CloseBroker(t)
  /\ Goto(t, "idle")
  /\ result' = [result EXCEPT ![t] = err[t]]
  /\ err' = [err EXCEPT ![t] = NoError] /\ resp' = [resp EXCEPT ![t] = NoAnswer]
  /\ UNCHANGED <<lockVars, argVars, acked, clusterVars, faults>>
-------------------------------------------------------------------------------
(* refresh_meta() *)

\* The caller looks up its partition again, and will not refresh twice.
LeaveRefresh(t) ==
  /\ Goto(t, "lookup")
  /\ refresh' = [refresh EXCEPT ![t] = FALSE]
  /\ err' = [err EXCEPT ![t] = NoError] /\ resp' = [resp EXCEPT ![t] = NoAnswer]

\* requested_at is read, before waiting for meta_fetch_mu_.
Request(t) ==
  /\ pc[t] = "request"
  /\ Goto(t, "meta_lock")
  /\ fresh' = fresh \ {t}
  /\ UNCHANGED <<cacheVars, mu_, meta_fetch_mu_, objVars, argVars, err, resp, result, acked,
                 clusterVars, faults>>

\* Another thread may have completed a fetch in the meantime.
MetaLock(t) ==
  /\ pc[t] = "meta_lock" /\ meta_fetch_mu_ = Nobody
  /\ \/ t \in fresh /\ LeaveRefresh(t) /\ UNCHANGED meta_fetch_mu_
     \/ /\ t \notin fresh
        /\ meta_fetch_mu_' = t
        /\ Goto(t, "pick") /\ UNCHANGED <<refresh, err, resp>>
  /\ UNCHANGED <<cacheVars, fresh, mu_, objVars, op, part, attempts, boot, result, acked,
                 clusterVars, faults>>

\* The first broker with a pointer that is not closed will do; if there is
\* none, the bootstrap brokers are tried.  mu_ is kept in both cases.
Pick(t) ==
  /\ pc[t] = "pick" /\ MuFree
  /\ mu_' = t
  /\ LET open == {n \in DOMAIN brokers_ : Open(n)} IN
     \/ \E n \in open :
          /\ \A m \in open : n <= m
          /\ Point(ptr, Hold(t, ptr[n]), heap)
          /\ Goto(t, "recheck")
          /\ UNCHANGED boot
     \/ /\ open = {}
        /\ boot' = [boot EXCEPT ![t] = 1]
        /\ Goto(t, "boot")
        /\ UNCHANGED objVars
  /\ UNCHANGED <<cacheVars, fresh, meta_fetch_mu_, op, part, refresh, attempts, err, resp,
                 result, acked, clusterVars, faults>>

\* is_closed() is tested again: mu_ does not keep a call of another thread on
\* the same broker from failing and closing it in between.
Recheck(t) ==
  /\ pc[t] = "recheck"
  /\ mu_' = Nobody
  /\ \/ /\ State(t) # "CLOSED"
        /\ Goto(t, "fetch")
        /\ UNCHANGED <<objVars, meta_fetch_mu_, refresh, err, resp>>
     \/ /\ State(t) = "CLOSED"
        /\ meta_fetch_mu_' = Nobody
        /\ LeaveRefresh(t)
        /\ Point(ptr, Hold(t, Null), heap)
  /\ UNCHANGED <<cacheVars, fresh, op, part, attempts, boot, result, acked, clusterVars,
                 faults>>

\* A bootstrap broker is an object of its own, never in brokers_; its node id is 0.
BootOK(t) ==
  /\ pc[t] = "boot" /\ Reachable(broker_configs_[boot[t]])
  /\ Point(ptr, Hold(t, NewObj), MakeBroker(0, broker_configs_[boot[t]], "CONNECTED"))
  /\ last_meta_error_' = NoError
  /\ mu_' = Nobody
  /\ Goto(t, "fetch")
  /\ UNCHANGED <<broker_configs_, partition_map_, brokers_, fresh, meta_fetch_mu_, argVars, err,
                 resp, result, acked, clusterVars, faults>>

BootFails(t) ==
  /\ pc[t] = "boot"
  /\ \/ ~Reachable(broker_configs_[boot[t]]) /\ UNCHANGED faults
     \/ Fault
  /\ last_meta_error_' = "network_fail"
  /\ \/ /\ boot[t] < Len(broker_configs_)
        /\ boot' = [boot EXCEPT ![t] = @ + 1]
        /\ UNCHANGED <<mu_, meta_fetch_mu_, pc, refresh, err, resp>>
     \/ /\ boot[t] = Len(broker_configs_)
        /\ mu_' = Nobody /\ meta_fetch_mu_' = Nobody
        /\ LeaveRefresh(t) /\ UNCHANGED boot
  /\ UNCHANGED <<broker_configs_, partition_map_, brokers_, fresh, objVars, op, part, attempts,
                 result, acked, clusterVars>>

\* The metadata call failed: close_broker.
DiscardMeta(t) ==
  /\ pc[t] = "discard_meta"
  /\ CloseBroker(t)
  /\ Goto(t, "note_error")
  /\ UNCHANGED <<lockVars, argVars, err, resp, result, acked, clusterVars, faults>>

\* Fault: meta_fetch_mu_ is still held in the recursive call.
RetryLocked(t) ==
  /\ pc[t] = "note_error" /\ MuFree
  /\ last_meta_error_' = err[t]
  /\ \/ /\ attempts[t] < RetryAttempts
        /\ attempts' = [attempts EXCEPT ![t] = @ + 1]
        /\ Goto(t, "request") /\ UNCHANGED <<refresh, meta_fetch_mu_>>
        /\ err' = [err EXCEPT ![t] = NoError] /\ resp' = [resp EXCEPT ![t] = NoAnswer]
     \/ /\ attempts[t] >= RetryAttempts
        /\ LeaveRefresh(t) /\ UNCHANGED attempts /\ meta_fetch_mu_' = Nobody
  /\ UNCHANGED <<broker_configs_, partition_map_, brokers_, fresh, mu_, objVars, op, part, boot,
                 result, acked, clusterVars, faults>>

\* Fault: one retry too many.
RetryOnceMore(t) ==
  /\ pc[t] = "note_error" /\ MuFree
  /\ last_meta_error_' = err[t]
  /\ meta_fetch_mu_' = Nobody
  /\ \/ /\ attempts[t] <= RetryAttempts
        /\ attempts' = [attempts EXCEPT ![t] = @ + 1]
        /\ Goto(t, "request") /\ UNCHANGED refresh
        /\ err' = [err EXCEPT ![t] = NoError] /\ resp' = [resp EXCEPT ![t] = NoAnswer]
     \/ /\ attempts[t] > RetryAttempts
        /\ LeaveRefresh(t) /\ UNCHANGED attempts
  /\ UNCHANGED <<broker_configs_, partition_map_, brokers_, fresh, mu_, objVars, op, part, boot,
                 result, acked, clusterVars, faults>>

\* The error is kept, and the fetch retried from the start without the lock.
NoteError(t) ==
  /\ pc[t] = "note_error" /\ MuFree
  /\ last_meta_error_' = err[t]
  /\ meta_fetch_mu_' = Nobody
  /\ \/ /\ attempts[t] < RetryAttempts
        /\ attempts' = [attempts EXCEPT ![t] = @ + 1]
        /\ Goto(t, "request") /\ UNCHANGED refresh
        /\ err' = [err EXCEPT ![t] = NoError] /\ resp' = [resp EXCEPT ![t] = NoAnswer]
     \/ /\ attempts[t] >= RetryAttempts
        /\ LeaveRefresh(t) /\ UNCHANGED attempts
  /\ UNCHANGED <<broker_configs_, partition_map_, brokers_, fresh, mu_, objVars, op, part, boot,
                 result, acked, clusterVars, faults>>

\* Fault: brokers the client does not know yet are not added.
ConfigsOfKnown(meta) ==
  [n \in DOMAIN meta.nodes \cap DOMAIN brokers_ |-> brokers_[n]]

\* New brokers are added with their address, known ones keep the address they
\* have, and those the metadata does not list are erased.
Configs(meta) ==
  [n \in DOMAIN meta.nodes |-> IF n \in DOMAIN brokers_ THEN brokers_[n] ELSE meta.nodes[n]]

Moved(meta) == {n \in DOMAIN meta.nodes \cap DOMAIN brokers_ : brokers_[n] # meta.nodes[n]}
Removed(meta) == DOMAIN brokers_ \ DOMAIN meta.nodes

\* Close the brokers in ns and reset their pointers.
Disconnect(ns) ==
  Point([n \in Nodes |-> IF n \in ns THEN Null ELSE ptr[n]], obj,
        [o \in Objs |-> IF \E n \in ns : ptr[n] = o THEN [heap[o] EXCEPT !.st = "CLOSED"]
                        ELSE heap[o]])

\* Under mu_: brokers_ and partition_map_ become what the metadata says.
Apply(t) ==
  /\ pc[t] = "await_meta" /\ resp[t] # NoAnswer /\ MuFree
  /\ \A n \in Moved(resp[t]) : ptr[n] # Null
  /\ last_meta_error_' = NoError
  /\ brokers_' = Configs(resp[t])
  /\ partition_map_' = resp[t].leaders
  /\ Disconnect(Moved(resp[t]) \cup Removed(resp[t]))
  /\ Goto(t, "stamp")
  /\ UNCHANGED <<broker_configs_, lockVars, argVars, err, resp, result, acked,
                 clusterVars, faults>>

\* Fault: the pointer of a broker to be removed is not tested either.
CrashesOnRemoved(t) ==
  /\ pc[t] = "await_meta" /\ resp[t] # NoAnswer /\ MuFree
  /\ \E n \in Moved(resp[t]) \cup Removed(resp[t]) : ptr[n] = Null
  /\ pc' = [u \in Threads |-> "dead"]
  /\ UNCHANGED <<cacheVars, lockVars, objVars, argVars, err, resp, result, acked, clusterVars,
                 faults>>

\* broker_it->second.broker->close() where that pointer is null.
ApplyCrashes(t) ==
  /\ pc[t] = "await_meta" /\ resp[t] # NoAnswer /\ MuFree
  /\ \E n \in Moved(resp[t]) : ptr[n] = Null
  /\ pc' = [u \in Threads |-> "dead"]
  /\ UNCHANGED <<cacheVars, lockVars, objVars, argVars, err, resp, result, acked, clusterVars,
                 faults>>

\* last_meta_fetch_ is set after mu_ is released, and refresh_meta returns.
Stamp(t) ==
  /\ pc[t] = "stamp"
  /\ fresh' = {u \in Threads : pc[u] = "meta_lock"}
  /\ meta_fetch_mu_' = Nobody
  /\ LeaveRefresh(t)
  /\ Point(ptr, Hold(t, Null), heap)
  /\ UNCHANGED <<cacheVars, mu_, op, part, attempts, boot, result, acked, clusterVars,
                 faults>>
-------------------------------------------------------------------------------
(* The Kafka cluster *)

Live(n) == addrOf[n] # Down

\* The node at the other end of the thread's connection.
Peer(t) == CHOOSE n \in Nodes : addrOf[n] = heap[obj[t]].addr

\* A produce request is stored by the leader; one to another node is refused,
\* and one that is refused for its content counts as a fault.
KafkaProduce(t) ==
  /\ pc[t] = "await" /\ resp[t] = NoAnswer /\ State(t) = "CONNECTED"
  /\ \/ /\ Peer(t) = leader[part[t]]
        /\ resp' = [resp EXCEPT ![t] = [code |-> NoError]]
        /\ acked' = [acked EXCEPT ![t] = TRUE] /\ UNCHANGED faults
     \/ /\ Peer(t) # leader[part[t]]
        /\ resp' = [resp EXCEPT ![t] = [code |-> "NotLeaderForPartition"]]
        /\ UNCHANGED <<acked, faults>>
     \/ /\ Peer(t) = leader[part[t]] /\ Fault
        /\ resp' = [resp EXCEPT ![t] = [code |-> "InvalidMessage"]]
        /\ UNCHANGED acked
  /\ UNCHANGED <<cacheVars, lockVars, objVars, pc, argVars, err, result, clusterVars>>

\* Metadata lists the live nodes, and only live nodes as leaders.
KafkaMeta(t) ==
  /\ pc[t] = "await_meta" /\ resp[t] = NoAnswer /\ State(t) = "CONNECTED"
  /\ resp' = [resp EXCEPT ![t] =
       [code |-> NoError,
        nodes |-> [n \in {m \in Nodes : Live(m)} |-> addrOf[n]],
        leaders |-> [p \in Partitions |-> IF Live(leader[p]) THEN leader[p] ELSE NoLeader]]]
  /\ UNCHANGED <<cacheVars, lockVars, objVars, pc, argVars, err, result, acked,
                 clusterVars, faults>>

Change == changes < MaxChanges /\ changes' = changes + 1

\* Connections to address a are lost.
Cut(a) ==
  heap' = [o \in Objs |-> IF heap[o].st = "CONNECTED" /\ heap[o].addr = a
                          THEN [heap[o] EXCEPT !.st = "BROKEN"] ELSE heap[o]]

NodeDown(n) ==
  /\ Live(n) /\ Change
  /\ addrOf' = [addrOf EXCEPT ![n] = Down]
  /\ Cut(addrOf[n])
  /\ UNCHANGED <<cacheVars, lockVars, ptr, obj, threadVars, leader, moves, faults>>

NodeUp(n) ==
  /\ ~Live(n) /\ Change /\ ~Reachable(n)
  /\ addrOf' = [addrOf EXCEPT ![n] = n]
  /\ UNCHANGED <<cacheVars, lockVars, objVars, threadVars, leader, moves, faults>>

Elect(p, n) ==
  /\ Live(n) /\ n # leader[p] /\ Change
  /\ leader' = [leader EXCEPT ![p] = n]
  /\ UNCHANGED <<cacheVars, lockVars, objVars, threadVars, addrOf, moves, faults>>

\* A node restarts at another address.
Move(n, a) ==
  /\ Live(n) /\ ~Reachable(a) /\ moves < MaxMoves
  /\ moves' = moves + 1
  /\ addrOf' = [addrOf EXCEPT ![n] = a]
  /\ Cut(addrOf[n])
  /\ UNCHANGED <<cacheVars, lockVars, ptr, obj, threadVars, leader, changes, faults>>
-------------------------------------------------------------------------------
Call(t) ==
  \/ Lookup(t) \/ Explain(t) \/ ExplainError(t)
  \/ ConnectOK(t) \/ ConnectFails(t) \/ Send(t) \/ CallFails(t)
  \/ ProduceAnswered(t) \/ Erase(t) \/ Discard(t)

RefreshMeta(t) ==
  \/ Request(t) \/ MetaLock(t) \/ Pick(t) \/ Recheck(t) \/ BootOK(t) \/ BootFails(t)
  \/ DiscardMeta(t) \/ NoteError(t) \/ Apply(t) \/ ApplyCrashes(t) \/ Stamp(t)

Kafka(t) == KafkaProduce(t) \/ KafkaMeta(t)

Next ==
  \/ \E t \in Threads : Start(t) \/ Call(t) \/ RefreshMeta(t) \/ Kafka(t)
  \/ \E n \in Nodes : NodeDown(n) \/ NodeUp(n)
  \/ \E p \in Partitions, n \in Nodes : Elect(p, n)
  \/ \E n \in Nodes, a \in Addrs : Move(n, a)

Spec == Init /\ [][Next]_vars

\* A call in progress goes on: its thread is scheduled and is not starved of a
\* mutex, and a node that is up answers.
FairSpec ==
  /\ Spec
  /\ \A t \in Threads : SF_vars(Call(t) \/ RefreshMeta(t)) /\ WF_vars(Kafka(t))

\* The application keeps calling produce().
BusySpec == FairSpec /\ \A t \in Threads : WF_vars(Start(t))
-------------------------------------------------------------------------------
Metadata ==
  {[code |-> NoError, nodes |-> f, leaders |-> l] :
     f \in UNION {[S -> Addrs] : S \in SUBSET Nodes}, l \in [Partitions -> Nodes \cup {NoLeader}]}
Codes == {"none", NoError, "NotLeaderForPartition", "InvalidMessage"}
NetworkErrors == {"network_fail", "network_timeout"}
Labels ==
  {"idle", "lookup", "explain", "explain_error", "connect", "send", "await", "erase", "discard",
   "request", "meta_lock", "pick", "recheck", "boot", "fetch", "await_meta", "discard_meta", "note_error",
   "stamp", "thrown", "dead"}

\* Type correctness of the client's state; a thread that talks to a broker
\* points to an object that exists.
TypeOK ==
  /\ broker_configs_ \in Seq(Bootstrap)
  /\ partition_map_ \in [Partitions -> Nodes \cup {NoLeader, Unknown}]
  /\ DOMAIN brokers_ \subseteq Nodes /\ \A n \in DOMAIN brokers_ : brokers_[n] \in Addrs
  /\ ptr \in [Nodes -> Objs \cup {Null}] /\ obj \in [Threads -> Objs \cup {Null}]
  /\ last_meta_error_ \in NetworkErrors \cup {NoError}
  /\ fresh \subseteq Threads
  /\ mu_ \in Threads \cup {Nobody} /\ meta_fetch_mu_ \in Threads \cup {Nobody}
  /\ \A o \in Objs : heap[o] = NoBroker \/ heap[o].st \in ConnStates
  /\ pc \in [Threads -> Labels]
  /\ refresh \in [Threads -> BOOLEAN] /\ attempts \in [Threads -> 0..RetryAttempts]
  /\ err \in [Threads -> NetworkErrors \cup {NoError}]
  /\ \A t \in Threads : resp[t].code \in Codes
  /\ \A t \in Threads : pc[t] \in {"connect", "send", "await", "discard", "recheck", "fetch",
                                   "await_meta", "discard_meta"} => obj[t] \in Objs /\ heap[obj[t]] # NoBroker

\* Every leader in partition_map_ has an entry in brokers_ ("this can't happen
\* (tm)" in get_broker_for_partition), so no call closes the client and throws.
KnownLeaders ==
  \A p \in Partitions : partition_map_[p] \in Nodes => partition_map_[p] \in DOMAIN brokers_

\* The object brokers_ points to for a node was made for that node and for the
\* address brokers_ has: a produce request goes to the broker the map names.
PointersMatch ==
  \A n \in Nodes : ptr[n] # Null =>
    /\ n \in DOMAIN brokers_
    /\ heap[ptr[n]].node = n /\ heap[ptr[n]].addr = brokers_[n]

\* Where a thread is in refresh_meta() with its locks.
Fetching ==
  {"pick", "recheck", "boot", "fetch", "await_meta", "discard_meta", "note_error", "stamp"}

\* One thread at a time fetches metadata, and no two threads wait for each other:
\* mu_ is kept over a step that can block only by the thread that has
\* meta_fetch_mu_, where it waits for no mutex, and both are released on every
\* way out, also before a retry.
LocksInOrder ==
  \A t \in Threads : pc[t] # "dead" =>
    /\ pc[t] \in Fetching <=> meta_fetch_mu_ = t
    /\ pc[t] \in {"recheck", "boot"} <=> mu_ = t

\* close_broker on an object that has been replaced does not take the working
\* connection that replaced it out of the map: only a thread whose own call on
\* that connection failed, or new metadata, does.
LostByItsUser ==
  [][\A n \in Nodes :
       ptr[n] # Null /\ ptr'[n] = Null =>
         \/ \E t \in Threads : obj[t] = ptr[n] /\ err[t] # NoError
         \/ \E t \in Threads : pc[t] = "await_meta" /\ pc'[t] = "stamp"]_vars

\* produce() returns no_error only for a batch that Kafka has stored.
SuccessIsStored ==
  \A t \in Threads : op[t] = "produce" /\ result[t] = NoError => acked[t]

\* The process survives every change of the cluster but one: only a known broker
\* that comes back at another address can be closed through a null pointer; those
\* that are new, gone or back where they were are not.
CrashOnlyByMove == (\E t \in Threads : pc[t] = "dead") => moves > 0

\* Every call returns, whatever fails: no thread is stuck on a mutex or retries
\* without end.
CallReturns == \A t \in Threads : pc[t] # "idle" ~> pc[t] = "idle"

\* An application that keeps producing recovers from the loss of a leader:
\* "Without this we would be stuck trying to contact old master indefinitely".
Recovers ==
  <>[](\A p \in Partitions : Live(leader[p])) => []<>(\E t \in Threads : result[t] = NoError)

\* "Fetch meta data from one connected broker": not one that is still connecting.
FetchesFromConnected == \A t \in Threads : pc[t] = "fetch" => State(t) # "INIT"

\* A broker whose address changed is disconnected without an accident.
NoNullBroker == \A t \in Threads : pc[t] # "dead"

\* Errors when connecting to the brokers for metadata are retried up to
\* retry_attempts_ times.
ConnectIsRetried ==
  [][\A t \in Threads : pc[t] = "boot" /\ pc'[t] = "lookup" => attempts[t] = RetryAttempts]_vars

\* A partition that exists and has a leader throughout is never reported as
\* unknown: if the network failed, that is what the caller is told.
NotJustUnknown == \A t \in Threads : result[t] # "UnknownTopicOrPartition"
===============================================================================
