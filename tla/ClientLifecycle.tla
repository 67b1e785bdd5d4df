---------------------------- MODULE ClientLifecycle ----------------------------
(***************************************************************************)
(* producer_client.cpp: the life of a ProducerClient with its io threads,  *)
(* the calls in flight when it is closed, close() and the destructor.      *)
(*                                                                         *)
(* A call is abstracted to what matters here: the test of stopping_, an    *)
(* operation that only an io thread can complete, and a timed wait for it, *)
(* during which refresh_meta() may hold mu_.  A call of close() while      *)
(* another one runs is a data race on work_ and on the threads; the model  *)
(* leaves it to the application, like the destruction of a client that is  *)
(* in use.                                                                 *)
(***************************************************************************)
EXTENDS Naturals

CONSTANTS Users,      \* application threads
          NumIo,      \* num_io_threads
          MaxCloses   \* bound: calls of close() by the application

ASSUME LifecycleAssumption == NumIo \in Nat /\ MaxCloses \in Nat

VARIABLES
  stopping,   \* stopping_
  work,       \* work_ is not null
  stopped,    \* io_service_ was stopped
  running,    \* the io threads inside run_asio()
  joinable,   \* the elements of asio_threads_ that were not joined
  mu,         \* who holds mu_, as a set of at most one user
  pending,    \* the users whose operation is in io_service_
  abandoned,  \* the users who have left an operation there after its timeout
  ready,      \* the users whose operation is complete
  where,      \* where each user is
  next,       \* the io thread close() is about to join
  closes,     \* history: calls of close(), other than the destructor's
  fate        \* of the object: "alive", "closed", "threw", "destroyed", "terminated"

closeVars == <<stopping, work, stopped, joinable, next, closes, fate>>
callVars == <<mu, pending, abandoned, ready>>
clientVars == <<closeVars, callVars, running, where>>

IoThreads == 1..NumIo
Closing == {"lock", "reset", "stop", "join"}
-------------------------------------------------------------------------------
(* Calls *)

Go(u, label) == where' = [where EXCEPT ![u] = label]

\* produce() or check_topic_partition_leader_available(): client_stopping is
\* returned at once.
StartCall(u) ==
  /\ where[u] = "idle" /\ fate \notin {"destroyed", "terminated"} /\ ~stopping
  /\ Go(u, "begun")
  /\ UNCHANGED <<closeVars, callVars, running>>

\* An operation is started, for refresh_meta() with mu_ held.
Post(u) ==
  /\ where[u] = "begun"
  /\ \/ UNCHANGED mu
     \/ mu = {} /\ mu' = {u}
  /\ pending' = pending \cup {u}
  /\ Go(u, "waiting")
  /\ UNCHANGED <<closeVars, abandoned, running, ready>>

CallReturns(u) ==
  /\ where[u] = "waiting" /\ u \in ready
  /\ ready' = ready \ {u}
  /\ mu' = mu \ {u}
  /\ Go(u, "idle")
  /\ UNCHANGED <<closeVars, abandoned, running, pending>>

\* Fault: the wait is not timed.
WaitUntimed(u) == FALSE /\ UNCHANGED clientVars

CallTimesOut(u) ==
  /\ where[u] = "waiting" /\ u \notin ready
  /\ mu' = mu \ {u}
  /\ pending' = pending \ {u}
  /\ abandoned' = abandoned \cup (pending \cap {u})
  /\ Go(u, "idle")
  /\ UNCHANGED <<closeVars, running, ready>>
-------------------------------------------------------------------------------
(* run_asio *)

\* Handlers complete an operation, for nobody if it was abandoned.
Handle(i) ==
  /\ i \in running /\ ~stopped
  /\ \/ \E u \in pending : pending' = pending \ {u} /\ ready' = ready \cup {u} /\ UNCHANGED abandoned
     \/ \E u \in abandoned : abandoned' = abandoned \ {u} /\ UNCHANGED <<pending, ready>>
  /\ UNCHANGED <<closeVars, running, mu, where>>

\* Fault: run_asio() does not catch.
HandleThrowsUncaught(i) ==
  /\ i \in running /\ ~stopped /\ pending \cup abandoned # {}
  /\ running' = running \ {i}
  /\ fate' = "terminated"
  /\ UNCHANGED <<stopping, work, stopped, joinable, next, closes, callVars, where>>

\* An exception in a handler ends the operation and the thread, and nothing else.
HandleThrows(i) ==
  /\ i \in running /\ ~stopped
  /\ \/ \E u \in pending : pending' = pending \ {u} /\ UNCHANGED abandoned
     \/ \E u \in abandoned : abandoned' = abandoned \ {u} /\ UNCHANGED pending
  /\ running' = running \ {i}
  /\ UNCHANGED <<closeVars, mu, ready, where>>

\* run() returns when it was stopped or has nothing left to do.
RunReturns(i) ==
  /\ i \in running
  /\ stopped \/ (~work /\ pending \cup abandoned = {})
  /\ running' = running \ {i}
  /\ UNCHANGED <<closeVars, callVars, where>>
-------------------------------------------------------------------------------
(* close() and the destructor *)

NobodyCloses == \A u \in Users : where[u] \notin Closing

StartClose(u) ==
  /\ where[u] = "idle" /\ fate \in {"alive", "closed", "threw"} /\ NobodyCloses
  /\ closes < MaxCloses
  /\ closes' = closes + 1
  /\ Go(u, "lock")
  /\ UNCHANGED <<stopping, work, stopped, joinable, next, fate, callVars, running>>

\* No other thread uses the object any more.
Destroy(u) ==
  /\ fate \in {"alive", "closed", "threw"} /\ \A v \in Users : where[v] = "idle"
  /\ fate' = "destroyed"
  /\ Go(u, "lock")
  /\ UNCHANGED <<stopping, work, stopped, joinable, next, closes, callVars, running>>

SetStopping(u) ==
  /\ where[u] = "lock" /\ mu = {}
  /\ stopping' = TRUE
  /\ Go(u, "reset")
  /\ UNCHANGED <<work, stopped, joinable, next, closes, fate, callVars, running>>

ResetWork(u) ==
  /\ where[u] = "reset"
  /\ work' = FALSE
  /\ Go(u, "stop")
  /\ UNCHANGED <<stopping, stopped, joinable, next, closes, fate, callVars, running>>

\* Fault: io_service_ is left to run out of work.
StopGently(u) ==
  /\ where[u] = "stop"
  /\ next' = 1
  /\ Go(u, "join")
  /\ UNCHANGED <<stopping, work, stopped, joinable, closes, fate, callVars, running>>

StopIo(u) ==
  /\ where[u] = "stop"
  /\ stopped' = TRUE
  /\ next' = 1
  /\ Go(u, "join")
  /\ UNCHANGED <<stopping, work, joinable, closes, fate, callVars, running>>

Join(u) ==
  /\ where[u] = "join" /\ next \in joinable /\ next \notin running
  /\ joinable' = joinable \ {next}
  /\ next' = next + 1
  /\ UNCHANGED <<stopping, work, stopped, closes, fate, callVars, running, where>>

\* join() throws on a thread that was joined; a destructor may not throw.
JoinThrows(u) ==
  /\ where[u] = "join" /\ next \in IoThreads \ joinable
  /\ fate' = IF fate = "destroyed" THEN "terminated" ELSE "threw"
  /\ Go(u, "idle")
  /\ UNCHANGED <<stopping, work, stopped, joinable, next, closes, callVars, running>>

\* Fault: the last thread is not joined.
LeaveLast(u) ==
  /\ where[u] = "join" /\ next >= NumIo
  /\ fate' = IF fate = "destroyed" THEN fate ELSE "closed"
  /\ Go(u, "idle")
  /\ UNCHANGED <<stopping, work, stopped, joinable, next, closes, callVars, running>>

CloseReturns(u) ==
  /\ where[u] = "join" /\ next > NumIo
  /\ fate' = IF fate = "destroyed" THEN fate ELSE "closed"
  /\ Go(u, "idle")
  /\ UNCHANGED <<stopping, work, stopped, joinable, next, closes, callVars, running>>
-------------------------------------------------------------------------------
ClientInit ==
  /\ stopping = FALSE /\ work = TRUE /\ stopped = FALSE
  /\ running = IoThreads /\ joinable = IoThreads
  /\ mu = {} /\ pending = {} /\ abandoned = {} /\ ready = {}
  /\ where = [u \in Users |-> "idle"]
  /\ next = 1 /\ closes = 0 /\ fate = "alive"

CloseSteps(u) == \/ SetStopping(u) \/ ResetWork(u) \/ StopIo(u)
                 \/ Join(u) \/ JoinThrows(u) \/ CloseReturns(u)

ClientNext ==
  \/ \E u \in Users : StartCall(u) \/ Post(u) \/ CallReturns(u) \/ CallTimesOut(u)
  \/ \E u \in Users : StartClose(u) \/ Destroy(u) \/ CloseSteps(u)
  \/ \E i \in IoThreads : Handle(i) \/ HandleThrows(i) \/ RunReturns(i)

ClientSpec == ClientInit /\ [][ClientNext]_clientVars

\* The user threads are scheduled, their waits end, they get mu_ if it is free
\* again and again; run() returns if it can.  Nothing is assumed of handlers:
\* the peer may be silent.
FairClientSpec ==
  /\ ClientSpec
  /\ \A u \in Users : /\ WF_clientVars(Post(u))
                      /\ WF_clientVars(CallReturns(u)) /\ WF_clientVars(CallTimesOut(u))
                      /\ SF_clientVars(SetStopping(u)) /\ WF_clientVars(CloseSteps(u))
  /\ \A i \in IoThreads : WF_clientVars(RunReturns(i))
-------------------------------------------------------------------------------
(* Properties *)

\* Every variable has its type, and mu_ has one owner.
ClientTypeOK ==
  /\ {stopping, work, stopped} \subseteq BOOLEAN
  /\ running \subseteq IoThreads /\ joinable \subseteq IoThreads
  /\ mu \in {{}} \cup {{u} : u \in Users}
  /\ pending \subseteq Users /\ abandoned \subseteq Users /\ ready \subseteq Users
  /\ where \in [Users -> {"idle", "begun", "waiting"} \cup Closing]
  /\ next \in 1..(NumIo + 1) /\ closes \in 0..MaxCloses
  /\ fate \in {"alive", "closed", "threw", "destroyed", "terminated"}

\* No io thread runs, and so none touches the client, once close() or the
\* destructor has returned; calls may still be in flight then.
NoIoAfterClose ==
  fate = "closed" \/ (fate = "destroyed" /\ NobodyCloses) => running = {}

\* The destructor ends the process only if close() was called before: an io
\* thread that an exception ended, or none at all, does not do it.
TerminatedOnlyAfterClose == fate = "terminated" => closes > 0

\* close() and the destructor return or throw, although peers may be silent, io
\* threads dead and a call may hold mu_.
ClosesEnd == \A u \in Users : where[u] \in Closing ~> where[u] = "idle"

\* A call in flight when the client is closed returns, by its timeout if the io
\* threads are gone.
CallsEnd == \A u \in Users : where[u] \in {"begun", "waiting"} ~> where[u] = "idle"

\* "If we are not stopped already then stop": a client that was closed can be
\* destroyed.
NeverTerminated == fate # "terminated"

\* "we wait for all brokers to finish any outstanding reads/writes"
GracefulShutdown == fate = "closed" => pending \cup abandoned = {}
===============================================================================
