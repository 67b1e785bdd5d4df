------------------------------ MODULE Connection ------------------------------
(***************************************************************************)
(* connection.cpp: one Connection object shared by several threads.        *)
(*                                                                         *)
(* The application threads call connect(); the first one launches a        *)
(* coroutine that the io thread resumes after each asynchronous operation  *)
(* (DNS resolve, then TCP connect to one endpoint after the other); the    *)
(* others wait on the condition variable with a timeout.  close() can come *)
(* from any thread at any moment: from a thread whose wait timed out, from *)
(* a queue that failed, from ProducerClient::close_broker.                 *)
(*                                                                         *)
(* Every stretch of code under mu_ is one step.  An asynchronous operation *)
(* takes two: the operation completes, which queues its handler with an    *)
(* error code, and later the handler runs.  What the code does outside     *)
(* mu_ (launching the coroutine, socket_.close(), the notify after a       *)
(* successful connect) is a step of its own or belongs to the handler.     *)
(***************************************************************************)
EXTENDS Naturals

CONSTANTS Threads,       \* application threads that share the connection
          MaxEndpoints   \* most endpoints that one DNS answer lists

ASSUME MaxEndpointsAssumption == MaxEndpoints \in Nat \ {0}

VARIABLES
  state_,      \* impl::state_
  ec_,         \* impl::ec_
  socket_,     \* impl::socket_: "closed", "open" or "connected"
  coro,        \* where the coroutine is: "none" before it is launched, the
               \* operation it waits for, "notify", or "done"
  completion,  \* outcome of that operation: "pending", or the error code its
               \* queued handler will be called with; "none" without operation
  endpoints,   \* endpoints from endpoint_iterator to the end
  pc,          \* where each thread is in connect()
  notified,    \* the threads cv_.notify_all() has released
  ret          \* what the last connect() of each thread returned

vars == <<state_, ec_, socket_, coro, completion, endpoints, pc, notified, ret>>

NoError == "no_error"
Errors == {"timed_out", "connection_aborted", "operation_aborted",
           "host_not_found", "connection_refused", "eof"}
States == {"INIT", "CONNECTING", "CONNECTED", "CLOSED"}

TypeOK ==
  /\ state_ \in States
  /\ ec_ \in Errors \cup {NoError}
  /\ socket_ \in {"closed", "open", "connected"}
  /\ coro \in {"none", "resolve", "connect", "notify", "done"}
  /\ completion \in Errors \cup {NoError, "pending", "none"}
  /\ endpoints \in 0..MaxEndpoints
  /\ pc \in [Threads -> {"idle", "enter", "launch", "wait"}]
  /\ notified \in SUBSET Threads
  /\ ret \in [Threads -> Errors \cup {NoError}]

Init ==
  /\ state_ = "INIT"
  /\ ec_ = NoError
  /\ socket_ = "closed"
  /\ coro = "none"
  /\ completion = "none"
  /\ endpoints = 0
  /\ pc = [t \in Threads |-> "idle"]
  /\ notified = {}
  /\ ret = [t \in Threads |-> NoError]

Waiting == {t \in Threads : pc[t] = "wait"}
-------------------------------------------------------------------------------
(* Connection::impl::close, all of it under mu_. *)

\* Fault: the substitute error of line 42 is forgotten.
CloseErrorKept(ec) == ec

\* The error that is recorded: never "no error".
CloseError(ec) == IF ec = NoError THEN "connection_aborted" ELSE ec

CloseImpl(ec) ==
  \/ /\ state_ = "CLOSED"
     /\ UNCHANGED <<state_, ec_, socket_, notified>>
  \/ /\ state_ = "INIT"
     /\ state_' = "CLOSED"
     /\ ec_' = CloseError(ec)
     /\ UNCHANGED <<socket_, notified>>
  \/ /\ state_ \in {"CONNECTING", "CONNECTED"}
     /\ state_' = "CLOSED"
     /\ ec_' = CloseError(ec)
     /\ socket_' = "closed"
     /\ notified' = notified \cup Waiting

\* Closing the socket aborts a connect in flight.  It cannot recall a handler
\* that is queued already, and it does not cancel the resolver.
CancelConnect ==
  completion' = IF /\ state_ = "CONNECTING"
                   /\ coro = "connect"
                   /\ completion = "pending"
                THEN "operation_aborted"
                ELSE completion

\* close() called from outside the coroutine: Broker::close and fail_all()
\* without an error at any time, fail_all(ec) after a failed read or write.
Close ==
  /\ \/ CloseImpl(NoError)
     \/ state_ = "CONNECTED" /\ CloseImpl("eof")
  /\ CancelConnect
  /\ UNCHANGED <<coro, endpoints, pc, ret>>
-------------------------------------------------------------------------------
(* Connection::connect *)

Return(t, ec) == /\ pc' = [pc EXCEPT ![t] = "idle"]
                 /\ ret' = [ret EXCEPT ![t] = ec]

Call(t) ==
  /\ pc[t] = "idle"
  /\ pc' = [pc EXCEPT ![t] = "enter"]
  /\ UNCHANGED <<state_, ec_, socket_, coro, completion, endpoints, notified, ret>>

\* Fault: the state is left to the coroutine to set, after the mutex is released.
BecomeInitiatorLate(t) == /\ state_ = "INIT"
                          /\ pc' = [pc EXCEPT ![t] = "launch"]
                          /\ UNCHANGED <<state_, ret>>

BecomeInitiator(t) == /\ state_ = "INIT"
                      /\ state_' = "CONNECTING"
                      /\ pc' = [pc EXCEPT ![t] = "launch"]
                      /\ UNCHANGED ret

\* connect() takes the mutex and switches on the state.
Enter(t) ==
  /\ pc[t] = "enter"
  /\ \/ state_ = "CONNECTED" /\ Return(t, NoError) /\ UNCHANGED state_
     \/ state_ = "CLOSED" /\ Return(t, ec_) /\ UNCHANGED state_
     \/ /\ state_ = "CONNECTING"
        /\ pc' = [pc EXCEPT ![t] = "wait"]
        /\ UNCHANGED <<state_, ret>>
     \/ BecomeInitiator(t)
  /\ UNCHANGED <<ec_, socket_, coro, completion, endpoints, notified>>

\* With the mutex released: (*this)() runs the coroutine up to async_resolve,
\* then connect() calls itself.
Launch(t) ==
  /\ pc[t] = "launch"
  /\ coro' = "resolve"
  /\ completion' = "pending"
  /\ pc' = [pc EXCEPT ![t] = "enter"]
  /\ UNCHANGED <<state_, ec_, socket_, endpoints, notified, ret>>

\* wait_for returns with the predicate true: the state has left CONNECTING.
WaitOver(t) ==
  /\ pc[t] = "wait"
  /\ state_ # "CONNECTING"
  /\ Return(t, IF state_ = "CONNECTED" THEN NoError ELSE ec_)
  /\ notified' = notified \ {t}
  /\ UNCHANGED <<state_, ec_, socket_, coro, completion, endpoints>>

\* The thread was released by notify_all.
Wake(t) == t \in notified /\ WaitOver(t)

\* Fault: after the timeout the thread only looks at the predicate again.
WaitForever(t) == WaitOver(t)

\* The timeout passed.  The predicate is evaluated once more under the mutex;
\* if it is still false the thread closes the connection without releasing it.
Timeout(t) ==
  \/ WaitOver(t)
  \/ /\ pc[t] = "wait"
     /\ state_ = "CONNECTING"
     /\ CloseImpl("timed_out")
     /\ CancelConnect
     /\ Return(t, "timed_out")
     /\ UNCHANGED <<coro, endpoints>>
-------------------------------------------------------------------------------
(* The coroutine, Connection::operator(), and the operations it starts. *)

\* External: the resolver answers, with an error or with some endpoints.
ResolveDone ==
  /\ coro = "resolve" /\ completion = "pending"
  /\ \/ completion' = "host_not_found" /\ endpoints' = 0
     \/ completion' = NoError /\ endpoints' \in 1..MaxEndpoints
  /\ UNCHANGED <<state_, ec_, socket_, coro, pc, notified, ret>>

\* External: the connection to the current endpoint is made or refused.
ConnectDone ==
  /\ coro = "connect" /\ completion = "pending"
  /\ \/ completion' = "connection_refused" /\ UNCHANGED socket_
     \/ completion' = NoError /\ socket_' = "connected"
  /\ UNCHANGED <<state_, ec_, coro, endpoints, pc, notified, ret>>

Finish == coro' = "done" /\ completion' = "none"

\* async_connect opens the socket if it is not open.
StartConnect == /\ coro' = "connect"
                /\ completion' = "pending"
                /\ socket_' = "open"

ResolveHandler ==
  /\ coro = "resolve" /\ completion # "pending"
  /\ \/ /\ completion = "host_not_found"
        /\ CloseImpl(completion)
        /\ Finish
     \/ /\ completion = NoError
        /\ StartConnect
        /\ UNCHANGED <<state_, ec_, notified>>
  /\ UNCHANGED <<endpoints, pc, ret>>

\* Handler of async_connect: aborted because close() closed the socket.
ConnectAborted ==
  /\ coro = "connect" /\ completion = "operation_aborted"
  /\ CloseImpl(completion)
  /\ Finish
  /\ UNCHANGED <<endpoints, pc, ret>>

\* Fault: the loop does not look whether the endpoints are exhausted.
RetryPastEnd ==
  /\ coro = "connect" /\ completion = "connection_refused"
  /\ endpoints' = endpoints - 1
  /\ StartConnect
  /\ UNCHANGED <<state_, ec_, notified, pc, ret>>

\* Fault: the iterator is not advanced.
RetrySameEndpoint ==
  /\ coro = "connect" /\ completion = "connection_refused"
  /\ StartConnect
  /\ UNCHANGED <<state_, ec_, notified, endpoints, pc, ret>>

\* Handler of async_connect with an error: socket_.close(), then the next
\* endpoint if there is one, else close(ec).  state_ is not looked at, so a
\* connection closed in the meantime goes on trying.
ConnectRefused ==
  /\ coro = "connect" /\ completion = "connection_refused"
  /\ endpoints' = endpoints - 1
  /\ \/ /\ endpoints > 1
        /\ StartConnect
        /\ UNCHANGED <<state_, ec_, notified>>
     \/ /\ endpoints = 1 /\ state_ # "CLOSED"
        /\ CloseImpl(completion)
        /\ Finish
     \/ /\ endpoints = 1 /\ state_ = "CLOSED"
        /\ socket_' = "closed"
        /\ Finish
        /\ UNCHANGED <<state_, ec_, notified>>
  /\ UNCHANGED <<pc, ret>>

\* Fault: the connection is accepted without the check of line 183.
AcceptBlindly ==
  /\ coro = "connect" /\ completion = NoError
  /\ state_' = "CONNECTED" /\ coro' = "notify" /\ completion' = "none"
  /\ UNCHANGED <<ec_, socket_, endpoints, pc, notified, ret>>

\* Handler of async_connect without error.  Under mu_ it checks that close()
\* did not come first; the notification follows after mu_ is released.
ConnectOK ==
  /\ coro = "connect" /\ completion = NoError
  /\ \/ /\ state_ # "CONNECTING"
        /\ coro' = "done"
        /\ UNCHANGED state_
     \/ /\ state_ = "CONNECTING"
        /\ state_' = "CONNECTED"
        /\ coro' = "notify"
  /\ completion' = "none"
  /\ UNCHANGED <<ec_, socket_, endpoints, pc, notified, ret>>

\* Fault: the waiters are not notified.
ForgetNotify ==
  /\ coro = "notify"
  /\ coro' = "done"
  /\ UNCHANGED <<state_, ec_, socket_, completion, endpoints, pc, notified, ret>>

Notify ==
  /\ coro = "notify"
  /\ coro' = "done"
  /\ notified' = notified \cup Waiting
  /\ UNCHANGED <<state_, ec_, socket_, completion, endpoints, pc, ret>>
-------------------------------------------------------------------------------
Next ==
  \/ \E t \in Threads : Call(t) \/ Enter(t) \/ Launch(t) \/ Wake(t) \/ Timeout(t)
  \/ ResolveDone \/ ResolveHandler
  \/ ConnectDone \/ ConnectAborted \/ ConnectRefused \/ ConnectOK \/ Notify
  \/ Close

Spec == Init /\ [][Next]_vars

\* A thread that is inside connect() is scheduled, and its timed wait ends.
\* Nothing is assumed of the resolver, of the network or of the io thread.
ThreadFairness ==
  \A t \in Threads : /\ WF_vars(Enter(t))
                     /\ WF_vars(Launch(t))
                     /\ WF_vars(Timeout(t))

FairSpec == Spec /\ ThreadFairness

\* The io thread runs its handlers, and resolve and connect complete in the end.
IoFairness == /\ WF_vars(ResolveDone) /\ WF_vars(ResolveHandler)
              /\ WF_vars(ConnectDone) /\ WF_vars(ConnectAborted)
              /\ WF_vars(ConnectRefused) /\ WF_vars(ConnectOK)
              /\ WF_vars(Notify)

-------------------------------------------------------------------------------
(* Properties *)

Life == INSTANCE ConnectionLife
          WITH state   <- state_,
               cause   <- ec_,
               calling <- {t \in Threads : pc[t] # "idle"},
               answer  <- ret

\* The Connection is the one-way latch its callers rely on: connect() and
\* close() of all threads, timeouts and the coroutine together never reopen a
\* closed connection, never replace its first error (connection.h: "If socket
\* is already closed, this will return the error condition that caused it to
\* close originally"), and no connect() reports success unless the connection
\* is up, or an error other than the one that closed it.
ImplementsLife == Life!LifeSpec

\* A connection that is CONNECTED has a connected socket: a timeout or a close
\* that overtakes a successful async_connect wins ("Continuing blindly leaves
\* us in broken state where we set state back to connected even though we have
\* cleaned up socket already").
ConnectedHasSocket == state_ = "CONNECTED" => socket_ = "connected"

\* However many threads call connect() at once, one of them launches the
\* coroutine, and it does so once in the life of the connection.
OneCoroutine ==
  \A t \in Threads : pc[t] = "launch" =>
     /\ coro = "none"
     /\ \A u \in Threads : pc[u] = "launch" => u = t

\* No wakeup is lost: when the outcome is known, a thread that still waits on
\* cv_ has been notified or the coroutine is about to notify it.
NoLostWakeup ==
  \A t \in Waiting : state_ # "CONNECTING" => t \in notified \/ coro = "notify"

\* connect() blocks for a bounded time ("Call will block until socket is
\* connected, fails, or the timeout is met"), even if DNS, the network and the
\* io thread never answer.
ConnectReturns == \A t \in Threads : pc[t] # "idle" ~> pc[t] = "idle"

\* If the network answers, the coroutine does not retry endpoints forever: once
\* launched it ends.
AttemptEnds == IoFairness => (coro # "none" ~> coro = "done")

\* A connection that is closed does not hold on to a socket once its coroutine
\* is finished (connection.h: close() will "Forcefully close the socket").
ClosedReleasesSocket ==
  state_ = "CLOSED" /\ coro = "done" => socket_ = "closed"
===============================================================================
