---------------------------- MODULE LifecycleProofs ----------------------------
(***************************************************************************)
(* The lives of a connection and of a client, each for any number of       *)
(* threads: proofs that a Connection keeps its safety invariants and       *)
(* implements ConnectionLife, for any number of endpoints, and that a      *)
(* client can be closed and destroyed, for any number of calls of close(). *)
(*                                                                         *)
(* None of the safety invariants of Connection is inductive.  Inv adds     *)
(* what they rest on: where the coroutine can be in each state, that a     *)
(* queued successful connect left a connected socket unless close() came   *)
(* first, and that the coroutine has an endpoint to count down.  Those of  *)
(* ClientLifecycle rest on the order in which close() joins the threads.   *)
(***************************************************************************)
EXTENDS Connection, ClientLifecycle, TLAPS
-------------------------------------------------------------------------------
(* Connection *)

\* Before the first connect() nothing is launched and nobody waits.
InitIsQuiet ==
  state_ = "INIT" => /\ coro = "none"
                     /\ \A t \in Threads : pc[t] \notin {"launch", "wait"}

\* The coroutine does nothing to the socket of a connection that is up.
ConnectedIsQuiet == state_ = "CONNECTED" => coro \in {"notify", "done"}

\* Only close() can take the socket away from a connect that succeeded.
SuccessHasSocket ==
  coro = "connect" /\ completion = NoError /\ state_ = "CONNECTING"
    => socket_ = "connected"

EndpointsLeft ==
  /\ coro = "connect" => endpoints > 0
  /\ coro = "resolve" /\ completion = NoError => endpoints > 0

Inv == /\ TypeOK
       /\ InitIsQuiet /\ ConnectedIsQuiet /\ SuccessHasSocket /\ EndpointsLeft
       /\ ConnectedHasSocket /\ OneCoroutine /\ NoLostWakeup

\* impl::close never records "no error".
LEMMA CloseErrorIsError ==
  ASSUME NEW ec \in Errors \cup {NoError}
  PROVE  CloseError(ec) \in Errors
BY DEF CloseError, Errors, NoError

\* A connection as impl's constructor leaves it satisfies the invariant.
LEMMA InitInv == Init => Inv
BY SMTT(60), MaxEndpointsAssumption DEF Init, Inv, TypeOK, InitIsQuiet, ConnectedIsQuiet, SuccessHasSocket,
   EndpointsLeft, ConnectedHasSocket, OneCoroutine, NoLostWakeup, Waiting,
   States, Errors, NoError

\* Every step of a thread, of the coroutine or of the network preserves it.
LEMMA NextInv == Inv /\ [Next]_vars => Inv'
<1> SUFFICES ASSUME Inv, [Next]_vars PROVE Inv'
  OBVIOUS
<1> USE MaxEndpointsAssumption
    DEF Inv, TypeOK, InitIsQuiet, ConnectedIsQuiet, SuccessHasSocket, EndpointsLeft,
        ConnectedHasSocket, OneCoroutine, NoLostWakeup, Waiting, NoError, States
<1>1. ASSUME NEW t \in Threads, Call(t) PROVE Inv'
  BY <1>1 DEF Call
<1>2. ASSUME NEW t \in Threads, Enter(t) PROVE Inv'
  BY <1>2 DEF Enter, BecomeInitiator, Return, Errors
<1>3. ASSUME NEW t \in Threads, Launch(t) PROVE Inv'
  BY <1>3 DEF Launch
<1>4. ASSUME NEW t \in Threads, WaitOver(t) PROVE Inv'
  BY <1>4 DEF WaitOver, Return
<1>5. ASSUME NEW t \in Threads, Timeout(t) PROVE Inv'
  BY <1>4, <1>5 DEF Timeout, CloseImpl, CloseError, CancelConnect, Return, Errors
<1>6. CASE ResolveDone
  BY <1>6 DEF ResolveDone, Errors
<1>7. CASE ResolveHandler
  BY <1>7, CloseErrorIsError DEF ResolveHandler, CloseImpl, Finish, StartConnect
<1>8. CASE ConnectDone
  BY <1>8 DEF ConnectDone, Errors
<1>9. CASE ConnectAborted
  BY <1>9 DEF ConnectAborted, CloseImpl, CloseError, Finish, Errors
<1>10. CASE ConnectRefused
  BY <1>10 DEF ConnectRefused, CloseImpl, CloseError, Finish, StartConnect, Errors
<1>11. CASE ConnectOK
  BY <1>11 DEF ConnectOK
<1>12. CASE Notify
  BY <1>12 DEF Notify
<1>13. CASE Close
  BY <1>13 DEF Close, CloseImpl, CloseError, CancelConnect, Errors
<1>14. CASE UNCHANGED vars
  BY <1>14 DEF vars
<1> QED
  BY Zenon, <1>1, <1>2, <1>3, <1>4, <1>5, <1>6, <1>7, <1>8, <1>9, <1>10, <1>11, <1>12,
     <1>13, <1>14 DEF Next, Wake

\* Every reachable state of the connection satisfies the inductive invariant.
THEOREM ConnectionInv == Spec => []Inv
BY InitInv, NextInv, PTL DEF Spec

\* Type correctness of the connection.
THEOREM ConnectionTypes == Spec => []TypeOK
BY ConnectionInv, PTL DEF Inv

\* A connection that is CONNECTED has a connected socket, for any number of
\* threads racing connect(), timeouts and close().
THEOREM ConnectedSocket == Spec => []ConnectedHasSocket
BY ConnectionInv, PTL DEF Inv

\* The coroutine is launched at most once.
THEOREM SingleCoroutine == Spec => []OneCoroutine
BY ConnectionInv, PTL DEF Inv

\* No thread that waits for the outcome misses it.
THEOREM WakeupsKept == Spec => []NoLostWakeup
BY ConnectionInv, PTL DEF Inv
-------------------------------------------------------------------------------
(* The refinement of ConnectionLife. *)

\* close() takes an open connection down and leaves a closed one alone.
LEMMA CloseRefines ==
  ASSUME NEW ec \in Errors \cup {NoError}, state_ \in States, CloseImpl(ec),
         UNCHANGED <<pc, ret>>
  PROVE  [Life!Next]_(Life!lifeVars)
BY CloseErrorIsError
   DEF CloseImpl, States, Life!Next, Life!GoDown, Life!lifeVars

\* A thread that leaves connect() answers with what the connection is.
LEMMA ReturnRefines ==
  ASSUME NEW t \in Threads, pc \in [Threads -> {"idle", "enter", "launch", "wait"}],
         pc[t] # "idle", UNCHANGED <<state_, ec_>>,
         \/ state_ = "CONNECTED" /\ Return(t, NoError)
         \/ state_ = "CLOSED" /\ Return(t, ec_)
  PROVE  Life!Answer(t)
BY DEF Return, Life!Answer

\* Every step of the connection is a step of the latch, or leaves it alone.
LEMMA NextRefines == Inv /\ [Next]_vars => [Life!Next]_(Life!lifeVars)
<1> SUFFICES ASSUME Inv, [Next]_vars PROVE [Life!Next]_(Life!lifeVars)
  OBVIOUS
<1> USE DEF Inv, TypeOK, NoError, States
<1>1. ASSUME NEW t \in Threads, Call(t) PROVE Life!Call(t)
  BY <1>1 DEF Call, Life!Call
<1>2. ASSUME NEW t \in Threads, Enter(t) PROVE [Life!Next]_(Life!lifeVars)
  <2>1. CASE state_ \in {"CONNECTED", "CLOSED"}
    BY <1>2, <2>1, ReturnRefines DEF Enter, BecomeInitiator, Life!Next
  <2>2. CASE state_ = "CONNECTING"
    BY <1>2, <2>2 DEF Enter, BecomeInitiator, Life!lifeVars
  <2>3. CASE state_ = "INIT"
    BY <1>2, <2>3 DEF Enter, BecomeInitiator, Life!Next, Life!Begin
  <2> QED
    BY <2>1, <2>2, <2>3
<1>3. ASSUME NEW t \in Threads, Launch(t) PROVE UNCHANGED Life!lifeVars
  BY <1>3 DEF Launch, Life!lifeVars
<1>4. ASSUME NEW t \in Threads, WaitOver(t) PROVE [Life!Next]_(Life!lifeVars)
  <2>1. state_ # "INIT"
    BY <1>4 DEF WaitOver, InitIsQuiet
  <2> QED
    BY <1>4, <2>1, ReturnRefines DEF WaitOver, Life!Next
<1>5. ASSUME NEW t \in Threads, Timeout(t) PROVE [Life!Next]_(Life!lifeVars)
  <2>1. CASE state_ = "CONNECTING"
    <3>1. Life!Answer(t)
      BY <1>5, <2>1
         DEF Timeout, WaitOver, CloseImpl, CloseError, Return, Errors, Life!Answer
    <3> QED
      BY <3>1 DEF Life!Next
  <2> QED
    BY <1>4, <1>5, <2>1 DEF Timeout
<1>6. CASE ResolveDone \/ ConnectDone \/ Notify
  BY <1>6 DEF ResolveDone, ConnectDone, Notify, Life!lifeVars
<1>7. CASE ResolveHandler
  <2>1. CASE completion = NoError
    BY <1>7, <2>1 DEF ResolveHandler, Life!lifeVars
  <2> QED
    BY <1>7, <2>1, CloseRefines DEF ResolveHandler, Errors
<1>8. CASE ConnectAborted
  BY <1>8, CloseRefines DEF ConnectAborted, Errors
<1>9. CASE ConnectRefused
  <2>1. CASE endpoints = 1 /\ state_ # "CLOSED"
    BY <1>9, <2>1, CloseRefines DEF ConnectRefused, Errors
  <2> QED
    BY <1>9, <2>1 DEF ConnectRefused, Life!lifeVars
<1>10. CASE ConnectOK
  BY <1>10 DEF ConnectOK, Life!Next, Life!ComeUp, Life!lifeVars
<1>11. CASE Close
  BY <1>11, CloseRefines DEF Close, Errors
<1>12. CASE UNCHANGED vars
  BY <1>12 DEF vars, Life!lifeVars
<1> QED
  BY <1>1, <1>2, <1>3, <1>4, <1>5, <1>6, <1>7, <1>8, <1>9, <1>10, <1>11, <1>12
     DEF Next, Wake, Life!Next

\* Connection implements the one-way latch of ConnectionLife: closed is final,
\* the first error wins, and connect() never reports a success that is not one.
THEOREM ConnectionImplementsLife == Spec => ImplementsLife
<1>1. Init => Life!Init
  BY DEF Init, Life!Init
<1> QED
  BY <1>1, ConnectionInv, NextRefines, PTL DEF Spec, ImplementsLife, Life!LifeSpec
-------------------------------------------------------------------------------
(* ClientLifecycle *)

\* close() and the destructor are never at work at the same time or twice.
OneCloser == \A u, v \in Users : where[u] \in Closing /\ where[v] \in Closing => u = v

\* A thread that was joined has ended, and close() joins them in order.
JoinsInOrder ==
  /\ running \subseteq joinable
  /\ \A u \in Users : where[u] = "join" => \A i \in joinable : i >= next
  /\ fate = "closed" \/ (fate = "destroyed" /\ NobodyCloses) => joinable = {}

\* Without a close() before it the destructor finds every thread to be joined.
FirstToJoin ==
  /\ fate \in {"closed", "threw", "terminated"} => closes > 0
  /\ closes = 0 /\ fate = "alive" => NobodyCloses /\ joinable = IoThreads
  /\ closes = 0 => \A u \in Users :
       /\ where[u] \in {"lock", "reset", "stop"} => joinable = IoThreads
       /\ where[u] = "join" => \A i \in IoThreads : i >= next => i \in joinable

ClientInv == ClientTypeOK /\ OneCloser /\ JoinsInOrder /\ FirstToJoin

\* The type invariant is kept by every step.
LEMMA TypeStep == ClientTypeOK /\ [ClientNext]_clientVars => ClientTypeOK'
<1> SUFFICES ASSUME ClientTypeOK, [ClientNext]_clientVars PROVE ClientTypeOK'
  OBVIOUS
<1> USE DEF ClientTypeOK, closeVars, callVars, Go, Closing
<1>1. ASSUME NEW u \in Users, StartCall(u) \/ Post(u) \/ CallReturns(u) \/ CallTimesOut(u)
      PROVE ClientTypeOK'
  <2>1. CASE StartCall(u)
    BY <2>1 DEF StartCall
  <2>2. CASE Post(u)
    BY <2>2 DEF Post
  <2>3. CASE CallReturns(u)
    BY <2>3 DEF CallReturns
  <2>4. CASE CallTimesOut(u)
    BY <2>4 DEF CallTimesOut
  <2>. QED BY <1>1, <2>1, <2>2, <2>3, <2>4
<1>2. ASSUME NEW u \in Users, StartClose(u) \/ Destroy(u) \/ CloseSteps(u)
      PROVE ClientTypeOK'
  <2>1. CASE StartClose(u)
    BY <2>1, LifecycleAssumption DEF StartClose
  <2>2. CASE Destroy(u)
    BY <2>2 DEF Destroy
  <2>3. CASE SetStopping(u)
    BY <2>3 DEF SetStopping
  <2>4. CASE ResetWork(u)
    BY Zenon, <2>4 DEF ResetWork
  <2>5. CASE StopIo(u)
    BY <2>5, LifecycleAssumption DEF StopIo
  <2>6. CASE Join(u)
    BY <2>6, LifecycleAssumption DEF Join, IoThreads
  <2>7. CASE JoinThrows(u)
    BY <2>7 DEF JoinThrows
  <2>8. CASE CloseReturns(u)
    BY <2>8 DEF CloseReturns
  <2>. QED BY <1>2, <2>1, <2>2, <2>3, <2>4, <2>5, <2>6, <2>7, <2>8 DEF CloseSteps
<1>3. ASSUME NEW i \in IoThreads, Handle(i) \/ HandleThrows(i) \/ RunReturns(i)
      PROVE ClientTypeOK'
  <2>1. CASE Handle(i)
    BY <2>1 DEF Handle
  <2>2. CASE HandleThrows(i)
    BY <2>2 DEF HandleThrows
  <2>3. CASE RunReturns(i)
    BY <2>3 DEF RunReturns
  <2>. QED BY <1>3, <2>1, <2>2, <2>3
<1>4. CASE UNCHANGED clientVars
  BY <1>4 DEF clientVars
<1>. QED BY <1>1, <1>2, <1>3, <1>4 DEF ClientNext

\* Whoever closes is the only one to do so.
LEMMA OneCloserStep == ClientTypeOK /\ OneCloser /\ [ClientNext]_clientVars => OneCloser'
<1> SUFFICES ASSUME ClientTypeOK, OneCloser, [ClientNext]_clientVars PROVE OneCloser'
  OBVIOUS
<1>1. ASSUME NEW u \in Users, NEW label, where' = [where EXCEPT ![u] = label],
             label \in Closing => where[u] \in Closing \/ NobodyCloses
      PROVE  OneCloser'
  BY <1>1 DEF OneCloser, ClientTypeOK, NobodyCloses
<1>2. ASSUME where' = where PROVE OneCloser'
  BY <1>2 DEF OneCloser
<1>3. ASSUME NEW u \in Users, StartCall(u) \/ Post(u) \/ CallReturns(u) \/ CallTimesOut(u)
      PROVE OneCloser'
  BY <1>1, <1>3 DEF StartCall, Post, CallReturns, CallTimesOut, Go, Closing
<1>4. ASSUME NEW u \in Users, StartClose(u) \/ Destroy(u) PROVE OneCloser'
  BY <1>1, <1>4 DEF StartClose, Destroy, Go, NobodyCloses, Closing
<1>5. ASSUME NEW u \in Users, CloseSteps(u) PROVE OneCloser'
  BY <1>1, <1>2, <1>5 DEF CloseSteps, SetStopping, ResetWork, StopIo, Join, JoinThrows,
                          CloseReturns, Go, Closing
<1>6. ASSUME NEW i \in IoThreads, Handle(i) \/ HandleThrows(i) \/ RunReturns(i)
      PROVE OneCloser'
  BY <1>2, <1>6 DEF Handle, HandleThrows, RunReturns
<1>7. CASE UNCHANGED clientVars
  BY <1>2, <1>7 DEF clientVars
<1>. QED BY <1>3, <1>4, <1>5, <1>6, <1>7 DEF ClientNext

\* What calls and io threads do is no concern of close(), but that threads end.
LEMMA OtherSteps ==
  ASSUME ClientTypeOK,
         \/ \E u \in Users : StartCall(u) \/ Post(u) \/ CallReturns(u) \/ CallTimesOut(u)
         \/ \E i \in IoThreads : Handle(i) \/ HandleThrows(i) \/ RunReturns(i)
         \/ UNCHANGED clientVars
  PROVE  /\ UNCHANGED closeVars /\ running' \subseteq running
         /\ \A u \in Users : where'[u] = where[u] \/ {where[u], where'[u]} \cap Closing = {}
<1>1. ASSUME NEW u \in Users, StartCall(u) \/ Post(u) \/ CallReturns(u) \/ CallTimesOut(u)
      PROVE  /\ UNCHANGED closeVars /\ running' \subseteq running
             /\ \A v \in Users : where'[v] = where[v] \/ {where[v], where'[v]} \cap Closing = {}
  <2>1. UNCHANGED <<closeVars, running>> /\ \E label \in {"idle", "begun", "waiting"} : Go(u, label)
    BY <1>1 DEF StartCall, Post, CallReturns, CallTimesOut
  <2>2. where[u] \in {"idle", "begun", "waiting"}
    BY <1>1 DEF StartCall, Post, CallReturns, CallTimesOut
  <2>. QED BY <2>1, <2>2 DEF Go, Closing, ClientTypeOK
<1>2. ASSUME NEW i \in IoThreads, Handle(i) \/ HandleThrows(i) \/ RunReturns(i)
      PROVE  UNCHANGED <<closeVars, where>> /\ running' \subseteq running
  BY <1>2 DEF Handle, HandleThrows, RunReturns
<1>3. CASE UNCHANGED clientVars
  BY <1>3 DEF clientVars
<1>. QED BY <1>1, <1>2, <1>3

\* Those steps keep the invariant.
LEMMA OtherStepsInv ==
  ASSUME ClientInv, UNCHANGED closeVars, running' \subseteq running,
         \A u \in Users : where'[u] = where[u] \/ {where[u], where'[u]} \cap Closing = {}
  PROVE  JoinsInOrder' /\ FirstToJoin'
<1>1. NobodyCloses' <=> NobodyCloses
  BY DEF NobodyCloses, ClientInv
<1>2. \A u \in Users : /\ where'[u] = "join" => where[u] = "join"
                       /\ where'[u] \in {"lock", "reset", "stop"} => where[u] \in {"lock", "reset", "stop"}
  BY Zenon DEF Closing
<1>3. joinable' = joinable /\ next' = next /\ closes' = closes /\ fate' = fate
  BY DEF closeVars
<1>4. JoinsInOrder'
  <2>1. running' \subseteq joinable'
    BY <1>3 DEF JoinsInOrder, ClientInv
  <2>2. \A u \in Users : where'[u] = "join" => \A i \in joinable' : i >= next'
    <3>1. \A u \in Users : where[u] = "join" => \A i \in joinable : i >= next
      BY DEF JoinsInOrder, ClientInv
    <3>. QED BY <1>2, <1>3, <3>1
  <2>3. fate' = "closed" \/ (fate' = "destroyed" /\ NobodyCloses') => joinable' = {}
    BY <1>1, <1>3 DEF JoinsInOrder, ClientInv
  <2>. QED BY <2>1, <2>2, <2>3 DEF JoinsInOrder
<1>5. FirstToJoin'
  <2>1. fate' \in {"closed", "threw", "terminated"} => closes' > 0
    BY <1>3 DEF FirstToJoin, ClientInv
  <2>2. closes' = 0 /\ fate' = "alive" => NobodyCloses' /\ joinable' = IoThreads
    BY <1>1, <1>3 DEF FirstToJoin, ClientInv
  <2>3. ASSUME closes' = 0, NEW u \in Users
        PROVE  /\ where'[u] \in {"lock", "reset", "stop"} => joinable' = IoThreads
               /\ where'[u] = "join" => \A i \in IoThreads : i >= next' => i \in joinable'
    <3>1. /\ where[u] \in {"lock", "reset", "stop"} => joinable = IoThreads
          /\ where[u] = "join" => \A i \in IoThreads : i >= next => i \in joinable
      BY <1>3, <2>3 DEF FirstToJoin, ClientInv
    <3>. QED BY <1>2, <1>3, <3>1
  <2>. QED BY <2>1, <2>2, <2>3 DEF FirstToJoin, IoThreads
<1>. QED BY <1>4, <1>5

\* So do those of close() and of the destructor.
LEMMA CloseInv ==
  ASSUME ClientInv, OneCloser', NEW u \in Users, StartClose(u) \/ Destroy(u) \/ CloseSteps(u)
  PROVE  JoinsInOrder' /\ FirstToJoin'
<1> USE DEF Go
<1>0. ClientTypeOK /\ where \in [Users -> {"idle", "begun", "waiting"} \cup Closing]
  BY DEF ClientInv, ClientTypeOK
<1>a. next \in Nat /\ joinable \subseteq IoThreads /\ closes \in Nat /\ NumIo \in Nat
  BY LifecycleAssumption DEF ClientInv, ClientTypeOK
<1>b. fate \in {"alive", "closed", "threw", "destroyed", "terminated"}
  BY DEF ClientInv, ClientTypeOK
<1>1. CASE StartClose(u)
  <2>1. JoinsInOrder'
    BY <1>0, <1>1 DEF StartClose, JoinsInOrder, ClientInv, NobodyCloses, Closing
  <2>2. FirstToJoin'
    BY <1>0, <1>a, <1>1 DEF StartClose, FirstToJoin, ClientInv, NobodyCloses, Closing
  <2>. QED BY <2>1, <2>2
<1>2. CASE Destroy(u)
  <2>1. JoinsInOrder'
    BY <1>0, <1>2 DEF Destroy, JoinsInOrder, ClientInv, NobodyCloses, Closing
  <2>2. FirstToJoin'
    BY <1>0, <1>2 DEF Destroy, FirstToJoin, ClientInv, NobodyCloses, Closing
  <2>. QED BY <2>1, <2>2
<1>3. CASE SetStopping(u) \/ ResetWork(u)
  <2>1. JoinsInOrder'
    BY <1>0, <1>3 DEF SetStopping, ResetWork, JoinsInOrder, ClientInv, NobodyCloses, Closing
  <2>2. FirstToJoin'
    BY <1>0, <1>3 DEF SetStopping, ResetWork, FirstToJoin, ClientInv, NobodyCloses, Closing
  <2>. QED BY <2>1, <2>2
<1>4. CASE StopIo(u)
  <2>1. JoinsInOrder'
    BY <1>0, <1>a, <1>4 DEF StopIo, JoinsInOrder, ClientInv, NobodyCloses, Closing, IoThreads
  <2>2. FirstToJoin'
    BY <1>0, <1>4 DEF StopIo, FirstToJoin, ClientInv, NobodyCloses, Closing
  <2>. QED BY <2>1, <2>2
<1>5. CASE Join(u)
  <2>1. JoinsInOrder'
    BY <1>0, <1>a, <1>5 DEF Join, JoinsInOrder, ClientInv, NobodyCloses, IoThreads
  <2>2. FirstToJoin'
    BY <1>0, <1>a, <1>5 DEF Join, FirstToJoin, ClientInv, NobodyCloses, OneCloser, Closing, IoThreads
  <2>. QED BY <2>1, <2>2
<1>6. CASE JoinThrows(u)
  <2>1. JoinsInOrder'
    BY <1>0, <1>6 DEF JoinThrows, JoinsInOrder, ClientInv
  <2>2. closes > 0
    BY <1>a, <1>6 DEF JoinThrows, FirstToJoin, ClientInv
  <2>3. FirstToJoin'
    BY <2>2, <1>a, <1>6 DEF JoinThrows, FirstToJoin
  <2>. QED BY <2>1, <2>3
<1>7. CASE CloseReturns(u)
  <2>1. joinable = {}
    BY <1>a, <1>7 DEF CloseReturns, JoinsInOrder, ClientInv, IoThreads
  <2>2. JoinsInOrder'
    BY <1>0, <2>1, <1>7 DEF CloseReturns, JoinsInOrder, ClientInv
  <2>3. FirstToJoin'
    BY <1>0, <1>a, <1>b, <1>7 DEF CloseReturns, FirstToJoin, ClientInv, NobodyCloses, OneCloser, Closing
  <2>. QED BY <2>2, <2>3
<1>. QED BY <1>1, <1>2, <1>3, <1>4, <1>5, <1>6, <1>7 DEF CloseSteps

\* The invariant holds initially and is kept by every step.
LEMMA Invariant == ClientSpec => []ClientInv
<1>1. ClientInit => ClientInv
  <2> SUFFICES ASSUME ClientInit PROVE ClientInv
    OBVIOUS
  <2>1. ClientTypeOK
    <3>1. 0 \in 0..MaxCloses /\ 1 \in 1..(NumIo + 1)
      BY LifecycleAssumption
    <3>2. where \in [Users -> {"idle", "begun", "waiting"} \cup Closing]
      BY DEF ClientInit
    <3>. QED BY <3>1, <3>2, Zenon DEF ClientInit, ClientTypeOK
  <2>2. OneCloser /\ NobodyCloses
    BY DEF ClientInit, OneCloser, NobodyCloses, Closing
  <2>3. JoinsInOrder /\ FirstToJoin
    BY <2>2 DEF ClientInit, JoinsInOrder, FirstToJoin
  <2>. QED BY <2>1, <2>2, <2>3 DEF ClientInv
<1>2. ClientInv /\ [ClientNext]_clientVars => ClientInv'
  <2> SUFFICES ASSUME ClientInv, [ClientNext]_clientVars PROVE ClientInv'
    OBVIOUS
  <2>1. ClientTypeOK' /\ OneCloser'
    BY TypeStep, OneCloserStep DEF ClientInv
  <2>2. CASE \E u \in Users : StartClose(u) \/ Destroy(u) \/ CloseSteps(u)
    BY SMTT(60), <2>1, <2>2, CloseInv DEF ClientInv
  <2>3. CASE ~\E u \in Users : StartClose(u) \/ Destroy(u) \/ CloseSteps(u)
    BY <2>1, <2>3, OtherSteps, OtherStepsInv DEF ClientInv, ClientNext
  <2>. QED BY <2>2, <2>3
<1>. QED BY <1>1, <1>2, PTL DEF ClientSpec

\* Every variable keeps its type; mu_ never has two owners.
THEOREM TypeCorrect == ClientSpec => []ClientTypeOK
<1>1. ClientInv => ClientTypeOK
  BY DEF ClientInv
<1>. QED BY <1>1, Invariant, PTL

\* When close() or the destructor has returned, no io thread is running.
THEOREM NoIoThreadAfterClose == ClientSpec => []NoIoAfterClose
<1>1. ClientInv => NoIoAfterClose
  BY DEF ClientInv, JoinsInOrder, NoIoAfterClose
<1>. QED BY <1>1, Invariant, PTL

\* The destructor can only end the process when close() was called before it.
THEOREM DestructorAloneIsSafe == ClientSpec => []TerminatedOnlyAfterClose
<1>1. ClientInv => TerminatedOnlyAfterClose
  BY DEF ClientInv, FirstToJoin, TerminatedOnlyAfterClose
<1>. QED BY <1>1, Invariant, PTL
===============================================================================
