---------------------------- MODULE ConnectionLife ----------------------------
(***************************************************************************)
(* What a Connection promises to the threads that share it, without the    *)
(* mutex, the condition variable, the coroutine or the socket.  It is a    *)
(* one-way latch: it is started at most once, it comes up at most once,    *)
(* and once it is down it stays down with the error that first took it     *)
(* down.  A connect() that answers "no error" answers for a connection     *)
(* that is up at that moment; every other connect() reports that error.    *)
(***************************************************************************)
CONSTANTS Threads,   \* the threads that call connect()
          Errors,    \* the error codes a connection can go down with
          NoError    \* the error_code that means success

VARIABLES state,     \* "INIT", "CONNECTING", "CONNECTED" or "CLOSED"
          cause,     \* the error it went down with, NoError before that
          calling,   \* the threads that are inside connect()
          answer     \* what the last connect() of each thread returned

lifeVars == <<state, cause, calling, answer>>

Init == /\ state = "INIT"
        /\ cause = NoError
        /\ calling = {}
        /\ answer = [t \in Threads |-> NoError]

Call(t) == /\ t \notin calling
           /\ calling' = calling \cup {t}
           /\ UNCHANGED <<state, cause, answer>>

Begin == /\ state = "INIT"
         /\ state' = "CONNECTING"
         /\ UNCHANGED <<cause, calling, answer>>

ComeUp == /\ state = "CONNECTING"
          /\ state' = "CONNECTED"
          /\ UNCHANGED <<cause, calling, answer>>

GoDown == /\ state # "CLOSED"
          /\ state' = "CLOSED"
          /\ cause' \in Errors
          /\ UNCHANGED <<calling, answer>>

\* A thread leaves connect().  Giving up takes the connection down in the
\* same step, so the error it reports is the one everyone else will see.
Answer(t) == /\ t \in calling
             /\ calling' = calling \ {t}
             /\ \/ /\ state = "CONNECTED"
                   /\ answer' = [answer EXCEPT ![t] = NoError]
                   /\ UNCHANGED <<state, cause>>
                \/ /\ state = "CLOSED"
                   /\ answer' = [answer EXCEPT ![t] = cause]
                   /\ UNCHANGED <<state, cause>>
                \/ /\ state = "CONNECTING"
                   /\ state' = "CLOSED"
                   /\ cause' \in Errors
                   /\ answer' = [answer EXCEPT ![t] = cause']

Next == \/ Begin \/ ComeUp \/ GoDown
        \/ \E t \in Threads : Call(t) \/ Answer(t)

LifeSpec == Init /\ [][Next]_lifeVars
===============================================================================
