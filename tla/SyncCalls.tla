------------------------------- MODULE SyncCalls -------------------------------
(***************************************************************************)
(* What sync_call() promises to the threads that share a Broker: a call is *)
(* settled at most once, with the peer's answer to it or with an error;    *)
(* what it returns is what it was settled with, or a timeout if it was not *)
(* settled in time; an answer that comes later changes nothing.            *)
(*                                                                         *)
(* There are no queues, coroutines or sockets here.  Module RpcQueues is   *)
(* shown to implement this one.                                            *)
(***************************************************************************)
CONSTANTS Calls

VARIABLES
  phase,     \* "idle", "waiting" or "returned"
  settled,   \* "unset", "value", or an error
  result     \* what the call returned

vars == <<phase, settled, result>>

Init ==
  /\ phase = [c \in Calls |-> "idle"]
  /\ settled = [c \in Calls |-> "unset"]
  /\ result = [c \in Calls |-> "no_error"]

Return(c, ec) ==
  /\ phase' = [phase EXCEPT ![c] = "returned"]
  /\ result' = [result EXCEPT ![c] = ec]
  /\ UNCHANGED settled

\* The request cannot be encoded, or is on its way.
Begin(c) ==
  /\ phase[c] = "idle"
  /\ \/ Return(c, "encoding_error")
     \/ phase' = [phase EXCEPT ![c] = "waiting"] /\ UNCHANGED <<settled, result>>

\* The answer may turn out not to decode.
End(c) ==
  /\ phase[c] = "waiting"
  /\ \/ settled[c] = "unset" /\ Return(c, "network_timeout")
     \/ settled[c] = "value" /\ Return(c, "no_error")
     \/ settled[c] = "value" /\ Return(c, "decoding_error")
     \/ settled[c] \notin {"unset", "value"} /\ Return(c, settled[c])

\* A call that has begun, whether it waits or has timed out, can be settled once.
Unsettled(c) == phase[c] # "idle" /\ settled[c] = "unset"

Answer(c) ==
  /\ Unsettled(c)
  /\ settled' = [settled EXCEPT ![c] = "value"]
  /\ UNCHANGED <<phase, result>>

\* A failure settles any number of calls.
Fail ==
  /\ settled' = [c \in Calls |-> settled'[c]]
  /\ \A c \in Calls : \/ settled'[c] = settled[c]
                      \/ Unsettled(c) /\ settled'[c] \notin {"unset", "value"}
  /\ UNCHANGED <<phase, result>>

Next == Fail \/ \E c \in Calls : Begin(c) \/ End(c) \/ Answer(c)

Spec == Init /\ [][Next]_vars
===============================================================================
