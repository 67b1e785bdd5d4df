--------------------------------- MODULE Codec ---------------------------------
(***************************************************************************)
(* The users of the codec, for TLC: a request that is written (Request), a *)
(* batch that is built, encoded and decoded (MessageSet), and a response   *)
(* that is read (Response).  A behaviour is one of them from a new encoder *)
(* or decoder on; they share the operators, so that a change of one is     *)
(* seen by all of its users.                                               *)
(***************************************************************************)
EXTENDS Request, MessageSet, Response

VARIABLE user    \* which of the three this behaviour is of

\* Lengths a peer may send, negative ones among them.
SomeFrames == {-1, 0, 3, 4, 8, 10, 20, 22, 38}
SomeCounts == {-1, 0, 1, 2, 1000}
SomeLens == {-2, -1, 0, 3}
SomeWrongLens == {-2, -1, 0, 1, 9, 1000}

allVars == <<user, requestVars, batchVars, responseVars>>

CodecInit ==
  RequestInit /\ BatchInit /\ ResponseInit /\ user \in {"request", "batch", "response"}

CodecNext ==
  /\ \/ user = "request" /\ RequestNext /\ UNCHANGED <<batchVars, responseVars>>
     \/ user = "batch" /\ BatchNext /\ UNCHANGED <<requestVars, responseVars>>
     \/ user = "response" /\ ResponseNext /\ UNCHANGED <<requestVars, batchVars>>
  /\ UNCHANGED user

CodecSpec == CodecInit /\ [][CodecNext]_allVars
===============================================================================
