--------------------------- MODULE MCProducerClient ---------------------------
(* ProducerClient with small sets; threads are interchangeable.            *)
EXTENDS ProducerClient, TLC

ThreadSymmetry == Permutations(Threads)
===============================================================================
