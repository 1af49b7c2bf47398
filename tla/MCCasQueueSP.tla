---------------------------- MODULE MCCasQueueSP ----------------------------
(* CasQueueSP for TLC: the consumers are interchangeable.                  *)
EXTENDS CasQueueSP, CasQueueSize, TLC

ASSUME SingleProducerAssumption == SingleProducer

Symmetry == Permutations(Consumers)
=============================================================================
