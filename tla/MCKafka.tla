------------------------------- MODULE MCKafka -------------------------------
(* Instances of KafkaSource for TLC: members of the group and partitions   *)
(* are interchangeable.                                                    *)
EXTENDS KafkaSource, TLC

Symmetry == Permutations(Nodes) \cup Permutations(Partitions)
=============================================================================
