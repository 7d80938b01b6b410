---------------------------- MODULE MCKafkaRelay ----------------------------
(* Instances of KafkaRelay for TLC: a first member, and a second one that   *)
(* joins when the Invokes of the first are under way or have been, and     *)
(* takes over or shares its partitions.  The partitions, and the Invokes of *)
(* the first member, are interchangeable.                                  *)
EXTENDS KafkaRelay, TLC

CONSTANTS
  n1, n2,      \* the members
  a1, a2, b1,  \* the Invokes of the first, and of the second
  MaxFaults    \* the bound on what befalls the group

VARIABLE faults  \* how much has

MCProcess == (a1 :> n1) @@ (a2 :> n1) @@ (b1 :> n2)

Symmetry == Permutations(Partitions) \cup Permutations({a1, a2})

Fault ==
  \E n \in Nodes : Crash(n) \/ Cancel(n) \/ \E p \in Partitions : Evict(n, p)

JoinsLate == serve'[n2] # "start" => \A i \in {a1, a2} : pc[i] # "new"

\* All messages are there from the start.
MCInit == RelayInit /\ log = [p \in Partitions |-> Last] /\ faults = 0

MCNext ==
  /\ RelayNext
  /\ JoinsLate
  /\ faults' = IF Fault THEN faults + 1 ELSE faults
  /\ faults' <= MaxFaults

MCSpec == MCInit /\ [][MCNext]_<<relayVars, faults>>
=============================================================================
