------------------------------ MODULE MCStaging ------------------------------
\* Instances of Staging for TLC.
EXTENDS Staging, TLC

CONSTANTS server, command, s1, s2, e1, f1

AllContents == {c : c \in SUBSET (Stages \union Outside)} \union {Empty}
DbFault == {"db"}
Symmetry == Permutations(Stages)
TextOrEmpty == {{}, Empty}
Default == {[backups |-> FALSE, log |-> TRUE]}
TwoConfigs == Default \union {[backups |-> TRUE, log |-> TRUE]}
=============================================================================
