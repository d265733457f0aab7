-------------------------- MODULE MCTransformFiles --------------------------
\* Instances of TransformFiles for TLC.
EXTENDS TransformFilesInv, TLC

\* Under a transaction, the case the theorems of TransformFilesProofs are
\* about; and every combination of the options.
Safe == {[safe |-> TRUE, dryRun |-> FALSE, backup |-> FALSE]}
All  == OptionRecords

\* Everything that can go wrong short of an outside edit and a lock that
\* cannot be released; and other selections.
BatchFaults   == {"log", "backup", "write", "restore", "read", "walk", "crash"}
EditFaults    == {"log", "backup", "write", "restore", "read", "edit", "crash"}
ReleaseFaults == {"release", "read"}
ReadFaults    == {"read"}

Symmetry == Permutations(Files) \union Permutations(Contents)
=============================================================================
