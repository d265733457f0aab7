------------------------- MODULE MCTransactionClient -------------------------
\* Instances of TransactionClient for TLC.
EXTENDS TransactionClient, TLC

\* Everything but a log write that fails: then a later write goes ahead with
\* no log that could be loaded, and WriteAhead does not hold.
ClientFaults == {"backup", "write", "restore", "crash"}
TornFaults   == {"crash"}

\* Paths and contents are interchangeable; transaction ids too.
Symmetry == Permutations(Files) \union Permutations(Contents) \union Permutations(TxIds)
=============================================================================
