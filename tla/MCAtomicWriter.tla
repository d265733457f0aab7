--------------------------- MODULE MCAtomicWriter ---------------------------
\* Instances of AtomicWriter for TLC: the threads of each process.
EXTENDS AtomicWriter, TLC

CONSTANTS p1, p2, t1, t2, t3

Split    == t1 :> p1 @@ t2 :> p1 @@ t3 :> p2
Apart    == t1 :> p1 @@ t2 :> p2
Pair     == t1 :> p1 @@ t2 :> p1

NoFaults    == {}
StepFaults  == {"create", "pid", "body", "temp", "rename"}
AllFaults   == StepFaults \union {"remove", "stuck", "crash"}
ShareFaults == {"crash"}

\* Exchanging two threads of the same process.
Symmetry == Permutations({t1, t2})
=============================================================================
