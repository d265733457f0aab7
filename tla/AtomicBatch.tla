----------------------------- MODULE AtomicBatch -----------------------------
(***************************************************************************)
(* What a multi-file transform promises its caller: it gathers intended    *)
(* contents, then either publishes all of them or none.  If it ends with   *)
(* an error, or dies, any file may be old or new, but none is in between.  *)
(***************************************************************************)
CONSTANT Files

VARIABLES store,   \* the files
          intent,  \* {c} for a file meant to become c, {} for one left alone
          phase    \* "open", or how the batch ended

vars == <<store, intent, phase>>

Init == phase = "open" /\ intent = [f \in Files |-> {}]

\* One more file is to be changed; intents are never withdrawn.
Intend == /\ phase = "open"
          /\ \E f \in Files : /\ intent[f] = {}
                              /\ \A g \in Files \ {f} : intent'[g] = intent[g]
          /\ UNCHANGED <<store, phase>>

\* Every file with an intent gets it; the others stay.
Publish == /\ phase = "open" /\ phase' = "committed"
           /\ \A f \in Files : store'[f] \in
                IF intent[f] = {} THEN {store[f]} ELSE intent[f]
           /\ UNCHANGED intent

Discard == /\ phase = "open" /\ phase' = "rolled_back"
           /\ UNCHANGED <<store, intent>>

\* Old or new, file by file.
Abandon == /\ phase = "open" /\ phase' \in {"error", "crashed"}
           /\ \A f \in Files : store'[f] \in {store[f]} \union intent[f]
           /\ UNCHANGED intent

Next == Intend \/ Publish \/ Discard \/ Abandon

Spec == Init /\ [][Next]_vars
=============================================================================
