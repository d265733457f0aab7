--------------------------- MODULE MCAsyncStaging ---------------------------
\* Instances of AsyncStaging for TLC.
EXTENDS AsyncStaging, TLC

CONSTANTS r1, r2, r3, w1, w2
=============================================================================
