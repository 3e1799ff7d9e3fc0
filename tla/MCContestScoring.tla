--------------------------- MODULE MCContestScoring ---------------------------
\* The scores alone, for the run on what the formula promises.
EXTENDS ContestScoring
=============================================================================
