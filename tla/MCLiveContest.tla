---------------------------- MODULE MCLiveContest ----------------------------
\* The contest page alone, for the run on what a refresh does to the panel.
EXTENDS LiveContest
=============================================================================
