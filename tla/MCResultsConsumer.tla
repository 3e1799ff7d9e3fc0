------------------------- MODULE MCResultsConsumer -------------------------
(* ResultsConsumer with two consumers of one submission's results.  Their   *)
(* identities are interchangeable, but the liveness property of the same    *)
(* run rules a symmetry set out.                                            *)
EXTENDS ResultsConsumer
=============================================================================
