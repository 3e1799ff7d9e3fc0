--------------------------- MODULE MCJudgeWorker ---------------------------
(* JudgeWorker on small fleets: worker identities are interchangeable.      *)
EXTENDS JudgeWorker

WorkerSymmetry == Permutations(Worker)
=============================================================================
