-------------------------- MODULE MCJudgePipeline --------------------------
(* The whole chain on its smallest interesting instance.                    *)
EXTENDS JudgePipeline
=============================================================================
