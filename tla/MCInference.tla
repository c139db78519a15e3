----------------------------- MODULE MCInference -----------------------------
(* Two titles, the first with two batches of files.                        *)
EXTENDS Inference

MCBatchesOf == [t \in Titles |-> IF t = 1 THEN 2 ELSE 1]

=============================================================================
