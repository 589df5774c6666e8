------------------------------ MODULE MCCondVar ------------------------------
(* The model-checking instance of CondVar: three named threads.            *)
EXTENDS CondVar

CONSTANTS t1, t2, t3

Symmetric == Permutations(Threads)

==============================================================================
