------------------------ MODULE MCSharedFirstMutex ------------------------
(* The model-checking instance of SharedFirstMutex: three named threads.   *)
EXTENDS SharedFirstMutex, TLC

CONSTANTS t1, t2, t3

===========================================================================
