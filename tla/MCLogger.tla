------------------------------ MODULE MCLogger ------------------------------
(* Instances of Logger for TLC.                                            *)
EXTENDS Logger, TLC
CONSTANTS r1, r2, t1, t2

(* Two tasks that read the file of the reader without r_all.               *)
SharedFile == (t1 :> r2) @@ (t2 :> r2)
=============================================================================
