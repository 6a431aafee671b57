------------------------------ MODULE MCThreadPool ------------------------------
(* Instances of ThreadPool for TLC. *)
EXTENDS ThreadPool

(* two indexes, the last step short of its end *)
TwoSteps == {[from |-> 1, to |-> 4, step |-> 2]}
================================================================================
