-------------------------- MODULE MCComputerDesktop --------------------------
(* Small instances of ComputerDesktop: each budget lets other things happen. *)
EXTENDS ComputerDesktop

MCBudgets ==
    { [switches |-> 3, faults |-> 0, losses |-> 0, calls |-> 1],
      [switches |-> 1, faults |-> 2, losses |-> 1, calls |-> 1],
      [switches |-> 2, faults |-> 1, losses |-> 0, calls |-> 1],
      [switches |-> 2, faults |-> 0, losses |-> 0, calls |-> 2] }
====
