---------------------------- MODULE MCVariableSync ----------------------------
(* Instances of VariableSync for TLC.                                      *)
EXTENDS VariableSync, TLC

\* Three settings; "long" is a string of more than MaxStringLength characters
\* and "text" its first MaxStringLength characters.
MCWire == [v \in Values |-> IF v = "long" THEN "text" ELSE v]

MachineSymmetry == Permutations(Machines)
=============================================================================
