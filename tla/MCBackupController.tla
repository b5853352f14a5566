------------------------- MODULE MCBackupController -------------------------
(* The backup controller on small instances.                               *)
EXTENDS BackupController, TLC

OperatorSymmetry == Permutations(Members) \cup Permutations(Workers)
=============================================================================
