------------------------------ MODULE MCI2cBus ------------------------------
(* Model-checking instance of I2cBus. *)
EXTENDS I2cBus, TLC

CallerSymmetry == Permutations(Callers)
=============================================================================
