------------------------------- MODULE MCActuator -------------------------------
(* Instances of Actuator for TLC.                                          *)
EXTENDS Actuator, TLC

ShootSymmetry == Permutations(Shoots)
=============================================================================
