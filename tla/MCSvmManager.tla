----------------------------- MODULE MCSvmManager -----------------------------
(* Instances of SvmManager for TLC.                                        *)
EXTENDS SvmManager, TLC

\* Two clusters that form a MetroCluster.
Pair == <<2, 1>>

ShootSymmetry == Permutations(Shoots)
=============================================================================
