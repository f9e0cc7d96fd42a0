---------------------------- MODULE MCDeployment ----------------------------
(* Two shells, which are alike. *)
EXTENDS Deployment, TLC

MCSymmetry == Permutations(Deployer)
=============================================================================
