-------------------------- MODULE MCCognitoSession --------------------------
(***************************************************************************)
(* Instances of CognitoSession for TLC: submissions are interchangeable.   *)
(***************************************************************************)
EXTENDS CognitoSession, TLC

MCSymmetry == Permutations(Submitting)
=============================================================================
