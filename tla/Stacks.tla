------------------------------- MODULE Stacks -------------------------------
(***************************************************************************)
(* The stacks of the pilot and what each takes from another, as            *)
(* lib/application-stage.ts composes them.                                 *)
(*                                                                         *)
(* The scripts name the stacks to cdk in an order, but cdk goes by the     *)
(* dependencies alone: it deploys a stack after those it uses, destroys it *)
(* after those that use it, and takes independent ones in an order of its  *)
(* own.                                                                    *)
(***************************************************************************)

Stack == {"Network", "Auth", "Container", "Eks", "Amplify"}

\* <<u, s>>: u is made from outputs of s.
Uses == {<<"Eks", "Network">>, <<"Eks", "Auth">>, <<"Eks", "Container">>,
         <<"Amplify", "Auth">>, <<"Amplify", "Eks">>}
=============================================================================
