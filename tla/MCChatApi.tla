----------------------------- MODULE MCChatApi -----------------------------
(***************************************************************************)
(* Instances of ChatApi for TLC.                                           *)
(***************************************************************************)
EXTENDS ChatApi

CONSTANTS a, b, call

MCRequest == {a, b, call}
MCStreaming == {a, b}
MCTwoRequests == {a, call}
MCOneStream == {a}
=============================================================================
