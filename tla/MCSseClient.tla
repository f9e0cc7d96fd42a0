---------------------------- MODULE MCSseClient ----------------------------
(***************************************************************************)
(* Instances of SseClient for TLC.                                         *)
(***************************************************************************)
EXTENDS SseClient

Token(i) == [event |-> "token", id |-> i]
Usage == [event |-> "usage", id |-> 0]
Done == [event |-> "done", id |-> 0]
Error == [event |-> "error", id |-> 0]

\* What SseContract allows, with up to two tokens.
MCTokens == {<<>>, <<Token(1)>>, <<Token(1), Token(2)>>}
MCBody == {t \o e : t \in MCTokens, e \in {<<Done>>, <<Usage, Done>>, <<Error>>}}
=============================================================================
