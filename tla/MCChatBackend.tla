--------------------------- MODULE MCChatBackend ---------------------------
(***************************************************************************)
(* Instances of ChatBackend for TLC.                                       *)
(***************************************************************************)
EXTENDS ChatBackend

CONSTANTS
    ask, again, other,    \* two turns of a session and one of another
    mine, theirs,         \* the sessions
    question, doubt,      \* texts of users
    first, second, third  \* texts of vLLM

User(text) == [role |-> "user", content |-> text]
Assistant(text) == [role |-> "assistant", content |-> text]

MCRequest == {ask, again, other}
MCStreaming == {ask}
MCSession == {mine, theirs}
MCContent == {question, doubt, first, second, third, NoContent}
MCSessionOf == [r \in MCRequest |-> IF r = other THEN theirs ELSE mine]
MCTranscriptOf == [r \in MCRequest |->
    CASE r = ask   -> <<User(question)>>
      [] r = again -> <<User(question), Assistant(first), User(doubt)>>
      [] r = other -> <<User(doubt)>>]
MCReplyOf == [r \in MCRequest |->
    CASE r = ask -> first [] r = again -> second [] r = other -> third]
=============================================================================
