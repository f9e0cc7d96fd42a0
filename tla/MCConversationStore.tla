------------------------ MODULE MCConversationStore ------------------------
(***************************************************************************)
(* Instances of ConversationStore for TLC.                                 *)
(***************************************************************************)
EXTENDS ConversationStore, TLC

CONSTANTS hello, answer   \* the texts of messages

MCContent == {hello, answer, NoContent}

User(text) == [role |-> "user", content |-> text]
Assistant(text) == [role |-> "assistant", content |-> text]

\* A first turn; a third turn of a longer chat, past a window of two
\* messages; a list with what sync drops.
MCTranscript ==
    {<<User(hello)>>,
     <<User(hello), Assistant(answer), User(hello)>>,
     <<[role |-> "system", content |-> hello], User(hello), User(NoContent)>>}

\* Cleaned is the list comprehension of sync, in the words of Sequences.
ASSUME CleanedIsSelectSeq ==
    \A n \in 0..3 :
        \A t \in [1..n -> [role : {"user", "system"}, content : MCContent]] :
            Cleaned(t) = SelectSeq(t, Kept)

Symmetry == Permutations(Session)
=============================================================================
