-------------------------- MODULE ChatClientProofs --------------------------
(***************************************************************************)
(* The chat of the client.  First its screen, for any number of            *)
(* submissions and new chats: spinner, stop button and cursors belong to   *)
(* open streams, and what is posted is a transcript in which the user and  *)
(* the assistant take turns.  Then what the answers of Admission mean, for *)
(* all limits and requests.  Last the stream that streamChatCompletion     *)
(* reads, for answers of any length in chunks of any size: the callbacks   *)
(* are those of its frames, wherever the chunks end.                       *)
(***************************************************************************)
EXTENDS ChatView, SseClient, SequenceTheorems, WellFoundedInduction, TLAPS

\* The user and the assistant take turns, and the assistant had the last one.
RoleAt(i) == IF i % 2 = 1 THEN "user" ELSE "assistant"
Alternating(posts) ==
    Len(posts) % 2 = 0 /\ \A i \in DOMAIN posts : posts[i].role = RoleAt(i)

\* Transcript and captured transcripts are made of whole turns.
Paired == Alternating(messages) /\ \A s \in Submission : Alternating(captured[s])

\* Only answers have a cursor.
CursorsAreAnswers ==
    \A i \in DOMAIN messages : messages[i].streaming => messages[i].role = "assistant"

\* Every call of newChat that waits will make a new chat.
ChatsBounded == chat + clearing <= MaxChats

IInv ==
    /\ TypeOK
    /\ ChatsBounded
    /\ SpinnerMeansWork
    /\ StopHasTarget
    /\ CursorMeansWork
    /\ CursorsAreAnswers
    /\ Paired
    /\ HistoryAlternates

-----------------------------------------------------------------------------
\* A function on the indices of a sequence is a sequence of the same length.
LEMMA FunctionOnIndices ==
    ASSUME NEW S, NEW m \in Seq(S), NEW f \in [DOMAIN m -> S]
    PROVE  f \in Seq(S) /\ Len(f) = Len(m) /\ DOMAIN f = DOMAIN m
<1>1. DOMAIN m = 1..Len(m) /\ Len(m) \in Nat
  BY LenProperties
<1>2. f \in Seq(S)
  BY <1>1, SeqDef
<1>3. Len(f) \in Nat /\ DOMAIN f = 1..Len(f)
  BY <1>2, LenProperties
<1> QED BY <1>1, <1>2, <1>3

\* A whole turn more, and the transcript still alternates; a message of the
\* user more, and it alternates and ends with the user.
LEMMA Parity ==
    ASSUME NEW n \in Nat, n % 2 = 0
    PROVE  /\ (n + 1) % 2 = 1 /\ (n + 2) % 2 = 0
           /\ RoleAt(n + 1) = "user" /\ RoleAt(n + 2) = "assistant"
<1>1. (n + 1) % 2 = 1 /\ (n + 2) % 2 = 0
  OBVIOUS
<1> QED BY <1>1 DEF RoleAt

\* A bubble on the screen is of a submission.
LEMMA BubblesHaveTurns ==
    ASSUME TypeOK, NEW i \in DOMAIN messages
    PROVE  messages[i] \in Bubble /\ messages[i].turn \in Submission
<1>1. messages[i] \in Bubble
  BY DEF TypeOK
<1> QED BY <1>1 DEF Bubble

\* A submission that is not open before and after a move opens and ends none.
LEMMA NoneOpens ==
    ASSUME TypeOK, NEW s \in Submission, NEW label \in {"token", "over"},
           phase[s] # "open", Goto(s, label)
    PROVE  /\ phase' \in [Submission -> Phase]
           /\ \A q \in Submission : Open(q)' <=> Open(q)
  BY DEF TypeOK, Open, Goto, Phase

\* Aborting, as a click or as the component leaves, touches the controllers.
LEMMA AbortType ==
    ASSUME TypeOK
    PROVE  /\ AbortCurrent => aborted' \in [Submission -> BOOLEAN]
           /\ Unmount => mounted' \in BOOLEAN /\ aborted' \in [Submission -> BOOLEAN]
<1>1. AbortCurrent => aborted' \in [Submission -> BOOLEAN]
  BY DEF TypeOK, AbortCurrent
<1>2. mounted' = FALSE => mounted' \in BOOLEAN
  OBVIOUS
<1> QED BY <1>1, <1>2 DEF Unmount, TypeOK

\* An update of one field of the bubbles leaves roles and turns as they were.
LEMMA FinalizeOK ==
    ASSUME TypeOK, NEW s \in Submission, FinalizeAssistant(s)
    PROVE  /\ messages' \in Seq(Bubble)
           /\ Len(messages') = Len(messages) /\ DOMAIN messages' = DOMAIN messages
           /\ \A i \in DOMAIN messages :
                /\ messages'[i].role = messages[i].role
                /\ messages'[i].turn = messages[i].turn
                /\ messages'[i].streaming =>
                      messages[i].streaming /\ ~OwnBubble(s, messages[i])
<1>1. messages \in Seq(Bubble)
  BY DEF TypeOK
<1>2. ASSUME NEW i \in DOMAIN messages
      PROVE  /\ messages'[i] \in Bubble
             /\ messages'[i].role = messages[i].role
             /\ messages'[i].turn = messages[i].turn
             /\ messages'[i].streaming =>
                   messages[i].streaming /\ ~OwnBubble(s, messages[i])
  <2>1. messages[i] \in Bubble
    BY <1>1
  <2>2. CASE OwnBubble(s, messages[i])
    <3>1. messages'[i] = [messages[i] EXCEPT !.streaming = FALSE]
      BY <2>2 DEF FinalizeAssistant
    <3> QED BY <2>1, <3>1 DEF Bubble
  <2>3. CASE ~OwnBubble(s, messages[i])
    <3>1. messages'[i] = messages[i]
      BY <2>3 DEF FinalizeAssistant
    <3> QED BY <2>1, <2>3, <3>1
  <2> QED BY <2>2, <2>3
<1>3. messages' \in [DOMAIN messages -> Bubble]
  BY <1>2 DEF FinalizeAssistant
<1> QED BY <1>1, <1>2, <1>3, FunctionOnIndices

\* The same for a token.
LEMMA AppendToAssistantOK ==
    ASSUME TypeOK, NEW s \in Submission, AppendToAssistant(s)
    PROVE  /\ messages' \in Seq(Bubble)
           /\ Len(messages') = Len(messages) /\ DOMAIN messages' = DOMAIN messages
           /\ \A i \in DOMAIN messages :
                /\ messages'[i].role = messages[i].role
                /\ messages'[i].turn = messages[i].turn
                /\ messages'[i].streaming => messages[i].streaming
<1>1. messages \in Seq(Bubble)
  BY DEF TypeOK
<1>2. ASSUME NEW i \in DOMAIN messages
      PROVE  /\ messages'[i] \in Bubble
             /\ messages'[i].role = messages[i].role
             /\ messages'[i].turn = messages[i].turn
             /\ messages'[i].streaming => messages[i].streaming
  <2>1. messages[i] \in Bubble
    BY <1>1
  <2>2. CASE OwnBubble(s, messages[i])
    <3>1. messages'[i] = [messages[i] EXCEPT !.filled = TRUE]
      BY <2>2 DEF AppendToAssistant
    <3> QED BY <2>1, <3>1 DEF Bubble
  <2>3. CASE ~OwnBubble(s, messages[i])
    <3>1. messages'[i] = messages[i]
      BY <2>3 DEF AppendToAssistant
    <3> QED BY <2>1, <2>3, <3>1
  <2> QED BY <2>2, <2>3
<1>3. messages' \in [DOMAIN messages -> Bubble]
  BY <1>2 DEF AppendToAssistant
<1> QED BY <1>1, <1>2, <1>3, FunctionOnIndices

-----------------------------------------------------------------------------
\* Aborting, unmounting, counting chats and showing errors leave transcript,
\* composer and submissions alone.
LEMMA AsideOK ==
    ASSUME IInv,
           UNCHANGED <<messages, isStreaming, abortRef, phase, captured, history>>,
           mounted' \in BOOLEAN, error' \in BOOLEAN,
           aborted' \in [Submission -> BOOLEAN],
           chat' \in 0..MaxChats, clearing' \in 0..MaxChats, ChatsBounded'
    PROVE  IInv'
<1>1. TypeOK'
  BY DEF IInv, TypeOK
<1>2. /\ SpinnerMeansWork' /\ StopHasTarget' /\ CursorMeansWork'
      /\ CursorsAreAnswers' /\ Paired' /\ HistoryAlternates'
  BY DEF IInv, SpinnerMeansWork, StopHasTarget, CursorMeansWork, CursorsAreAnswers,
         Paired, Alternating, HistoryAlternates, Open
<1> QED BY <1>1, <1>2 DEF IInv

\* The end of a stream: its cursor, the spinner and the stop button go with it.
LEMMA SettleOK ==
    ASSUME IInv, NEW s \in Submission, Open(s), Settle(s),
           NEW label \in {"failed", "login", "over"}, Goto(s, label),
           UNCHANGED <<chat, clearing, captured, history>>,
           mounted' \in BOOLEAN, error' \in BOOLEAN, aborted' \in [Submission -> BOOLEAN]
    PROVE  IInv'
<1>1. /\ messages' \in Seq(Bubble)
      /\ Len(messages') = Len(messages) /\ DOMAIN messages' = DOMAIN messages
      /\ \A i \in DOMAIN messages :
           /\ messages'[i].role = messages[i].role
           /\ messages'[i].turn = messages[i].turn
           /\ messages'[i].streaming =>
                 messages[i].streaming /\ ~OwnBubble(s, messages[i])
  BY FinalizeOK DEF Settle, IInv
<1>2. /\ phase' \in [Submission -> Phase]
      /\ \A q \in Submission : q # s => (Open(q)' <=> Open(q))
      /\ isStreaming' = FALSE /\ isStreaming' \in BOOLEAN /\ abortRef' = None
  BY DEF Settle, IInv, TypeOK, Open, Goto, Phase
<1>3. TypeOK'
  BY <1>1, <1>2 DEF IInv, TypeOK
<1>4. SpinnerMeansWork' /\ StopHasTarget' /\ ChatsBounded'
  BY <1>2 DEF IInv, SpinnerMeansWork, StopHasTarget, ChatsBounded
<1>5. CursorsAreAnswers'
  BY <1>1 DEF IInv, CursorsAreAnswers
<1>6. CursorMeansWork'
  <2> SUFFICES ASSUME NEW i \in DOMAIN messages, messages'[i].streaming
               PROVE  phase'[messages'[i].turn] = "open"
    BY <1>1 DEF CursorMeansWork, Open
  <2>1. /\ messages[i].streaming /\ ~OwnBubble(s, messages[i])
        /\ messages'[i].turn = messages[i].turn
    BY <1>1
  <2>2. messages[i].role = "assistant" /\ Open(messages[i].turn)
    BY <2>1 DEF IInv, CursorsAreAnswers, CursorMeansWork
  <2>3. messages[i].turn # s
    BY <2>1, <2>2 DEF OwnBubble
  <2>4. messages[i].turn \in Submission
    BY BubblesHaveTurns DEF IInv
  <2> QED BY <1>2, <2>1, <2>2, <2>3, <2>4 DEF Open
<1>7. Paired'
  BY <1>1 DEF IInv, Paired, Alternating
<1>8. HistoryAlternates'
  BY DEF IInv, HistoryAlternates
<1> QED BY <1>3, <1>4, <1>5, <1>6, <1>7, <1>8 DEF IInv

\* A submission that begins captures whole turns.
LEMMA SubmitOK ==
    ASSUME IInv, NEW s \in Submission, Submit(s)
    PROVE  IInv'
<1>1. /\ phase' \in [Submission -> Phase]
      /\ \A q \in Submission : Open(q)' <=> Open(q)
  BY NoneOpens DEF Submit, IInv, Goto
<1>2. captured' = [captured EXCEPT ![s] = messages]
  BY DEF Submit
<1>3. error' = FALSE /\ error' \in BOOLEAN
  BY DEF Submit
<1>4. UNCHANGED <<mounted, messages, isStreaming, chat, clearing, abortRef, history, aborted>>
  BY DEF Submit
<1>5. TypeOK'
  BY <1>1, <1>2, <1>3, <1>4 DEF IInv, TypeOK
<1>6. \A q \in Submission : captured'[q] = IF q = s THEN messages ELSE captured[q]
  BY <1>2 DEF IInv, TypeOK
<1>7. Paired'
  BY <1>4, <1>6 DEF IInv, Paired, Alternating
<1>8. SpinnerMeansWork' /\ StopHasTarget'
  BY <1>1, <1>4 DEF IInv, TypeOK, SpinnerMeansWork, StopHasTarget
<1>9. CursorMeansWork' /\ CursorsAreAnswers'
  BY <1>1, <1>4, BubblesHaveTurns DEF IInv, CursorMeansWork, CursorsAreAnswers
<1>10. ChatsBounded' /\ HistoryAlternates'
  BY <1>4 DEF IInv, ChatsBounded, HistoryAlternates
<1> QED BY <1>5, <1>7, <1>8, <1>9, <1>10 DEF IInv

\* A submission that gets no token takes the screen away, and so does the way to
\* the login page.
LEMMA LeaveOK ==
    ASSUME IInv, NEW s \in Submission, TokenDenied(s) \/ Redirect(s)
    PROVE  IInv'
<1>1. /\ phase' \in [Submission -> Phase]
      /\ \A q \in Submission : Open(q)' <=> Open(q)
  BY NoneOpens DEF TokenDenied, Redirect, IInv, Goto
<1>2. mounted' \in BOOLEAN /\ aborted' \in [Submission -> BOOLEAN]
  BY AbortType DEF TokenDenied, Redirect, IInv
<1>3. UNCHANGED <<messages, isStreaming, error, chat, clearing, abortRef, captured, history>>
  BY DEF TokenDenied, Redirect
<1>4. TypeOK'
  BY <1>1, <1>2, <1>3 DEF IInv, TypeOK
<1>5. SpinnerMeansWork' /\ StopHasTarget'
  BY <1>1, <1>3 DEF IInv, TypeOK, SpinnerMeansWork, StopHasTarget
<1>6. CursorMeansWork' /\ CursorsAreAnswers'
  BY <1>1, <1>3, BubblesHaveTurns DEF IInv, CursorMeansWork, CursorsAreAnswers
<1>7. ChatsBounded' /\ HistoryAlternates' /\ Paired'
  BY <1>3 DEF IInv, ChatsBounded, HistoryAlternates, Paired, Alternating
<1> QED BY <1>4, <1>5, <1>6, <1>7 DEF IInv

\* What submit posts and shows: a message of the user after the turns it
\* captured, and a whole turn after those that are on the screen.
LEMMA SendOK ==
    ASSUME IInv, NEW s \in Submission, Send(s)
    PROVE  IInv'
<1> DEFINE userMsg == [role |-> "user", turn |-> s, filled |-> TRUE, streaming |-> FALSE]
           assistantMsg == [role |-> "assistant", turn |-> s, filled |-> FALSE,
                            streaming |-> TRUE]
           turn == <<userMsg, assistantMsg>>
<1>1. /\ history' = [history EXCEPT ![s] = Append(captured[s], userMsg)]
      /\ messages' = messages \o turn
      /\ phase' = [phase EXCEPT ![s] = "open"]
      /\ isStreaming' = TRUE /\ isStreaming' \in BOOLEAN
      /\ abortRef' = s
      /\ UNCHANGED <<mounted, error, chat, clearing, captured, aborted>>
  BY DEF Send
<1>2. /\ messages \in Seq(Bubble) /\ captured[s] \in Seq(Bubble)
      /\ history \in [Submission -> Seq(Bubble)]
      /\ phase \in [Submission -> Phase]
  BY DEF IInv, TypeOK
<1>3. /\ userMsg \in Bubble /\ assistantMsg \in Bubble
      /\ userMsg.role = "user" /\ userMsg.turn = s /\ ~userMsg.streaming
      /\ assistantMsg.role = "assistant" /\ assistantMsg.turn = s
  BY DEF Bubble
<1> HIDE DEF userMsg, assistantMsg
<1>4. /\ turn \in Seq(Bubble) /\ Len(turn) = 2
      /\ turn[1] = userMsg /\ turn[2] = assistantMsg
  BY <1>3
<1> HIDE DEF turn
<1>5. /\ messages' \in Seq(Bubble)
      /\ Len(messages') = Len(messages) + 2
      /\ \A i \in 1..(Len(messages) + 2) :
            messages'[i] = IF i <= Len(messages) THEN messages[i]
                                                 ELSE turn[i - Len(messages)]
  <2>1. /\ messages \o turn \in Seq(Bubble)
        /\ Len(messages \o turn) = Len(messages) + Len(turn)
        /\ \A i \in 1..(Len(messages) + Len(turn)) :
              (messages \o turn)[i] = IF i <= Len(messages) THEN messages[i]
                                                   ELSE turn[i - Len(messages)]
    BY <1>2, <1>4, ConcatProperties
  <2> QED BY <1>1, <1>4, <2>1
<1>6. /\ Len(messages) \in Nat /\ DOMAIN messages = 1..Len(messages)
      /\ DOMAIN messages' = 1..(Len(messages) + 2)
  BY <1>2, <1>5, LenProperties
<1>7. /\ \A i \in DOMAIN messages : messages'[i] = messages[i]
      /\ messages'[Len(messages) + 1] = userMsg
      /\ messages'[Len(messages) + 2] = assistantMsg
      /\ \A i \in DOMAIN messages' : \/ i \in DOMAIN messages
                                     \/ i = Len(messages) + 1
                                     \/ i = Len(messages) + 2
  BY <1>4, <1>5, <1>6
<1>8. phase' \in [Submission -> Phase]
      /\ Open(s)' /\ \A q \in Submission : Open(q) => Open(q)'
  BY <1>1, <1>2 DEF Open, Phase
<1>9. /\ Append(captured[s], userMsg) \in Seq(Bubble)
      /\ Len(captured[s]) \in Nat /\ DOMAIN captured[s] = 1..Len(captured[s])
      /\ Len(Append(captured[s], userMsg)) = Len(captured[s]) + 1
      /\ \A i \in DOMAIN captured[s] : Append(captured[s], userMsg)[i] = captured[s][i]
      /\ Append(captured[s], userMsg)[Len(captured[s]) + 1] = userMsg
      /\ DOMAIN Append(captured[s], userMsg) = 1..(Len(captured[s]) + 1)
  BY <1>2, <1>3, AppendProperties, LenProperties
<1>10. TypeOK'
  <2>1. history' \in [Submission -> Seq(Bubble)]
    BY <1>1, <1>2, <1>9
  <2> QED BY <1>1, <1>5, <1>8, <2>1 DEF IInv, TypeOK
<1>11. SpinnerMeansWork' /\ StopHasTarget' /\ ChatsBounded'
  BY <1>1, <1>8 DEF IInv, SpinnerMeansWork, StopHasTarget, ChatsBounded
<1>12. CursorMeansWork'
  <2> SUFFICES ASSUME NEW i \in DOMAIN messages', messages'[i].streaming
               PROVE  phase'[messages'[i].turn] = "open"
    BY DEF CursorMeansWork, Open
  <2>1. CASE i \in DOMAIN messages
    <3>1. messages[i].turn \in Submission
      BY <2>1, BubblesHaveTurns DEF IInv
    <3>2. messages'[i] = messages[i] /\ Open(messages[i].turn)
      BY <1>7, <2>1 DEF IInv, CursorMeansWork
    <3> QED BY <1>8, <3>1, <3>2 DEF Open
  <2>2. CASE i \notin DOMAIN messages
    <3>1. messages'[i].turn = s
      BY <1>3, <1>7, <2>2
    <3> QED BY <1>8, <3>1 DEF Open
  <2> QED BY <2>1, <2>2
<1>13. CursorsAreAnswers'
  <2> SUFFICES ASSUME NEW i \in DOMAIN messages', messages'[i].streaming
               PROVE  messages'[i].role = "assistant"
    BY DEF CursorsAreAnswers
  <2>1. CASE i \in DOMAIN messages
    BY <1>7, <2>1 DEF IInv, CursorsAreAnswers
  <2>2. CASE i = Len(messages) + 1
    BY <1>3, <1>7, <2>2
  <2>3. CASE i = Len(messages) + 2
    BY <1>3, <1>7, <2>3
  <2> QED BY <1>7, <2>1, <2>2, <2>3
<1>14. Paired'
  <2>1. Alternating(messages) /\ \A q \in Submission : Alternating(captured[q])
    BY DEF IInv, Paired
  <2>2. Len(messages) % 2 = 0
    BY <2>1 DEF Alternating
  <2>3. /\ (Len(messages) + 2) % 2 = 0
        /\ RoleAt(Len(messages) + 1) = "user" /\ RoleAt(Len(messages) + 2) = "assistant"
    BY <1>6, <2>2, Parity
  <2>4. ASSUME NEW i \in DOMAIN messages' PROVE messages'[i].role = RoleAt(i)
    BY <1>3, <1>7, <2>1, <2>3 DEF Alternating
  <2>5. Alternating(messages')
    BY <1>5, <2>3, <2>4 DEF Alternating
  <2> QED BY <1>1, <2>1, <2>5 DEF Paired
<1>15. HistoryAlternates'
  <2> SUFFICES ASSUME NEW q \in Submission, NEW i \in DOMAIN history'[q]
               PROVE  /\ history'[q][i].role = RoleAt(i)
                      /\ Len(history'[q]) % 2 = 1
    BY DEF HistoryAlternates, RoleAt
  <2>1. CASE q # s
    <3>1. history'[q] = history[q]
      BY <1>1, <1>2, <2>1
    <3>2. i \in DOMAIN history[q]
      BY <3>1
    <3>3. history[q][i].role = RoleAt(i) /\ Len(history[q]) % 2 = 1
      BY <3>2 DEF IInv, HistoryAlternates, RoleAt
    <3> QED BY <3>1, <3>3
  <2>2. CASE q = s
    <3>1. history'[q] = Append(captured[s], userMsg)
      BY <1>1, <1>2, <2>2
    <3>2. Len(captured[s]) % 2 = 0 /\ \A j \in DOMAIN captured[s] : captured[s][j].role = RoleAt(j)
      BY DEF IInv, Paired, Alternating
    <3>3. (Len(captured[s]) + 1) % 2 = 1 /\ RoleAt(Len(captured[s]) + 1) = "user"
      BY <1>9, <3>2, Parity
    <3>4. CASE i \in DOMAIN captured[s]
      BY <1>9, <3>1, <3>2, <3>3, <3>4
    <3>5. CASE i = Len(captured[s]) + 1
      BY <1>3, <1>9, <3>1, <3>3, <3>5
    <3>6. i \in 1..(Len(captured[s]) + 1)
      BY <1>9, <3>1
    <3>7. i \in 1..Len(captured[s]) \/ i = Len(captured[s]) + 1
      BY <1>9, <3>6
    <3> QED BY <1>9, <3>4, <3>5, <3>7
  <2> QED BY <2>1, <2>2
<1> QED BY <1>10, <1>11, <1>12, <1>13, <1>14, <1>15 DEF IInv

\* A token of an open stream.
LEMMA TokenOK ==
    ASSUME IInv, NEW s \in Submission, Token(s)
    PROVE  IInv'
<1>1. /\ messages' \in Seq(Bubble)
      /\ Len(messages') = Len(messages) /\ DOMAIN messages' = DOMAIN messages
      /\ \A i \in DOMAIN messages :
           /\ messages'[i].role = messages[i].role
           /\ messages'[i].turn = messages[i].turn
           /\ messages'[i].streaming => messages[i].streaming
  BY AppendToAssistantOK DEF Token, IInv
<1>2. /\ UNCHANGED <<mounted, isStreaming, error, chat, clearing, abortRef>>
      /\ UNCHANGED <<phase, captured, history, aborted>>
  BY DEF Token, submits
<1>3. TypeOK'
  BY <1>1, <1>2 DEF IInv, TypeOK
<1>4. SpinnerMeansWork' /\ StopHasTarget' /\ ChatsBounded' /\ HistoryAlternates'
  BY <1>2 DEF IInv, SpinnerMeansWork, StopHasTarget, ChatsBounded, HistoryAlternates, Open
<1>5. CursorMeansWork' /\ CursorsAreAnswers'
  BY <1>1, <1>2 DEF IInv, CursorMeansWork, CursorsAreAnswers, Open
<1>6. Paired'
  BY <1>1, <1>2 DEF IInv, Paired, Alternating
<1> QED BY <1>3, <1>4, <1>5, <1>6 DEF IInv

\* An empty transcript.
LEMMA ClearOK ==
    ASSUME IInv, Clear
    PROVE  IInv'
<1>1. messages' = <<>> /\ error' = FALSE /\ error' \in BOOLEAN
  BY DEF Clear
<1>2. mounted' \in BOOLEAN /\ aborted' \in [Submission -> BOOLEAN]
  BY AbortType DEF Clear, IInv, TypeOK
<1>3. UNCHANGED <<isStreaming, abortRef, phase, captured, history>>
  BY DEF Clear
<1>4. chat' \in 0..MaxChats /\ clearing' \in 0..MaxChats /\ ChatsBounded'
  BY BoundsAssumption DEF Clear, IInv, TypeOK, ChatsBounded
<1>5. TypeOK'
  BY <1>1, <1>2, <1>3, <1>4 DEF IInv, TypeOK
<1>6. SpinnerMeansWork' /\ StopHasTarget' /\ HistoryAlternates'
  BY <1>3 DEF IInv, SpinnerMeansWork, StopHasTarget, HistoryAlternates, Open
<1>7. CursorMeansWork' /\ CursorsAreAnswers'
  BY <1>1 DEF CursorMeansWork, CursorsAreAnswers
<1>8. Paired'
  <2>1. Alternating(<<>>)
    BY DEF Alternating
  <2> QED BY <1>1, <1>3, <2>1 DEF IInv, Paired
<1> QED BY <1>4, <1>5, <1>6, <1>7, <1>8 DEF IInv

\* A new chat begins, unless all that the bound allows have.
LEMMA NewChatOK ==
    ASSUME IInv, NewChat
    PROVE  IInv'
<1>1. clearing' \in 0..MaxChats /\ chat' \in 0..MaxChats /\ ChatsBounded'
  BY BoundsAssumption DEF NewChat, IInv, TypeOK, ChatsBounded
<1>2. mounted' \in BOOLEAN /\ error' \in BOOLEAN /\ aborted' \in [Submission -> BOOLEAN]
  BY AbortType DEF NewChat, IInv, TypeOK
<1> QED BY <1>1, <1>2, AsideOK DEF NewChat

\* The stop button, and the way out.
LEMMA StopAndSignOutOK ==
    ASSUME IInv, Stop \/ SignOut
    PROVE  IInv'
<1>1. /\ UNCHANGED <<messages, isStreaming, error, chat, clearing, abortRef, phase,
                     captured, history>>
      /\ (AbortCurrent /\ mounted' = mounted) \/ Unmount
  BY DEF Stop, SignOut, screen
<1>2. mounted' \in BOOLEAN /\ error' \in BOOLEAN /\ aborted' \in [Submission -> BOOLEAN]
  BY <1>1, AbortType DEF IInv, TypeOK
<1>3. chat' \in 0..MaxChats /\ clearing' \in 0..MaxChats /\ ChatsBounded'
  BY <1>1 DEF IInv, TypeOK, ChatsBounded
<1> QED BY <1>1, <1>2, <1>3, AsideOK

\* Every step of a submission keeps the invariant.
LEMMA SubmissionStepOK ==
    ASSUME IInv, NEW s \in Submission, SubmissionStep(s)
    PROVE  IInv'
<1>1. CASE Submit(s) \/ TokenDenied(s) \/ Redirect(s) \/ Send(s) \/ Token(s)
  BY <1>1, SubmitOK, LeaveOK, SendOK, TokenOK
<1>2. mounted \in BOOLEAN /\ error \in BOOLEAN /\ aborted \in [Submission -> BOOLEAN]
  BY DEF IInv, TypeOK
<1>3. CASE Done(s) \/ AbortSeen(s)
  BY <1>2, <1>3, SettleOK DEF Done, AbortSeen, Open
<1>4. CASE Fail(s)
  <2>1. error' = TRUE /\ error' \in BOOLEAN
    BY <1>4 DEF Fail
  <2> QED BY <1>2, <1>4, <2>1, SettleOK DEF Fail, Open
<1>5. CASE Unauthorized(s)
  BY <1>2, <1>5, SettleOK DEF Unauthorized, Open
<1> QED BY <1>1, <1>3, <1>4, <1>5 DEF SubmissionStep

\* The invariant holds on an empty screen.
LEMMA InitIInv == Init => IInv
<1> SUFFICES ASSUME Init PROVE IInv
  OBVIOUS
<1>1. <<>> \in Seq(Bubble) /\ Len(<<>>) = 0 /\ DOMAIN <<>> = {}
  OBVIOUS
<1>2. 0 \in 0..MaxChats /\ 0 + 0 <= MaxChats
  BY BoundsAssumption
<1>3. mounted \in BOOLEAN /\ isStreaming \in BOOLEAN /\ error \in BOOLEAN
  BY DEF Init
<1>4. TypeOK
  BY <1>1, <1>2, <1>3 DEF Init, TypeOK, Phase
<1>5. SpinnerMeansWork /\ StopHasTarget /\ ChatsBounded
  BY <1>2 DEF Init, SpinnerMeansWork, StopHasTarget, ChatsBounded
<1>6. CursorMeansWork /\ CursorsAreAnswers /\ HistoryAlternates /\ Paired
  BY <1>1 DEF Init, CursorMeansWork, CursorsAreAnswers, HistoryAlternates, Paired, Alternating
<1> QED BY <1>4, <1>5, <1>6 DEF IInv

\* Every step keeps it.
LEMMA NextIInv == IInv /\ [Next]_vars => IInv'
<1> SUFFICES ASSUME IInv, [Next]_vars PROVE IInv'
  OBVIOUS
<1>1. CASE UNCHANGED vars
  <2>1. UNCHANGED <<mounted, messages, isStreaming, error, chat, clearing, abortRef,
                    phase, captured, history, aborted>>
    BY <1>1 DEF vars, screen, submits
  <2> QED BY <2>1, AsideOK DEF IInv, TypeOK, ChatsBounded
<1> QED BY <1>1, SubmissionStepOK, StopAndSignOutOK, NewChatOK, ClearOK DEF Next

\* The invariant holds in every reachable state.
LEMMA Invariance == Spec => []IInv
  BY InitIInv, NextIInv, PTL DEF Spec

-----------------------------------------------------------------------------
\* The state of the screen keeps its type.
THEOREM TypeCorrect == Spec => []TypeOK
  BY Invariance, PTL DEF IInv

\* The stop button shows only while an answer is awaited, however many
\* submissions overlap.
THEOREM SpinnerIsHonest == Spec => []SpinnerMeansWork
  BY Invariance, PTL DEF IInv

\* What the stop button aborts is a stream that is still open.
THEOREM StopAbortsAnOpenStream == Spec => []StopHasTarget
  BY Invariance, PTL DEF IInv

\* A cursor blinks only in an answer that is still awaited.
THEOREM CursorsEndWithStreams == Spec => []CursorMeansWork
  BY Invariance, PTL DEF IInv

\* The user and the assistant take turns in everything that is posted.
THEOREM PostsAlternate == Spec => []HistoryAlternates
  BY Invariance, PTL DEF IInv

\* The API never refuses a post of this screen for its roles or its order: the
\* screen posts roles the API allows, and the user's turn last.
THEOREM PostsHaveAcceptableRoles ==
    Spec => [](\A s \in Submission : history[s] # <<>> =>
                  /\ LastIsUser(history[s])
                  /\ \A i \in DOMAIN history[s] : RoleOK(history[s][i]))
<1>1. ASSUME IInv, NEW s \in Submission, history[s] # <<>>
      PROVE  /\ LastIsUser(history[s])
             /\ \A i \in DOMAIN history[s] : RoleOK(history[s][i])
  <2>1. history[s] \in Seq(Bubble)
    BY <1>1 DEF IInv, TypeOK
  <2>2. /\ Len(history[s]) \in DOMAIN history[s]
        /\ \A i \in DOMAIN history[s] : history[s][i] \in Bubble
    BY <1>1, <2>1
  <2>3. /\ Len(history[s]) % 2 = 1
        /\ history[s][Len(history[s])].role = "user"
    BY <1>1, <2>2 DEF IInv, HistoryAlternates
  <2> QED BY <2>2, <2>3 DEF LastIsUser, RoleOK, Bubble
<1>2. IInv => \A s \in Submission : history[s] # <<>> =>
                  /\ LastIsUser(history[s])
                  /\ \A i \in DOMAIN history[s] : RoleOK(history[s][i])
  BY <1>1
<1> QED BY <1>2, Invariance, PTL

-----------------------------------------------------------------------------
(* What the answers of Admission mean, for all limits and requests.        *)

\* The checks that a request fails, and the one that answers it.
Failing(req) == {i \in 1..6 : Fails(i, req)}
First(req) == CHOOSE i \in Failing(req) : \A j \in Failing(req) : i <= j

\* If any check fails, there is a first one.
LEMMA FirstIsLeast ==
    ASSUME NEW req, Failing(req) # {}
    PROVE  First(req) \in Failing(req) /\ \A j \in Failing(req) : First(req) <= j
<1> DEFINE F == Failing(req)
<1>1. F \subseteq 1..6
  BY DEF Failing
<1> HIDE DEF F
<1>2. F # {} => \E i \in F : \A j \in F : i <= j
  <2>1. CASE 1 \in F  BY <1>1, <2>1
  <2>2. CASE 1 \notin F /\ 2 \in F  BY <1>1, <2>2
  <2>3. CASE {1, 2} \cap F = {} /\ 3 \in F  BY <1>1, <2>3
  <2>4. CASE {1, 2, 3} \cap F = {} /\ 4 \in F  BY <1>1, <2>4
  <2>5. CASE {1, 2, 3, 4} \cap F = {} /\ 5 \in F  BY <1>1, <2>5
  <2>6. CASE {1, 2, 3, 4, 5} \cap F = {}
    <3>1. F \subseteq {6}
      BY <1>1, <2>6
    <3>2. CASE F = {}  BY <3>2
    <3>3. CASE F = {6}  BY <3>3
    <3> QED BY <3>1, <3>2, <3>3
  <2> QED BY <2>1, <2>2, <2>3, <2>4, <2>5, <2>6
<1> QED BY <1>2 DEF F, First

\* What a request that fails a check is answered.
LEMMA StatusOfFirst ==
    ASSUME NEW req, Failing(req) # {}
    PROVE  Status(req) = Refusal[First(req)] /\ First(req) \in 1..6
<1>1. First(req) \in 1..6
  BY FirstIsLeast DEF Failing
<1> QED BY <1>1 DEF Status, Failing, First

\* The route runs only for a caller with a good token (auth.py:123-151), on a
\* transcript that has a turn to answer and no message that is empty, too long or
\* of a role of the server's (models.py:29-80).
THEOREM AdmittedIsWellFormed ==
    ASSUME NEW req \in Request, Status(req) = 200
    PROVE  /\ req.token = {}
           /\ req.parses /\ req.settings
           /\ LengthOK(req.messages) /\ LastIsUser(req.messages)
           /\ \A i \in DOMAIN req.messages :
                RoleOK(req.messages[i]) /\ ContentOK(req.messages[i])
<1>1. Failing(req) = {}
  <2>1. \A i \in 1..6 : Refusal[i] # 200
    BY DEF Refusal
  <2> QED BY <2>1, StatusOfFirst
<1>2. ~Fails(3, req) /\ ~Fails(4, req) /\ ~Fails(6, req)
  BY <1>1 DEF Failing
<1>3. req.parses /\ ~TokenRefused(req.token) /\ ValidMessages(req.messages) /\ req.settings
  BY <1>2 DEF Fails
<1> QED BY <1>3 DEF TokenRefused, ValidMessages

\* A body that is declared too large, or whose first chunk is, is refused as such
\* whatever else is wrong with the request (middleware.py:58-66, 203-216).
THEOREM LargeBodiesAreRefused ==
    ASSUME NEW req \in Request,
           DeclaredTooLarge(req.length) \/ FirstTooLarge(req.chunks)
    PROVE  Status(req) = 413
<1>1. 1 \in Failing(req) \/ 2 \in Failing(req)
  BY DEF Failing, Fails
<1>2. First(req) \in 1..6 /\ (First(req) <= 1 \/ First(req) <= 2)
  BY <1>1, FirstIsLeast, StatusOfFirst
<1>3. First(req) \in {1, 2}
  BY <1>2
<1>4. Refusal[1] = 413 /\ Refusal[2] = 413
  BY DEF Refusal
<1> QED BY <1>1, <1>3, <1>4, StatusOfFirst

-----------------------------------------------------------------------------
(* Induction over the natural numbers, as a fact about sets, and what it   *)
(* gives: a function that is defined by recursion over them is there, and  *)
(* it is what its steps come to.                                           *)

\* The order of the natural numbers is well founded.
LEMMA LessIsWellFounded ==
    \E R : IsWellFoundedOn(R, Nat) /\ \A x, y \in Nat : x < y => <<x, y>> \in R
<1>1. IsWellFoundedOn(OpToRel(<, Nat), Nat)
  BY NatLessThanWellFounded
<1>2. \A x, y \in Nat : x < y => <<x, y>> \in OpToRel(<, Nat)
  BY DEF OpToRel
<1> QED BY <1>1, <1>2, Zenon

\* A set of natural numbers that is not empty has a least member.
LEMMA LeastNatural ==
    ASSUME NEW T, T \subseteq Nat, T # {}
    PROVE  \E n \in T : \A m \in T : n <= m
<1>1. PICK R : IsWellFoundedOn(R, Nat) /\ \A x, y \in Nat : x < y => <<x, y>> \in R
  BY LessIsWellFounded
<1>2. IsWellFoundedOn(R, Nat)
  BY <1>1
<1>3. PICK n \in T : \A m \in T : ~ (<<m, n>> \in R)
  BY <1>2, WFMin, Zenon
<1>4. ASSUME NEW m \in T
      PROVE  n <= m
  <2>1. m \in Nat /\ n \in Nat
    OBVIOUS
  <2>2. ~ (m < n)
    BY <1>1, <1>3, <2>1, Zenon
  <2> QED BY <2>1, <2>2
<1> QED BY <1>4

\* A set that has 0, and with every number the next, has them all.
LEMMA Induction ==
    ASSUME NEW T, T \subseteq Nat, 0 \in T, \A n \in T : n + 1 \in T
    PROVE  T = Nat
<1> SUFFICES ASSUME Nat \ T # {}
             PROVE  FALSE
  OBVIOUS
<1>1. PICK n \in Nat \ T : \A m \in Nat \ T : n <= m
  BY LeastNatural
<1>2. n - 1 \in Nat
  BY <1>1
<1>3. n - 1 \in T
  BY <1>1, <1>2
<1> QED BY <1>1, <1>3

\* What comes of applying a function again and again.
Iterates(S, step, s) ==
    {f \in [Nat -> S] : f[0] = s /\ \A k \in Nat : f[k + 1] = step[f[k]]}

\* Any step can be iterated.
LEMMA Iteration ==
    ASSUME NEW S, NEW step \in [S -> S], NEW s \in S
    PROVE  Iterates(S, step, s) # {}
<1> DEFINE Starts(n) == {g \in [0..n -> S] :
                            g[0] = s /\ \A k \in 0..(n - 1) : g[k + 1] = step[g[k]]}
           There == {n \in Nat : Starts(n) # {}}
<1>1. 0 \in There
  <2> DEFINE g == [k \in 0..0 |-> s]
  <2>1. g \in Starts(0)
    OBVIOUS
  <2> QED BY <2>1
<1>2. ASSUME NEW n \in There
      PROVE  n + 1 \in There
  <2>1. PICK g \in Starts(n) : TRUE
    OBVIOUS
  <2> DEFINE h == [k \in 0..(n + 1) |-> IF k = n + 1 THEN step[g[n]] ELSE g[k]]
  <2>2. g[n] \in S /\ step[g[n]] \in S
    BY <2>1
  <2>3. h \in [0..(n + 1) -> S]
    BY <2>1, <2>2
  <2>4. h[0] = s /\ \A k \in 0..n : h[k + 1] = step[h[k]]
    BY <2>1
  <2>5. h \in Starts(n + 1)
    BY <2>3, <2>4
  <2> QED BY <2>5
<1>3. \A n \in Nat : Starts(n) # {}
  <2> HIDE DEF There
  <2>1. There \subseteq Nat
    BY DEF There
  <2>2. There = Nat
    BY <1>1, <1>2, <2>1, Induction
  <2> QED BY <2>2 DEF There
<1>4. ASSUME NEW n \in Nat, NEW m \in Nat, n <= m, NEW g \in Starts(n), NEW h \in Starts(m)
      PROVE  g[n] = h[n]
  <2> DEFINE Agree == {k \in Nat : k <= n => g[k] = h[k]}
  <2>1. 0 \in Agree
    OBVIOUS
  <2>2. ASSUME NEW k \in Agree
        PROVE  k + 1 \in Agree
    <3> SUFFICES ASSUME k + 1 <= n
                 PROVE  g[k + 1] = h[k + 1]
      OBVIOUS
    <3>1. g[k] = h[k] /\ k \in 0..(n - 1) /\ k \in 0..(m - 1)
      BY <1>4
    <3>2. g[k + 1] = step[g[k]] /\ h[k + 1] = step[h[k]]
      BY <3>1
    <3> QED BY <3>1, <3>2
  <2>3. Agree = Nat
    <3> HIDE DEF Agree
    <3>1. Agree \subseteq Nat
      BY DEF Agree
    <3> QED BY <2>1, <2>2, <3>1, Induction
  <2> QED BY <2>3
<1>5. PICK start \in [Nat -> UNION {Starts(n) : n \in Nat}] :
            \A n \in Nat : start[n] \in Starts(n)
  <2> DEFINE choice == [n \in Nat |-> CHOOSE g \in Starts(n) : TRUE]
  <2> HIDE DEF Starts
  <2>1. \A n \in Nat : (CHOOSE g \in Starts(n) : TRUE) \in Starts(n)
    BY <1>3
  <2>2. choice \in [Nat -> UNION {Starts(n) : n \in Nat}]
    BY <2>1
  <2>3. \A n \in Nat : choice[n] \in Starts(n)
    BY <2>1
  <2> QED BY <2>2, <2>3
<1> DEFINE f == [n \in Nat |-> start[n][n]]
<1>6. f \in [Nat -> S]
  BY <1>5
<1>7. f[0] = s
  BY <1>5
<1>8. ASSUME NEW k \in Nat
      PROVE  f[k + 1] = step[f[k]]
  <2>1. k + 1 \in Nat /\ k <= k + 1
    OBVIOUS
  <2>2. start[k] \in Starts(k) /\ start[k + 1] \in Starts(k + 1)
    <3> HIDE DEF Starts
    <3> QED BY <1>5, <2>1
  <2>3. start[k][k] = start[k + 1][k]
    <3> HIDE DEF Starts
    <3> QED BY <1>4, <2>1, <2>2
  <2>4. start[k + 1][k + 1] = step[start[k + 1][k]]
    BY <2>1, <2>2
  <2>5. f[k] = start[k][k] /\ f[k + 1] = start[k + 1][k + 1]
    BY <2>1
  <2> QED BY <2>3, <2>4, <2>5
<1> HIDE DEF f
<1>9. f \in Iterates(S, step, s)
  BY <1>6, <1>7, <1>8 DEF Iterates
<1> QED BY <1>9

-----------------------------------------------------------------------------
(* The stream of SseClient.                                                *)

\* What streamChatCompletion may call.
Callback == [call : {"onToken", "onUsage", "onDone", "onError"}, id : Nat]

\* What the inner loop works on.
LoopState == [buffer : Seq(Part), calls : Seq(Callback), finished : BOOLEAN]

\* A frame after which the server sends nothing.
Ends(frame) == frame.event \in {"done", "error"}

\* The text of a frame: three parts that name it, and its blank line.
LEMMA TextType ==
    ASSUME NEW frame \in Frame
    PROVE  /\ Text(frame) \in Seq(Part)
           /\ Len(Text(frame)) = FrameSize
           /\ \A i \in 1..FrameSize : Text(frame)[i] \in Part
           /\ \A i \in 1..3 : Text(frame)[i] # Newline /\ Text(frame)[i].frame = frame
           /\ Text(frame)[4] = Newline /\ Text(frame)[5] = Newline
<1>1. NoFrame \in Frame
  BY DEF NoFrame, Frame
<1>2. Newline \in Part
  BY <1>1 DEF Newline, Part
<1>3. \A p \in {"event", "head", "tail"} :
        [part |-> p, frame |-> frame] \in Part /\ [part |-> p, frame |-> frame] # Newline
  BY DEF Newline, Part
<1> QED BY <1>2, <1>3 DEF Text, FrameSize

\* The parts of the i-th frame on the wire.
LEMMA WireType ==
    ASSUME NEW frames \in Seq(Frame)
    PROVE  /\ Wire(frames) \in Seq(Part)
           /\ Len(Wire(frames)) = FrameSize * Len(frames)
           /\ \A i \in 1..Len(frames), j \in 1..FrameSize :
                Wire(frames)[FrameSize * (i - 1) + j] = Text(frames[i])[j]
<1> DEFINE n == FrameSize * Len(frames)
<1>1. Len(frames) \in Nat /\ n \in Nat
  BY DEF FrameSize
<1>2. ASSUME NEW k \in 1..n
      PROVE  /\ 1 + ((k - 1) \div FrameSize) \in 1..Len(frames)
             /\ 1 + ((k - 1) % FrameSize) \in 1..FrameSize
  BY <1>1 DEF FrameSize
<1>3. Wire(frames) \in [1..n -> Part]
  <2>1. \A k \in 1..n : frames[1 + ((k - 1) \div FrameSize)] \in Frame
    BY <1>2
  <2>2. \A k \in 1..n :
            Text(frames[1 + ((k - 1) \div FrameSize)])[1 + ((k - 1) % FrameSize)] \in Part
    BY <1>2, <2>1, TextType
  <2> QED BY <2>2 DEF Wire
<1>4. Wire(frames) \in Seq(Part) /\ Len(Wire(frames)) = n
  <2>1. Wire(frames) \in Seq(Part)
    BY <1>1, <1>3, SeqDef
  <2> QED BY <1>1, <1>3, <2>1, LenProperties
<1>5. ASSUME NEW i \in 1..Len(frames), NEW j \in 1..FrameSize
      PROVE  Wire(frames)[FrameSize * (i - 1) + j] = Text(frames[i])[j]
  <2> DEFINE k == FrameSize * (i - 1) + j
  <2>1. k \in 1..n /\ 1 + ((k - 1) \div FrameSize) = i /\ 1 + ((k - 1) % FrameSize) = j
    BY <1>1 DEF FrameSize
  <2> QED BY <2>1 DEF Wire
<1> QED BY <1>4, <1>5

\* What handleFrame makes of any parts is a sequence of callbacks.
LEMMA HandleFrameType ==
    ASSUME NEW text \in Seq(Part)
    PROVE  HandleFrame(text) \in Seq(Callback) /\ Finishes(text) \in BOOLEAN
<1>1. CASE text = <<>>
  BY <1>1 DEF HandleFrame, Finishes
<1>2. CASE text # <<>>
  <2>1. text[1] \in Part
    BY <1>2
  <2>2. /\ text[1].frame.event \in {"token", "usage", "done", "error"}
        /\ text[1].frame.id \in Nat
    BY <2>1 DEF Part, Frame
  <2>3. \A id \in Nat, call \in {"onToken", "onUsage", "onDone", "onError"} :
            <<[call |-> call, id |-> id]>> \in Seq(Callback)
    <3>1. \A id \in Nat, call \in {"onToken", "onUsage", "onDone", "onError"} :
            [call |-> call, id |-> id] \in Callback
      BY DEF Callback
    <3>2. \A c \in Callback : <<c>> \in Seq(Callback)
      OBVIOUS
    <3> QED BY <3>1, <3>2
  <2>4. DispatchToken(text) \in Seq(Callback)
    <3>1. (IF Len(text) = 2 THEN Fragment ELSE text[1].frame.id) \in Nat
      BY <2>2 DEF Fragment
    <3>2. <<>> \in Seq(Callback)
      OBVIOUS
    <3> QED BY <2>3, <3>1, <3>2 DEF DispatchToken
  <2>5. DispatchUsage(text) \in Seq(Callback)
    <3>1. <<[call |-> "onUsage", id |-> 0]>> \in Seq(Callback)
      BY <2>3
    <3> QED BY <3>1 DEF DispatchUsage
  <2>6. text[1].frame.event \in {"done", "error"} =>
            <<[call |-> EndCall[text[1].frame.event], id |-> 0]>> \in Seq(Callback)
    <3>1. text[1].frame.event \in {"done", "error"} =>
            EndCall[text[1].frame.event] \in {"onDone", "onError"}
      BY DEF EndCall
    <3> QED BY <2>3, <3>1
  <2>7. HandleFrame(text) \in Seq(Callback)
    BY <1>2, <2>2, <2>4, <2>5, <2>6 DEF HandleFrame
  <2> QED BY <2>7 DEF Finishes
<1> QED BY <1>1, <1>2

\* The callback for a whole frame, of which there is one.
LEMMA WholeFrame ==
    ASSUME NEW frame \in Frame, NEW text \in Seq(Part),
           Len(text) = 3, text[1].frame = frame
    PROVE  /\ HandleFrame(text) = <<CallbackFor(frame)>>
           /\ Finishes(text) = Ends(frame)
           /\ CallbackFor(frame) \in Callback
           /\ Settles(CallbackFor(frame)) = Ends(frame)
           /\ IsText(CallbackFor(frame)) = IsToken(frame)
           /\ IsToken(frame) => CallbackFor(frame).id = frame.id
<1>1. /\ frame.event \in {"token", "usage", "done", "error"} /\ frame.id \in Nat
  BY DEF Frame
<1>2. /\ Text(frame) # <<>> /\ Len(Text(frame)) = 5 /\ Text(frame)[1].frame = frame
  BY TextType DEF FrameSize
<1>3. text # <<>> /\ Len(text) # 1 /\ Len(text) # 2
  <2>1. Len(text) \in Nat /\ (text = <<>> => Len(text) = 0)
    OBVIOUS
  <2>2. Len(text) # 0 /\ Len(text) # 1 /\ Len(text) # 2
    BY <2>1
  <2>3. text # <<>>
    BY <2>1, <2>2
  <2> QED BY <2>2, <2>3
<1> DEFINE call == IF IsToken(frame) THEN "onToken"
                  ELSE IF frame.event = "usage" THEN "onUsage"
                  ELSE IF frame.event = "done" THEN "onDone" ELSE "onError"
           expected == [call |-> call, id |-> IF IsToken(frame) THEN frame.id ELSE 0]
<1>4. HandleFrame(text) = <<expected>>
  BY <1>1, <1>3 DEF HandleFrame, DispatchToken, DispatchUsage, EndCall, IsToken
<1>5. HandleFrame(Text(frame)) = <<expected>>
  BY <1>1, <1>2 DEF HandleFrame, DispatchToken, DispatchUsage, EndCall, IsToken
<1>6. CallbackFor(frame) = expected
  BY <1>5 DEF CallbackFor
<1>7. Finishes(text) = Ends(frame)
  BY <1>3 DEF Finishes, Ends
<1>8. expected \in Callback
  BY <1>1 DEF Callback, IsToken
<1>9. /\ Settles(expected) = Ends(frame)
      /\ IsText(expected) = IsToken(frame)
      /\ IsToken(frame) => expected.id = frame.id
  BY <1>1 DEF Settles, Ends, IsText, IsToken
<1> QED BY <1>4, <1>6, <1>7, <1>8, <1>9

\* The first boundary of a buffer that has one.
LEMMA FirstBoundary ==
    ASSUME NEW parts \in Seq(Part), Boundaries(parts) # {}
    PROVE  /\ Min(Boundaries(parts)) \in Boundaries(parts)
           /\ \A i \in Boundaries(parts) : Min(Boundaries(parts)) <= i
<1>1. Boundaries(parts) \subseteq Nat
  BY DEF Boundaries
<1>2. \E n \in Boundaries(parts) : \A i \in Boundaries(parts) : n <= i
  BY <1>1, LeastNatural
<1> QED BY <1>2 DEF Min

\* A pass keeps buffer, callbacks and flag of their types.
LEMMA PassType ==
    ASSUME NEW loop \in LoopState
    PROVE  Pass(loop) \in LoopState
<1>1. CASE loop.finished \/ Boundaries(loop.buffer) = {}
  BY <1>1 DEF Pass
<1>2. CASE ~loop.finished /\ Boundaries(loop.buffer) # {}
  <2> DEFINE end  == Min(Boundaries(loop.buffer))
             text == SubSeq(loop.buffer, 1, end - 1)
             rest == SubSeq(loop.buffer, end + 2, Len(loop.buffer))
  <2>1. loop.buffer \in Seq(Part) /\ loop.calls \in Seq(Callback)
    BY DEF LoopState
  <2>2. end \in 1..(Len(loop.buffer) - 1)
    BY <1>2, <2>1, FirstBoundary DEF Boundaries
  <2> HIDE DEF end
  <2>3. text \in Seq(Part) /\ rest \in Seq(Part)
    BY <2>1, <2>2
  <2> HIDE DEF text, rest
  <2>4. HandleFrame(text) \in Seq(Callback) /\ Finishes(text) \in BOOLEAN
    BY <2>3, HandleFrameType
  <2>5. Pass(loop) = [buffer |-> rest, calls |-> loop.calls \o HandleFrame(text),
                      finished |-> Finishes(text)]
    BY <1>2 DEF Pass, end, text, rest
  <2>6. loop.calls \o HandleFrame(text) \in Seq(Callback)
    BY <2>1, <2>4
  <2> QED BY <2>3, <2>4, <2>5, <2>6 DEF LoopState
<1> QED BY <1>1, <1>2

\* Drain is what the passes come to: a fact about its recursive function, which
\* Iteration gives.
LEMMA DrainIsIteration ==
    ASSUME NEW parts \in Seq(Part), NEW calls \in Seq(Callback)
    PROVE  \E after \in [Nat -> LoopState] :
              /\ after[0] = Entered(parts, calls)
              /\ \A k \in Nat : after[k + 1] = Pass(after[k])
              /\ Drain(parts, calls) = after[Len(parts)]
<1> DEFINE start == Entered(parts, calls)
           Rule(g) == [k \in Nat |-> IF k = 0 THEN start ELSE Pass(g[k - 1])]
           step == [loop \in LoopState |-> Pass(loop)]
<1>1. start \in LoopState
  BY DEF Entered, LoopState
<1>2. step \in [LoopState -> LoopState]
  BY PassType
<1>3. PICK f \in [Nat -> LoopState] : f[0] = start /\ \A k \in Nat : f[k + 1] = step[f[k]]
  <2> HIDE DEF start, step
  <2>1. Iterates(LoopState, step, start) # {}
    BY <1>1, <1>2, Iteration
  <2> QED BY <2>1 DEF Iterates
<1>4. \A k \in Nat : f[k + 1] = Pass(f[k])
  BY <1>3
<1>5. f = Rule(f)
  <2>1. \A k \in Nat : f[k] = IF k = 0 THEN start ELSE Pass(f[k - 1])
    <3> SUFFICES ASSUME NEW k \in Nat, k # 0
                 PROVE  f[k] = Pass(f[k - 1])
      BY <1>3
    <3>1. k - 1 \in Nat /\ (k - 1) + 1 = k
      OBVIOUS
    <3> QED BY <1>4, <3>1
  <2> QED BY <2>1
<1> DEFINE after == CHOOSE g : g = Rule(g)
<1>6. after = Rule(after)
  <2> HIDE DEF Rule
  <2> QED BY <1>5
<1>7. Drain(parts, calls) = after[Len(parts)]
  BY DEF Drain
<1> HIDE DEF after
<1>8. after[0] = start /\ \A k \in Nat : after[k + 1] = Pass(after[k])
  <2>1. after[0] = start
    BY <1>6
  <2>2. ASSUME NEW k \in Nat
        PROVE  after[k + 1] = Pass(after[k])
    <3>1. k + 1 \in Nat /\ k + 1 # 0 /\ (k + 1) - 1 = k
      OBVIOUS
    <3> QED BY <1>6, <3>1
  <2> QED BY <2>1, <2>2
<1>9. after \in [Nat -> LoopState]
  <2> DEFINE Good == {k \in Nat : after[k] \in LoopState}
  <2>1. 0 \in Good
    BY <1>1, <1>8
  <2>2. ASSUME NEW k \in Good
        PROVE  k + 1 \in Good
    <3>1. k \in Nat /\ after[k] \in LoopState
      OBVIOUS
    <3>2. Pass(after[k]) \in LoopState
      BY <3>1, PassType
    <3>3. after[k + 1] = Pass(after[k])
      BY <1>8, <3>1
    <3>4. k + 1 \in Nat /\ after[k + 1] \in LoopState
      BY <3>1, <3>2, <3>3
    <3> QED BY <3>4
  <2>3. Good = Nat
    <3> HIDE DEF Good
    <3>1. Good \subseteq Nat
      BY DEF Good
    <3> QED BY <2>1, <2>2, <3>1, Induction
  <2>4. after = [k \in Nat |-> after[k]]
    BY <1>6
  <2> QED BY <2>3, <2>4
<1> QED BY <1>7, <1>8, <1>9

\* The callbacks for the first n frames.
FirstCalls(frames, n) == [i \in 1..n |-> CallbackFor(frames[i])]

\* A pass over a buffer that begins with a frame and has its blank line handles
\* that frame; without one there is no pass.
LEMMA PassOnWire ==
    ASSUME NEW frames \in Seq(Frame), NEW g \in 0..Len(frames),
           NEW upto \in (FrameSize * g)..(FrameSize * Len(frames)),
           NEW calls \in Seq(Callback)
    PROVE  LET loop == Entered(SubSeq(Wire(frames), FrameSize * g + 1, upto), calls)
               next == FrameSize * (g + 1)
           IN  /\ upto < next => Pass(loop) = loop
               /\ upto >= next =>
                    Pass(loop) = [buffer   |-> SubSeq(Wire(frames), next + 1, upto),
                                  calls    |-> Append(calls, CallbackFor(frames[g + 1])),
                                  finished |-> Ends(frames[g + 1])]
<1> DEFINE wire == Wire(frames)
           parts == SubSeq(wire, FrameSize * g + 1, upto)
           len == upto - FrameSize * g
           next == FrameSize * (g + 1)
<1>1. g \in Nat /\ len \in Nat /\ upto \in Nat /\ Len(frames) \in Nat
  BY DEF FrameSize
<1>2. wire \in Seq(Part) /\ Len(wire) = FrameSize * Len(frames)
  BY WireType
<1>3. /\ parts \in Seq(Part) /\ Len(parts) = len
      /\ \A i \in 1..len : parts[i] = wire[FrameSize * g + i]
  BY <1>1, <1>2 DEF FrameSize
<1>4. \A j \in 1..FrameSize : j <= len =>
        g + 1 \in 1..Len(frames) /\ parts[j] = Text(frames[g + 1])[j]
  <2> SUFFICES ASSUME NEW j \in 1..FrameSize, j <= len
               PROVE  g + 1 \in 1..Len(frames) /\ parts[j] = Text(frames[g + 1])[j]
    OBVIOUS
  <2>1. g + 1 \in 1..Len(frames)
    BY <1>1 DEF FrameSize
  <2>2. wire[FrameSize * ((g + 1) - 1) + j] = Text(frames[g + 1])[j]
    BY <2>1, WireType
  <2> QED BY <1>1, <1>3, <2>1, <2>2 DEF FrameSize
<1> HIDE DEF wire, parts
<1>5. CASE upto < next
  <2>1. len < 5
    BY <1>1, <1>5 DEF FrameSize
  <2>2. Boundaries(parts) = {}
    <3> SUFFICES ASSUME NEW i \in Boundaries(parts)
                 PROVE  FALSE
      OBVIOUS
    <3>1. i \in 1..3 /\ i <= len /\ parts[i] = Newline
      BY <1>1, <1>3, <2>1 DEF Boundaries
    <3>2. g + 1 \in 1..Len(frames) /\ parts[i] = Text(frames[g + 1])[i]
      BY <1>4, <3>1 DEF FrameSize
    <3>3. frames[g + 1] \in Frame
      BY <3>2
    <3> QED BY <3>1, <3>2, <3>3, TextType
  <2> QED BY <1>1, <1>5, <2>2 DEF Pass, Entered, parts, wire, FrameSize
<1>6. CASE upto >= next
  <2>1. len >= 5 /\ len \in Nat
    BY <1>1, <1>6 DEF FrameSize
  <2>2. g + 1 \in 1..Len(frames) /\ \A j \in 1..5 : parts[j] = Text(frames[g + 1])[j]
    BY <1>4, <2>1 DEF FrameSize
  <2>3. frames[g + 1] \in Frame
    BY <2>2
  <2>4. /\ \A i \in 1..3 : parts[i] # Newline /\ parts[i].frame = frames[g + 1]
        /\ parts[4] = Newline /\ parts[5] = Newline
    BY <2>2, <2>3, TextType DEF FrameSize
  <2>5. 4 \in Boundaries(parts) /\ \A i \in Boundaries(parts) : i \in Nat /\ 4 <= i
    BY <1>3, <2>1, <2>4 DEF Boundaries
  <2>6. Min(Boundaries(parts)) = 4
    <3>1. Min(Boundaries(parts)) \in Boundaries(parts) /\ Min(Boundaries(parts)) <= 4
      BY <1>3, <2>5, FirstBoundary
    <3> QED BY <2>5, <3>1
  <2> DEFINE text == SubSeq(parts, 1, 3)
  <2>7. text \in Seq(Part) /\ Len(text) = 3 /\ text[1].frame = frames[g + 1]
    <3>1. 1 \in Int /\ 3 \in Int /\ \A i \in 1..3 : parts[i] \in Part
      BY <1>3, <2>1
    <3>2. text \in Seq(Part) /\ Len(text) = 3 /\ text[1] = parts[1]
      BY <3>1, SubSeqProperties
    <3> QED BY <2>4, <3>2
  <2> HIDE DEF text
  <2>8. HandleFrame(text) = <<CallbackFor(frames[g + 1])>>
        /\ Finishes(text) = Ends(frames[g + 1])
        /\ CallbackFor(frames[g + 1]) \in Callback
    BY <2>3, <2>7, WholeFrame
  <2>9. SubSeq(parts, 6, len) = SubSeq(wire, next + 1, upto)
    <3>1. CASE len = 5
      BY <1>1, <3>1, SubSeqEmpty DEF FrameSize
    <3>2. CASE len > 5
      <4>1. SubSeq(SubSeq(wire, FrameSize * g + 1, upto), 6, len)
              = SubSeq(wire, (FrameSize * g + 1) + 6 - 1, (FrameSize * g + 1) + len - 1)
        BY <1>1, <1>2, <3>2, SubSeqOfSubSeq DEF FrameSize
      <4> QED BY <1>1, <4>1 DEF parts, FrameSize
    <3>3. len = 5 \/ len > 5
      BY <1>1, <2>1
    <3> QED BY <3>1, <3>2, <3>3
  <2>10. Pass(Entered(parts, calls)) =
            [buffer |-> SubSeq(parts, 6, len), calls |-> calls \o HandleFrame(text),
             finished |-> Finishes(text)]
    <3> DEFINE loop == Entered(parts, calls)
    <3>1. loop.buffer = parts /\ loop.calls = calls /\ loop.finished = FALSE
      BY DEF Entered
    <3> HIDE DEF loop
    <3>2. Boundaries(parts) # {} /\ 4 - 1 = 3 /\ 4 + 2 = 6
      BY <2>5
    <3>3. Pass(loop) = [buffer |-> SubSeq(parts, 6, Len(parts)),
                        calls |-> calls \o HandleFrame(SubSeq(parts, 1, 3)),
                        finished |-> Finishes(SubSeq(parts, 1, 3))]
      BY <2>6, <3>1, <3>2 DEF Pass
    <3> QED BY <1>3, <3>3 DEF loop, text
  <2>11. calls \o <<CallbackFor(frames[g + 1])>> = Append(calls, CallbackFor(frames[g + 1]))
    BY <2>8
  <2>12. ~ (upto < next)
    BY <1>1, <1>6 DEF FrameSize
  <2> QED BY <2>8, <2>9, <2>10, <2>11, <2>12 DEF parts, wire
<1> QED BY <1>1, <1>5, <1>6 DEF FrameSize

-----------------------------------------------------------------------------
\* The loop with g frames handled and the parts up to upto in its reach.
Running(frames, upto, g, loop) ==
    /\ FrameSize * g <= upto
    /\ loop = Entered(SubSeq(Wire(frames), FrameSize * g + 1, upto), FirstCalls(frames, g))
    /\ \A i \in 1..g : ~Ends(frames[i])

\* The loop after the g-th frame, which finishes the stream.
Ended(frames, g, loop) ==
    /\ loop.finished
    /\ loop.calls = FirstCalls(frames, g)
    /\ g >= 1
    /\ Ends(frames[g])
    /\ \A i \in 1..(g - 1) : ~Ends(frames[i])

\* The types of what the client keeps.
SseTypeOK ==
    /\ body \in Seq(Frame)
    /\ read \in 0..Len(Wire(body))
    /\ buffer \in Seq(Part)
    /\ made \in Seq(Callback)
    /\ signal \in BOOLEAN
    /\ pc \in {"fetching", "reading", "over"}

\* Before the end, what is in the buffer is what has been read and belongs to no
\* whole frame, and the whole frames have been handled.
InStep ==
    /\ pc = "fetching" => read = 0
    /\ pc # "over" => Running(body, read, read \div FrameSize, Entered(buffer, made))

\* What a frame that was cut may call.
ForCut(call, frame) ==
    \/ Settles(call)
    \/ call.call = "onUsage"
    \/ IsText(call) /\ IsToken(frame) /\ call.id \in {Fragment, frame.id}

\* At the end, the first g callbacks are those of the first g frames, and one
\* that settles comes next, or one for a frame that was cut and then one that
\* settles.
Told(frames, calls, g) ==
    /\ \A i \in 1..g : ~Ends(frames[i]) /\ calls[i] = CallbackFor(frames[i])
    /\ \/ Len(calls) = g + 1 /\ Settles(calls[g + 1])
       \/ /\ Len(calls) = g + 2 /\ g < Len(frames) /\ Settles(calls[g + 2])
          /\ ForCut(calls[g + 1], frames[g + 1])

AtTheEnd == pc = "over" => \E g \in 0..Len(body) : Told(body, made, g)

SseInv == SseTypeOK /\ InStep /\ AtTheEnd

-----------------------------------------------------------------------------
\* The callbacks for one frame more.
LEMMA FirstCallsGrow ==
    ASSUME NEW frames \in Seq(Frame), NEW g \in 0..Len(frames)
    PROVE  /\ FirstCalls(frames, g) \in Seq(Callback)
           /\ Len(FirstCalls(frames, g)) = g
           /\ \A i \in 1..g : FirstCalls(frames, g)[i] = CallbackFor(frames[i])
           /\ g < Len(frames) => /\ CallbackFor(frames[g + 1]) \in Callback
                                 /\ FirstCalls(frames, g + 1)
                                        = Append(FirstCalls(frames, g), CallbackFor(frames[g + 1]))
<1>1. ASSUME NEW i \in 1..Len(frames)
      PROVE  CallbackFor(frames[i]) \in Callback
  <2> DEFINE text == SubSeq(Text(frames[i]), 1, 3)
  <2>1. frames[i] \in Frame
    OBVIOUS
  <2>2. /\ \A k \in 1..3 : Text(frames[i])[k] \in Part
        /\ Text(frames[i])[1].frame = frames[i]
    BY <2>1, TextType DEF FrameSize
  <2>3. text \in Seq(Part) /\ Len(text) = 3 /\ text[1] = Text(frames[i])[1]
    BY <2>2, SubSeqProperties
  <2> HIDE DEF text
  <2> QED BY <2>1, <2>2, <2>3, WholeFrame
<1> DEFINE c == FirstCalls(frames, g)
<1>2. c \in [1..g -> Callback]
  BY <1>1 DEF FirstCalls
<1>3. c \in Seq(Callback) /\ Len(c) = g
  <2>1. g \in Nat
    OBVIOUS
  <2>2. c \in Seq(Callback)
    BY <1>2, <2>1, SeqDef
  <2> QED BY <1>2, <2>1, <2>2, LenProperties
<1>4. \A i \in 1..g : c[i] = CallbackFor(frames[i])
  BY DEF FirstCalls
<1>5. ASSUME g < Len(frames)
      PROVE  /\ CallbackFor(frames[g + 1]) \in Callback
             /\ FirstCalls(frames, g + 1) = Append(c, CallbackFor(frames[g + 1]))
  <2>1. CallbackFor(frames[g + 1]) \in Callback
    BY <1>1, <1>5
  <2> DEFINE d == Append(c, CallbackFor(frames[g + 1]))
  <2>2. /\ d \in Seq(Callback) /\ Len(d) = g + 1 /\ d[g + 1] = CallbackFor(frames[g + 1])
        /\ \A i \in 1..g : d[i] = c[i]
    <3> HIDE DEF c
    <3> QED BY <1>3, <2>1, AppendProperties
  <2>3. d = [i \in 1..(g + 1) |-> d[i]]
    <3> HIDE DEF d
    <3> QED BY <2>2, LenProperties
  <2>4. \A i \in 1..(g + 1) : d[i] = CallbackFor(frames[i])
    <3> HIDE DEF d, c
    <3> QED BY <1>4, <2>2
  <2>5. FirstCalls(frames, g + 1) = d
    <3> HIDE DEF d, c
    <3> QED BY <2>3, <2>4 DEF FirstCalls
  <2> QED BY <2>1, <2>5
<1> HIDE DEF c
<1>6. FirstCalls(frames, g) = c
  BY DEF c
<1> QED BY <1>3, <1>4, <1>5, <1>6

\* One pass more: a frame more has been handled, or there is none to handle.
LEMMA PassWhileRunning ==
    ASSUME NEW frames \in Seq(Frame), NEW g \in 0..Len(frames),
           NEW upto \in 0..(FrameSize * Len(frames)), NEW loop,
           Running(frames, upto, g, loop)
    PROVE  /\ upto < FrameSize * (g + 1) => Pass(loop) = loop
           /\ upto >= FrameSize * (g + 1) =>
                /\ g + 1 \in 0..Len(frames)
                /\ \/ Running(frames, upto, g + 1, Pass(loop))
                   \/ Ended(frames, g + 1, Pass(loop))
<1>1. upto \in (FrameSize * g)..(FrameSize * Len(frames)) /\ g \in Nat /\ Len(frames) \in Nat
  BY DEF Running, FrameSize
<1>2. FirstCalls(frames, g) \in Seq(Callback)
  BY FirstCallsGrow
<1>3. CASE upto < FrameSize * (g + 1)
  <2>1. ~ (upto >= FrameSize * (g + 1))
    BY <1>1, <1>3 DEF FrameSize
  <2> QED BY <1>1, <1>2, <1>3, <2>1, PassOnWire DEF Running
<1>4. CASE upto >= FrameSize * (g + 1)
  <2>1. g + 1 \in 0..Len(frames) /\ g < Len(frames) /\ ~ (upto < FrameSize * (g + 1))
    BY <1>1, <1>4 DEF FrameSize
  <2>2. Pass(loop) = [buffer   |-> SubSeq(Wire(frames), FrameSize * (g + 1) + 1, upto),
                      calls    |-> FirstCalls(frames, g + 1),
                      finished |-> Ends(frames[g + 1])]
    BY <1>1, <1>2, <1>4, <2>1, PassOnWire, FirstCallsGrow DEF Running
  <2>3. \A i \in 1..g : ~Ends(frames[i])
    BY DEF Running
  <2>4. CASE Ends(frames[g + 1])
    <3>1. Pass(loop).finished /\ Pass(loop).calls = FirstCalls(frames, g + 1)
      BY <2>2, <2>4
    <3>2. g + 1 >= 1 /\ (g + 1) - 1 = g
      BY <1>1
    <3>3. Ended(frames, g + 1, Pass(loop))
      BY <2>3, <2>4, <3>1, <3>2 DEF Ended
    <3> QED BY <2>1, <3>3
  <2>5. CASE ~Ends(frames[g + 1])
    <3>1. Pass(loop) = Entered(SubSeq(Wire(frames), FrameSize * (g + 1) + 1, upto),
                               FirstCalls(frames, g + 1))
      <4>1. Ends(frames[g + 1]) = FALSE
        BY <2>5 DEF Ends
      <4> QED BY <2>2, <4>1, Zenon DEF Entered
    <3>2. \A i \in 1..(g + 1) : ~Ends(frames[i])
      BY <1>1, <2>3, <2>5
    <3>3. Running(frames, upto, g + 1, Pass(loop))
      BY <1>4, <3>1, <3>2 DEF Running
    <3> QED BY <2>1, <3>3
  <2> QED BY <2>4, <2>5
<1> QED BY <1>1, <1>3, <1>4 DEF FrameSize

\* The whole loop: it stops after a frame that finishes the stream, or when the
\* buffer holds no whole frame.
LEMMA DrainOnWire ==
    ASSUME NEW frames \in Seq(Frame), NEW h \in 0..Len(frames),
           NEW upto \in 0..(FrameSize * Len(frames)),
           Running(frames, upto, h,
                   Entered(SubSeq(Wire(frames), FrameSize * h + 1, upto), FirstCalls(frames, h)))
    PROVE  LET loop == Drain(SubSeq(Wire(frames), FrameSize * h + 1, upto), FirstCalls(frames, h))
           IN  /\ loop \in LoopState
               /\ \/ Running(frames, upto, upto \div FrameSize, loop)
                  \/ \E g \in 1..Len(frames) : Ended(frames, g, loop)
<1> DEFINE parts == SubSeq(Wire(frames), FrameSize * h + 1, upto)
           calls == FirstCalls(frames, h)
<1>1. /\ h \in Nat /\ upto \in Nat /\ Len(frames) \in Nat /\ FrameSize * h <= upto
      /\ Wire(frames) \in Seq(Part) /\ Len(Wire(frames)) = FrameSize * Len(frames)
  BY WireType DEF Running
<1>2. parts \in Seq(Part) /\ Len(parts) = upto - FrameSize * h
  BY <1>1 DEF FrameSize
<1>3. calls \in Seq(Callback)
  BY FirstCallsGrow
<1>4. Running(frames, upto, h, Entered(parts, calls))
  OBVIOUS
<1> HIDE DEF parts, calls
<1>5. PICK after \in [Nat -> LoopState] :
        /\ after[0] = Entered(parts, calls)
        /\ \A k \in Nat : after[k + 1] = Pass(after[k])
        /\ Drain(parts, calls) = after[Len(parts)]
  BY <1>2, <1>3, DrainIsIteration
<1> DEFINE Far(g, k) == g >= h + k \/ upto < FrameSize * (g + 1)
           Fine(k) == \E g \in 0..Len(frames) :
                        \/ Running(frames, upto, g, after[k]) /\ Far(g, k)
                        \/ Ended(frames, g, after[k])
           Sound == {k \in Nat : Fine(k)}
<1>6. 0 \in Sound
  <2>1. h \in 0..Len(frames) /\ Running(frames, upto, h, after[0]) /\ Far(h, 0)
    BY <1>1, <1>4, <1>5
  <2> QED BY <2>1
<1>7. ASSUME NEW k \in Sound
      PROVE  k + 1 \in Sound
  <2>1. k \in Nat /\ after[k + 1] = Pass(after[k])
    BY <1>5
  <2>2. PICK g \in 0..Len(frames) :
            \/ Running(frames, upto, g, after[k]) /\ Far(g, k)
            \/ Ended(frames, g, after[k])
    OBVIOUS
  <2> HIDE DEF Sound
  <2>3. CASE Ended(frames, g, after[k])
    <3>1. Pass(after[k]) = after[k]
      BY <2>3 DEF Ended, Pass
    <3>2. Fine(k + 1)
      BY <2>1, <2>3, <3>1
    <3> QED BY <2>1, <3>2 DEF Sound
  <2>4. CASE Running(frames, upto, g, after[k]) /\ Far(g, k) /\ upto < FrameSize * (g + 1)
    <3>1. Pass(after[k]) = after[k]
      BY <2>4, PassWhileRunning
    <3>2. Running(frames, upto, g, after[k + 1]) /\ Far(g, k + 1)
      BY <2>1, <2>4, <3>1
    <3> QED BY <2>1, <3>2 DEF Sound
  <2>5. CASE Running(frames, upto, g, after[k]) /\ Far(g, k) /\ ~(upto < FrameSize * (g + 1))
    <3>1. upto >= FrameSize * (g + 1) /\ g >= h + k
      BY <1>1, <2>5 DEF FrameSize
    <3>2. /\ g + 1 \in 0..Len(frames)
          /\ \/ Running(frames, upto, g + 1, after[k + 1])
             \/ Ended(frames, g + 1, after[k + 1])
      BY <2>1, <2>5, <3>1, PassWhileRunning
    <3>3. Far(g + 1, k + 1)
      BY <1>1, <2>1, <3>1
    <3> HIDE DEF Far
    <3> QED BY <2>1, <3>2, <3>3 DEF Sound
  <2> QED BY <2>2, <2>3, <2>4, <2>5
<1>8. Sound = Nat
  <2> HIDE DEF Sound
  <2>1. Sound \subseteq Nat
    BY DEF Sound
  <2> QED BY <1>6, <1>7, <2>1, Induction
<1> DEFINE last == Len(parts)
<1>9. last \in Nat /\ last = upto - FrameSize * h
  BY <1>1, <1>2 DEF FrameSize
<1>10. PICK g \in 0..Len(frames) :
            \/ Running(frames, upto, g, after[last]) /\ Far(g, last)
            \/ Ended(frames, g, after[last])
  <2> HIDE DEF Fine, last
  <2>1. Fine(last)
    BY <1>8, <1>9
  <2> QED BY <2>1 DEF Fine
<1>11. CASE Ended(frames, g, after[last])
  <2>1. g \in 1..Len(frames)
    BY <1>11 DEF Ended
  <2> QED BY <1>5, <1>9, <1>11, <2>1 DEF parts, calls
<1>12. CASE Running(frames, upto, g, after[last]) /\ Far(g, last)
  <2>1. FrameSize * g <= upto /\ g \in Nat
    BY <1>12 DEF Running
  <2>2. g = upto \div FrameSize
    BY <1>1, <1>9, <1>12, <2>1 DEF FrameSize
  <2> QED BY <1>5, <1>9, <1>12, <2>2 DEF parts, calls
<1> QED BY <1>10, <1>11, <1>12

-----------------------------------------------------------------------------
\* What a frame that was cut is worth: nothing, or one callback.
LEMMA CutFrame ==
    ASSUME NEW frame \in Frame, NEW text \in Seq(Part),
           Len(text) \in 1..3, text[1].frame = frame
    PROVE  \/ HandleFrame(text) = <<>>
           \/ \E call \in Callback : HandleFrame(text) = <<call>> /\ ForCut(call, frame)
<1>1. frame.event \in {"token", "usage", "done", "error"} /\ frame.id \in Nat
  BY DEF Frame
<1>2. text # <<>>
  OBVIOUS
<1>3. CASE frame.event = "token"
  <2>1. HandleFrame(text) = DispatchToken(text) /\ IsToken(frame)
    BY <1>2, <1>3 DEF HandleFrame, IsToken
  <2>2. CASE Len(text) = 1
    BY <2>1, <2>2 DEF DispatchToken
  <2>3. CASE Len(text) # 1
    <3> DEFINE call == [call |-> "onToken",
                        id |-> IF Len(text) = 2 THEN Fragment ELSE text[1].frame.id]
    <3>1. HandleFrame(text) = <<call>>
      BY <2>1, <2>3 DEF DispatchToken
    <3>2. call \in Callback /\ ForCut(call, frame)
      BY <1>1, <2>1 DEF IsText, ForCut, Callback, Fragment
    <3> QED BY <3>1, <3>2
  <2> QED BY <2>2, <2>3
<1>4. CASE frame.event = "usage"
  <2> DEFINE call == [call |-> "onUsage", id |-> 0]
  <2>1. HandleFrame(text) \in {<<>>, <<call>>}
    BY <1>2, <1>4 DEF HandleFrame, DispatchUsage
  <2>2. call \in Callback /\ ForCut(call, frame)
    BY DEF Callback, ForCut
  <2> QED BY <2>1, <2>2
<1>5. CASE frame.event \in {"done", "error"}
  <2> DEFINE call == [call |-> EndCall[frame.event], id |-> 0]
  <2>1. HandleFrame(text) = <<call>>
    BY <1>2, <1>5 DEF HandleFrame
  <2>2. call \in Callback /\ ForCut(call, frame)
    BY <1>5 DEF ForCut, Settles, EndCall, Callback
  <2> QED BY <2>1, <2>2
<1> QED BY <1>1, <1>3, <1>4, <1>5

\* What is left in the buffer, without the line ends: nothing, or a beginning of
\* the frame that was cut.
LEMMA TailOfBuffer ==
    ASSUME NEW frames \in Seq(Frame), NEW upto \in 0..(FrameSize * Len(frames))
    PROVE  LET g    == upto \div FrameSize
               tail == Trimmed(SubSeq(Wire(frames), FrameSize * g + 1, upto))
           IN  \/ tail = <<>>
               \/ /\ g < Len(frames) /\ tail \in Seq(Part)
                  /\ Len(tail) \in 1..3 /\ tail[1].frame = frames[g + 1]
<1> DEFINE g == upto \div FrameSize
           buf == SubSeq(Wire(frames), FrameSize * g + 1, upto)
           len == upto - FrameSize * g
           solid == {i \in DOMAIN buf : buf[i] # Newline}
<1>1. /\ g \in Nat /\ len \in 0..4 /\ upto \in Nat /\ Len(frames) \in Nat
      /\ len > 0 => g + 1 \in 1..Len(frames)
  BY DEF FrameSize
<1>2. Wire(frames) \in Seq(Part) /\ Len(Wire(frames)) = FrameSize * Len(frames)
  BY WireType
<1> HIDE DEF g
<1>3. /\ buf \in Seq(Part) /\ Len(buf) = len /\ DOMAIN buf = 1..len
      /\ \A i \in 1..len : buf[i] = Wire(frames)[FrameSize * g + i]
  BY <1>1, <1>2 DEF FrameSize
<1> HIDE DEF buf, len
<1>4. CASE len = 0
  <2>1. solid = {}
    BY <1>3, <1>4
  <2> QED BY <2>1 DEF Trimmed, buf, g
<1>5. CASE len > 0
  <2> DEFINE m == IF len = 4 THEN 3 ELSE len
  <2>1. m \in 1..3 /\ m <= len
    BY <1>1, <1>5
  <2>2. ASSUME NEW i \in 1..len
        PROVE  buf[i] = Text(frames[g + 1])[i]
    <3>1. g + 1 \in 1..Len(frames) /\ i \in 1..FrameSize
      BY <1>1, <1>5 DEF FrameSize
    <3>2. Wire(frames)[FrameSize * ((g + 1) - 1) + i] = Text(frames[g + 1])[i]
      BY <3>1, WireType
    <3> QED BY <1>1, <1>3, <3>2
  <2>3. frames[g + 1] \in Frame
    BY <1>1, <1>5
  <2>4. \A i \in 1..len : i \in 1..3 => buf[i] # Newline /\ buf[i].frame = frames[g + 1]
    BY <2>2, <2>3, TextType DEF FrameSize
  <2>5. len = 4 => buf[4] = Newline
    BY <2>2, <2>3, TextType
  <2>6. solid = 1..m
    BY <1>1, <1>3, <2>1, <2>4, <2>5
  <2>7. Min(1..m) = 1 /\ Max(1..m) = m
    <3>1. 1 \in 1..m /\ \A i \in 1..m : 1 <= i
      BY <2>1
    <3>2. m \in 1..m /\ \A i \in 1..m : m >= i
      BY <2>1
    <3> HIDE DEF m
    <3>3. Min(1..m) \in 1..m /\ Min(1..m) <= 1
      BY <3>1 DEF Min
    <3>4. Max(1..m) \in 1..m /\ Max(1..m) >= m
      BY <3>2 DEF Max
    <3> QED BY <2>1, <3>3, <3>4
  <2> DEFINE tail == SubSeq(buf, 1, m)
  <2>8. Trimmed(buf) = tail
    <3>1. solid # {}
      BY <2>1, <2>6
    <3> QED BY <2>6, <2>7, <3>1 DEF Trimmed
  <2>9. tail \in Seq(Part) /\ Len(tail) = m /\ tail[1] = buf[1]
    <3>1. \A i \in 1..m : buf[i] \in Part
      BY <1>1, <1>3, <2>1
    <3> HIDE DEF m
    <3> QED BY <2>1, <3>1, SubSeqProperties
  <2>10. tail[1].frame = frames[g + 1]
    BY <1>1, <1>5, <2>4, <2>9
  <2>11. g < Len(frames)
    BY <1>1, <1>5
  <2> HIDE DEF tail, m
  <2> QED BY <2>1, <2>8, <2>9, <2>10, <2>11 DEF buf, g
<1> QED BY <1>1, <1>4, <1>5

-----------------------------------------------------------------------------
\* What is read is within the wire.
LEMMA ReadOnWire ==
    ASSUME SseTypeOK
    PROVE  /\ read \in 0..(FrameSize * Len(body)) /\ read \in Nat /\ Len(body) \in Nat
           /\ read \div FrameSize \in 0..Len(body)
           /\ Len(Wire(body)) = FrameSize * Len(body)
<1>1. body \in Seq(Frame) /\ Len(Wire(body)) = FrameSize * Len(body) /\ Len(body) \in Nat
  BY WireType DEF SseTypeOK
<1>2. read \in 0..(FrameSize * Len(body))
  BY <1>1 DEF SseTypeOK
<1> QED BY <1>1, <1>2 DEF FrameSize

\* A request starts with nothing read.
LEMMA SseInitInv == SseInit => SseInv
<1> SUFFICES ASSUME SseInit
             PROVE  SseInv
  OBVIOUS
<1>1. body \in Seq(Frame)
  BY BodyAssumption DEF SseInit
<1>2. SseTypeOK
  <2>1. 0 \in 0..Len(Wire(body))
    <3>1. Wire(body) \in Seq(Part)
      BY <1>1, WireType
    <3> QED BY <3>1
  <2>2. <<>> \in Seq(Part) /\ <<>> \in Seq(Callback)
    OBVIOUS
  <2> QED BY <1>1, <2>1, <2>2 DEF SseInit, SseTypeOK
<1>3. SubSeq(Wire(body), 1, 0) = <<>> /\ FirstCalls(body, 0) = <<>>
  BY SubSeqEmpty DEF FirstCalls
<1>4. read \div FrameSize = 0 /\ FrameSize * 0 + 1 = 1 /\ FrameSize * 0 = 0
  BY DEF SseInit, FrameSize
<1>5. Running(body, read, read \div FrameSize, Entered(buffer, made))
  <2>1. read = 0 /\ buffer = <<>> /\ made = <<>>
    BY DEF SseInit
  <2>2. Running(body, 0, 0, Entered(<<>>, <<>>))
    <3>1. Entered(SubSeq(Wire(body), FrameSize * 0 + 1, 0), FirstCalls(body, 0)) = Entered(<<>>, <<>>)
      BY <1>3, <1>4
    <3>2. FrameSize * 0 <= 0 /\ \A i \in 1..0 : ~Ends(body[i])
      BY <1>4
    <3> QED BY <3>1, <3>2 DEF Running
  <2> QED BY <1>4, <2>1, <2>2
<1> QED BY <1>2, <1>5 DEF SseInv, SseInit, InStep, AtTheEnd

\* The stream ends with one callback more, which settles.
LEMMA SettledNow ==
    ASSUME NEW frames \in Seq(Frame), NEW g \in 0..Len(frames), NEW call \in Callback,
           Settles(call), \A i \in 1..g : ~Ends(frames[i])
    PROVE  Told(frames, Append(FirstCalls(frames, g), call), g)
<1> DEFINE calls == Append(FirstCalls(frames, g), call)
<1>1. /\ FirstCalls(frames, g) \in Seq(Callback) /\ Len(FirstCalls(frames, g)) = g
      /\ \A i \in 1..g : FirstCalls(frames, g)[i] = CallbackFor(frames[i])
  BY FirstCallsGrow
<1>2. /\ Len(calls) = g + 1 /\ calls[g + 1] = call
      /\ \A i \in 1..g : calls[i] = CallbackFor(frames[i])
  BY <1>1, AppendProperties
<1> HIDE DEF calls
<1>3. Told(frames, calls, g)
  BY <1>2 DEF Told
<1> QED BY <1>3 DEF calls

\* A chunk arrives: the loop goes on from where it was, and leaves what it
\* would leave of all that has been read.
LEMMA ReadChunkDrains ==
    ASSUME SseInv, NEW n \in 1..MaxChunk, ReadChunk(n)
    PROVE  /\ read' \in 0..(FrameSize * Len(body)) /\ body' = body /\ signal' = signal
           /\ pc = "reading"
           /\ \E loop \in LoopState :
                /\ buffer' = loop.buffer /\ made' = loop.calls
                /\ pc' = IF loop.finished THEN "over" ELSE pc
                /\ \/ Running(body, read', read' \div FrameSize, loop)
                   \/ \E g \in 1..Len(body) : Ended(body, g, loop)
<1> DEFINE h == read \div FrameSize
           upto == read + n
           parts == buffer \o SubSeq(Wire(body), read + 1, upto)
           loop == Drain(parts, made)
<1>1. /\ body \in Seq(Frame) /\ n \in Nat /\ read \in Nat /\ upto \in 0..(FrameSize * Len(body))
      /\ h \in 0..Len(body) /\ Len(body) \in Nat /\ FrameSize * h <= read
      /\ Len(Wire(body)) = FrameSize * Len(body) /\ Wire(body) \in Seq(Part)
  BY ReadOnWire, BodyAssumption, WireType DEF SseInv, SseTypeOK, ReadChunk, FrameSize
<1>2. /\ buffer = SubSeq(Wire(body), FrameSize * h + 1, read)
      /\ made = FirstCalls(body, h)
      /\ \A i \in 1..h : ~Ends(body[i])
  BY DEF SseInv, InStep, ReadChunk, Running, Entered
<1> HIDE DEF h
<1>3. parts = SubSeq(Wire(body), FrameSize * h + 1, upto)
  <2>1. /\ FrameSize * h + 1 \in 1..(Len(Wire(body)) + 1)
        /\ read \in ((FrameSize * h + 1) - 1)..Len(Wire(body))
        /\ upto \in read..Len(Wire(body))
    BY <1>1 DEF FrameSize
  <2> HIDE DEF upto
  <2>2. SubSeq(Wire(body), FrameSize * h + 1, read) \o SubSeq(Wire(body), read + 1, upto)
            = SubSeq(Wire(body), FrameSize * h + 1, upto)
    BY <1>1, <2>1, ConcatAdjacentSubSeq
  <2> QED BY <1>2, <2>2
<1>4. Running(body, upto, h, Entered(SubSeq(Wire(body), FrameSize * h + 1, upto), FirstCalls(body, h)))
  BY <1>1, <1>2 DEF Running, FrameSize
<1>5. /\ loop \in LoopState
      /\ \/ Running(body, upto, upto \div FrameSize, loop)
         \/ \E g \in 1..Len(body) : Ended(body, g, loop)
  <2> HIDE DEF upto, parts
  <2> QED BY <1>1, <1>2, <1>3, <1>4, DrainOnWire
<1>6. /\ read' = upto /\ buffer' = loop.buffer /\ made' = loop.calls
      /\ pc' = IF loop.finished THEN "over" ELSE pc
      /\ pc = "reading" /\ body' = body /\ signal' = signal
  BY DEF ReadChunk
<1> HIDE DEF loop, upto
<1>7. \/ Running(body, read', read' \div FrameSize, loop)
      \/ \E g \in 1..Len(body) : Ended(body, g, loop)
  BY <1>5, <1>6
<1> QED BY <1>1, <1>5, <1>6, <1>7

\* The invariant survives a chunk.
LEMMA ReadChunkKeeps ==
    ASSUME SseInv, NEW n \in 1..MaxChunk, ReadChunk(n)
    PROVE  SseInv'
<1>1. /\ body \in Seq(Frame) /\ Len(body) \in Nat
      /\ Len(Wire(body)) = FrameSize * Len(body)
  BY ReadOnWire DEF SseInv, SseTypeOK
<1>2. PICK loop \in LoopState :
        /\ buffer' = loop.buffer /\ made' = loop.calls
        /\ pc' = IF loop.finished THEN "over" ELSE pc
        /\ \/ Running(body, read', read' \div FrameSize, loop)
           \/ \E g \in 1..Len(body) : Ended(body, g, loop)
  BY ReadChunkDrains
<1>3. /\ read' \in 0..(FrameSize * Len(body)) /\ buffer' = loop.buffer /\ made' = loop.calls
      /\ pc' = IF loop.finished THEN "over" ELSE pc
      /\ pc = "reading" /\ body' = body /\ signal' = signal
  BY <1>2, ReadChunkDrains
<1>4. SseTypeOK'
  <2>1. read' \in 0..Len(Wire(body))
    BY <1>1, <1>3
  <2>2. buffer' \in Seq(Part) /\ made' \in Seq(Callback)
    BY <1>2, <1>3 DEF LoopState
  <2>3. signal \in BOOLEAN
    BY DEF SseInv, SseTypeOK
  <2> QED BY <1>1, <1>3, <2>1, <2>2, <2>3 DEF SseTypeOK
<1>5. CASE Running(body, read', read' \div FrameSize, loop)
  <2>1. loop = Entered(loop.buffer, loop.calls) /\ ~loop.finished
    BY <1>5 DEF Running, Entered
  <2>2. pc' = "reading"
    BY <1>3, <2>1
  <2>3. Running(body, read, read \div FrameSize, Entered(buffer, made))'
    <3>1. Running(body', read', read' \div FrameSize, Entered(buffer', made'))
      BY <1>3, <1>5, <2>1
    <3> QED BY <3>1 DEF Running, Entered, FirstCalls
  <2> QED BY <1>4, <2>2, <2>3 DEF SseInv, InStep, AtTheEnd
<1>6. ASSUME NEW g \in 1..Len(body), Ended(body, g, loop)
      PROVE  SseInv'
  <2>1. /\ loop.finished /\ made' = FirstCalls(body, g) /\ Ends(body[g])
        /\ \A i \in 1..(g - 1) : ~Ends(body[i])
    BY <1>3, <1>6 DEF Ended
  <2>2. pc' = "over"
    BY <1>3, <2>1
  <2>3. g - 1 \in 0..Len(body) /\ (g - 1) + 1 = g /\ g - 1 < Len(body)
    BY <1>1
  <2>4. /\ CallbackFor(body[g]) \in Callback
        /\ FirstCalls(body, g) = Append(FirstCalls(body, g - 1), CallbackFor(body[g]))
    BY <1>1, <2>3, FirstCallsGrow
  <2>5. Settles(CallbackFor(body[g]))
    <3> DEFINE text == SubSeq(Text(body[g]), 1, 3)
    <3>1. body[g] \in Frame
      BY <1>1
    <3>2. /\ \A k \in 1..3 : Text(body[g])[k] \in Part
          /\ Text(body[g])[1].frame = body[g]
      BY <3>1, TextType DEF FrameSize
    <3>3. text \in Seq(Part) /\ Len(text) = 3 /\ text[1] = Text(body[g])[1]
      BY <3>2, SubSeqProperties
    <3> HIDE DEF text
    <3> QED BY <2>1, <3>1, <3>2, <3>3, WholeFrame
  <2>6. Told(body, FirstCalls(body, g), g - 1)
    BY <1>1, <2>1, <2>3, <2>4, <2>5, SettledNow
  <2>7. \E k \in 0..Len(body') : Told(body', made', k)
    BY <1>3, <2>1, <2>3, <2>6
  <2> QED BY <1>4, <2>2, <2>7 DEF SseInv, InStep, AtTheEnd
<1> QED BY <1>2, <1>5, <1>6

\* The body ends: the beginning of a frame is worth a callback at most, and then
\* the stream is reported as done.
LEMMA ReadEndKeeps ==
    ASSUME SseInv, ReadEnd
    PROVE  SseInv'
<1> DEFINE g == read \div FrameSize
           tail == Trimmed(buffer)
           done == [call |-> "onDone", id |-> 0]
           calls == FirstCalls(body, g)
<1>1. /\ body \in Seq(Frame) /\ g \in 0..Len(body) /\ g \in Nat /\ Len(body) \in Nat
      /\ read \in 0..(FrameSize * Len(body))
  BY ReadOnWire DEF SseInv, SseTypeOK
<1>2. /\ buffer = SubSeq(Wire(body), FrameSize * g + 1, read)
      /\ made = calls
      /\ \A i \in 1..g : ~Ends(body[i])
  BY DEF SseInv, InStep, ReadEnd, Running, Entered
<1>3. \/ tail = <<>>
      \/ /\ g < Len(body) /\ tail \in Seq(Part)
         /\ Len(tail) \in 1..3 /\ tail[1].frame = body[g + 1]
  BY <1>1, <1>2, TailOfBuffer
<1>4. /\ made' = made \o (IF tail = <<>> THEN <<>> ELSE HandleFrame(tail)) \o <<done>>
      /\ pc' = "over" /\ body' = body /\ read' = read /\ buffer' = buffer /\ signal' = signal
  BY DEF ReadEnd
<1>5. done \in Callback /\ Settles(done)
  BY DEF Callback, Settles
<1>6. calls \in Seq(Callback) /\ Len(calls) = g /\ \A i \in 1..g : calls[i] = CallbackFor(body[i])
  BY <1>1, FirstCallsGrow
<1>7. SseTypeOK' /\ Told(body, made', g) => SseInv'
  BY <1>1, <1>4 DEF SseInv, InStep, AtTheEnd
<1>8. made' \in Seq(Callback) => SseTypeOK'
  BY <1>4 DEF SseInv, SseTypeOK
<1> HIDE DEF g, tail, done, calls
<1>9. CASE made' = calls \o <<>> \o <<done>>
  <2>1. made' = Append(calls, done)
    BY <1>5, <1>6, <1>9
  <2>2. made' \in Seq(Callback)
    BY <1>5, <1>6, <2>1
  <2>3. Told(body, made', g)
    BY <1>1, <1>2, <1>5, <2>1, SettledNow DEF calls
  <2> QED BY <1>7, <1>8, <2>2, <2>3
<1>10. ASSUME tail # <<>>, NEW call \in Callback,
              HandleFrame(tail) = <<call>>, ForCut(call, body[g + 1])
       PROVE  SseInv'
  <2>1. made' = calls \o <<call>> \o <<done>> /\ g < Len(body)
    BY <1>2, <1>3, <1>4, <1>10
  <2>2. made' = Append(Append(calls, call), done)
    BY <1>5, <1>6, <2>1
  <2>3. /\ made' \in Seq(Callback) /\ Len(made') = g + 2
        /\ made'[g + 1] = call /\ made'[g + 2] = done
        /\ \A i \in 1..g : made'[i] = CallbackFor(body[i])
    BY <1>1, <1>5, <1>6, <2>2
  <2>4. Told(body, made', g)
    BY <1>2, <1>5, <1>10, <2>1, <2>3 DEF Told
  <2> QED BY <1>7, <1>8, <2>3, <2>4
<1>11. CASE tail = <<>>
  BY <1>2, <1>4, <1>9, <1>11
<1>12. CASE tail # <<>>
  <2>1. body[g + 1] \in Frame
    BY <1>1, <1>3, <1>12
  <2>2. \/ HandleFrame(tail) = <<>>
        \/ \E call \in Callback : HandleFrame(tail) = <<call>> /\ ForCut(call, body[g + 1])
    BY <1>3, <1>12, <2>1, CutFrame
  <2>3. CASE HandleFrame(tail) = <<>>
    BY <1>2, <1>4, <1>9, <1>12, <2>3
  <2> QED BY <1>10, <1>12, <2>2, <2>3
<1> QED BY <1>11, <1>12

\* The request fails: the callback that says so is the last.
LEMMA RejectedKeeps ==
    ASSUME SseInv, Rejected
    PROVE  SseInv'
<1> DEFINE g == read \div FrameSize
           failure == [call |-> "onError", id |-> 0]
<1>1. g \in 0..Len(body) /\ body \in Seq(Frame)
  BY ReadOnWire DEF SseInv, SseTypeOK
<1>2. made = FirstCalls(body, g) /\ \A i \in 1..g : ~Ends(body[i])
  BY DEF SseInv, InStep, Rejected, Running, Entered
<1>3. failure \in Callback /\ Settles(failure)
  BY DEF Callback, Settles
<1>4. /\ made' = Append(made, failure) /\ pc' = "over"
      /\ body' = body /\ read' = read /\ buffer' = buffer /\ signal' = signal
  BY DEF Rejected
<1> HIDE DEF g, failure
<1>5. Told(body, made', g)
  BY <1>1, <1>2, <1>3, <1>4, SettledNow
<1>6. made' \in Seq(Callback)
  BY <1>3, <1>4 DEF SseInv, SseTypeOK
<1>7. SseTypeOK'
  BY <1>4, <1>6 DEF SseInv, SseTypeOK
<1> QED BY <1>1, <1>4, <1>5, <1>7 DEF SseInv, InStep, AtTheEnd

\* Every step of the client keeps the invariant.
LEMMA SseNextInv == SseInv /\ [SseNext]_sseVars => SseInv'
<1> SUFFICES ASSUME SseInv, [SseNext]_sseVars
             PROVE  SseInv'
  OBVIOUS
<1>1. CASE Answered
  BY <1>1 DEF Answered, SseInv, SseTypeOK, InStep, AtTheEnd, Told, Running, Entered, FirstCalls
<1>2. CASE Rejected
  BY <1>2, RejectedKeeps
<1>3. ASSUME NEW n \in 1..MaxChunk, ReadChunk(n)
      PROVE  SseInv'
  BY <1>3, ReadChunkKeeps
<1>4. CASE ReadEnd
  BY <1>4, ReadEndKeeps
<1>5. CASE Abort
  BY <1>5 DEF Abort, SseInv, SseTypeOK, InStep, AtTheEnd, Told, Running, Entered, FirstCalls
<1>6. CASE UNCHANGED sseVars
  BY <1>6 DEF sseVars, SseInv, SseTypeOK, InStep, AtTheEnd, Told, Running, Entered, FirstCalls
<1> QED BY <1>1, <1>2, <1>3, <1>4, <1>5, <1>6 DEF SseNext

\* The invariant holds of the client.
LEMMA SseInvariant == SseSpec => []SseInv
<1> QED BY SseInitInv, SseNextInv, PTL DEF SseSpec

\* Where the chunks end does not show: while the stream is read, parseSseStream
\* has made the callbacks of the frames it has got whole, each once and in order.
THEOREM ChunkingIsInvisible == SseSpec => []ChunksDoNotShow
<1>1. SseInv => ChunksDoNotShow
  BY DEF SseInv, InStep, Running, Entered, FirstCalls, ChunksDoNotShow
<1> QED BY <1>1, SseInvariant, PTL

\* The callback for a frame is the one it calls for.
LEMMA CallbackFits ==
    ASSUME NEW frames \in Seq(Frame), NEW i \in DOMAIN frames
    PROVE  LET call == CallbackFor(frames[i])
           IN  /\ Settles(call) = Ends(frames[i])
               /\ IsText(call) = IsToken(frames[i])
               /\ IsToken(frames[i]) => call.id = frames[i].id
<1> DEFINE text == SubSeq(Text(frames[i]), 1, 3)
<1>1. frames[i] \in Frame
  OBVIOUS
<1>2. /\ \A k \in 1..3 : Text(frames[i])[k] \in Part
      /\ Text(frames[i])[1].frame = frames[i]
  BY <1>1, TextType DEF FrameSize
<1>3. text \in Seq(Part) /\ Len(text) = 3 /\ text[1] = Text(frames[i])[1]
  BY <1>2, SubSeqProperties
<1> HIDE DEF text
<1> QED BY <1>1, <1>2, <1>3, WholeFrame

\* The texts that reach the screen are those of the tokens sent, without gaps,
\* and at most the last of them is cut.
THEOREM TextsComeInOrder == SseSpec => []TextsArePrefix
<1>1. ASSUME SseInv
      PROVE  TextsArePrefix
  <2>1. /\ body \in Seq(Frame) /\ Len(body) \in Nat /\ DOMAIN body = 1..Len(body)
        /\ made \in Seq(Callback) /\ Len(made) \in Nat /\ DOMAIN made = 1..Len(made)
    BY <1>1 DEF SseInv, SseTypeOK
  <2> SUFFICES ASSUME NEW i \in 1..Len(made), IsText(made[i])
               PROVE  /\ i \in DOMAIN body /\ IsToken(body[i])
                      /\ \A j \in 1..(i - 1) : IsToken(body[j]) => IsText(made[j])
                      /\ \/ made[i].id = body[i].id
                         \/ /\ made[i].id = Fragment
                            /\ pc = "over"
                            /\ \A j \in (i + 1)..Len(made) : ~IsText(made[j])
    BY <2>1 DEF TextsArePrefix
  <2>2. ASSUME NEW g \in 0..Len(body), \A j \in 1..g : made[j] = CallbackFor(body[j]), i <= g
        PROVE  /\ i \in DOMAIN body /\ IsToken(body[i])
               /\ \A j \in 1..(i - 1) : IsToken(body[j]) => IsText(made[j])
               /\ made[i].id = body[i].id
    <3>1. \A j \in 1..i : j \in DOMAIN body /\ made[j] = CallbackFor(body[j])
      BY <2>1, <2>2
    <3>2. \A j \in 1..i : IsText(made[j]) = IsToken(body[j])
                          /\ (IsToken(body[j]) => made[j].id = body[j].id)
      BY <2>1, <3>1, CallbackFits
    <3> QED BY <2>1, <3>1, <3>2
  <2>3. CASE pc # "over"
    <3> DEFINE g == read \div FrameSize
    <3>1. g \in 0..Len(body) /\ made = FirstCalls(body, g)
      BY <1>1, <2>3, ReadOnWire DEF SseInv, InStep, Running, Entered
    <3> HIDE DEF g
    <3>2. Len(made) = g /\ \A j \in 1..g : made[j] = CallbackFor(body[j])
      BY <2>1, <3>1, FirstCallsGrow
    <3> QED BY <2>1, <2>2, <3>1, <3>2
  <2>4. CASE pc = "over"
    <3>1. PICK g \in 0..Len(body) : Told(body, made, g)
      BY <1>1, <2>4 DEF SseInv, AtTheEnd
    <3>2. \A j \in 1..g : made[j] = CallbackFor(body[j])
      BY <3>1 DEF Told
    <3>3. CASE i <= g
      BY <2>2, <3>2, <3>3
    <3>4. CASE i > g
      <4>1. \A c : Settles(c) \/ c.call = "onUsage" => ~IsText(c)
        BY DEF Settles, IsText
      <4>2. g \in Nat /\ i \in Nat /\ i <= Len(made) /\ (i = g + 1 \/ i >= g + 2)
        BY <2>1, <3>4
      <4>3. ~(Len(made) = g + 1 /\ Settles(made[g + 1]))
        <5> SUFFICES ASSUME Len(made) = g + 1, Settles(made[g + 1])
                     PROVE  FALSE
          OBVIOUS
        <5>1. i = g + 1
          BY <4>2
        <5> QED BY <4>1, <5>1
      <4>4. /\ Len(made) = g + 2 /\ g < Len(body) /\ Settles(made[g + 2])
            /\ ForCut(made[g + 1], body[g + 1])
        BY <3>1, <4>3 DEF Told
      <4>5. i = g + 1
        BY <2>1, <4>1, <4>2, <4>4
      <4>6. IsToken(body[g + 1]) /\ made[g + 1].id \in {Fragment, body[g + 1].id}
        BY <4>1, <4>4, <4>5 DEF ForCut
      <4>7. i \in DOMAIN body /\ \A j \in 1..(i - 1) : j \in 1..g /\ j \in DOMAIN body
        BY <2>1, <4>2, <4>4, <4>5
      <4>8. \A j \in 1..(i - 1) : IsToken(body[j]) => IsText(made[j])
        BY <2>1, <3>2, <4>7, CallbackFits
      <4>9. \A j \in (i + 1)..Len(made) : j = g + 2
        BY <4>2, <4>4, <4>5
      <4>10. \A j \in (i + 1)..Len(made) : ~IsText(made[j])
        BY <4>1, <4>4, <4>9
      <4> QED BY <2>4, <4>5, <4>6, <4>7, <4>8, <4>10
    <3> QED BY <2>1, <3>3, <3>4
  <2> QED BY <2>3, <2>4
<1> QED BY <1>1, SseInvariant, PTL

\* No callback for a frame within the answer settles.
LEMMA NoEndInside ==
    ASSUME NEW frames \in Seq(Frame), NEW g \in 0..Len(frames),
           \A i \in 1..g : ~Ends(frames[i])
    PROVE  \A i \in 1..g : ~Settles(CallbackFor(frames[i]))
<1> SUFFICES ASSUME NEW i \in 1..g
             PROVE  ~Settles(CallbackFor(frames[i]))
  OBVIOUS
<1>1. i \in DOMAIN frames
  OBVIOUS
<1> QED BY <1>1, CallbackFits

\* streamChatCompletion tells the screen of the end, once it is there and not
\* before, and of nothing else after it.
THEOREM StreamsSettleAtTheEnd == SseSpec => []SettledAtTheEnd
<1>1. ASSUME SseInv
      PROVE  SettledAtTheEnd
  <2> DEFINE ends == {i \in DOMAIN made : Settles(made[i])}
  <2>1. /\ body \in Seq(Frame) /\ Len(body) \in Nat /\ DOMAIN body = 1..Len(body)
        /\ made \in Seq(Callback) /\ Len(made) \in Nat /\ DOMAIN made = 1..Len(made)
    BY <1>1 DEF SseInv, SseTypeOK
  <2>2. CASE pc # "over"
    <3> DEFINE g == read \div FrameSize
    <3>1. g \in 0..Len(body) /\ made = FirstCalls(body, g) /\ \A i \in 1..g : ~Ends(body[i])
      BY <1>1, <2>2, ReadOnWire DEF SseInv, InStep, Running, Entered
    <3> HIDE DEF g
    <3>2. Len(made) = g /\ \A j \in 1..g : made[j] = CallbackFor(body[j])
      BY <2>1, <3>1, FirstCallsGrow
    <3>3. \A j \in 1..g : ~Settles(made[j])
      BY <2>1, <3>1, <3>2, NoEndInside
    <3>4. ends = {}
      BY <2>1, <3>2, <3>3
    <3> HIDE DEF ends
    <3>5. pc = "over" <=> ends # {}
      BY <2>2, <3>4
    <3>6. \A i \in ends : i >= Len(made) - 1 /\ \A j \in i..Len(made) : j \in ends
      BY <3>4
    <3> QED BY <3>5, <3>6 DEF SettledAtTheEnd, ends
  <2>3. CASE pc = "over"
    <3>1. PICK g \in 0..Len(body) : Told(body, made, g)
      BY <1>1, <2>3 DEF SseInv, AtTheEnd
    <3>2. \A j \in 1..g : ~Ends(body[j]) /\ made[j] = CallbackFor(body[j])
      BY <3>1 DEF Told
    <3>3. \A j \in 1..g : ~Settles(made[j])
      BY <2>1, <3>2, NoEndInside
    <3> DEFINE last == Len(made)
    <3>4. g \in Nat /\ (last = g + 1 \/ last = g + 2) /\ Settles(made[last])
      BY <3>1 DEF Told
    <3>5. ends = {i \in 1..last : Settles(made[i])} /\ last \in Nat
      BY <2>1
    <3> HIDE DEF ends, last
    <3>6. \A i \in ends : i \in Nat /\ i > g /\ i <= last
      BY <3>3, <3>4, <3>5
    <3>7. last \in ends
      BY <3>4, <3>5
    <3>8. ASSUME NEW i \in ends
          PROVE  i >= last - 1 /\ \A j \in i..last : j \in ends
      <4>1. i \in Nat /\ i > g /\ i <= last
        BY <3>6
      <4>2. i >= last - 1 /\ \A j \in i..last : j = i \/ j = last
        BY <3>4, <3>5, <4>1
      <4> QED BY <3>7, <4>2
    <3>9. ends # {}
      BY <3>7
    <3> QED BY <2>3, <3>8, <3>9 DEF SettledAtTheEnd, ends, last
  <2> QED BY <2>2, <2>3
<1> QED BY <1>1, SseInvariant, PTL

\* An answer that the API finished: its last frame ends it, and no other does.
IsAnswer(frames) ==
    /\ frames # <<>>
    /\ Ends(frames[Len(frames)])
    /\ \A i \in 1..(Len(frames) - 1) : ~Ends(frames[i])

DeliveredWhole ==
    IsAnswer(body) /\ read = Len(Wire(body)) =>
        pc = "over" /\ made = FirstCalls(body, Len(body))

\* The chunk that completes an answer completes what is told of it.
LEMMA LastChunkDelivers ==
    ASSUME SseInv, NEW n \in 1..MaxChunk, ReadChunk(n)
    PROVE  DeliveredWhole'
<1> SUFFICES ASSUME IsAnswer(body), read' = FrameSize * Len(body)
             PROVE  pc' = "over" /\ made' = FirstCalls(body, Len(body))
  <2>1. body' = body /\ Len(Wire(body)) = FrameSize * Len(body)
    BY ReadChunkDrains, ReadOnWire DEF SseInv
  <2> QED BY <2>1 DEF DeliveredWhole, IsAnswer, Ends, FirstCalls
<1>1. body \in Seq(Frame) /\ Len(body) \in Nat /\ Len(body) > 0
  BY DEF SseInv, SseTypeOK, IsAnswer
<1>2. PICK loop \in LoopState :
        /\ made' = loop.calls
        /\ pc' = IF loop.finished THEN "over" ELSE pc
        /\ \/ Running(body, read', read' \div FrameSize, loop)
           \/ \E g \in 1..Len(body) : Ended(body, g, loop)
  BY ReadChunkDrains
<1>3. read' \div FrameSize = Len(body)
  BY <1>1 DEF FrameSize
<1>4. ~Running(body, read', read' \div FrameSize, loop)
  <2>1. Len(body) \in 1..Len(body)
    BY <1>1
  <2>2. ~Running(body, read', Len(body), loop)
    BY <2>1 DEF Running, IsAnswer
  <2> QED BY <1>3, <2>2
<1>5. PICK g \in 1..Len(body) : Ended(body, g, loop)
  BY <1>2, <1>4
<1>6. g = Len(body)
  BY <1>1, <1>5 DEF Ended, IsAnswer
<1> QED BY <1>2, <1>5, <1>6 DEF Ended

\* An answer that has come whole is told whole: from then on the callbacks are
\* exactly those of its frames, the last of them the end the API meant, and no
\* abort, failure or end of the connection is told in its place.
THEOREM WholeAnswersAreDelivered == SseSpec => []DeliveredWhole
<1>1. SseInit => DeliveredWhole
  <2> SUFFICES ASSUME SseInit, IsAnswer(body), read = Len(Wire(body))
               PROVE  FALSE
    BY DEF DeliveredWhole
  <2>1. body \in Seq(Frame) /\ read = 0
    BY BodyAssumption DEF SseInit
  <2>2. Len(Wire(body)) = FrameSize * Len(body)
    BY <2>1, WireType
  <2>3. Len(body) \in Nat
    BY <2>1
  <2>4. FrameSize * Len(body) = 0
    BY <2>1, <2>2
  <2>5. Len(body) = 0
    BY <2>3, <2>4 DEF FrameSize
  <2>6. body = <<>>
    BY <2>1, <2>5
  <2> QED BY <2>6 DEF IsAnswer
<1>2. SseInv /\ DeliveredWhole /\ [SseNext]_sseVars => DeliveredWhole'
  <2> SUFFICES ASSUME SseInv, DeliveredWhole, [SseNext]_sseVars
               PROVE  DeliveredWhole'
    OBVIOUS
  <2>1. CASE \E n \in 1..MaxChunk : ReadChunk(n)
    BY <2>1, LastChunkDelivers
  <2>2. CASE pc # "over" /\ UNCHANGED <<body, read>>
    BY <2>2 DEF DeliveredWhole, IsAnswer, Ends
  <2>3. CASE UNCHANGED sseVars
    BY <2>3 DEF sseVars, DeliveredWhole, IsAnswer, Ends, FirstCalls
  <2> QED BY <2>1, <2>2, <2>3 DEF SseNext, Answered, Rejected, ReadEnd, Abort
<1> QED BY <1>1, <1>2, SseInvariant, PTL DEF SseSpec
=============================================================================
