------------------------------ MODULE ChatView ------------------------------
(***************************************************************************)
(* The chat screen of the SPA (spa/src/components/ChatView.tsx) with the   *)
(* outcomes streamChatCompletion (api/chat.ts) can report to it and the    *)
(* limits the API (services/api/app/models.py) puts on what it posts.      *)
(*                                                                         *)
(* submit and newChat are async callbacks: each is suspended at            *)
(* getAccessToken, which refreshes the token over the network when it is   *)
(* about to expire, and meanwhile the user goes on clicking.  What submit  *)
(* uses after the await is what its closure captured before it.            *)
(***************************************************************************)
EXTENDS Admission

CONSTANTS
    MaxSubmissions,   \* bound: how often the user submits
    MaxChats          \* bound: how often the user starts a new chat

ASSUME BoundsAssumption == MaxSubmissions \in Nat /\ MaxChats \in Nat

Submission == 1..MaxSubmissions

VARIABLES
    mounted,      \* the component is on the screen
    messages,     \* the transcript shown
    isStreaming,  \* the composer shows the stop button
    error,        \* the error strip is shown
    chat,         \* sessionId, as the count of new chats
    clearing,     \* how many calls of newChat wait for their token
    abortRef,     \* the submission whose controller is in abortRef, or None
    phase,        \* phase[s]: where the async submit of s is
    captured,     \* captured[s]: messages in the closure of s
    history,      \* history[s]: the messages s posts
    aborted       \* aborted[s]: the controller of s was aborted

screen == <<mounted, messages, isStreaming, error, chat, clearing, abortRef>>
submits == <<phase, captured, history, aborted>>
vars == <<screen, submits>>

Phase == {"idle", "token", "open", "failed", "login", "over"}

\* A bubble: whose turn it is of, whether it has a text, whether its cursor
\* blinks.
Bubble == [role : {"user", "assistant"}, turn : Submission,
           filled : BOOLEAN, streaming : BOOLEAN]

TypeOK ==
    /\ mounted \in BOOLEAN /\ isStreaming \in BOOLEAN /\ error \in BOOLEAN
    /\ clearing \in 0..MaxChats
    /\ messages \in Seq(Bubble)
    /\ chat \in 0..MaxChats
    /\ abortRef \in Submission \cup {None}
    /\ phase \in [Submission -> Phase]
    /\ captured \in [Submission -> Seq(Bubble)]
    /\ history \in [Submission -> Seq(Bubble)]
    /\ aborted \in [Submission -> BOOLEAN]

Init ==
    /\ mounted = TRUE
    /\ messages = <<>>
    /\ isStreaming = FALSE
    /\ error = FALSE
    /\ chat = 0
    /\ clearing = 0
    /\ abortRef = None
    /\ phase = [s \in Submission |-> "idle"]
    /\ captured = [s \in Submission |-> <<>>]
    /\ history = [s \in Submission |-> <<>>]
    /\ aborted = [s \in Submission |-> FALSE]

-----------------------------------------------------------------------------
\* Updates of the transcript address a bubble by its id; a bubble that is no
\* longer there is not brought back.
OwnBubble(s, b) == b.turn = s /\ b.role = "assistant"

AppendToAssistant(s) ==
    messages' = [i \in DOMAIN messages |->
                    IF OwnBubble(s, messages[i])
                    THEN [messages[i] EXCEPT !.filled = TRUE]
                    ELSE messages[i]]

\* Wrong: the bubble is looked up by the id of the user's message.
FinalizeNobody(s) ==
    messages' = [i \in DOMAIN messages |->
                    IF messages[i].turn = s /\ messages[i].role = "user"
                    THEN [messages[i] EXCEPT !.streaming = FALSE]
                    ELSE messages[i]]

FinalizeAssistant(s) ==
    messages' = [i \in DOMAIN messages |->
                    IF OwnBubble(s, messages[i])
                    THEN [messages[i] EXCEPT !.streaming = FALSE]
                    ELSE messages[i]]

\* abortRef.current?.abort()
AbortCurrent ==
    aborted' = IF abortRef = None THEN aborted ELSE [aborted EXCEPT ![abortRef] = TRUE]

\* Wrong: the composer is not reset.
SettleBusy(s) ==
    /\ FinalizeAssistant(s)
    /\ abortRef' = None
    /\ UNCHANGED isStreaming

\* Wrong: the controller of the stream that ended is kept.
SettleArmed(s) ==
    /\ FinalizeAssistant(s)
    /\ isStreaming' = FALSE
    /\ UNCHANGED abortRef

\* What onDone and onError both do, whichever stream is the current one.
Settle(s) ==
    /\ FinalizeAssistant(s)
    /\ isStreaming' = FALSE
    /\ abortRef' = None

Goto(s, label) == phase' = [phase EXCEPT ![s] = label]

\* The component leaves the screen and its unmount effect runs.
Unmount ==
    /\ mounted' = FALSE
    /\ IF mounted THEN AbortCurrent ELSE UNCHANGED aborted

-----------------------------------------------------------------------------
\* submit, up to its await.  Submissions are numbered as they are made.
Submit(s) ==
    /\ mounted
    /\ phase[s] = "idle"
    /\ \A q \in Submission : q < s => phase[q] # "idle"
    /\ ~isStreaming
    /\ error' = FALSE
    /\ phase' = [phase EXCEPT ![s] = "token"]
    /\ captured' = [captured EXCEPT ![s] = messages]
    /\ UNCHANGED <<mounted, messages, isStreaming, chat, clearing, abortRef,
                   history, aborted>>

\* getAccessToken gives no token: useAuth drops the session, the login screen
\* replaces the chat and submit returns.
TokenDenied(s) ==
    /\ phase[s] = "token"
    /\ phase' = [phase EXCEPT ![s] = "over"]
    /\ Unmount
    /\ UNCHANGED <<messages, isStreaming, error, chat, clearing, abortRef,
                   captured, history>>

\* Wrong: bubbles without a text are left out of what is posted.
SendFilled(s) ==
    LET userMsg == [role |-> "user", turn |-> s, filled |-> TRUE, streaming |-> FALSE]
        assistantMsg == [role |-> "assistant", turn |-> s, filled |-> FALSE,
                         streaming |-> TRUE]
        HasText(b) == b.filled
    IN  /\ phase[s] = "token"
        /\ phase' = [phase EXCEPT ![s] = "open"]
        /\ history' = [history EXCEPT ![s] = Append(SelectSeq(captured[s], HasText), userMsg)]
        /\ messages' = messages \o <<userMsg, assistantMsg>>
        /\ isStreaming' = TRUE
        /\ abortRef' = s
        /\ UNCHANGED <<mounted, error, chat, clearing, captured, aborted>>

\* getAccessToken gives a token: submit goes on and posts the transcript.
Send(s) ==
    LET userMsg == [role |-> "user", turn |-> s, filled |-> TRUE, streaming |-> FALSE]
        assistantMsg == [role |-> "assistant", turn |-> s, filled |-> FALSE,
                         streaming |-> TRUE]
    IN  /\ phase[s] = "token"
        /\ phase' = [phase EXCEPT ![s] = "open"]
        /\ history' = [history EXCEPT ![s] = Append(captured[s], userMsg)]
        /\ messages' = messages \o <<userMsg, assistantMsg>>
        /\ isStreaming' = TRUE
        /\ abortRef' = s
        /\ UNCHANGED <<mounted, error, chat, clearing, captured, aborted>>

\* Whether the API accepts the messages that are posted: a bubble posts its role
\* and its text, which is empty or not.
RequestOK(msgs) ==
    ValidMessages([i \in DOMAIN msgs |->
        [role |-> msgs[i].role, chars |-> IF msgs[i].filled THEN 1 ELSE 0]])

Token(s) ==
    /\ phase[s] = "open"
    /\ RequestOK(history[s])
    /\ ~aborted[s]
    /\ AppendToAssistant(s)
    /\ UNCHANGED <<mounted, isStreaming, error, chat, clearing, abortRef, submits>>

\* onDone: the end of an answer, which may be empty.
Done(s) ==
    /\ phase[s] = "open"
    /\ RequestOK(history[s])
    /\ Settle(s) /\ Goto(s, "over")
    /\ UNCHANGED <<mounted, error, chat, clearing, captured, history, aborted>>

\* onError with a message to show: a 422 for what RequestOK refuses, a 429, a
\* 5xx, an error frame, a failed read.
Fail(s) ==
    /\ phase[s] = "open"
    /\ Settle(s) /\ Goto(s, "failed")
    /\ error' = TRUE
    /\ UNCHANGED <<mounted, chat, clearing, captured, history, aborted>>

\* onError('unauthorized'): a redirect to the login page is begun, and the user
\* may go on until the page is left.
Unauthorized(s) ==
    /\ phase[s] = "open"
    /\ Settle(s) /\ Goto(s, "login")
    /\ UNCHANGED <<mounted, error, chat, clearing, captured, history, aborted>>

Redirect(s) ==
    /\ phase[s] = "login"
    /\ Goto(s, "over")
    /\ Unmount
    /\ UNCHANGED <<messages, isStreaming, error, chat, clearing, abortRef,
                   captured, history>>

\* onError('aborted'), which shows nothing.
AbortSeen(s) ==
    /\ phase[s] = "open"
    /\ aborted[s]
    /\ Settle(s) /\ Goto(s, "over")
    /\ UNCHANGED <<mounted, error, chat, clearing, captured, history, aborted>>

Stop ==
    /\ mounted
    /\ isStreaming
    /\ AbortCurrent
    /\ UNCHANGED <<screen, phase, captured, history>>

\* newChat, up to its await; its button is disabled on an empty chat.
NewChat ==
    /\ mounted
    /\ chat + clearing < MaxChats
    /\ messages # <<>> \/ isStreaming
    /\ clearing' = clearing + 1
    /\ AbortCurrent
    /\ UNCHANGED <<mounted, messages, isStreaming, error, chat, abortRef,
                   phase, captured, history>>

\* Wrong: the session id is made anew when the transcript is cleared as well.
ClearTwice ==
    /\ clearing > 0
    /\ clearing' = clearing - 1
    /\ chat' = chat + 2
    /\ messages' = <<>>
    /\ error' = FALSE
    /\ UNCHANGED <<mounted, isStreaming, abortRef, submits>>

\* With or without a token: a new session id and an empty transcript.  Without
\* one useAuth has dropped the session, as for submit.
Clear ==
    /\ clearing > 0
    /\ clearing' = clearing - 1
    /\ chat' = chat + 1
    /\ messages' = <<>>
    /\ error' = FALSE
    /\ Unmount \/ UNCHANGED <<mounted, aborted>>
    /\ UNCHANGED <<isStreaming, abortRef, phase, captured, history>>

SignOut ==
    /\ mounted
    /\ Unmount
    /\ UNCHANGED <<messages, isStreaming, error, chat, clearing, abortRef,
                   phase, captured, history>>

SubmissionStep(s) ==
    \/ Submit(s)
    \/ TokenDenied(s)
    \/ Send(s)
    \/ Token(s)
    \/ Done(s)
    \/ Fail(s)
    \/ Unauthorized(s)
    \/ Redirect(s)
    \/ AbortSeen(s)

Next ==
    \/ \E s \in Submission : SubmissionStep(s)
    \/ Stop
    \/ NewChat
    \/ Clear
    \/ SignOut

\* getAccessToken answers, and every stream ends (EveryRequestEnds in ChatApi,
\* or the connection fails).
Fairness ==
    \A s \in Submission :
        /\ WF_vars(Send(s) \/ TokenDenied(s))
        /\ WF_vars(Done(s) \/ Fail(s) \/ Unauthorized(s))

Spec == Init /\ [][Next]_vars
FairSpec == Spec /\ Fairness

-----------------------------------------------------------------------------
Open(s) == phase[s] = "open"

\* The stop button shows only while an answer is awaited, even when two
\* submissions overlap.
SpinnerMeansWork == isStreaming => \E s \in Submission : Open(s)

\* What the stop button would abort is a stream that is still open.
StopHasTarget == abortRef # None => Open(abortRef)

\* A blinking cursor belongs to a stream that is still open.
CursorMeansWork ==
    \A i \in DOMAIN messages : messages[i].streaming => Open(messages[i].turn)

\* What is posted alternates between user and assistant, beginning and ending
\* with the user, however submissions, failures and new chats interleave: the
\* chat templates of models expect that.
HistoryAlternates ==
    \A s \in Submission : \A i \in DOMAIN history[s] :
        history[s][i].role = (IF i % 2 = 1 THEN "user" ELSE "assistant")
        /\ Len(history[s]) % 2 = 1

\* The composer becomes usable again after every submission.
SpinnerEnds == isStreaming ~> ~isStreaming

\* "Please wait a moment and try again": that a turn failed is no reason for the
\* API to refuse the next one, which posts what the failed one left on the screen
\* and is refused as a whole if a message of it has no text.
FailedTurnsCanBeRetried ==
    \A s \in Submission : Open(s) =>
        \A i \in DOMAIN history[s] :
            phase[history[s][i].turn] = "failed" => history[s][i].filled
=============================================================================
