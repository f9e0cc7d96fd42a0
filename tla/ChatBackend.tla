---------------------------- MODULE ChatBackend ----------------------------
(***************************************************************************)
(* The replicas of the API with their memories: the requests of ChatApi,   *)
(* each a turn of a session, and the SessionMemory of each      *)
(* replica, under one clock.                                               *)
(*                                                                         *)
(* The route syncs the memory before it asks the limiter, and the reply is *)
(* appended when the answer is complete: between the two other turns of    *)
(* the session, sweeps, forget and time go their way.  Sessions have no    *)
(* affinity: any replica may get any turn.                                 *)
(***************************************************************************)
EXTENDS ChatApi, SessionMemory

CONSTANTS
    NoRequest,          \* no turn has been synced
    SessionOf,          \* SessionOf[r]: the session_id of r
    TranscriptOf,       \* TranscriptOf[r]: the messages r posts
    ReplyOf,            \* ReplyOf[r]: the text vLLM answers r with
    GenerationSeconds,  \* GENERATION_TIMEOUT_SECONDS
    MaxTime             \* bound: the clock

ASSUME TurnAssumption ==
    /\ NoRequest \notin Request
    /\ SessionOf \in [Request -> Session]
    /\ TranscriptOf \in [Request -> Seq(Message)]
    /\ ReplyOf \in [Request -> Content \ {NoContent}]

\* As deployed: an answer takes 300 s at most, a session lives 1800 s.
ASSUME TimeoutAssumption == GenerationSeconds \in Nat \ {0} /\ GenerationSeconds <= Ttl

VARIABLES
    memory,        \* memory[p]: the store of replica p
    now,           \* time.monotonic
    began,         \* began[r]: when the generation timeout of r was entered
    conversation,  \* conversation[r]: what r is to be answered from
    \* history, for the properties alone
    latest,        \* latest[p][s]: the last turn of s that p synced
    replies        \* replies[p][s]: the turns answered since, in their order

memories == <<memory, conversation, latest, replies>>
backendVars == <<vars, memories, now, began>>

BackendInit ==
    /\ Init
    /\ memory = [p \in Replica |-> EmptyMemory]
    /\ now = 0
    /\ began = [r \in Request |-> 0]
    /\ conversation = [r \in Request |-> <<>>]
    /\ latest = [p \in Replica |-> [s \in Session |-> NoRequest]]
    /\ replies = [p \in Replica |-> [s \in Session |-> <<>>]]

-----------------------------------------------------------------------------
\* Wrong: what the session remembers comes before what is posted.
SyncTurnMerging(r, p) ==
    LET s == SessionOf[r]
    IN  /\ memory' = [memory EXCEPT ![p] = SyncedByMerging(@, s, TranscriptOf[r], now)]
        /\ conversation' = [conversation EXCEPT ![r] = memory'[p].entries[s].messages]
        /\ latest' = [latest EXCEPT ![p][s] = r]
        /\ replies' = [replies EXCEPT ![p][s] = <<>>]

\* The effective conversation of a turn.  (A request without a session_id is
\* answered from its own messages, and touches no memory.)
SyncTurn(r, p) ==
    LET s == SessionOf[r]
    IN  /\ memory' = [memory EXCEPT ![p] = Synced(@, s, TranscriptOf[r], now)]
        /\ conversation' = [conversation EXCEPT ![r] = memory'[p].entries[s].messages]
        /\ latest' = [latest EXCEPT ![p][s] = r]
        /\ replies' = [replies EXCEPT ![p][s] = <<>>]

\* The route up to its first await; complete_chat enters its timeout there.
HandleTurn(r, p) ==
    /\ Handle(r, p)
    /\ SyncTurn(r, p)
    /\ began' = [began EXCEPT ![r] = now]
    /\ UNCHANGED now

\* stream_chat enters its timeout.
StartTurn(r) ==
    /\ StartStream(r)
    /\ began' = [began EXCEPT ![r] = now]
    /\ UNCHANGED <<memories, now>>

\* Wrong: the reply goes to another session than the one the request named.
RememberElsewhere(r) ==
    LET p == at[r]
        s == SessionOf[r]
        stray == CHOOSE o \in Session : o # s
    IN  IF persisted'[r]
        THEN /\ memory' = [memory EXCEPT ![p] = Appended(@, stray, ReplyOf[r], now)]
             /\ replies' = [replies EXCEPT ![p][s] = Append(@, r)]
        ELSE UNCHANGED <<memory, replies>>

\* _remember, and its counterpart of a plain call: on the replica that
\* answered, and for the session the request named.
Remember(r) ==
    LET p == at[r]
        s == SessionOf[r]
    IN  IF persisted'[r]
        THEN /\ memory' = [memory EXCEPT ![p] = Appended(@, s, ReplyOf[r], now)]
             /\ replies' = [replies EXCEPT ![p][s] = Append(@, r)]
        ELSE UNCHANGED <<memory, replies>>

EndTurn(r) ==
    /\ ReadEnd(r) \/ CallReturns(r)
    /\ Remember(r)
    /\ UNCHANGED <<conversation, latest, now, began>>

\* Wrong: the timeout is one of each line.
ReadTurnRearmed(r) ==
    /\ \E content, counts \in BOOLEAN : ReadLine(r, content, counts)
    /\ began' = [began EXCEPT ![r] = now]
    /\ UNCHANGED <<memories, now>>

ReadTurn(r) ==
    /\ \E content, counts \in BOOLEAN : ReadLine(r, content, counts)
    /\ UNCHANGED <<memories, now, began>>

TimedOut(r) == now - began[r] >= GenerationSeconds

\* The steps of a request that leave the memory alone.
OtherStep(r) ==
    /\ \/ Abandon(r)
       \/ UpstreamOpens(r)
       \/ ReadGone(r)
       \/ ReadBroken(r)
       \/ UpstreamFails(r)
       \/ TimedOut(r) /\ GenerationTimeout(r)
       \/ Resume(r)
       \/ Cancel(r)
       \/ CallFails(r)
       \/ ClientLeaves(r)
    /\ UNCHANGED <<memories, now, began>>

\* A pod is replaced, and its memory with it.
RestartReplica(p) ==
    /\ Restart(p)
    /\ memory' = [memory EXCEPT ![p] = EmptyMemory]
    /\ UNCHANGED <<conversation, latest, replies, now, began>>

\* DELETE /api/v1/sessions/{session_id}, at the replica that gets it.
ForgetSession(s, p) ==
    /\ s \in Live(memory[p])
    /\ memory' = [memory EXCEPT ![p] = Forgotten(@, s)]
    /\ UNCHANGED <<vars, conversation, latest, replies, now, began>>

\* A server iterates a response at once, and the event loop keeps its
\* timeouts.
Tick ==
    /\ now < MaxTime
    /\ \A r \in Request :
        /\ pc[r] # "accepted"
        /\ pc[r] \in InTimeout \cup {"calling"} => ~TimedOut(r)
    /\ now' = now + 1
    /\ UNCHANGED <<vars, memories, began>>

TurnStep(r) ==
    \/ \E p \in Replica : HandleTurn(r, p)
    \/ StartTurn(r)
    \/ ReadTurn(r)
    \/ EndTurn(r)
    \/ OtherStep(r)

BackendNext ==
    \/ \E r \in Request : TurnStep(r)
    \/ \E p \in Replica : RestartReplica(p)
    \/ \E s \in Session, p \in Replica : ForgetSession(s, p)
    \/ Tick

BackendSpec == BackendInit /\ [][BackendNext]_backendVars

-----------------------------------------------------------------------------
\* "A turn is still answered correctly even if it lands on a cold replica or
\* after a pod restart": what it is answered from depends on what it posted
\* and on nothing the replica remembers or has forgotten.
AnyReplicaAnswersAlike ==
    \A r \in Request :
        pc[r] # "new" => conversation[r] = Window(Cleaned(TranscriptOf[r]))

\* What a replica remembers of a session is the window of the last transcript
\* posted there, whether that turn was answered or refused with a 429, with
\* the replies that were completed since: nothing of another session, of
\* another replica or of an answer that was cut.
MemoryIsTranscript ==
    \A p \in Replica : \A s \in Live(memory[p]) :
        LET Reply(r) == [role |-> "assistant", content |-> ReplyOf[r]]
            answers  == [i \in DOMAIN replies[p][s] |-> Reply(replies[p][s][i])]
        IN  /\ latest[p][s] # NoRequest
            /\ memory[p].entries[s].messages =
                    Window(Cleaned(TranscriptOf[latest[p][s]]) \o answers)

\* A session that has passed its time to live stays as it is until a sweep
\* takes it away or a new turn makes it anew: no reply comes so late that it
\* brings an expired session back.
NoReplyRevives ==
    [][\A p \in Replica : \A s \in Live(memory[p]) \cap Live(memory'[p]) :
        Expired(memory[p], s, now) =>
            \/ memory'[p].entries[s] = memory[p].entries[s]
            \/ memory'[p].entries[s].turns = 1 /\ \E r \in Request : HandleTurn(r, p)]_backendVars
=============================================================================
