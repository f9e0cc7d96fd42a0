------------------------------ MODULE ChatApi ------------------------------
(***************************************************************************)
(* POST /api/v1/chat/completions in the replicas of the API: the           *)
(* concurrency limiter (middleware.py), the route (main.py) and the        *)
(* streaming proxy to vLLM (inference.py), one request per id.             *)
(*                                                                         *)
(* The event loop runs a handler from one await to the next; an action is  *)
(* such a stretch.  Between two of them clients leave, upstream fails, the *)
(* generation timeout expires and replicas are replaced.  The memory of    *)
(* conversations is added by ChatBackend.                                  *)
(***************************************************************************)
EXTENDS Integers, Sequences, FiniteSets

CONSTANTS
    Request,         \* the requests for a completion
    Streaming,       \* those of them with "stream": true
    Replica,         \* the pods of the deployment
    NoReplica,       \* where a request is that has not arrived
    MaxConcurrent,   \* MAX_CONCURRENT_INFERENCE, as configured
    MaxTokens        \* bound: the token frames of one answer

ASSUME RequestAssumption == Streaming \subseteq Request
ASSUME ReplicaAssumption == NoReplica \notin Replica
ASSUME LimitAssumption == MaxConcurrent \in Int /\ MaxTokens \in Nat

\* InferenceLimiter lifts its setting to at least one slot.
Limit == IF MaxConcurrent < 1 THEN 1 ELSE MaxConcurrent

ErrorFrame == {"MODEL_UNAVAILABLE", "MODEL_TIMEOUT", "MODEL_ERROR"}
Frame == {"token", "usage", "done"} \cup ErrorFrame

VARIABLES
    pc,         \* pc[r]: the await the handler of r is at
    at,         \* at[r]: the replica that handles r
    gone,       \* gone[r]: the client of r has closed its connection
    usage,      \* usage[r]: upstream has reported its token counts
    frames,     \* frames[r]: the SSE frames sent
    persisted,  \* persisted[r]: the reply went to session memory
    inFlight    \* inFlight[p]: the slots the limiter of p counts as taken

vars == <<pc, at, gone, usage, frames, persisted, inFlight>>

\* At these awaits the generator exists, has started, and holds a slot.
InTimeout == {"opening", "reading", "token", "refused"}
Started == InTimeout \cup {"usage", "done", "error"}
\* All awaits at which a request holds a slot.
Holding == Started \cup {"accepted", "calling"}
Over == {"rejected", "closed", "broken", "abandoned", "answered", "failed", "lost"}

TypeOK ==
    /\ pc \in [Request -> {"new"} \cup Holding \cup Over]
    /\ at \in [Request -> Replica \cup {NoReplica}]
    /\ gone \in [Request -> BOOLEAN]
    /\ usage \in [Request -> BOOLEAN]
    /\ frames \in [Request -> Seq(Frame)]
    /\ persisted \in [Request -> BOOLEAN]
    /\ inFlight \in [Replica -> Nat]

Init ==
    /\ pc = [r \in Request |-> "new"]
    /\ at = [r \in Request |-> NoReplica]
    /\ gone = [r \in Request |-> FALSE]
    /\ usage = [r \in Request |-> FALSE]
    /\ frames = [r \in Request |-> <<>>]
    /\ persisted = [r \in Request |-> FALSE]
    /\ inFlight = [p \in Replica |-> 0]

-----------------------------------------------------------------------------
Goto(r, label) == pc' = [pc EXCEPT ![r] = label]

Yield(r, frame, label) ==
    /\ frames' = [frames EXCEPT ![r] = Append(@, frame)]
    /\ Goto(r, label)

\* InferenceLimiter.release never counts below zero.
Release(r) ==
    inFlight' = [inFlight EXCEPT ![at[r]] = IF @ > 0 THEN @ - 1 ELSE @]

\* The generator ends, by return, exception or aclose: the finally clause of
\* event_source releases the slot.
End(r, label) ==
    /\ Goto(r, label)
    /\ Release(r)
    /\ UNCHANGED <<at, gone, usage, frames, persisted>>

Close(r) == End(r, "closed")

HasReply(r) == frames[r] # <<>>

-----------------------------------------------------------------------------
\* Wrong: the limit is passed by one.
HandleOneMore(r, p) ==
    /\ pc[r] = "new"
    /\ at' = [at EXCEPT ![r] = p]
    /\ \/ /\ inFlight[p] > Limit
          /\ Goto(r, "rejected")
          /\ UNCHANGED inFlight
       \/ /\ inFlight[p] <= Limit
          /\ Goto(r, IF r \in Streaming THEN "accepted" ELSE "calling")
          /\ inFlight' = [inFlight EXCEPT ![p] = @ + 1]
    /\ UNCHANGED <<gone, usage, frames, persisted>>

\* The route up to its first await: try_acquire, and a 429 when it fails.
Handle(r, p) ==
    /\ pc[r] = "new"
    /\ at' = [at EXCEPT ![r] = p]
    /\ \/ /\ inFlight[p] >= Limit
          /\ Goto(r, "rejected")
          /\ UNCHANGED inFlight
       \/ /\ inFlight[p] < Limit
          /\ Goto(r, IF r \in Streaming THEN "accepted" ELSE "calling")
          /\ inFlight' = [inFlight EXCEPT ![p] = @ + 1]
    /\ UNCHANGED <<gone, usage, frames, persisted>>

\* The server begins to iterate event_source and stream_chat posts upstream.
StartStream(r) ==
    /\ pc[r] = "accepted"
    /\ Goto(r, "opening")
    /\ UNCHANGED <<at, gone, usage, frames, persisted, inFlight>>

\* The client left before that: the response is cancelled and its generator
\* dropped.  A generator that was never started has no finally to run.
Abandon(r) ==
    /\ pc[r] = "accepted"
    /\ gone[r]
    /\ Goto(r, "abandoned")
    /\ UNCHANGED <<at, gone, usage, frames, persisted, inFlight>>

\* Wrong: the status of upstream is the code of the frame.
UpstreamOpensUnmapped(r) ==
    /\ pc[r] = "opening"
    /\ \/ /\ Goto(r, "reading")
          /\ UNCHANGED frames
       \/ Yield(r, "HTTP_500", "refused")
    /\ UNCHANGED <<at, gone, usage, persisted, inFlight>>

\* vLLM answers the POST, with its stream or with a status of 400 or more.
UpstreamOpens(r) ==
    /\ pc[r] = "opening"
    /\ \/ /\ Goto(r, "reading")
          /\ UNCHANGED frames
       \/ Yield(r, "MODEL_ERROR", "refused")
    /\ UNCHANGED <<at, gone, usage, persisted, inFlight>>

\* A data line with content, with usage or with both; each line first asks
\* whether the client is still there.
ReadLine(r, content, counts) ==
    /\ pc[r] = "reading"
    /\ ~gone[r]
    /\ content \/ counts
    /\ usage' = [usage EXCEPT ![r] = @ \/ counts]
    /\ IF content
       THEN Len(frames[r]) < MaxTokens /\ Yield(r, "token", "token")
       ELSE UNCHANGED <<pc, frames>>
    /\ UNCHANGED <<at, gone, persisted, inFlight>>

\* Wrong: what the client saw of an answer is remembered when it leaves.
ReadGonePersisting(r) ==
    /\ pc[r] = "reading"
    /\ gone[r]
    /\ Goto(r, "closed")
    /\ Release(r)
    /\ persisted' = [persisted EXCEPT ![r] = HasReply(r)]
    /\ UNCHANGED <<at, gone, usage, frames>>

\* A line arrives and the client is gone: stop, with no frame.
ReadGone(r) ==
    /\ pc[r] = "reading"
    /\ gone[r]
    /\ Close(r)

\* A data line is JSON but not of the shape of a chunk: an exception that none
\* of the handlers of stream_chat names, and no frame.
ReadBroken(r) ==
    /\ pc[r] = "reading"
    /\ ~gone[r]
    /\ End(r, "broken")

\* [DONE], or the end of the body without it.  on_complete is called before
\* the client hears of the end, and not for an empty reply.
ReadEnd(r) ==
    /\ pc[r] = "reading"
    /\ persisted' = [persisted EXCEPT ![r] = HasReply(r)]
    /\ IF usage[r] THEN Yield(r, "usage", "usage") ELSE Yield(r, "done", "done")
    /\ UNCHANGED <<at, gone, usage, inFlight>>

\* Wrong: the generator goes on after the error frame of an exception.
UpstreamFailsAndGoesOn(r) ==
    /\ pc[r] \in {"opening", "reading"}
    /\ Yield(r, "MODEL_ERROR", "usage")
    /\ UNCHANGED <<at, gone, usage, persisted, inFlight>>

\* httpx raises while the POST or a line is awaited.
UpstreamFails(r) ==
    /\ \/ pc[r] = "opening" /\ Yield(r, "MODEL_UNAVAILABLE", "error")
       \/ /\ pc[r] \in {"opening", "reading"}
          /\ \E code \in {"MODEL_TIMEOUT", "MODEL_ERROR"} : Yield(r, code, "error")
    /\ UNCHANGED <<at, gone, usage, persisted, inFlight>>

\* Wrong: the timeout is entered only once upstream has answered.
GenerationTimeoutOnceOpen(r) ==
    /\ pc[r] \in InTimeout \ {"opening"}
    /\ IF pc[r] = "reading"
       THEN /\ Yield(r, "MODEL_TIMEOUT", "error")
            /\ UNCHANGED <<at, gone, usage, persisted, inFlight>>
       ELSE Close(r)

\* GENERATION_TIMEOUT_SECONDS have passed.  asyncio.timeout cancels the task:
\* in an await of stream_chat that becomes a TimeoutError and an error frame;
\* in the send of a frame stream_chat is suspended at its yield, and all it
\* sees is that it is closed.
GenerationTimeout(r) ==
    /\ pc[r] \in InTimeout
    /\ IF pc[r] \in {"opening", "reading"}
       THEN /\ Yield(r, "MODEL_TIMEOUT", "error")
            /\ UNCHANGED <<at, gone, usage, persisted, inFlight>>
       ELSE Close(r)

\* The send of a frame returns and the generator is resumed.
Resume(r) ==
    \/ /\ pc[r] = "token"
       /\ Goto(r, "reading")
       /\ UNCHANGED <<at, gone, usage, frames, persisted, inFlight>>
    \/ /\ pc[r] = "usage"
       /\ Yield(r, "done", "done")
       /\ UNCHANGED <<at, gone, usage, persisted, inFlight>>
    \/ /\ pc[r] \in {"refused", "error", "done"}
       /\ Close(r)

\* Wrong: the slot is released at the end of the generator, with no finally.
CancelKeepingSlot(r) ==
    /\ pc[r] \in Started
    /\ gone[r]
    /\ Goto(r, "closed")
    /\ UNCHANGED <<at, gone, usage, frames, persisted, inFlight>>

\* The server notices that the client has left and cancels the response.
Cancel(r) ==
    /\ pc[r] \in Started
    /\ gone[r]
    /\ Close(r)

\* stream: false.  complete_chat returns or raises, the slot is released, and
\* then the reply, if it has a text, is persisted.
CallReturns(r) ==
    /\ pc[r] = "calling"
    /\ Goto(r, "answered")
    /\ Release(r)
    /\ \E text \in BOOLEAN : persisted' = [persisted EXCEPT ![r] = text]
    /\ UNCHANGED <<at, gone, usage, frames>>

CallFails(r) ==
    /\ pc[r] = "calling"
    /\ Goto(r, "failed")
    /\ Release(r)
    /\ UNCHANGED <<at, gone, usage, frames, persisted>>

\* The user aborts, closes the tab or loses the network.
ClientLeaves(r) ==
    /\ pc[r] \in Holding
    /\ ~gone[r]
    /\ gone' = [gone EXCEPT ![r] = TRUE]
    /\ UNCHANGED <<pc, at, usage, frames, persisted, inFlight>>

\* The pod is replaced: its requests and its limiter are gone.
Restart(p) ==
    /\ \E r \in Request : at[r] = p /\ pc[r] # "lost"
    /\ pc' = [r \in Request |->
                IF at[r] = p /\ pc[r] \in Holding \cup {"abandoned"} THEN "lost" ELSE pc[r]]
    /\ inFlight' = [inFlight EXCEPT ![p] = 0]
    /\ UNCHANGED <<at, gone, usage, frames, persisted>>

RequestStep(r) ==
    \/ \E p \in Replica : Handle(r, p)
    \/ StartStream(r)
    \/ Abandon(r)
    \/ UpstreamOpens(r)
    \/ \E content, counts \in BOOLEAN : ReadLine(r, content, counts)
    \/ ReadGone(r)
    \/ ReadBroken(r)
    \/ ReadEnd(r)
    \/ UpstreamFails(r)
    \/ GenerationTimeout(r)
    \/ Resume(r)
    \/ Cancel(r)
    \/ CallReturns(r)
    \/ CallFails(r)
    \/ ClientLeaves(r)

Next ==
    \/ \E r \in Request : RequestStep(r)
    \/ \E p \in Replica : Restart(p)

\* The server iterates a response or drops it; the generation timeout and the
\* read timeout of the POST expire; a client reads what it is sent or leaves,
\* and the server notices that.
Fairness ==
    \A r \in Request :
        /\ WF_vars(StartStream(r) \/ Abandon(r))
        /\ WF_vars(GenerationTimeout(r))
        /\ WF_vars(CallFails(r))
        /\ WF_vars(pc[r] \in {"usage", "error", "done"} /\ (Resume(r) \/ Cancel(r)))

Spec == Init /\ [][Next]_vars
FairSpec == Spec /\ Fairness

-----------------------------------------------------------------------------
HoldersOf(p) == {r \in Request : at[r] = p /\ pc[r] \in Holding}
AbandonedAt(p) == {r \in Request : at[r] = p /\ pc[r] = "abandoned"}

\* The counter of each limiter is the number of requests that took a slot
\* there and did not give it back, however they ended: no end of a stream
\* that started forgets its slot or gives it back twice.
SlotsAccounted ==
    \A p \in Replica : inFlight[p] = Cardinality(HoldersOf(p) \cup AbandonedAt(p))

\* No replica runs more inference requests than its limit.
LimitHolds == \A p \in Replica : Cardinality(HoldersOf(p)) <= Limit

\* Done is promised only after the reply is in memory; a reply that failed or
\* was cut short is not remembered.
Sent(r, F) == \E i \in DOMAIN frames[r] : frames[r][i] \in F
RememberedIffComplete ==
    \A r \in Streaming :
        /\ Sent(r, {"done"}) /\ Sent(r, {"token"}) => persisted[r]
        /\ persisted[r] => Sent(r, {"token"}) /\ Sent(r, {"usage", "done"}) /\ ~Sent(r, ErrorFrame)

\* The frames of every stream are what the README promises: ChatApi
\* implements SseContract.
StageOf(label) ==
    CASE label \in {"done", "error", "refused", "closed", "broken", "abandoned", "lost"} -> "over"
      [] label = "usage" -> "usage"
      [] OTHER -> "tokens"

Contract == INSTANCE SseContract WITH
    body <- frames,
    stage <- [r \in Request |-> StageOf(pc[r])]

ContractSpec == Contract!Spec

\* Every request that arrives comes to an end, although upstream may hang,
\* fail or stream for ever, and although clients may stop reading.
EveryRequestEnds ==
    \A r \in Request : (pc[r] # "new") ~> (pc[r] \in Over)

\* A full limiter empties again, as the 429 tells its client, unless all its
\* slots belong to abandoned streams.
SaturationEnds ==
    \A p \in Replica : (inFlight[p] >= Limit) ~> (inFlight[p] < Limit)
SaturationEndsUnlessAbandoned ==
    \A p \in Replica :
        (inFlight[p] >= Limit) ~> (inFlight[p] < Limit \/ AbandonedAt(p) # {})

\* A stream that ends while its client is there ends with done or with one
\* error frame.  (Not said of a stream that broke: no document has a word on
\* lines of upstream that are no chunks.)
FailureIsReported ==
    \A r \in Streaming :
        pc[r] = "closed" /\ ~gone[r] => Sent(r, {"done"} \cup ErrorFrame)
=============================================================================
