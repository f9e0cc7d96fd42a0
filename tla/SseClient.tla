----------------------------- MODULE SseClient -----------------------------
(***************************************************************************)
(* streamChatCompletion of spa/src/api/chat.ts: the request for a streamed *)
(* answer, the parser of its SSE frames and the callbacks it makes.        *)
(*                                                                         *)
(* The network hands the body over in chunks that end anywhere, in a frame *)
(* or in the blank line after it among other places, and may end the body  *)
(* anywhere.  The text of a frame is three parts and an empty line: its    *)
(* event line, the data line up to some place in its JSON, and the rest.   *)
(***************************************************************************)
EXTENDS Integers, Sequences, FiniteSetsExt

CONSTANTS
    Body,       \* the frame sequences a server sends
    MaxChunk    \* bound: the parts in one chunk

\* A frame has its event, and an id to tell token frames apart.
Frame == [event : {"token", "usage", "done", "error"}, id : Nat]

ASSUME BodyAssumption == Body \subseteq Seq(Frame) /\ MaxChunk \in Nat \ {0}

NoFrame == [event |-> "done", id |-> 0]
Newline == [part |-> "newline", frame |-> NoFrame]
Part == [part : {"event", "head", "tail", "newline"}, frame : Frame]

Text(frame) ==
    <<[part |-> "event", frame |-> frame], [part |-> "head", frame |-> frame],
      [part |-> "tail", frame |-> frame], Newline, Newline>>

\* The texts of the frames, one after the other.
FrameSize == 5
Wire(frames) ==
    [k \in 1..(FrameSize * Len(frames)) |->
        Text(frames[1 + ((k - 1) \div FrameSize)])[1 + ((k - 1) % FrameSize)]]

VARIABLES
    body,      \* what the server sends
    read,      \* how many parts of it have been read
    buffer,    \* the parts read that no frame has been made of
    made,      \* the callbacks made so far
    signal,    \* the signal of the request is aborted
    pc         \* where streamChatCompletion is

sseVars == <<body, read, buffer, made, signal, pc>>

\* A callback is the one called (onToken, onUsage, onDone, onError) and the frame
\* whose text it gets, or a fragment of one.
Fragment == 0
Settles(c) == c.call \in {"onDone", "onError"}

SseInit ==
    /\ body \in Body
    /\ read = 0
    /\ buffer = <<>>
    /\ made = <<>>
    /\ signal = FALSE
    /\ pc = "fetching"

-----------------------------------------------------------------------------
\* extractTokenText: no data is no text; JSON that does not parse is text.
DispatchToken(text) ==
    IF Len(text) = 1 THEN <<>>
    ELSE <<[call |-> "onToken",
            id   |-> IF Len(text) = 2 THEN Fragment ELSE text[1].frame.id]>>

\* A malformed usage frame is ignored.
DispatchUsage(text) ==
    IF Len(text) < 3 THEN <<>> ELSE <<[call |-> "onUsage", id |-> 0]>>

\* handleFrame: the callbacks for one frame, from the parts of its text, and
\* whether it finishes the stream.
Finishes(text) == text # <<>> /\ text[1].frame.event \in {"done", "error"}

EndCall == [done |-> "onDone", error |-> "onError"]

HandleFrame(text) ==
    IF text = <<>> THEN <<>>
    ELSE LET event == text[1].frame.event
         IN  IF event = "token" THEN DispatchToken(text)
             ELSE IF event = "usage" THEN DispatchUsage(text)
             ELSE <<[call |-> EndCall[event], id |-> 0]>>

Boundaries(parts) ==
    {i \in 1..(Len(parts) - 1) : parts[i] = Newline /\ parts[i + 1] = Newline}

\* One pass of the inner loop of parseSseStream: a frame that has its blank
\* line is handled; there is no pass without one, and none after a frame that
\* finishes the stream.
Pass(loop) ==
    LET end  == Min(Boundaries(loop.buffer))
        text == SubSeq(loop.buffer, 1, end - 1)
    IN  IF loop.finished \/ Boundaries(loop.buffer) = {}
        THEN loop
        ELSE [buffer   |-> SubSeq(loop.buffer, end + 2, Len(loop.buffer)),
              calls    |-> loop.calls \o HandleFrame(text),
              finished |-> Finishes(text)]

Entered(parts, calls) == [buffer |-> parts, calls |-> calls, finished |-> FALSE]

\* Wrong: one frame is handled in a chunk, and not all.
DrainOne(parts, calls) == Pass(Entered(parts, calls))

\* The inner loop.  A pass takes a part at least out of the buffer, so that
\* there are no more passes than parts.
Drain(parts, calls) ==
    LET after[k \in Nat] == IF k = 0 THEN Entered(parts, calls) ELSE Pass(after[k - 1])
    IN  after[Len(parts)]

\* buffer.trim()
Trimmed(parts) ==
    LET solid == {i \in DOMAIN parts : parts[i] # Newline}
    IN  IF solid = {} THEN <<>> ELSE SubSeq(parts, Min(solid), Max(solid))

-----------------------------------------------------------------------------
\* fetch resolves with a body to read.
Answered ==
    /\ pc = "fetching"
    /\ ~signal
    /\ pc' = "reading"
    /\ UNCHANGED <<body, read, buffer, made, signal>>

\* Wrong: an abort is nothing to tell the screen of.
RejectedUnlessAborted ==
    /\ pc # "over"
    /\ ~signal
    /\ made' = Append(made, [call |-> "onError", id |-> 0])
    /\ pc' = "over"
    /\ UNCHANGED <<body, read, buffer, signal>>

\* fetch rejects, or the status is not 2xx, or there is no body; or a read
\* rejects: the network failed, or the signal was aborted.
Rejected ==
    /\ pc # "over"
    /\ made' = Append(made, [call |-> "onError", id |-> 0])
    /\ pc' = "over"
    /\ UNCHANGED <<body, read, buffer, signal>>

\* Wrong: the chunk replaces what was left in the buffer.
ReadChunkAlone(n) ==
    /\ pc = "reading"
    /\ ~signal
    /\ read + n <= Len(Wire(body))
    /\ read' = read + n
    /\ LET drained == Drain(SubSeq(Wire(body), read + 1, read + n), made)
       IN  /\ buffer' = drained.buffer
           /\ made' = drained.calls
           /\ pc' = IF drained.finished THEN "over" ELSE pc
    /\ UNCHANGED <<body, signal>>

\* A chunk of n parts arrives, and all that follows up to the next read.
ReadChunk(n) ==
    /\ pc = "reading"
    /\ ~signal
    /\ read + n <= Len(Wire(body))
    /\ read' = read + n
    /\ LET drained == Drain(buffer \o SubSeq(Wire(body), read + 1, read + n), made)
       IN  /\ buffer' = drained.buffer
           /\ made' = drained.calls
           /\ pc' = IF drained.finished THEN "over" ELSE pc
    /\ UNCHANGED <<body, signal>>

\* Wrong: what is left in the buffer is forgotten, and nobody is told.
ReadEndSilently ==
    /\ pc = "reading"
    /\ ~signal
    /\ pc' = "over"
    /\ UNCHANGED <<body, read, buffer, made, signal>>

\* The body ends here: what is left in the buffer is handled as a frame, and
\* the stream is reported as done.
ReadEnd ==
    LET tail == Trimmed(buffer)
    IN  /\ pc = "reading"
        /\ ~signal
        /\ made' = made \o (IF tail = <<>> THEN <<>> ELSE HandleFrame(tail))
                        \o <<[call |-> "onDone", id |-> 0]>>
        /\ pc' = "over"
        /\ UNCHANGED <<body, read, buffer, signal>>

\* The user stops the answer or leaves the screen.
Abort ==
    /\ pc # "over"
    /\ ~signal
    /\ signal' = TRUE
    /\ UNCHANGED <<body, read, buffer, made, pc>>

SseNext ==
    \/ Answered
    \/ Rejected
    \/ \E n \in 1..MaxChunk : ReadChunk(n)
    \/ ReadEnd
    \/ Abort

\* A read resolves or rejects: the server ends every answer (EveryRequestEnds
\* of ChatApi), and the network may do so before.
SseFairness == WF_sseVars(Answered \/ Rejected \/ (\E n \in 1..MaxChunk : ReadChunk(n)) \/ ReadEnd)

SseSpec == SseInit /\ [][SseNext]_sseVars
SseFairSpec == SseSpec /\ SseFairness

-----------------------------------------------------------------------------
\* The callback for a frame that has been read to its end.
CallbackFor(frame) == HandleFrame(Text(frame))[1]

\* While the stream is read, the callbacks made are those of the frames whose
\* blank line has been read, in their order, each once: where the chunks end
\* does not show.
ChunksDoNotShow ==
    pc = "reading" => made = [i \in 1..(read \div FrameSize) |-> CallbackFor(body[i])]

\* The texts handed to the screen are the texts of the tokens sent, in order
\* and without gaps; a fragment of a token is the last text and stands for a
\* token that was cut.
IsToken(f) == f.event = "token"
IsText(c) == c.call = "onToken"
TextsArePrefix ==
    \A i \in DOMAIN made : IsText(made[i]) =>
        /\ i \in DOMAIN body /\ IsToken(body[i])
        /\ \A j \in 1..(i - 1) : IsToken(body[j]) => IsText(made[j])
        /\ \/ made[i].id = body[i].id
           \/ /\ made[i].id = Fragment
              /\ pc = "over"
              /\ \A j \in (i + 1)..Len(made) : ~IsText(made[j])

\* The screen gets its composer back once the stream is over, and hears of
\* nothing but the end after that; a tail that is itself an end is reported
\* twice, and never more often.
SettledAtTheEnd ==
    LET ends == {i \in DOMAIN made : Settles(made[i])}
    IN  /\ pc = "over" <=> ends # {}
        /\ \A i \in ends : i >= Len(made) - 1 /\ \A j \in i..Len(made) : j \in ends

\* Every request settles.
StreamSettles == pc # "over" ~> pc = "over"
=============================================================================
