---------------------------- MODULE SseContract ----------------------------
(***************************************************************************)
(* What services/api/README.md promises of the body of a streamed answer:  *)
(* token frames, then at most one usage frame, then done; an error frame   *)
(* instead of done when it fails; nothing after either.  A body may also   *)
(* be cut before its last frame.                                           *)
(***************************************************************************)
EXTENDS Sequences

CONSTANTS Request, ErrorFrame

VARIABLES
    body,    \* body[r]: the frames sent in answer to r
    stage    \* stage[r]: what the frames of r still may be

vars == <<body, stage>>

Init ==
    /\ body = [r \in Request |-> <<>>]
    /\ stage = [r \in Request |-> "tokens"]

Emit(r, frame, next) ==
    /\ body' = [body EXCEPT ![r] = Append(@, frame)]
    /\ stage' = [stage EXCEPT ![r] = next]

Token(r) == stage[r] = "tokens" /\ Emit(r, "token", "tokens")
Usage(r) == stage[r] = "tokens" /\ Emit(r, "usage", "usage")
Done(r)  == stage[r] \in {"tokens", "usage"} /\ Emit(r, "done", "over")
Error(r) == stage[r] = "tokens" /\ \E e \in ErrorFrame : Emit(r, e, "over")

\* The connection ends: the client left, or the server gave up.
Cut(r) ==
    /\ stage[r] # "over"
    /\ stage' = [stage EXCEPT ![r] = "over"]
    /\ UNCHANGED body

\* A process takes the answers it was giving with it.
CutAll(S) ==
    /\ stage' = [r \in Request |-> IF r \in S THEN "over" ELSE stage[r]]
    /\ UNCHANGED body

Next ==
    \/ \E r \in Request : Token(r) \/ Usage(r) \/ Done(r) \/ Error(r) \/ Cut(r)
    \/ \E S \in SUBSET Request : CutAll(S)

Spec == Init /\ [][Next]_vars
=============================================================================
