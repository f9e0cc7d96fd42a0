------------------------- MODULE ChatBackendProofs -------------------------
(***************************************************************************)
(* What holds of the route and of the memories it works with, for any      *)
(* requests, replicas, sessions and limits.  Of the route alone: the       *)
(* limiters account for every slot and are never exceeded, memory is given *)
(* complete replies only, and the streams keep the SSE contract.  Of the   *)
(* replicas with their memories: they implement the route, answer every    *)
(* turn from what it posted, and remember what the turns say and no more;  *)
(* each memory keeps what a store promises, and takes a reply once, where  *)
(* it was given.                                                           *)
(***************************************************************************)
EXTENDS ChatBackend, SessionMemoryProofs, FiniteSetTheorems, SequenceTheorems, TLAPS

-----------------------------------------------------------------------------
(* The route: its slots.                                                   *)

\* The awaits at which the limiter counts a slot for the request.
Counted == Holding \cup {"abandoned"}
Slots(p) == {r \in Request : at[r] = p /\ pc[r] \in Counted}

\* A request that has a slot has it at a replica.
Placed == \A r \in Request : pc[r] \in Counted => at[r] \in Replica

SlotCounts ==
    \A p \in Replica :
        /\ IsFiniteSet(Slots(p))
        /\ inFlight[p] = Cardinality(Slots(p))
        /\ inFlight[p] <= Limit

IInv == TypeOK /\ Placed /\ SlotCounts

USE DEF Goto, Yield, End

\* The limit that a limiter works with is a positive natural.
LEMMA LimitType == Limit \in Nat /\ Limit >= 1
  BY LimitAssumption DEF Limit

\* An action that moves a request that has a slot to where it still has it
\* leaves the slots as they are.
LEMMA MoveOK ==
    ASSUME IInv, NEW r \in Request, NEW label \in Holding \cup Over,
           pc' = [pc EXCEPT ![r] = label], UNCHANGED <<at, gone, inFlight>>,
           frames' \in [Request -> Seq(Frame)],
           usage' \in [Request -> BOOLEAN], persisted' \in [Request -> BOOLEAN],
           pc[r] \in Counted, label \in Counted
    PROVE  IInv'
<1> TypeOK'
  <2>1. pc' \in [Request -> {"new"} \cup Holding \cup Over]
    BY DEF IInv, TypeOK
  <2> QED BY <2>1 DEF IInv, TypeOK
<1>1. \A q \in Request : pc'[q] \in Counted <=> pc[q] \in Counted
  BY DEF IInv, TypeOK
<1>2. \A p : Slots(p)' = Slots(p)
  BY <1>1 DEF Slots
<1>3. Placed'
  BY <1>1 DEF IInv, Placed
<1>4. SlotCounts'
  BY <1>2 DEF IInv, SlotCounts
<1> QED BY <1>3, <1>4 DEF IInv

\* An action that ends a request that has a slot, and releases it.
LEMMA ReleaseOK ==
    ASSUME IInv, TypeOK', NEW r \in Request, NEW label,
           pc' = [pc EXCEPT ![r] = label], at' = at, Release(r),
           pc[r] \in Counted, label \notin Counted
    PROVE  IInv'
<1>1. at[r] \in Replica /\ r \in Slots(at[r])
  BY DEF IInv, Placed, Slots
<1>2. /\ IsFiniteSet(Slots(at[r]))
      /\ Cardinality(Slots(at[r]) \ {r}) = Cardinality(Slots(at[r])) - 1
      /\ IsFiniteSet(Slots(at[r]) \ {r})
      /\ Cardinality(Slots(at[r]) \ {r}) \in Nat
      /\ inFlight[at[r]] = Cardinality(Slots(at[r]))
  <2>1. IsFiniteSet(Slots(at[r])) /\ inFlight[at[r]] = Cardinality(Slots(at[r]))
    BY <1>1 DEF IInv, SlotCounts
  <2>2. /\ Cardinality(Slots(at[r]) \ {r}) = Cardinality(Slots(at[r])) - 1
        /\ IsFiniteSet(Slots(at[r]) \ {r})
    BY <1>1, <2>1, FS_RemoveElement
  <2> QED BY <2>1, <2>2, FS_CardinalityType
<1>3. /\ Slots(at[r])' = Slots(at[r]) \ {r}
      /\ \A p \in Replica : p # at[r] => Slots(p)' = Slots(p)
  BY DEF Slots, IInv, TypeOK
<1>4. inFlight[at[r]] \in Nat /\ inFlight \in [Replica -> Nat]
  BY <1>1 DEF IInv, TypeOK
<1>5. inFlight[at[r]] > 0
  BY <1>2, <1>4
<1>6. /\ inFlight'[at[r]] = inFlight[at[r]] - 1
      /\ \A p \in Replica : p # at[r] => inFlight'[p] = inFlight[p]
  BY <1>1, <1>4, <1>5 DEF Release
<1>7. SlotCounts'
  <2> SUFFICES ASSUME NEW p \in Replica
               PROVE  /\ IsFiniteSet(Slots(p)')
                      /\ inFlight'[p] = Cardinality(Slots(p)')
                      /\ inFlight'[p] <= Limit
    BY DEF SlotCounts
  <2>1. inFlight[p] <= Limit /\ IsFiniteSet(Slots(p)) /\ inFlight[p] = Cardinality(Slots(p))
    BY DEF IInv, SlotCounts
  <2>2. CASE p = at[r]
    <3>1. inFlight'[p] = Cardinality(Slots(p)') /\ IsFiniteSet(Slots(p)')
      BY <1>2, <1>3, <1>6, <2>2
    <3>2. inFlight'[p] <= Limit
      BY <1>4, <1>6, <2>1, <2>2, LimitType
    <3> QED BY <3>1, <3>2
  <2>3. CASE p # at[r]
    BY <1>3, <1>6, <2>1, <2>3
  <2> QED BY <2>2, <2>3
<1>8. Placed'
  BY DEF IInv, TypeOK, Placed
<1> QED BY <1>7, <1>8 DEF IInv

\* The finally of event_source ends a request and gives its slot back.
LEMMA EndOK ==
    ASSUME IInv, NEW r \in Request, NEW label \in {"closed", "broken"}, End(r, label),
           pc[r] \in Counted
    PROVE  IInv'
<1>1. inFlight' \in [Replica -> Nat]
  <2>1. at[r] \in Replica /\ inFlight \in [Replica -> Nat]
    BY DEF IInv, TypeOK, Placed
  <2>2. inFlight[at[r]] \in Nat
    BY <2>1
  <2>3. (IF inFlight[at[r]] > 0 THEN inFlight[at[r]] - 1 ELSE inFlight[at[r]]) \in Nat
    BY <2>2
  <2> QED BY <2>1, <2>3 DEF Release
<1>2. TypeOK'
  <2>1. pc' \in [Request -> {"new"} \cup Holding \cup Over]
    BY DEF IInv, TypeOK, Over
  <2> QED BY <1>1, <2>1 DEF IInv, TypeOK
<1>3. label \notin Counted
  BY DEF Counted, Holding, Started, InTimeout
<1> QED BY <1>2, <1>3, ReleaseOK

\* try_acquire takes a slot only below the limit.
LEMMA HandleOK ==
    ASSUME IInv, NEW r \in Request, NEW p \in Replica, Handle(r, p)
    PROVE  IInv'
<1>1. /\ pc[r] = "new" /\ at' = [at EXCEPT ![r] = p]
      /\ "new" \notin Counted /\ "rejected" \notin Counted
      /\ "accepted" \in Counted /\ "calling" \in Counted
  BY DEF Handle, Counted, Holding, Started, InTimeout
<1>2. inFlight' \in [Replica -> Nat]
  <2>1. inFlight \in [Replica -> Nat] /\ inFlight[p] + 1 \in Nat
    BY DEF IInv, TypeOK
  <2> QED BY <2>1 DEF Handle
<1>3. TypeOK'
  <2>1. pc' \in [Request -> {"new"} \cup Holding \cup Over]
    BY DEF Handle, IInv, TypeOK, Holding, Over
  <2>2. at' \in [Request -> Replica \cup {NoReplica}]
    BY <1>1 DEF IInv, TypeOK
  <2> QED BY <1>2, <2>1, <2>2 DEF Handle, IInv, TypeOK
<1>4. /\ \A q \in Replica : r \notin Slots(q)
      /\ \A q \in Replica : IsFiniteSet(Slots(q))
      /\ \A q \in Replica : inFlight[q] \in Nat /\ inFlight[q] <= Limit
  BY <1>1 DEF Slots, IInv, TypeOK, SlotCounts
<1>5. CASE inFlight[p] >= Limit /\ pc' = [pc EXCEPT ![r] = "rejected"] /\ inFlight' = inFlight
  <2>1. \A q \in Replica : Slots(q)' = Slots(q)
    BY <1>1, <1>5 DEF Slots, IInv, TypeOK
  <2>2. Placed'
    BY <1>1, <1>5 DEF IInv, TypeOK, Placed
  <2> QED BY <1>3, <1>5, <2>1, <2>2 DEF IInv, SlotCounts
<1>6. CASE /\ inFlight[p] < Limit
           /\ pc' = [pc EXCEPT ![r] = IF r \in Streaming THEN "accepted" ELSE "calling"]
           /\ inFlight' = [inFlight EXCEPT ![p] = @ + 1]
  <2>1. pc'[r] \in Counted /\ \A q \in Request : q # r => pc'[q] = pc[q]
    BY <1>1, <1>6 DEF IInv, TypeOK
  <2>2. at'[r] = p /\ \A q \in Request : q # r => at'[q] = at[q]
    BY <1>1 DEF IInv, TypeOK
  <2>3. Slots(p)' = Slots(p) \cup {r} /\ \A q \in Replica : q # p => Slots(q)' = Slots(q)
    BY <1>1, <2>1, <2>2 DEF Slots
  <2>4. IsFiniteSet(Slots(p)') /\ Cardinality(Slots(p)') = Cardinality(Slots(p)) + 1
    BY <1>4, <2>3, FS_AddElement
  <2>5. inFlight'[p] = inFlight[p] + 1 /\ \A q \in Replica : q # p => inFlight'[q] = inFlight[q]
    BY <1>6 DEF IInv, TypeOK
  <2>6. inFlight'[p] <= Limit
    BY <1>4, <1>6, <2>5, LimitType
  <2>7. SlotCounts'
    BY <2>3, <2>4, <2>5, <2>6 DEF IInv, SlotCounts
  <2>8. Placed'
    BY <2>1, <2>2 DEF IInv, Placed
  <2> QED BY <1>3, <2>7, <2>8 DEF IInv
<1> QED BY <1>5, <1>6 DEF Handle

\* A restarted replica counts no slots, and no request has one there.
LEMMA RestartOK ==
    ASSUME IInv, NEW p \in Replica, Restart(p)
    PROVE  IInv'
<1>1. TypeOK'
  BY DEF Restart, IInv, TypeOK, Over
<1>2. "lost" \notin Counted
  BY DEF Counted, Holding, Started, InTimeout
<1>3. Slots(p)' = {}
  BY <1>2 DEF Restart, Slots, IInv, TypeOK, Counted
<1>4. \A q \in Replica : q # p => Slots(q)' = Slots(q)
  BY DEF Restart, Slots, IInv, TypeOK
<1>5. inFlight'[p] = 0 /\ \A q \in Replica : q # p => inFlight'[q] = inFlight[q]
  BY DEF Restart, IInv, TypeOK
<1>6. SlotCounts'
  BY <1>3, <1>4, <1>5, FS_EmptySet, LimitType DEF IInv, SlotCounts
<1>7. Placed'
  BY <1>2 DEF Restart, IInv, TypeOK, Placed
<1> QED BY <1>1, <1>6, <1>7 DEF IInv

\* Sending a frame to a client.
LEMMA YieldOK ==
    ASSUME IInv, NEW r \in Request, NEW frame \in Frame, NEW label \in Holding,
           Yield(r, frame, label), UNCHANGED <<at, gone, inFlight>>,
           usage' \in [Request -> BOOLEAN], persisted' \in [Request -> BOOLEAN],
           pc[r] \in Counted
    PROVE  IInv'
<1>1. frames' \in [Request -> Seq(Frame)]
  BY DEF IInv, TypeOK
<1>2. label \in Counted /\ label \in Holding \cup Over
  BY DEF Counted
<1> QED BY <1>1, <1>2, MoveOK

\* The invariant holds before the first request.
LEMMA InitIInv == Init => IInv
<1> SUFFICES ASSUME Init PROVE IInv
  OBVIOUS
<1>1. TypeOK
  BY DEF Init, TypeOK
<1>2. \A p : Slots(p) = {}
  BY DEF Init, Slots, Counted, Holding, Started, InTimeout
<1>3. SlotCounts
  BY <1>2, FS_EmptySet, LimitType DEF Init, SlotCounts
<1>4. Placed
  BY DEF Init, Placed, Counted, Holding, Started, InTimeout
<1> QED BY <1>1, <1>3, <1>4 DEF IInv

\* Every step of a request keeps the invariant.
LEMMA RequestStepIInv ==
    ASSUME IInv, NEW r \in Request, RequestStep(r)
    PROVE  IInv'
<1> DEFINE
      Labels == {"opening", "reading", "token", "refused", "usage", "done", "error",
                 "accepted", "calling"}
<1>1. /\ Labels = Holding
      /\ Holding \subseteq Counted
      /\ "abandoned" \in Counted /\ "abandoned" \in Over
      /\ InTimeout \subseteq Holding /\ Started \subseteq Holding
  BY DEF Counted, Holding, Started, InTimeout, Over
<1>2. /\ frames \in [Request -> Seq(Frame)]
      /\ usage \in [Request -> BOOLEAN] /\ persisted \in [Request -> BOOLEAN]
  BY DEF IInv, TypeOK
<1>3. {"token", "usage", "done"} \subseteq Frame /\ ErrorFrame \subseteq Frame
      /\ ErrorFrame = {"MODEL_UNAVAILABLE", "MODEL_TIMEOUT", "MODEL_ERROR"}
  BY DEF Frame, ErrorFrame
<1>4. CASE \E p \in Replica : Handle(r, p)
  BY <1>4, HandleOK
<1>5. CASE StartStream(r)
  BY <1>1, <1>2, <1>5, MoveOK DEF StartStream
<1>6. CASE Abandon(r)
  BY <1>1, <1>2, <1>6, MoveOK DEF Abandon
<1>7. CASE UpstreamOpens(r)
  <2>1. CASE pc' = [pc EXCEPT ![r] = "reading"] /\ UNCHANGED frames
    BY <1>1, <1>2, <1>7, <2>1, MoveOK DEF UpstreamOpens
  <2>2. CASE Yield(r, "MODEL_ERROR", "refused")
    BY <1>1, <1>2, <1>3, <1>7, <2>2, YieldOK DEF UpstreamOpens
  <2> QED BY <1>7, <2>1, <2>2 DEF UpstreamOpens
<1>8. CASE \E content, counts \in BOOLEAN : ReadLine(r, content, counts)
  <2>1. PICK content \in BOOLEAN, counts \in BOOLEAN : ReadLine(r, content, counts)
    BY <1>8
  <2>2. usage' \in [Request -> BOOLEAN]
    BY <1>2, <2>1 DEF ReadLine
  <2>3. CASE content
    BY <1>1, <1>2, <1>3, <2>1, <2>2, <2>3, YieldOK DEF ReadLine
  <2>4. CASE ~content
    <3>1. pc' = [pc EXCEPT ![r] = "reading"]
      BY <2>1, <2>4 DEF ReadLine, IInv, TypeOK
    <3> QED BY <1>1, <1>2, <2>1, <2>2, <2>4, <3>1, MoveOK DEF ReadLine
  <2> QED BY <2>3, <2>4
<1>9. CASE ReadGone(r) \/ ReadBroken(r)
  BY <1>1, <1>9, EndOK DEF ReadGone, ReadBroken, Close
<1>10. CASE ReadEnd(r)
  <2>1. persisted' \in [Request -> BOOLEAN]
    <3>1. HasReply(r) \in BOOLEAN
      BY DEF HasReply
    <3> QED BY <1>2, <1>10, <3>1 DEF ReadEnd
  <2>2. CASE usage[r]
    BY <1>1, <1>2, <1>3, <1>10, <2>1, <2>2, YieldOK DEF ReadEnd
  <2>3. CASE ~usage[r]
    BY <1>1, <1>2, <1>3, <1>10, <2>1, <2>3, YieldOK DEF ReadEnd
  <2> QED BY <2>2, <2>3
<1>11. CASE UpstreamFails(r)
  <2>1. pc[r] \in Counted /\ \E code \in ErrorFrame : Yield(r, code, "error")
    BY <1>1, <1>3, <1>11 DEF UpstreamFails
  <2> QED BY <1>1, <1>2, <1>3, <1>11, <2>1, YieldOK DEF UpstreamFails
<1>12. CASE GenerationTimeout(r)
  <2>1. CASE pc[r] \in {"opening", "reading"}
    BY <1>1, <1>2, <1>3, <1>12, <2>1, YieldOK DEF GenerationTimeout
  <2>2. CASE pc[r] \notin {"opening", "reading"}
    BY <1>1, <1>12, <2>2, EndOK DEF GenerationTimeout, Close
  <2> QED BY <2>1, <2>2
<1>13. CASE Resume(r)
  <2>1. CASE pc[r] = "token" /\ pc' = [pc EXCEPT ![r] = "reading"]
    BY <1>1, <1>2, <1>13, <2>1, MoveOK DEF Resume
  <2>2. CASE pc[r] = "usage" /\ Yield(r, "done", "done")
    BY <1>1, <1>2, <1>3, <1>13, <2>2, YieldOK DEF Resume
  <2>3. CASE pc[r] \in {"refused", "error", "done"} /\ Close(r)
    BY <1>1, <2>3, EndOK DEF Close
  <2> QED BY <1>13, <2>1, <2>2, <2>3 DEF Resume
<1>14. CASE Cancel(r)
  BY <1>1, <1>14, EndOK DEF Cancel, Close
<1>15. CASE CallReturns(r) \/ CallFails(r)
  <2>1. PICK label \in {"answered", "failed"} :
            pc' = [pc EXCEPT ![r] = label] /\ label \notin Counted
    BY <1>15 DEF CallReturns, CallFails, Counted, Holding, Started, InTimeout
  <2>2. /\ pc[r] \in Counted /\ Release(r) /\ at' = at
        /\ UNCHANGED <<gone, usage, frames>>
    BY <1>1, <1>15 DEF CallReturns, CallFails
  <2>3. persisted' \in [Request -> BOOLEAN]
    BY <1>2, <1>15 DEF CallReturns, CallFails
  <2>4. inFlight' \in [Replica -> Nat]
    <3>1. at[r] \in Replica /\ inFlight \in [Replica -> Nat]
      BY <2>2 DEF IInv, TypeOK, Placed
    <3>2. inFlight[at[r]] \in Nat
      BY <3>1
    <3>3. (IF inFlight[at[r]] > 0 THEN inFlight[at[r]] - 1 ELSE inFlight[at[r]]) \in Nat
      BY <3>2
    <3> QED BY <2>2, <3>1, <3>3 DEF Release
  <2>5. pc' \in [Request -> {"new"} \cup Holding \cup Over]
    BY <2>1 DEF IInv, TypeOK, Over
  <2>6. TypeOK'
    BY <2>2, <2>3, <2>4, <2>5 DEF IInv, TypeOK
  <2> QED BY <2>1, <2>2, <2>6, ReleaseOK
<1>16. CASE ClientLeaves(r)
  <2>1. TypeOK'
    BY <1>16 DEF ClientLeaves, IInv, TypeOK
  <2>2. UNCHANGED <<pc, at, inFlight>>
    BY <1>16 DEF ClientLeaves
  <2> QED BY <2>1, <2>2 DEF IInv, Placed, SlotCounts, Slots
<1> QED BY <1>4, <1>5, <1>6, <1>7, <1>8, <1>9, <1>10, <1>11, <1>12, <1>13, <1>14,
           <1>15, <1>16 DEF RequestStep

\* Every step of a request and every restart keeps the invariant.
LEMMA NextIInv == IInv /\ [Next]_vars => IInv'
<1> SUFFICES ASSUME IInv, [Next]_vars PROVE IInv'
  OBVIOUS
<1>1. CASE UNCHANGED vars
  BY <1>1 DEF vars, IInv, TypeOK, Placed, SlotCounts, Slots
<1> QED BY <1>1, RequestStepIInv, RestartOK DEF Next

\* The invariant holds in every reachable state.
LEMMA Invariance == Spec => []IInv
  BY InitIInv, NextIInv, PTL DEF Spec

-----------------------------------------------------------------------------
\* All state of the requests and limiters keeps its type.
THEOREM TypeCorrect == Spec => []TypeOK
  BY Invariance, PTL DEF IInv

\* The counted requests of a replica are the holders and the abandoned there.
LEMMA SlotsAreHoldersAndAbandoned ==
    ASSUME NEW p PROVE Slots(p) = HoldersOf(p) \cup AbandonedAt(p)
  BY DEF Slots, HoldersOf, AbandonedAt, Counted

\* Every slot is accounted for: however streams and calls end, each slot is
\* given back exactly once, save those of streams dropped before they began.
THEOREM SlotAccounting == Spec => []SlotsAccounted
<1>1. IInv => SlotsAccounted
  BY SlotsAreHoldersAndAbandoned DEF IInv, SlotCounts, SlotsAccounted
<1> QED BY <1>1, Invariance, PTL

\* No replica ever runs more inference requests than its limit.
THEOREM LimitIsKept == Spec => []LimitHolds
<1>1. ASSUME IInv PROVE LimitHolds
  <2> SUFFICES ASSUME NEW p \in Replica PROVE Cardinality(HoldersOf(p)) <= Limit
    BY DEF LimitHolds
  <2>1. IsFiniteSet(Slots(p)) /\ Cardinality(Slots(p)) <= Limit
    BY <1>1 DEF IInv, SlotCounts
  <2>2. HoldersOf(p) \in SUBSET Slots(p)
    BY SlotsAreHoldersAndAbandoned
  <2>3. /\ Cardinality(HoldersOf(p)) <= Cardinality(Slots(p))
        /\ Cardinality(HoldersOf(p)) \in Nat /\ Cardinality(Slots(p)) \in Nat
    BY <2>1, <2>2, FS_Subset, FS_CardinalityType
  <2> QED BY <2>1, <2>3, LimitType
<1> QED BY <1>1, Invariance, PTL
-----------------------------------------------------------------------------
(* What memory is given of a stream.  While upstream still speaks, a       *)
(* stream has sent tokens only and nothing is remembered; at its usage     *)
(* frame a reply is already in memory; and every frame that follows keeps  *)
(* what RememberedIffComplete asks.                                        *)

\* The awaits before the end of the answer of upstream.
Speaking == {"new", "rejected", "accepted", "opening", "reading", "token"}

TokensOnly(r) == (\A i \in DOMAIN frames[r] : frames[r][i] = "token") /\ ~persisted[r]
Reported(r) == Sent(r, {"usage"}) /\ (Sent(r, {"token"}) => persisted[r])
Fits(r) ==
    /\ Sent(r, {"done"}) /\ Sent(r, {"token"}) => persisted[r]
    /\ persisted[r] => Sent(r, {"token"}) /\ Sent(r, {"usage", "done"}) /\ ~Sent(r, ErrorFrame)

StreamInv ==
    \A r \in Streaming :
        /\ pc[r] # "calling"
        /\ pc[r] \in Speaking => TokensOnly(r)
        /\ pc[r] = "usage" => Reported(r)
        /\ Fits(r)

\* A frame that is sent is among the frames sent, and so are those before it.
LEMMA SentGrows ==
    ASSUME TypeOK, NEW r \in Request, NEW frame \in Frame, NEW F,
           frames' = [frames EXCEPT ![r] = Append(@, frame)]
    PROVE  Sent(r, F)' <=> Sent(r, F) \/ frame \in F
<1>1. frames[r] \in Seq(Frame) /\ frames'[r] = Append(frames[r], frame)
  BY DEF TypeOK
<1>2. /\ DOMAIN frames'[r] = DOMAIN frames[r] \cup {Len(frames[r]) + 1}
      /\ frames'[r][Len(frames[r]) + 1] = frame
      /\ \A i \in DOMAIN frames[r] : frames'[r][i] = frames[r][i]
  BY <1>1
<1> QED BY <1>2 DEF Sent

\* A stream of tokens has sent no other frame, and has a reply if it sent any.
LEMMA TokensOnlySent ==
    ASSUME TypeOK, NEW r \in Request, TokensOnly(r)
    PROVE  /\ \A F : "token" \notin F => ~Sent(r, F)
           /\ HasReply(r) <=> Sent(r, {"token"})
<1>1. frames[r] \in Seq(Frame)
  BY DEF TypeOK
<1>2. HasReply(r) => 1 \in DOMAIN frames[r]
  BY <1>1 DEF HasReply
<1>3. Sent(r, {"token"}) => frames[r] # <<>>
  BY <1>1 DEF Sent
<1> QED BY <1>2, <1>3 DEF TokensOnly, Sent, HasReply

\* An action that sends no frame and gives memory nothing.
LEMMA SilentStepOK ==
    ASSUME StreamInv, TypeOK, NEW r \in Request, NEW label,
           pc' = [pc EXCEPT ![r] = label], UNCHANGED <<frames, persisted>>,
           r \in Streaming => /\ label # "calling"
                              /\ label \in Speaking => pc[r] \in Speaking
                              /\ label = "usage" => pc[r] = "usage"
    PROVE  StreamInv'
  BY DEF StreamInv, TypeOK, TokensOnly, Reported, Fits, Sent

\* An action of one request disturbs no other stream.
LEMMA OwnStreamOnly ==
    ASSUME StreamInv, TypeOK, NEW r \in Request,
           \A q \in Request \ {r} : /\ pc'[q] = pc[q]
                                    /\ frames'[q] = frames[q]
                                    /\ persisted'[q] = persisted[q],
           r \in Streaming => /\ pc'[r] # "calling"
                              /\ pc'[r] \in Speaking => TokensOnly(r)'
                              /\ pc'[r] = "usage" => Reported(r)'
                              /\ Fits(r)'
    PROVE  StreamInv'
<1> SUFFICES ASSUME NEW q \in Streaming
             PROVE  /\ pc'[q] # "calling"
                    /\ pc'[q] \in Speaking => TokensOnly(q)'
                    /\ pc'[q] = "usage" => Reported(q)'
                    /\ Fits(q)'
  BY DEF StreamInv
<1>1. CASE q = r
  BY <1>1
<1>2. CASE q # r
  BY <1>2, RequestAssumption DEF StreamInv, TokensOnly, Reported, Fits, Sent
<1> QED BY <1>1, <1>2

\* An error frame ends a stream of which nothing is remembered.
LEMMA ErrorKeeps ==
    ASSUME StreamInv, TypeOK, NEW r \in Request, pc[r] \in Speaking, NEW code \in ErrorFrame,
           NEW label \in {"refused", "error"}, Yield(r, code, label), UNCHANGED persisted
    PROVE  StreamInv'
<1>1. /\ code \in Frame
      /\ code \notin {"token", "usage", "done"}
      /\ label \notin Speaking /\ label \notin {"calling", "usage"}
      /\ "token" \notin {"done"}
  BY DEF Frame, ErrorFrame, Speaking
<1>2. pc'[r] = label /\ \A q \in Request \ {r} : pc'[q] = pc[q] /\ frames'[q] = frames[q]
  BY DEF TypeOK
<1>3. r \in Streaming => Fits(r)'
  <2> SUFFICES ASSUME r \in Streaming PROVE Fits(r)'
    OBVIOUS
  <2>1. TokensOnly(r) /\ ~persisted[r]
    BY DEF StreamInv, TokensOnly
  <2>2. ~Sent(r, {"done"})
    BY <1>1, <2>1, TokensOnlySent
  <2>3. ~Sent(r, {"done"})'
    BY <1>1, <2>2, SentGrows
  <2> QED BY <2>1, <2>3 DEF Fits
<1> QED BY <1>1, <1>2, <1>3, OwnStreamOnly

\* The end of the answer of upstream: the reply, if there is one, is in
\* memory before the first frame that says so.
LEMMA ReadEndKeeps ==
    ASSUME StreamInv, TypeOK, NEW r \in Request, ReadEnd(r)
    PROVE  StreamInv'
<1>1. PICK frame \in {"usage", "done"} : Yield(r, frame, frame)
  BY DEF ReadEnd
<1>2. /\ frame \in Frame /\ frame \notin ErrorFrame
      /\ frame \notin Speaking /\ frame # "calling" /\ "token" \notin ErrorFrame
      /\ pc[r] \in Speaking
  BY DEF Frame, ErrorFrame, Speaking, ReadEnd
<1>3. /\ pc'[r] = frame /\ persisted'[r] = HasReply(r)
      /\ \A q \in Request \ {r} :
            pc'[q] = pc[q] /\ frames'[q] = frames[q] /\ persisted'[q] = persisted[q]
  BY <1>1 DEF TypeOK, ReadEnd
<1>4. r \in Streaming => Fits(r)' /\ (frame = "usage" => Reported(r)')
  <2> SUFFICES ASSUME r \in Streaming PROVE Fits(r)' /\ (frame = "usage" => Reported(r)')
    OBVIOUS
  <2>1. TokensOnly(r)
    BY <1>2 DEF StreamInv
  <2>2. /\ ~Sent(r, ErrorFrame)
        /\ HasReply(r) <=> Sent(r, {"token"})
    BY <1>2, <2>1, TokensOnlySent
  <2>3. /\ ~Sent(r, ErrorFrame)'
        /\ Sent(r, {"token"})' <=> Sent(r, {"token"})
        /\ Sent(r, {"usage", "done"})'
        /\ frame = "usage" => Sent(r, {"usage"})'
    BY <1>1, <1>2, <2>2, SentGrows
  <2> QED BY <1>3, <2>2, <2>3 DEF Fits, Reported
<1> QED BY <1>2, <1>3, <1>4, OwnStreamOnly

\* The done frame follows the usage frame.
LEMMA UsageThenDoneKeeps ==
    ASSUME StreamInv, TypeOK, NEW r \in Request, pc[r] = "usage",
           Yield(r, "done", "done"), UNCHANGED persisted
    PROVE  StreamInv'
<1>1. /\ "done" \in Frame /\ "done" \notin ErrorFrame /\ "done" \notin Speaking
      /\ "done" \notin {"token"}
  BY DEF Frame, ErrorFrame, Speaking
<1>2. pc'[r] = "done" /\ \A q \in Request \ {r} : pc'[q] = pc[q] /\ frames'[q] = frames[q]
  BY DEF TypeOK
<1>3. r \in Streaming => Fits(r)'
  <2> SUFFICES ASSUME r \in Streaming PROVE Fits(r)'
    OBVIOUS
  <2>1. Reported(r) /\ Fits(r)
    BY DEF StreamInv
  <2>2. Sent(r, {"token"})' <=> Sent(r, {"token"})
    BY <1>1, SentGrows
  <2>3. Sent(r, {"usage", "done"})'
    BY <1>1, SentGrows
  <2>4. Sent(r, ErrorFrame)' <=> Sent(r, ErrorFrame)
    BY <1>1, SentGrows
  <2> QED BY <2>1, <2>2, <2>3, <2>4 DEF Fits, Reported
<1> QED BY <1>1, <1>2, <1>3, OwnStreamOnly

\* A line of upstream is sent on as a token, or only counted.
LEMMA ReadLineKeeps ==
    ASSUME StreamInv, TypeOK, NEW r \in Request, NEW content \in BOOLEAN,
           NEW counts \in BOOLEAN, ReadLine(r, content, counts)
    PROVE  StreamInv'
<1>1. pc[r] = "reading" /\ "reading" \in Speaking /\ "token" \in Speaking
  BY DEF ReadLine, Speaking
<1>2. CASE ~content
  BY <1>2 DEF ReadLine, StreamInv, TokensOnly, Reported, Fits, Sent
<1>3. CASE content
  <2>1. Yield(r, "token", "token") /\ UNCHANGED persisted /\ "token" \in Frame
    BY <1>3 DEF ReadLine, Frame
  <2>2. /\ pc'[r] = "token" /\ frames[r] \in Seq(Frame) /\ frames'[r] = Append(frames[r], "token")
        /\ \A q \in Request \ {r} : pc'[q] = pc[q] /\ frames'[q] = frames[q]
    BY <2>1 DEF TypeOK
  <2>3. r \in Streaming => TokensOnly(r)' /\ Fits(r)'
    <3> SUFFICES ASSUME r \in Streaming PROVE TokensOnly(r)' /\ Fits(r)'
      OBVIOUS
    <3>1. TokensOnly(r)
      BY <1>1 DEF StreamInv
    <3>2. TokensOnly(r)'
      BY <2>1, <2>2, <3>1 DEF TokensOnly
    <3>3. ~Sent(r, {"done"})'
      BY <3>2 DEF TokensOnly, Sent
    <3> QED BY <3>2, <3>3 DEF TokensOnly, Fits
  <2> QED BY <2>1, <2>2, <2>3, OwnStreamOnly
<1> QED BY <1>2, <1>3

\* Every step of a request keeps what memory is given of the streams.
LEMMA RequestStepKeeps ==
    ASSUME StreamInv, TypeOK, NEW r \in Request, RequestStep(r)
    PROVE  StreamInv'
<1>1. /\ {"MODEL_UNAVAILABLE", "MODEL_TIMEOUT", "MODEL_ERROR"} = ErrorFrame
      /\ {"opening", "reading"} \subseteq Speaking
  BY DEF ErrorFrame, Speaking
<1>2. CASE \E p \in Replica : Handle(r, p)
  <2>1. /\ pc[r] = "new" /\ UNCHANGED <<frames, persisted>>
        /\ \/ pc' = [pc EXCEPT ![r] = "rejected"]
           \/ pc' = [pc EXCEPT ![r] = IF r \in Streaming THEN "accepted" ELSE "calling"]
    BY <1>2 DEF Handle
  <2> QED BY <2>1, SilentStepOK DEF Speaking
<1>3. CASE StartStream(r) \/ Abandon(r)
  BY <1>3, SilentStepOK DEF StartStream, Abandon, Speaking
<1>4. CASE UpstreamOpens(r)
  BY <1>1, <1>4, SilentStepOK, ErrorKeeps DEF UpstreamOpens
<1>5. CASE \E content, counts \in BOOLEAN : ReadLine(r, content, counts)
  BY <1>5, ReadLineKeeps
<1>6. CASE ReadEnd(r)
  BY <1>6, ReadEndKeeps
<1>7. CASE UpstreamFails(r)
  <2>1. pc[r] \in Speaking /\ \E code \in ErrorFrame : Yield(r, code, "error")
    BY <1>1, <1>7 DEF UpstreamFails
  <2> QED BY <1>7, <2>1, ErrorKeeps DEF UpstreamFails
<1>8. ASSUME NEW label \in {"closed", "broken"}, End(r, label) PROVE StreamInv'
  BY <1>8, SilentStepOK DEF Speaking
<1>9. CASE ReadGone(r) \/ ReadBroken(r) \/ Cancel(r)
  BY <1>8, <1>9 DEF ReadGone, ReadBroken, Cancel, Close
<1>10. CASE GenerationTimeout(r)
  BY <1>1, <1>8, <1>10, ErrorKeeps DEF GenerationTimeout, Close
<1>11. CASE Resume(r)
  BY <1>8, <1>11, SilentStepOK, UsageThenDoneKeeps DEF Resume, Close, Speaking
<1>12. CASE CallReturns(r) \/ CallFails(r)
  <2>1. r \notin Streaming
    BY <1>12 DEF CallReturns, CallFails, StreamInv
  <2>2. \A q \in Request \ {r} :
            pc'[q] = pc[q] /\ frames'[q] = frames[q] /\ persisted'[q] = persisted[q]
    BY <1>12 DEF CallReturns, CallFails, TypeOK
  <2> QED BY <2>1, <2>2, OwnStreamOnly
<1>13. CASE ClientLeaves(r)
  BY <1>13 DEF ClientLeaves, StreamInv, TokensOnly, Reported, Fits, Sent
<1> QED BY <1>2, <1>3, <1>4, <1>5, <1>6, <1>7, <1>9, <1>10, <1>11, <1>12, <1>13
        DEF RequestStep

\* A restart ends streams and sends nothing.
LEMMA RestartKeeps ==
    ASSUME StreamInv, TypeOK, NEW p \in Replica, Restart(p)
    PROVE  StreamInv'
<1>1. \A q \in Request : pc'[q] \in {pc[q], "lost"} /\ UNCHANGED <<frames, persisted>>
  BY DEF Restart
<1> QED BY <1>1, RequestAssumption
        DEF StreamInv, TokensOnly, Reported, Fits, Sent, Speaking

\* A client that has read done can rely on the next turn to know the reply,
\* and memory never holds a reply that failed or was cut short: with any
\* number of streams, however upstream, clients, timeouts and pods end them.
THEOREM OnlyCompleteRepliesAreRemembered == Spec => []RememberedIffComplete
<1>1. Init => StreamInv
  BY RequestAssumption DEF Init, StreamInv, TokensOnly, Reported, Fits, Sent
<1>2. ASSUME StreamInv, TypeOK, [Next]_vars PROVE StreamInv'
  <2>1. CASE UNCHANGED vars
    BY <1>2, <2>1 DEF vars, StreamInv, TokensOnly, Reported, Fits, Sent
  <2> QED BY <1>2, <2>1, RequestStepKeeps, RestartKeeps DEF Next
<1>3. StreamInv => RememberedIffComplete
  BY DEF StreamInv, Fits, RememberedIffComplete
<1> QED BY <1>1, <1>2, <1>3, TypeCorrect, PTL DEF Spec

-----------------------------------------------------------------------------
(* The streams keep the SSE contract: every step of the handlers emits a   *)
(* frame the contract allows at that point, ends a body, or leaves the     *)
(* bodies alone.                                                           *)

stages == [r \in Request |-> StageOf(pc[r])]

\* Moving one request moves its stage alone.
LEMMA StagesMove ==
    ASSUME TypeOK, NEW r \in Request, NEW label, pc' = [pc EXCEPT ![r] = label]
    PROVE  /\ stages' = [stages EXCEPT ![r] = StageOf(label)]
           /\ stages[r] = StageOf(pc[r])
  BY DEF TypeOK, stages

\* A move that changes no stage and sends nothing is invisible.
LEMMA Invisible ==
    ASSUME TypeOK, NEW r \in Request, NEW label, pc' = [pc EXCEPT ![r] = label],
           StageOf(label) = StageOf(pc[r]), frames' = frames
    PROVE  UNCHANGED Contract!vars
<1>1. stages' = stages
  BY StagesMove DEF stages
<1> QED BY <1>1 DEF Contract!vars, stages

\* A stream that is closed is cut, unless its last frame was sent.
LEMMA CloseCuts ==
    ASSUME TypeOK, NEW r \in Request, NEW label, pc' = [pc EXCEPT ![r] = label],
           StageOf(label) = "over", frames' = frames
    PROVE  [Contract!Next]_(Contract!vars)
<1>1. CASE StageOf(pc[r]) = "over"
  BY <1>1, Invisible
<1>2. CASE StageOf(pc[r]) # "over"
  <2>1. stages[r] # "over" /\ stages' = [stages EXCEPT ![r] = "over"]
    BY <1>2, StagesMove
  <2>2. Contract!Cut(r)
    BY <2>1 DEF Contract!Cut, stages
  <2> QED BY <2>2 DEF Contract!Next
<1> QED BY <1>1, <1>2

\* A frame that the contract allows at the stage of the stream.
LEMMA YieldEmits ==
    ASSUME TypeOK, NEW r \in Request, NEW frame \in Frame, NEW label,
           Yield(r, frame, label),
           \/ frame = "token" /\ StageOf(pc[r]) = "tokens" /\ StageOf(label) = "tokens"
           \/ frame = "usage" /\ StageOf(pc[r]) = "tokens" /\ StageOf(label) = "usage"
           \/ /\ frame = "done" /\ StageOf(pc[r]) \in {"tokens", "usage"}
              /\ StageOf(label) = "over"
           \/ frame \in ErrorFrame /\ StageOf(pc[r]) = "tokens" /\ StageOf(label) = "over"
    PROVE  Contract!Next
<1>1. /\ frames' = [frames EXCEPT ![r] = Append(@, frame)]
      /\ stages' = [stages EXCEPT ![r] = StageOf(label)]
      /\ stages[r] = StageOf(pc[r])
  BY StagesMove
<1>2. Contract!Emit(r, frame, StageOf(label))
  BY <1>1 DEF Contract!Emit, stages
<1>3. Contract!Token(r) \/ Contract!Usage(r) \/ Contract!Done(r) \/ Contract!Error(r)
  BY <1>1, <1>2 DEF Contract!Token, Contract!Usage, Contract!Done, Contract!Error, stages
<1> QED BY <1>3 DEF Contract!Next

\* Every step of a request is a step of the contract, or invisible to it.
LEMMA RequestStepKeepsContract ==
    ASSUME TypeOK, NEW r \in Request, RequestStep(r)
    PROVE  [Contract!Next]_(Contract!vars)
<1>1. /\ \A l \in {"new", "rejected", "accepted", "calling", "opening", "reading",
                   "token", "answered", "failed"} : StageOf(l) = "tokens"
      /\ \A l \in {"done", "error", "refused", "closed", "broken", "abandoned",
                   "lost"} :
            StageOf(l) = "over"
      /\ StageOf("usage") = "usage"
  BY DEF StageOf
<1>2. {"token", "usage", "done"} \subseteq Frame /\ ErrorFrame \subseteq Frame
      /\ ErrorFrame = {"MODEL_UNAVAILABLE", "MODEL_TIMEOUT", "MODEL_ERROR"}
  BY DEF Frame, ErrorFrame
<1>3. CASE \E p \in Replica : Handle(r, p)
  <2>1. PICK label \in {"rejected", "accepted", "calling"} :
            pc[r] = "new" /\ pc' = [pc EXCEPT ![r] = label] /\ frames' = frames
    BY <1>3 DEF Handle
  <2> QED BY <1>1, <2>1, Invisible
<1>4. CASE StartStream(r)
  BY <1>1, <1>4, Invisible DEF StartStream
<1>5. CASE Abandon(r)
  BY <1>1, <1>5, CloseCuts DEF Abandon
<1>6. CASE UpstreamOpens(r)
  BY <1>1, <1>2, <1>6, Invisible, YieldEmits DEF UpstreamOpens
<1>7. CASE \E content, counts \in BOOLEAN : ReadLine(r, content, counts)
  <2>1. PICK content \in BOOLEAN, counts \in BOOLEAN : ReadLine(r, content, counts)
    BY <1>7
  <2>2. CASE content
    BY <1>1, <1>2, <2>1, <2>2, YieldEmits DEF ReadLine
  <2>3. CASE ~content
    <3>1. pc' = [pc EXCEPT ![r] = pc[r]] /\ frames' = frames
      BY <2>1, <2>3 DEF ReadLine, TypeOK
    <3> QED BY <3>1, Invisible
  <2> QED BY <2>2, <2>3
<1>8. CASE ReadGone(r) \/ ReadBroken(r)
  BY <1>1, <1>8, CloseCuts DEF ReadGone, ReadBroken, Close
<1>9. CASE ReadEnd(r)
  BY <1>1, <1>2, <1>9, YieldEmits DEF ReadEnd
<1>10. CASE UpstreamFails(r)
  <2>1. /\ StageOf(pc[r]) = "tokens"
        /\ \E code \in ErrorFrame : Yield(r, code, "error")
    BY <1>1, <1>2, <1>10 DEF UpstreamFails
  <2>2. PICK code \in ErrorFrame : Yield(r, code, "error")
    BY <2>1
  <2>3. StageOf("error") = "over" /\ code \in Frame
    BY <1>1, <1>2
  <2>4. Contract!Next
    BY <2>1, <2>2, <2>3, YieldEmits
  <2> QED BY <2>4
<1>11. CASE GenerationTimeout(r)
  <2>1. CASE pc[r] \in {"opening", "reading"}
    BY <1>1, <1>2, <1>11, <2>1, YieldEmits DEF GenerationTimeout
  <2>2. CASE pc[r] \notin {"opening", "reading"}
    BY <1>1, <1>11, <2>2, CloseCuts DEF GenerationTimeout, Close
  <2> QED BY <2>1, <2>2
<1>12. CASE Resume(r)
  <2>1. CASE pc[r] = "token" /\ pc' = [pc EXCEPT ![r] = "reading"] /\ frames' = frames
    BY <1>1, <2>1, Invisible
  <2>2. CASE pc[r] = "usage" /\ Yield(r, "done", "done")
    BY <1>1, <1>2, <2>2, YieldEmits
  <2>3. CASE Close(r)
    BY <1>1, <2>3, CloseCuts DEF Close
  <2> QED BY <1>12, <2>1, <2>2, <2>3 DEF Resume
<1>13. CASE Cancel(r)
  BY <1>1, <1>13, CloseCuts DEF Cancel, Close
<1>14. CASE CallReturns(r) \/ CallFails(r)
  <2>1. PICK label \in {"answered", "failed"} :
            pc[r] = "calling" /\ pc' = [pc EXCEPT ![r] = label] /\ frames' = frames
    BY <1>14 DEF CallReturns, CallFails
  <2> QED BY <1>1, <2>1, Invisible
<1>15. CASE ClientLeaves(r)
  BY <1>15 DEF ClientLeaves, Contract!vars
<1> QED BY <1>3, <1>4, <1>5, <1>6, <1>7, <1>8, <1>9, <1>10, <1>11, <1>12, <1>13,
           <1>14, <1>15 DEF RequestStep

\* A restart cuts the streams of its replica.
LEMMA RestartKeepsContract ==
    ASSUME TypeOK, NEW p \in Replica, Restart(p)
    PROVE  Contract!Next
<1> DEFINE S == {r \in Request : at[r] = p /\ pc[r] \in Holding \cup {"abandoned"}}
<1>1. StageOf("lost") = "over"
  BY DEF StageOf
<1>2. stages' = [r \in Request |-> IF r \in S THEN "over" ELSE stages[r]]
  <2>1. \A r \in Request : pc'[r] = IF r \in S THEN "lost" ELSE pc[r]
    BY DEF Restart
  <2> QED BY <1>1, <2>1 DEF stages
<1>3. Contract!CutAll(S)
  BY <1>2 DEF Contract!CutAll, Restart, stages
<1> QED BY <1>3 DEF Contract!Next

\* Whatever upstream and the clients do, what a client is sent is a body, or
\* the beginning of a body, that the documented contract allows.
THEOREM StreamsKeepContract == Spec => ContractSpec
<1>1. Init => Contract!Init
  BY DEF Init, Contract!Init, StageOf
<1>2. ASSUME TypeOK, [Next]_vars PROVE [Contract!Next]_(Contract!vars)
  <2>1. CASE UNCHANGED vars
    BY <2>1 DEF vars, Contract!vars
  <2> QED BY <1>2, <2>1, RequestStepKeepsContract, RestartKeepsContract DEF Next
<1> QED BY <1>1, <1>2, TypeCorrect, PTL DEF Spec, ContractSpec, Contract!Spec

\* What SseContract lets a body be: tokens, then nothing, or an end: done, or
\* usage, or usage and done, or one error frame.
IsBody(sent) ==
    \E n \in 0..Len(sent) :
        /\ \A i \in 1..n : sent[i] = "token"
        /\ \/ Len(sent) = n
           \/ Len(sent) = n + 1 /\ sent[n + 1] \in {"usage", "done"} \cup ErrorFrame
           \/ Len(sent) = n + 2 /\ sent[n + 1] = "usage" /\ sent[n + 2] = "done"

\* What has been sent at each stage of the contract.
BodyAtStage(sent, stage) ==
    /\ sent \in Seq(Frame)
    /\ stage \in {"tokens", "usage", "over"}
    /\ stage = "tokens" => \A i \in 1..Len(sent) : sent[i] = "token"
    /\ stage = "usage" => /\ Len(sent) > 0 /\ sent[Len(sent)] = "usage"
                         /\ \A i \in 1..(Len(sent) - 1) : sent[i] = "token"
    /\ IsBody(sent)

BodiesAtStages == \A r \in Request : BodyAtStage(frames[r], stages[r])

\* One frame more.
LEMMA EmitKeepsBody ==
    ASSUME NEW sent, NEW stage, BodyAtStage(sent, stage), NEW frame \in Frame, NEW next,
           \/ stage = "tokens" /\ frame = "token" /\ next = "tokens"
           \/ stage = "tokens" /\ frame = "usage" /\ next = "usage"
           \/ stage \in {"tokens", "usage"} /\ frame = "done" /\ next = "over"
           \/ stage = "tokens" /\ frame \in ErrorFrame /\ next = "over"
    PROVE  BodyAtStage(Append(sent, frame), next)
<1> DEFINE more == Append(sent, frame)
           n == Len(sent)
<1>1. sent \in Seq(Frame) /\ n \in Nat
  BY DEF BodyAtStage
<1>2. /\ more \in Seq(Frame) /\ Len(more) = n + 1 /\ more[n + 1] = frame
      /\ \A i \in 1..n : more[i] = sent[i]
  BY <1>1
<1> HIDE DEF more
<1>3. CASE stage = "tokens"
  <2>1. \A i \in 1..n : more[i] = "token"
    BY <1>2, <1>3 DEF BodyAtStage
  <2>2. CASE frame = "token"
    <3>1. \A i \in 1..(n + 1) : more[i] = "token"
      BY <1>1, <1>2, <2>1, <2>2
    <3> HIDE DEF n
    <3>2. IsBody(more)
      BY <1>1, <1>2, <3>1 DEF IsBody
    <3> QED BY <1>2, <1>3, <2>2, <3>1, <3>2 DEF BodyAtStage, ErrorFrame, more
  <2>3. CASE frame # "token"
    <3> HIDE DEF n
    <3>1. frame \in {"usage", "done"} \cup ErrorFrame
      BY <1>3, <2>3
    <3>2. n \in 0..Len(more)
      BY <1>1, <1>2
    <3>3. IsBody(more)
      BY <1>2, <2>1, <3>1, <3>2 DEF IsBody
    <3>4. next \in {"usage", "over"} /\ (next = "usage" => frame = "usage")
      BY <1>3, <2>3
    <3>5. (n + 1) - 1 = n /\ n + 1 > 0
      BY <1>1
    <3> QED BY <1>2, <2>1, <3>3, <3>4, <3>5 DEF BodyAtStage, more
  <2> QED BY <2>2, <2>3
<1>4. CASE stage = "usage"
  <2>1. frame = "done" /\ next = "over"
    BY <1>4
  <2>2. n > 0 /\ sent[n] = "usage" /\ \A i \in 1..(n - 1) : sent[i] = "token"
    BY <1>4 DEF BodyAtStage
  <2> HIDE DEF n
  <2>3. n - 1 \in 0..Len(more) /\ (n - 1) + 1 = n /\ (n - 1) + 2 = n + 1 /\ n \in 1..n
    BY <1>1, <1>2, <2>2
  <2>4. more[n] = "usage" /\ more[n + 1] = "done" /\ \A i \in 1..(n - 1) : more[i] = "token"
    BY <1>1, <1>2, <2>1, <2>2, <2>3
  <2>5. IsBody(more)
    BY <1>2, <2>3, <2>4 DEF IsBody
  <2> QED BY <1>2, <2>1, <2>5 DEF BodyAtStage, more
<1> QED BY <1>3, <1>4

\* The contract leads from bodies to bodies.
LEMMA ContractKeepsBodies ==
    ASSUME TypeOK, TypeOK', BodiesAtStages, [Contract!Next]_(Contract!vars)
    PROVE  BodiesAtStages'
<1>1. /\ frames = [r \in Request |-> frames[r]] /\ stages = [r \in Request |-> stages[r]]
      /\ frames' = [r \in Request |-> frames'[r]]
  BY DEF TypeOK, stages
<1>2. {"token", "usage", "done"} \subseteq Frame /\ ErrorFrame \subseteq Frame
  BY DEF Frame, ErrorFrame
<1>3. ASSUME NEW r \in Request, NEW frame, NEW next, Contract!Emit(r, frame, next),
             BodyAtStage(Append(frames[r], frame), next)
      PROVE  BodiesAtStages'
  <2>1. frames' = [frames EXCEPT ![r] = Append(@, frame)] /\ stages' = [stages EXCEPT ![r] = next]
    BY <1>3 DEF Contract!Emit, stages
  <2> QED BY <1>1, <1>3, <2>1 DEF BodiesAtStages
<1>4. ASSUME frames' = frames, \A r \in Request : stages'[r] \in {stages[r], "over"}
      PROVE  BodiesAtStages'
  BY <1>4 DEF BodiesAtStages, BodyAtStage
<1>5. CASE UNCHANGED Contract!vars
  <2>1. frames' = frames /\ stages' = stages
    BY <1>5 DEF Contract!vars, stages
  <2> QED BY <1>4, <2>1
<1>6. ASSUME NEW r \in Request,
             Contract!Token(r) \/ Contract!Usage(r) \/ Contract!Done(r) \/ Contract!Error(r)
      PROVE  BodiesAtStages'
  <2>1. \E frame \in Frame, next \in {"tokens", "usage", "over"} :
            /\ Contract!Emit(r, frame, next)
            /\ \/ stages[r] = "tokens" /\ frame = "token" /\ next = "tokens"
               \/ stages[r] = "tokens" /\ frame = "usage" /\ next = "usage"
               \/ stages[r] \in {"tokens", "usage"} /\ frame = "done" /\ next = "over"
               \/ stages[r] = "tokens" /\ frame \in ErrorFrame /\ next = "over"
    BY <1>2, <1>6 DEF Contract!Token, Contract!Usage, Contract!Done, Contract!Error, stages
  <2> QED BY <1>3, <2>1, EmitKeepsBody DEF BodiesAtStages
<1>7. ASSUME NEW r \in Request, Contract!Cut(r)
      PROVE  BodiesAtStages'
  <2>1. frames' = frames /\ stages' = [stages EXCEPT ![r] = "over"]
    BY <1>7 DEF Contract!Cut, stages
  <2> QED BY <1>1, <1>4, <2>1
<1>8. ASSUME NEW S \in SUBSET Request, Contract!CutAll(S)
      PROVE  BodiesAtStages'
  <2>1. frames' = frames /\ stages' = [r \in Request |-> IF r \in S THEN "over" ELSE stages[r]]
    BY <1>8 DEF Contract!CutAll, stages
  <2> QED BY <1>4, <2>1
<1> QED BY <1>5, <1>6, <1>7, <1>8 DEF Contract!Next

\* Every body a client is sent has the documented shape, however its answer ends
\* and whatever becomes of its replica: tokens first, a usage frame at most once
\* and before done only, and nothing after done or an error frame.
THEOREM BodiesAreWellFormed == Spec => [](\A r \in Request : IsBody(frames[r]))
<1>1. Init => BodiesAtStages
  <2> SUFFICES ASSUME Init, NEW r \in Request
               PROVE  BodyAtStage(frames[r], stages[r])
    BY DEF BodiesAtStages
  <2>1. frames[r] = <<>> /\ pc[r] = "new"
    BY DEF Init
  <2>2. stages[r] = "tokens"
    BY <2>1 DEF stages, StageOf
  <2>3. IsBody(<<>>)
    BY DEF IsBody
  <2> QED BY <2>1, <2>2, <2>3 DEF BodyAtStage
<1>2. BodiesAtStages => \A r \in Request : IsBody(frames[r])
  BY DEF BodiesAtStages, BodyAtStage
<1> QED BY <1>1, <1>2, ContractKeepsBodies, StreamsKeepContract, TypeCorrect, PTL
        DEF Spec, ContractSpec, Contract!Spec

-----------------------------------------------------------------------------
(* The route with its memories.                                            *)

\* What the proofs need of the generation timeout is that it is within the
\* time to live.
LEMMA TimesType ==
    GenerationSeconds \in Nat /\ GenerationSeconds <= Ttl /\ GenerationSeconds > 0
  BY TimeoutAssumption

\* Every step of the backend is a step of its route, or leaves the route alone.
LEMMA BackendStepIsRouteStep ==
    ASSUME [BackendNext]_backendVars
    PROVE  [Next]_vars
<1>1. CASE UNCHANGED backendVars
  BY <1>1 DEF backendVars
<1>2. ASSUME NEW r \in Request, TurnStep(r) PROVE RequestStep(r)
  BY <1>2 DEF TurnStep, HandleTurn, StartTurn, ReadTurn, EndTurn, OtherStep, RequestStep
<1>3. CASE \E p \in Replica : RestartReplica(p)
  BY <1>3 DEF RestartReplica, Next
<1>4. CASE (\E s \in Session, p \in Replica : ForgetSession(s, p)) \/ Tick
  BY <1>4 DEF ForgetSession, Tick
<1> QED BY <1>1, <1>2, <1>3, <1>4 DEF BackendNext, Next

\* The route with its memories implements the route: sessions, time and
\* forgetting add nothing to what it does with slots and frames, and all that
\* is proved of ChatApi holds of the backend.
THEOREM BackendImplementsRoute == BackendSpec => Spec
<1>1. BackendInit => Init
  BY DEF BackendInit
<1> QED BY <1>1, BackendStepIsRouteStep, PTL DEF BackendSpec, Spec

-----------------------------------------------------------------------------
ReplyMessage(r) == [role |-> "assistant", content |-> ReplyOf[r]]
Answers(turns) == [i \in DOMAIN turns |-> ReplyMessage(turns[i])]

\* The awaits under the generation timeout.
Timed == InTimeout \cup {"calling"}

BackendTypeOK ==
    /\ now \in Nat
    /\ began \in [Request -> Nat]
    /\ memory = [p \in Replica |-> memory[p]]
    /\ \A p \in Replica : StoreOK(memory[p])
    /\ conversation = [r \in Request |-> conversation[r]]
    /\ latest \in [Replica -> [Session -> Request \cup {NoRequest}]]
    /\ replies \in [Replica -> [Session -> Seq(Request)]]

\* The event loop keeps the generation timeout.
Timely ==
    \A r \in Request :
        /\ began[r] <= now
        /\ pc[r] = "accepted" => began[r] = now
        /\ pc[r] \in Timed => now - began[r] <= GenerationSeconds

\* A session was last seen no earlier than the turn that is in progress began.
SeenSince ==
    \A r \in Request :
        pc[r] \in Timed \cup {"accepted"} =>
            \/ SessionOf[r] \notin Live(memory[at[r]])
            \/ began[r] <= memory[at[r]].entries[SessionOf[r]].lastSeen

\* What replica p remembers of session s is a transcript and its answers.
Remembers(p, s) ==
    /\ latest[p][s] # NoRequest
    /\ memory[p].entries[s].messages =
            Window(Cleaned(TranscriptOf[latest[p][s]]) \o Answers(replies[p][s]))

Remembering == \A p \in Replica : \A s \in Live(memory[p]) : Remembers(p, s)

BInv == /\ IInv
        /\ BackendTypeOK
        /\ Timely
        /\ SeenSince
        /\ AnyReplicaAnswersAlike
        /\ Remembering

\* Remembering is MemoryIsTranscript by the names of this module.
LEMMA MemoryIsRemembered == Remembering => MemoryIsTranscript
  BY DEF Remembering, MemoryIsTranscript, Remembers, Answers, ReplyMessage

\* One more turn answered is one more message at the end.
LEMMA AnswersAppend ==
    ASSUME NEW turns \in Seq(Request), NEW r \in Request
    PROVE  /\ Answers(turns) \in Seq(Message)
           /\ ReplyMessage(r) \in Message
           /\ Answers(Append(turns, r)) = Append(Answers(turns), ReplyMessage(r))
<1>1. \A q \in Request : ReplyMessage(q) \in Message
  BY TurnAssumption DEF ReplyMessage, Message, Role
<1>2. \A us \in Seq(Request) :
        /\ Answers(us) \in Seq(Message)
        /\ Len(Answers(us)) = Len(us)
        /\ \A i \in 1..Len(us) : Answers(us)[i] = ReplyMessage(us[i])
  <2> SUFFICES ASSUME NEW us \in Seq(Request)
               PROVE  /\ Answers(us) \in Seq(Message)
                      /\ Len(Answers(us)) = Len(us)
                      /\ \A i \in 1..Len(us) : Answers(us)[i] = ReplyMessage(us[i])
    OBVIOUS
  <2>1. DOMAIN us = 1..Len(us) /\ Len(us) \in Nat /\ \A i \in 1..Len(us) : us[i] \in Request
    OBVIOUS
  <2>2. Answers(us) = [i \in 1..Len(us) |-> ReplyMessage(us[i])]
    BY <2>1 DEF Answers
  <2> HIDE DEF Answers
  <2> QED BY <1>1, <2>1, <2>2
<1> DEFINE longer == Append(turns, r)
           u == Answers(longer)
           v == Append(Answers(turns), ReplyMessage(r))
<1>3. /\ longer \in Seq(Request) /\ Len(longer) = Len(turns) + 1 /\ Len(turns) \in Nat
      /\ \A i \in 1..Len(turns) : longer[i] = turns[i]
      /\ longer[Len(turns) + 1] = r
  OBVIOUS
<1> HIDE DEF longer
<1>4. /\ u \in Seq(Message) /\ Len(u) = Len(turns) + 1
      /\ \A i \in 1..(Len(turns) + 1) : u[i] = ReplyMessage(longer[i])
  BY <1>2, <1>3
<1>5. /\ v \in Seq(Message) /\ Len(v) = Len(turns) + 1
      /\ \A i \in 1..Len(turns) : v[i] = ReplyMessage(turns[i])
      /\ v[Len(turns) + 1] = ReplyMessage(r)
  BY <1>1, <1>2, <1>3
<1>6. ASSUME NEW i \in 1..(Len(turns) + 1) PROVE u[i] = v[i]
  <2> HIDE DEF u, v
  <2>1. CASE i = Len(turns) + 1
    BY <1>3, <1>4, <1>5, <2>1
  <2>2. CASE i # Len(turns) + 1
    <3>1. i \in 1..Len(turns)
      BY <1>3, <2>2
    <3> QED BY <1>3, <1>4, <1>5, <3>1
  <2> QED BY <2>1, <2>2
<1>7. u = v
  <2> HIDE DEF u, v
  <2> QED BY <1>3, <1>4, <1>5, <1>6
<1> QED BY <1>1, <1>2, <1>7 DEF longer

\* A reply that is appended to the window of a transcript and its answers
\* makes the window of the transcript and one answer more.
LEMMA WindowTakesReply ==
    ASSUME NEW transcript \in Seq(Message), NEW turns \in Seq(Request), NEW r \in Request
    PROVE  Window(Append(Window(Cleaned(transcript) \o Answers(turns)), ReplyMessage(r)))
             = Window(Cleaned(transcript) \o Answers(Append(turns, r)))
<1> DEFINE X == Cleaned(transcript)
           A == Answers(turns)
           b == ReplyMessage(r)
<1>1. X \in Seq(Message) /\ A \in Seq(Message) /\ b \in Message
  BY CleanedType, AnswersAppend
<1>2. X \o A \in Seq(Message)
  <2> HIDE DEF X, A
  <2> QED BY <1>1
<1>3. Append(X \o A, b) = X \o Append(A, b)
  <2> HIDE DEF X, A, b
  <2>1. <<b>> \in Seq(Message)
    BY <1>1
  <2>2. Append(X \o A, b) = (X \o A) \o <<b>> /\ Append(A, b) = A \o <<b>>
    BY <1>1, <1>2, AppendIsConcat
  <2>3. (X \o A) \o <<b>> = X \o (A \o <<b>>)
    BY <1>1, <2>1, ConcatAssociative
  <2> QED BY <2>2, <2>3
<1>4. Window(Append(Window(X \o A), b)) = Window(Append(X \o A, b))
  <2> HIDE DEF X, A, b
  <2> QED BY <1>1, <1>2, WindowAppend
<1>5. Answers(Append(turns, r)) = Append(A, b)
  BY AnswersAppend
<1> QED BY <1>3, <1>4, <1>5
-----------------------------------------------------------------------------
\* A step that brings no request to a replica or under its timeout.
Onwards ==
    /\ at' = at
    /\ \A q \in Request :
        /\ pc'[q] \in Timed => pc[q] \in Timed
        /\ pc'[q] = "accepted" => pc[q] = "accepted"
        /\ pc'[q] # "new" => pc[q] # "new"

\* All steps of a request are, but its first and that which starts its stream.
LEMMA MostGoOnwards ==
    ASSUME TypeOK, NEW r \in Request,
           \/ \E content, counts \in BOOLEAN : ReadLine(r, content, counts)
           \/ ReadEnd(r) \/ CallReturns(r)
           \/ OtherStep(r)
    PROVE  Onwards
<1>1. /\ {"opening", "reading", "token", "refused", "calling"} = Timed
      /\ "new" \notin Holding
  BY DEF Timed, InTimeout, Started, Holding
<1>2. ASSUME NEW label, pc' = [pc EXCEPT ![r] = label], at' = at, pc[r] # "new",
             label \in Timed => pc[r] \in Timed, label # "accepted"
      PROVE  Onwards
  BY <1>2 DEF Onwards, TypeOK
<1>3. CASE \E content, counts \in BOOLEAN : ReadLine(r, content, counts)
  <2>1. pc[r] = "reading" /\ at' = at /\ pc' \in {pc, [pc EXCEPT ![r] = "token"]}
    BY <1>3 DEF ReadLine
  <2> QED BY <1>1, <1>2, <2>1 DEF Onwards
<1>4. CASE ReadEnd(r) \/ CallReturns(r)
  BY <1>1, <1>2, <1>4 DEF ReadEnd, CallReturns
<1>5. CASE UpstreamOpens(r) \/ UpstreamFails(r)
  BY <1>1, <1>2, <1>5 DEF UpstreamOpens, UpstreamFails
<1>6. CASE Abandon(r) \/ CallFails(r)
  BY <1>1, <1>2, <1>6 DEF Abandon, CallFails
<1>7. ASSUME NEW label \in {"closed", "broken"}, End(r, label), pc[r] # "new"
      PROVE  Onwards
  BY <1>1, <1>2, <1>7
<1>8. CASE ReadGone(r) \/ ReadBroken(r) \/ Cancel(r) \/ GenerationTimeout(r)
  <2>1. pc[r] # "new"
    BY <1>1, <1>8 DEF ReadGone, ReadBroken, Cancel, GenerationTimeout, Timed, Started,
                     InTimeout
  <2>2. CASE \E label \in {"closed", "broken"} : End(r, label)
    BY <1>7, <2>1, <2>2
  <2>3. CASE Yield(r, "MODEL_TIMEOUT", "error") /\ at' = at
    BY <1>1, <1>2, <2>1, <2>3
  <2> QED BY <1>8, <2>2, <2>3 DEF ReadGone, ReadBroken, Cancel, GenerationTimeout, Close
<1>9. CASE Resume(r)
  <2>1. CASE Close(r)
    BY <1>7, <1>9, <2>1 DEF Resume, Close
  <2> QED BY <1>1, <1>2, <1>9, <2>1 DEF Resume
<1>10. CASE ClientLeaves(r)
  BY <1>10 DEF ClientLeaves, Onwards
<1> QED BY <1>3, <1>4, <1>5, <1>6, <1>8, <1>9, <1>10 DEF OtherStep

\* When such a step leaves the memory and the clock alone, nothing happens to
\* what is remembered.
LEMMA StillOK ==
    ASSUME BInv, IInv', Onwards, UNCHANGED <<memories, now, began>>
    PROVE  BInv'
<1> USE DEF memories
<1>1. BackendTypeOK'
  BY DEF BInv, BackendTypeOK
<1>2. Timely'
  BY DEF BInv, Timely, Onwards
<1>3. SeenSince'
  BY DEF BInv, SeenSince, Onwards
<1>4. AnyReplicaAnswersAlike'
  BY DEF BInv, AnyReplicaAnswersAlike, Onwards
<1>5. Remembering'
  BY DEF BInv, Remembering, Remembers
<1> QED BY <1>1, <1>2, <1>3, <1>4, <1>5 DEF BInv

\* stream_chat enters its timeout at once, and so in the time of the turn.
LEMMA StartTurnOK ==
    ASSUME BInv, IInv', NEW r \in Request, StartTurn(r)
    PROVE  BInv'
<1> USE DEF memories
<1>1. /\ pc[r] = "accepted" /\ pc' = [pc EXCEPT ![r] = "opening"] /\ at' = at
      /\ began' = [began EXCEPT ![r] = now] /\ UNCHANGED <<memories, now>>
      /\ "accepted" \notin Timed
  BY DEF StartTurn, StartStream, Timed, InTimeout
<1>2. began' = began /\ began[r] = now /\ now \in Nat
  BY <1>1 DEF BInv, Timely, BackendTypeOK
<1>3. \A q \in Request : q # r => pc'[q] = pc[q]
  BY <1>1 DEF BInv, IInv, TypeOK
<1>4. BackendTypeOK'
  BY <1>1, <1>2 DEF BInv, BackendTypeOK
<1>5. Timely'
  <2> SUFFICES ASSUME NEW q \in Request
               PROVE  /\ began[q] <= now
                      /\ pc'[q] = "accepted" => began[q] = now
                      /\ pc'[q] \in Timed => now - began[q] <= GenerationSeconds
    BY <1>1, <1>2 DEF Timely
  <2>1. CASE q = r
    <3>1. pc'[q] = "opening"
      BY <1>1, <2>1 DEF BInv, IInv, TypeOK
    <3> QED BY <1>2, <2>1, <3>1, TimesType
  <2>2. CASE q # r
    BY <1>3, <2>2 DEF BInv, Timely
  <2> QED BY <2>1, <2>2
<1>6. SeenSince'
  BY <1>1, <1>2, <1>3 DEF BInv, SeenSince
<1>7. AnyReplicaAnswersAlike'
  BY <1>1, <1>3 DEF BInv, AnyReplicaAnswersAlike
<1>8. Remembering'
  BY <1>1 DEF BInv, Remembering, Remembers
<1> QED BY <1>4, <1>5, <1>6, <1>7, <1>8 DEF BInv

\* A turn that arrives makes its session anew and takes it up from there.
LEMMA HandleTurnOK ==
    ASSUME BInv, IInv', NEW r \in Request, NEW p \in Replica, HandleTurn(r, p)
    PROVE  BInv'
<1> DEFINE s == SessionOf[r]
           T == TranscriptOf[r]
           n == Synced(memory[p], s, T, now)
<1>1. /\ now \in Nat /\ now' = now
      /\ StoreOK(memory[p]) /\ s \in Session /\ T \in Seq(Message)
  BY TurnAssumption DEF BInv, BackendTypeOK, HandleTurn
<1>2. /\ memory' = [memory EXCEPT ![p] = n]
      /\ conversation' = [conversation EXCEPT ![r] = memory'[p].entries[s].messages]
      /\ latest' = [latest EXCEPT ![p][s] = r]
      /\ replies' = [replies EXCEPT ![p][s] = <<>>]
      /\ began' = [began EXCEPT ![r] = now]
      /\ at' = [at EXCEPT ![r] = p]
  BY DEF HandleTurn, SyncTurn, Handle
<1>3. /\ StoreOK(n)
      /\ s \in Live(n)
      /\ n.entries[s].messages = Window(Cleaned(T))
      /\ n.entries[s].lastSeen = now
      /\ \A o \in Live(n) \ {s} : o \in Live(memory[p]) /\ n.entries[o] = memory[p].entries[o]
  <2> HIDE DEF s, T
  <2> QED BY <1>1, SyncedOK, SyncedIsHeld, SyncedLeavesOthers
<1> HIDE DEF n
<1>4. memory'[p] = n /\ \A o \in Replica : o # p => memory'[o] = memory[o]
  BY <1>2 DEF BInv, BackendTypeOK
<1>5. /\ began'[r] = now /\ \A q \in Request : q # r => began'[q] = began[q]
      /\ at'[r] = p /\ \A q \in Request : q # r => at'[q] = at[q]
      /\ \A q \in Request : q # r => pc'[q] = pc[q]
      /\ conversation'[r] = Window(Cleaned(T))
      /\ \A q \in Request : q # r => conversation'[q] = conversation[q]
  <2>1. /\ began'[r] = now /\ \A q \in Request : q # r => began'[q] = began[q]
        /\ at'[r] = p /\ \A q \in Request : q # r => at'[q] = at[q]
    BY <1>2 DEF BInv, BackendTypeOK, IInv, TypeOK
  <2>2. \A q \in Request : q # r => pc'[q] = pc[q]
    BY DEF HandleTurn, Handle, BInv, IInv, TypeOK
  <2>3. conversation'[r] = memory'[p].entries[s].messages
        /\ \A q \in Request : q # r => conversation'[q] = conversation[q]
    BY <1>2 DEF BInv, BackendTypeOK
  <2> QED BY <1>3, <1>4, <2>1, <2>2, <2>3
<1>6. BackendTypeOK'
  <2>1. began' \in [Request -> Nat] /\ now' \in Nat
    BY <1>1, <1>2 DEF BInv, BackendTypeOK
  <2>2. memory' = [o \in Replica |-> memory'[o]] /\ \A o \in Replica : StoreOK(memory'[o])
    BY <1>2, <1>3, <1>4 DEF BInv, BackendTypeOK
  <2>3. conversation' = [q \in Request |-> conversation'[q]]
    BY <1>2 DEF BInv, BackendTypeOK
  <2>4. latest' \in [Replica -> [Session -> Request \cup {NoRequest}]]
    BY <1>1, <1>2 DEF BInv, BackendTypeOK
  <2>5. replies' \in [Replica -> [Session -> Seq(Request)]]
    <3>1. <<>> \in Seq(Request) /\ replies \in [Replica -> [Session -> Seq(Request)]]
      BY DEF BInv, BackendTypeOK
    <3>2. [replies[p] EXCEPT ![s] = <<>>] \in [Session -> Seq(Request)]
      BY <1>1, <3>1
    <3>3. replies' = [replies EXCEPT ![p] = [replies[p] EXCEPT ![s] = <<>>]]
      BY <1>2
    <3> QED BY <3>1, <3>2, <3>3
  <2> QED BY <2>1, <2>2, <2>3, <2>4, <2>5 DEF BackendTypeOK
<1>7. Timely'
  <2> SUFFICES ASSUME NEW q \in Request
               PROVE  /\ began'[q] <= now
                      /\ pc'[q] = "accepted" => began'[q] = now
                      /\ pc'[q] \in Timed => now - began'[q] <= GenerationSeconds
    BY <1>1 DEF Timely
  <2>1. CASE q = r
    BY <1>1, <1>5, <2>1, TimesType
  <2>2. CASE q # r
    BY <1>5, <2>2 DEF BInv, Timely
  <2> QED BY <2>1, <2>2
<1>8. SeenSince'
  <2> SUFFICES ASSUME NEW q \in Request, pc'[q] \in Timed \cup {"accepted"},
                      SessionOf[q] \in Live(memory'[at'[q]])
               PROVE  began'[q] <= memory'[at'[q]].entries[SessionOf[q]].lastSeen
    BY DEF SeenSince
  <2>1. CASE q = r
    BY <1>1, <1>3, <1>4, <1>5, <2>1
  <2>2. CASE q # r
    <3>1. /\ pc[q] \in Timed \cup {"accepted"} /\ at'[q] = at[q]
          /\ began'[q] = began[q] /\ began[q] <= now
      BY <1>5, <2>2 DEF BInv, Timely
    <3>2. at[q] \in Replica
      BY <3>1 DEF BInv, IInv, Placed, Counted, Holding, Started, Timed
    <3>3. \/ SessionOf[q] \notin Live(memory[at[q]])
          \/ began[q] <= memory[at[q]].entries[SessionOf[q]].lastSeen
      BY <3>1 DEF BInv, SeenSince
    <3>4. CASE at[q] # p
      BY <1>4, <3>1, <3>2, <3>3, <3>4
    <3>5. CASE at[q] = p /\ SessionOf[q] = s
      BY <1>3, <1>4, <3>1, <3>5
    <3>6. CASE at[q] = p /\ SessionOf[q] # s
      BY <1>3, <1>4, <3>1, <3>3, <3>6
    <3> QED BY <3>4, <3>5, <3>6
  <2> QED BY <2>1, <2>2
<1>9. AnyReplicaAnswersAlike'
  BY <1>5 DEF BInv, AnyReplicaAnswersAlike
<1>10. Remembering'
  <2> SUFFICES ASSUME NEW o \in Replica, NEW u \in Live(memory'[o])
               PROVE  Remembers(o, u)'
    BY DEF Remembering
  <2>1. u \in Session
    BY <1>6 DEF BackendTypeOK, StoreOK, IsMemory, Live
  <2>2. /\ latest \in [Replica -> [Session -> Request \cup {NoRequest}]]
        /\ replies \in [Replica -> [Session -> Seq(Request)]]
    BY DEF BInv, BackendTypeOK
  <2>3. CASE o = p /\ u = s
    <3>1. latest'[o][u] = r /\ replies'[o][u] = <<>> /\ r # NoRequest
      BY <1>1, <1>2, <2>2, <2>3, TurnAssumption
    <3>2. Answers(replies'[o][u]) = <<>>
      BY <3>1 DEF Answers
    <3>3. Cleaned(T) \o <<>> = Cleaned(T)
      <4>1. Cleaned(T) \in Seq(Message)
        BY <1>1, CleanedType
      <4> QED BY <4>1, ConcatEmptySeq
    <3>4. memory'[o].entries[u].messages = Window(Cleaned(T))
      BY <1>3, <1>4, <2>3
    <3> QED BY <3>1, <3>2, <3>3, <3>4 DEF Remembers
  <2>4. CASE ~(o = p /\ u = s)
    <3>1. latest'[o][u] = latest[o][u] /\ replies'[o][u] = replies[o][u]
      BY <1>1, <1>2, <2>1, <2>2, <2>4
    <3>2. u \in Live(memory[o]) /\ memory'[o].entries[u] = memory[o].entries[u]
      BY <1>3, <1>4, <2>4
    <3>3. Remembers(o, u)
      BY <3>2 DEF BInv, Remembering
    <3> QED BY <3>1, <3>2, <3>3 DEF Remembers
  <2> QED BY <2>3, <2>4
<1> QED BY <1>6, <1>7, <1>8, <1>9, <1>10 DEF BInv
\* A turn under its timeout has a replica, and cannot find its session there
\* past its time to live.
LEMMA SessionIsAlive ==
    ASSUME BInv, NEW r \in Request, pc[r] \in Timed
    PROVE  /\ at[r] \in Replica
           /\ SessionOf[r] \in Live(memory[at[r]]) =>
                    ~Expired(memory[at[r]], SessionOf[r], now)
<1> DEFINE p == at[r]
           s == SessionOf[r]
<1>1. p \in Replica
  BY DEF BInv, IInv, Placed, Counted, Holding, Started, Timed
<1>2. ASSUME s \in Live(memory[p]) PROVE ~Expired(memory[p], s, now)
  <2>1. memory[p].entries[s].lastSeen \in Int
    BY <1>1, <1>2 DEF BInv, BackendTypeOK, StoreOK, IsMemory, Live, Entry
  <2>2. now \in Int /\ began[r] \in Int
    BY DEF BInv, BackendTypeOK
  <2>3. now - began[r] <= GenerationSeconds /\ began[r] <= memory[p].entries[s].lastSeen
    BY <1>2 DEF BInv, Timely, SeenSince
  <2>4. GenerationSeconds \in Int /\ Ttl \in Int /\ GenerationSeconds <= Ttl
    BY TimesType, SettingsType
  <2> HIDE DEF p, s
  <2> QED BY <2>1, <2>2, <2>3, <2>4 DEF Expired
<1> QED BY <1>1, <1>2

\* The end of an answer: what it does to the memory of its replica.
LEMMA EndTurnRemembers ==
    ASSUME BInv, NEW r \in Request, EndTurn(r)
    PROVE  /\ pc[r] \in Timed /\ at[r] \in Replica
           /\ \/ /\ memory' = [memory EXCEPT ![at[r]] =
                                 Appended(memory[at[r]], SessionOf[r], ReplyOf[r], now)]
                 /\ replies' = [replies EXCEPT ![at[r]] =
                                 [replies[at[r]] EXCEPT ![SessionOf[r]] =
                                    Append(replies[at[r]][SessionOf[r]], r)]]
              \/ UNCHANGED <<memory, replies>>
           /\ UNCHANGED <<conversation, latest, now, began>>
<1>1. pc[r] \in Timed
  BY DEF EndTurn, ReadEnd, CallReturns, Timed, InTimeout
<1>2. at[r] \in Replica
  BY <1>1, SessionIsAlive
<1> QED BY <1>1, <1>2 DEF EndTurn, Remember

\* A complete answer becomes one more message of its session, if that is there.
LEMMA EndTurnOK ==
    ASSUME BInv, IInv', NEW r \in Request, EndTurn(r)
    PROVE  BInv'
<1> DEFINE p == at[r]
           s == SessionOf[r]
           n == Appended(memory[p], s, ReplyOf[r], now)
<1>1. Onwards
  BY MostGoOnwards DEF EndTurn, BInv, IInv
<1>2. /\ p \in Replica
      /\ UNCHANGED <<conversation, latest, now, began>>
      /\ \/ /\ memory' = [memory EXCEPT ![p] = n]
            /\ replies' = [replies EXCEPT ![p] = [replies[p] EXCEPT ![s] = Append(replies[p][s], r)]]
         \/ UNCHANGED <<memory, replies>>
  BY EndTurnRemembers
<1>3. CASE UNCHANGED <<memory, replies>>
  BY <1>1, <1>2, <1>3, StillOK DEF memories
<1>4. CASE /\ memory' = [memory EXCEPT ![p] = n]
           /\ replies' = [replies EXCEPT ![p] = [replies[p] EXCEPT ![s] = Append(replies[p][s], r)]]
  <2>1. /\ s \in Session /\ ReplyOf[r] \in Content \ {NoContent}
        /\ now \in Nat /\ StoreOK(memory[p])
        /\ replies \in [Replica -> [Session -> Seq(Request)]]
        /\ replies[p] \in [Session -> Seq(Request)] /\ replies[p][s] \in Seq(Request)
    BY <1>2, TurnAssumption DEF BInv, BackendTypeOK
  <2>2. StoreOK(n) /\ Live(n) = Live(memory[p])
    <3> HIDE DEF p, s
    <3> QED BY <2>1, AppendedOK, OthersInsertNothing
  <2>3. \A o \in Live(memory[p]) \ {s} : n.entries[o] = memory[p].entries[o]
    <3> HIDE DEF p, s
    <3> QED BY OthersStayAsTheyAre
  <2>4. s \in Live(memory[p]) =>
          /\ n.entries[s].lastSeen = now
          /\ n.entries[s].messages = Window(Append(memory[p].entries[s].messages, ReplyMessage(r)))
    <3>1. ReplyMessage(r) = [role |-> "assistant", content |-> ReplyOf[r]]
      BY DEF ReplyMessage
    <3> HIDE DEF p, s
    <3> QED BY <2>1, <3>1, AppendedEntry
  <2> HIDE DEF n
  <2>5. memory'[p] = n /\ \A o \in Replica : o # p => memory'[o] = memory[o]
    BY <1>2, <1>4 DEF BInv, BackendTypeOK
  <2>6. \A o \in Replica : Live(memory'[o]) = Live(memory[o])
    BY <2>2, <2>5
  <2>7. BackendTypeOK'
    <3>1. memory' = [o \in Replica |-> memory'[o]] /\ \A o \in Replica : StoreOK(memory'[o])
      BY <1>4, <2>2, <2>5 DEF BInv, BackendTypeOK
    <3>2. replies' \in [Replica -> [Session -> Seq(Request)]]
      <4>1. Append(replies[p][s], r) \in Seq(Request)
        BY <2>1
      <4>2. [replies[p] EXCEPT ![s] = Append(replies[p][s], r)] \in [Session -> Seq(Request)]
        BY <2>1, <4>1
      <4> QED BY <1>4, <2>1, <4>2
    <3> QED BY <1>2, <3>1, <3>2 DEF BInv, BackendTypeOK
  <2>8. Timely'
    BY <1>1, <1>2 DEF BInv, Timely, Onwards
  <2>9. SeenSince'
    <3> SUFFICES ASSUME NEW q \in Request, pc'[q] \in Timed \cup {"accepted"},
                        SessionOf[q] \in Live(memory'[at'[q]])
                 PROVE  began'[q] <= memory'[at'[q]].entries[SessionOf[q]].lastSeen
      BY DEF SeenSince
    <3>1. /\ pc[q] \in Timed \cup {"accepted"} /\ at'[q] = at[q]
          /\ began'[q] = began[q] /\ began[q] <= now
      BY <1>1, <1>2 DEF Onwards, BInv, Timely
    <3>2. at[q] \in Replica
      BY <3>1 DEF BInv, IInv, Placed, Counted, Holding, Started, Timed
    <3>3. SessionOf[q] \in Live(memory[at[q]])
      BY <2>6, <3>1, <3>2
    <3>4. began[q] <= memory[at[q]].entries[SessionOf[q]].lastSeen
      BY <3>1, <3>3 DEF BInv, SeenSince
    <3>5. CASE at[q] # p
      BY <2>5, <3>1, <3>2, <3>4, <3>5
    <3>6. CASE at[q] = p /\ SessionOf[q] = s
      BY <2>4, <2>5, <3>1, <3>3, <3>6
    <3>7. CASE at[q] = p /\ SessionOf[q] # s
      BY <2>3, <2>5, <3>1, <3>3, <3>4, <3>7
    <3> QED BY <3>5, <3>6, <3>7
  <2>10. AnyReplicaAnswersAlike'
    BY <1>1, <1>2 DEF BInv, AnyReplicaAnswersAlike, Onwards
  <2>11. Remembering'
    <3> SUFFICES ASSUME NEW o \in Replica, NEW u \in Live(memory'[o])
                 PROVE  Remembers(o, u)'
      BY DEF Remembering
    <3>1. u \in Live(memory[o]) /\ Remembers(o, u) /\ u \in Session
      BY <2>6, <2>7 DEF BInv, Remembering, BackendTypeOK, StoreOK, IsMemory, Live
    <3>2. CASE o = p /\ u = s
      <4> DEFINE T == TranscriptOf[latest[p][s]]
                 turns == replies[p][s]
      <4>1. T \in Seq(Message) /\ turns \in Seq(Request)
        BY <1>2, <2>1, <3>1, <3>2, TurnAssumption DEF Remembers, BInv, BackendTypeOK
      <4>2. replies'[p][s] = Append(turns, r) /\ latest'[p][s] = latest[p][s]
        BY <1>2, <1>4, <2>1
      <4>3. memory[p].entries[s].messages = Window(Cleaned(T) \o Answers(turns))
        BY <3>1, <3>2 DEF Remembers
      <4>4. memory'[p].entries[s].messages
              = Window(Append(memory[p].entries[s].messages, ReplyMessage(r)))
        BY <2>4, <2>5, <3>1, <3>2
      <4>5. memory'[p].entries[s].messages = Window(Cleaned(T) \o Answers(Append(turns, r)))
        <5> HIDE DEF T, turns, p, s
        <5> QED BY <4>1, <4>3, <4>4, WindowTakesReply
      <4> QED BY <3>1, <3>2, <4>2, <4>5 DEF Remembers
    <3>3. CASE ~(o = p /\ u = s)
      <4>1. replies'[o][u] = replies[o][u] /\ latest'[o][u] = latest[o][u]
        BY <1>2, <1>4, <2>1, <3>1, <3>3
      <4>2. memory'[o].entries[u] = memory[o].entries[u]
        BY <2>3, <2>5, <3>1, <3>3
      <4> QED BY <3>1, <4>1, <4>2 DEF Remembers
    <3> QED BY <3>2, <3>3
  <2> QED BY <2>7, <2>8, <2>9, <2>10, <2>11 DEF BInv
<1> QED BY <1>2, <1>3, <1>4

\* A pod that is replaced remembers nothing.
LEMMA RestartReplicaOK ==
    ASSUME BInv, IInv', NEW p \in Replica, RestartReplica(p)
    PROVE  BInv'
<1>1. /\ memory' = [memory EXCEPT ![p] = EmptyMemory]
      /\ UNCHANGED <<conversation, latest, replies, now, began, at>>
      /\ \A q \in Request : pc'[q] \in {pc[q], "lost"} /\ (pc'[q] = "lost" => pc[q] # "new")
  <2>1. "new" \notin Holding /\ "new" # "abandoned" /\ "new" # "lost"
    BY DEF Holding, Started, InTimeout
  <2> QED BY <2>1 DEF RestartReplica, Restart
<1>2. Onwards
  BY <1>1 DEF Onwards, Timed, InTimeout
<1>3. StoreOK(EmptyMemory) /\ Live(EmptyMemory) = {}
  BY EmptyMemoryOK DEF EmptyMemory, Live
<1>4. memory'[p] = EmptyMemory /\ \A o \in Replica : o # p => memory'[o] = memory[o]
  BY <1>1 DEF BInv, BackendTypeOK
<1>5. BackendTypeOK'
  BY <1>1, <1>3, <1>4 DEF BInv, BackendTypeOK
<1>6. Timely'
  BY <1>1, <1>2 DEF BInv, Timely, Onwards
<1>7. SeenSince'
  <2> SUFFICES ASSUME NEW q \in Request, pc'[q] \in Timed \cup {"accepted"},
                      SessionOf[q] \in Live(memory'[at'[q]])
               PROVE  began'[q] <= memory'[at'[q]].entries[SessionOf[q]].lastSeen
    BY DEF SeenSince
  <2>1. pc[q] \in Timed \cup {"accepted"} /\ at'[q] = at[q] /\ began'[q] = began[q]
    BY <1>1, <1>2 DEF Onwards
  <2>2. at[q] \in Replica
    BY <2>1 DEF BInv, IInv, Placed, Counted, Holding, Started, Timed
  <2>3. memory'[at[q]] = memory[at[q]]
    BY <1>3, <1>4, <2>1, <2>2
  <2> QED BY <2>1, <2>3 DEF BInv, SeenSince
<1>8. AnyReplicaAnswersAlike'
  BY <1>1, <1>2 DEF BInv, AnyReplicaAnswersAlike, Onwards
<1>9. Remembering'
  BY <1>1, <1>3, <1>4 DEF BInv, Remembering, Remembers
<1> QED BY <1>5, <1>6, <1>7, <1>8, <1>9 DEF BInv

\* forget takes one session away and leaves the others.
LEMMA ForgetSessionOK ==
    ASSUME BInv, IInv', NEW s \in Session, NEW p \in Replica, ForgetSession(s, p)
    PROVE  BInv'
<1> DEFINE n == Forgotten(memory[p], s)
<1>1. /\ memory' = [memory EXCEPT ![p] = n]
      /\ UNCHANGED <<pc, at, conversation, latest, replies, now, began>>
  BY DEF ForgetSession, vars
<1>2. /\ StoreOK(n) /\ Live(n) \subseteq Live(memory[p]) \ {s}
      /\ \A o \in Live(n) : n.entries[o] = memory[p].entries[o]
  <2>1. StoreOK(memory[p])
    BY DEF BInv, BackendTypeOK
  <2>2. Live(n) = Live(memory[p]) \ {s}
    BY DEF Forgotten, Retain, Live
  <2> QED BY <2>1, <2>2, ForgottenOK, OthersStayAsTheyAre
<1> HIDE DEF n
<1>3. memory'[p] = n /\ \A o \in Replica : o # p => memory'[o] = memory[o]
  BY <1>1 DEF BInv, BackendTypeOK
<1>4. \A o \in Replica : \A u \in Live(memory'[o]) :
          u \in Live(memory[o]) /\ memory'[o].entries[u] = memory[o].entries[u]
  BY <1>2, <1>3
<1>5. BackendTypeOK'
  BY <1>1, <1>2, <1>3 DEF BInv, BackendTypeOK
<1>6. Timely'
  BY <1>1 DEF BInv, Timely
<1>7. SeenSince'
  <2> SUFFICES ASSUME NEW q \in Request, pc[q] \in Timed \cup {"accepted"},
                      SessionOf[q] \in Live(memory'[at[q]])
               PROVE  began[q] <= memory'[at[q]].entries[SessionOf[q]].lastSeen
    BY <1>1 DEF SeenSince
  <2>1. at[q] \in Replica
    BY DEF BInv, IInv, Placed, Counted, Holding, Started, Timed
  <2> QED BY <1>4, <2>1 DEF BInv, SeenSince
<1>8. AnyReplicaAnswersAlike'
  BY <1>1 DEF BInv, AnyReplicaAnswersAlike
<1>9. Remembering'
  BY <1>1, <1>4 DEF BInv, Remembering, Remembers
<1> QED BY <1>5, <1>6, <1>7, <1>8, <1>9 DEF BInv

\* Time passes no generation timeout.
LEMMA TickOK ==
    ASSUME BInv, IInv', Tick
    PROVE  BInv'
<1>1. /\ UNCHANGED <<pc, at, memory, conversation, latest, replies, began>>
      /\ now' = now + 1 /\ now \in Nat
      /\ \A q \in Request :
            /\ pc[q] # "accepted"
            /\ pc[q] \in Timed => ~(now - began[q] >= GenerationSeconds)
            /\ began[q] \in Nat
  BY DEF Tick, vars, memories, TimedOut, Timed, BInv, BackendTypeOK
<1>2. BackendTypeOK'
  BY <1>1 DEF BInv, BackendTypeOK
<1>3. Timely'
  BY <1>1, TimesType DEF BInv, Timely
<1>4. SeenSince'
  BY <1>1 DEF BInv, SeenSince
<1>5. AnyReplicaAnswersAlike'
  BY <1>1 DEF BInv, AnyReplicaAnswersAlike
<1>6. Remembering'
  BY <1>1 DEF BInv, Remembering, Remembers
<1> QED BY <1>2, <1>3, <1>4, <1>5, <1>6 DEF BInv

\* The invariant holds while nothing has been asked.
LEMMA InitBInv == BackendInit => BInv
<1> SUFFICES ASSUME BackendInit PROVE BInv
  OBVIOUS
<1>1. /\ \A p \in Replica : memory[p] = EmptyMemory
      /\ StoreOK(EmptyMemory) /\ Live(EmptyMemory) = {}
  BY EmptyMemoryOK DEF BackendInit, EmptyMemory, Live
<1>2. IInv
  BY InitIInv DEF BackendInit
<1>3. BackendTypeOK
  <2>1. replies \in [Replica -> [Session -> Seq(Request)]]
    BY DEF BackendInit
  <2>2. latest \in [Replica -> [Session -> Request \cup {NoRequest}]]
    BY DEF BackendInit
  <2> QED BY <1>1, <2>1, <2>2 DEF BackendInit, BackendTypeOK
<1>4. Timely /\ SeenSince /\ AnyReplicaAnswersAlike
  <2>1. \A r \in Request : pc[r] = "new" /\ began[r] = 0 /\ now = 0
    BY DEF BackendInit, Init
  <2> QED BY <2>1 DEF Timely, SeenSince, AnyReplicaAnswersAlike, Timed, InTimeout
<1>5. Remembering
  BY <1>1 DEF Remembering
<1> QED BY <1>2, <1>3, <1>4, <1>5 DEF BInv

\* Every step of the backend keeps the invariant.
LEMMA NextBInv == BInv /\ [BackendNext]_backendVars => BInv'
<1> SUFFICES ASSUME BInv, [BackendNext]_backendVars PROVE BInv'
  OBVIOUS
<1>1. IInv'
  BY BackendStepIsRouteStep, NextIInv DEF BInv
<1>2. CASE UNCHANGED backendVars
  <2>1. UNCHANGED <<memories, now, began>> /\ Onwards
    BY <1>2 DEF backendVars, vars, Onwards
  <2> QED BY <1>1, <2>1, StillOK
<1>3. ASSUME NEW r \in Request, TurnStep(r) PROVE BInv'
  <2>1. CASE \E p \in Replica : HandleTurn(r, p)
    BY <1>1, <2>1, HandleTurnOK
  <2>2. CASE StartTurn(r)
    BY <1>1, <2>2, StartTurnOK
  <2>3. CASE ReadTurn(r) \/ OtherStep(r)
    <3>1. Onwards
      BY <2>3, MostGoOnwards DEF ReadTurn, BInv, IInv
    <3>2. UNCHANGED <<memories, now, began>>
      BY <2>3 DEF ReadTurn, OtherStep
    <3> QED BY <1>1, <3>1, <3>2, StillOK
  <2>4. CASE EndTurn(r)
    BY <1>1, <2>4, EndTurnOK
  <2> QED BY <1>3, <2>1, <2>2, <2>3, <2>4 DEF TurnStep
<1> QED BY <1>1, <1>2, <1>3, RestartReplicaOK, ForgetSessionOK, TickOK DEF BackendNext

\* The invariant holds in every reachable state.
LEMMA BackendInvariance == BackendSpec => []BInv
  BY InitBInv, NextBInv, PTL DEF BackendSpec

-----------------------------------------------------------------------------
\* A turn is answered alike by every replica, warm or cold, restarted or not:
\* the answer is from the window of what was posted, for any number of
\* replicas, any transcripts and any interleaving of the turns of a session.
THEOREM EveryReplicaAnswersAlike == BackendSpec => []AnyReplicaAnswersAlike
  BY BackendInvariance, PTL DEF BInv

\* What a replica remembers is the window of the last transcript posted to it
\* and of the answers completed since, and nothing of any other session.
THEOREM MemoryKeepsToItsTurns == BackendSpec => []MemoryIsTranscript
<1>1. BInv => MemoryIsTranscript
  BY MemoryIsRemembered DEF BInv
<1> QED BY <1>1, BackendInvariance, PTL

\* No reply comes so late that it brings an expired session back: the
\* generation timeout is within the time to live, and a session is seen when
\* a turn begins.
THEOREM RepliesReviveNothing == BackendSpec => NoReplyRevives
<1>1. ASSUME BInv, [BackendNext]_backendVars
      PROVE  \A p \in Replica : \A s \in Live(memory[p]) \cap Live(memory'[p]) :
                Expired(memory[p], s, now) =>
                    \/ memory'[p].entries[s] = memory[p].entries[s]
                    \/ memory'[p].entries[s].turns = 1 /\ \E r \in Request : HandleTurn(r, p)
  <2> SUFFICES ASSUME NEW p \in Replica, NEW s \in Live(memory[p]) \cap Live(memory'[p]),
                      Expired(memory[p], s, now)
               PROVE  \/ memory'[p].entries[s] = memory[p].entries[s]
                      \/ memory'[p].entries[s].turns = 1 /\ \E r \in Request : HandleTurn(r, p)
    OBVIOUS
  <2>1. CASE memory' = memory
    BY <2>1
  <2>2. ASSUME NEW r \in Request, NEW o \in Replica, HandleTurn(r, o)
        PROVE  \/ memory'[p].entries[s] = memory[p].entries[s]
               \/ memory'[p].entries[s].turns = 1 /\ HandleTurn(r, p)
    <3>1. memory' = [memory EXCEPT ![o] =
                        Synced(memory[o], SessionOf[r], TranscriptOf[r], now)]
      BY <2>2 DEF HandleTurn, SyncTurn
    <3>2. CASE o # p
      BY <3>1, <3>2
    <3>3. CASE o = p
      <4>1. /\ StoreOK(memory[p]) /\ now \in Int
            /\ SessionOf[r] \in Session /\ TranscriptOf[r] \in Seq(Message)
        BY <1>1, TurnAssumption DEF BInv, BackendTypeOK
      <4>2. memory'[p] = Synced(memory[p], SessionOf[r], TranscriptOf[r], now)
        BY <1>1, <3>1, <3>3 DEF BInv, BackendTypeOK
      <4>3. CASE s = SessionOf[r]
        BY <2>2, <3>3, <4>1, <4>2, <4>3, SyncedLeavesOthers
      <4>4. CASE s # SessionOf[r]
        BY <4>1, <4>2, <4>4, SyncedLeavesOthers
      <4> QED BY <4>3, <4>4
    <3> QED BY <3>2, <3>3
  <2>3. ASSUME NEW r \in Request, EndTurn(r)
        PROVE  memory'[p].entries[s] = memory[p].entries[s]
    <3>1. /\ pc[r] \in Timed /\ at[r] \in Replica
          /\ \/ memory' = [memory EXCEPT ![at[r]] =
                              Appended(memory[at[r]], SessionOf[r], ReplyOf[r], now)]
             \/ memory' = memory
      BY <1>1, <2>3, EndTurnRemembers
    <3>2. ~(p = at[r] /\ s = SessionOf[r])
      BY <1>1, <3>1, SessionIsAlive
    <3>3. CASE p = at[r] /\ memory' # memory
      <4>1. memory'[p] = Appended(memory[p], SessionOf[r], ReplyOf[r], now)
        BY <1>1, <3>1, <3>3 DEF BInv, BackendTypeOK
      <4> QED BY <3>2, <3>3, <4>1, OthersStayAsTheyAre
    <3>4. CASE p # at[r] \/ memory' = memory
      BY <1>1, <3>1, <3>4 DEF BInv, BackendTypeOK
    <3> QED BY <3>3, <3>4
  <2>4. ASSUME NEW o \in Replica, RestartReplica(o)
        PROVE  memory'[p].entries[s] = memory[p].entries[s]
    <3>1. memory' = [memory EXCEPT ![o] = EmptyMemory] /\ Live(EmptyMemory) = {}
      BY <2>4 DEF RestartReplica, EmptyMemory, Live
    <3>2. o # p
      BY <1>1, <3>1 DEF BInv, BackendTypeOK
    <3> QED BY <3>1, <3>2
  <2>5. ASSUME NEW u \in Session, NEW o \in Replica, ForgetSession(u, o)
        PROVE  memory'[p].entries[s] = memory[p].entries[s]
    <3>1. memory' = [memory EXCEPT ![o] = Forgotten(memory[o], u)]
      BY <2>5 DEF ForgetSession
    <3>2. CASE o = p
      <4>1. memory'[p] = Forgotten(memory[p], u)
        BY <1>1, <3>1, <3>2 DEF BInv, BackendTypeOK
      <4>2. s # u
        BY <4>1 DEF Forgotten, Retain, Live
      <4> QED BY <4>1, <4>2, OthersStayAsTheyAre
    <3>3. CASE o # p
      BY <3>1, <3>3
    <3> QED BY <3>2, <3>3
  <2>6. ASSUME NEW r \in Request, TurnStep(r)
        PROVE  \/ memory' = memory
               \/ \E o \in Replica : HandleTurn(r, o)
               \/ EndTurn(r)
    BY <2>6 DEF TurnStep, StartTurn, ReadTurn, OtherStep, memories
  <2>7. Tick \/ UNCHANGED backendVars => memory' = memory
    BY DEF Tick, backendVars, memories
  <2> QED BY <1>1, <2>1, <2>2, <2>3, <2>4, <2>5, <2>6, <2>7 DEF BackendNext
<1>2. BInv /\ [BackendNext]_backendVars =>
        [\A p \in Replica : \A s \in Live(memory[p]) \cap Live(memory'[p]) :
            Expired(memory[p], s, now) =>
                \/ memory'[p].entries[s] = memory[p].entries[s]
                \/ memory'[p].entries[s].turns = 1 /\ \E r \in Request : HandleTurn(r, p)]_backendVars
  BY <1>1
<1> QED BY <1>2, BackendInvariance, PTL DEF BackendSpec, NoReplyRevives

-----------------------------------------------------------------------------
(* The memory of a replica as a ConversationStore: what that promises of   *)
(* one store, each replica keeps.                                          *)

\* What a step may do to the memory of a replica: nothing, empty it with its
\* pod, or one operation of sessions.py, with the clock as it is.
StoreStep(p) ==
    \/ memory'[p] = memory[p]
    \/ RestartReplica(p) /\ memory'[p] = EmptyMemory
    \/ \E s \in Session : ForgetSession(s, p) /\ memory'[p] = Forgotten(memory[p], s)
    \/ \E r \in Request :
        /\ HandleTurn(r, p)
        /\ memory'[p] = Synced(memory[p], SessionOf[r], TranscriptOf[r], now)
    \/ \E r \in Request :
        /\ EndTurn(r) /\ at[r] = p /\ persisted'[r]
        /\ memory'[p] = Appended(memory[p], SessionOf[r], ReplyOf[r], now)

\* A session leaves the memory of a replica when it is forgotten or expired, when
\* the pod is replaced, or when the store is full of sessions used after it.
LostWithReason(p, s) ==
    \/ ForgetSession(s, p)
    \/ RestartReplica(p)
    \/ Expired(memory[p], s, now)
    \/ /\ Cardinality(Live(memory'[p])) = Capacity
       /\ \A o \in Live(memory'[p]) :
            \/ <<s, o>> \in memory[p].older
            \/ \A u \in Live(memory'[p]) : <<o, u>> \notin memory'[p].older

\* Steps touch the memory of a replica through the store's operations alone.
LEMMA MemoryStep ==
    ASSUME BInv, [BackendNext]_backendVars, NEW p \in Replica
    PROVE  StoreStep(p)
<1>1. memory = [o \in Replica |-> memory[o]]
  BY DEF BInv, BackendTypeOK
<1>2. ASSUME NEW r \in Request, NEW o \in Replica, HandleTurn(r, o)
      PROVE  StoreStep(p)
  <2>1. memory' = [memory EXCEPT ![o] = Synced(memory[o], SessionOf[r], TranscriptOf[r], now)]
    BY <1>2 DEF HandleTurn, SyncTurn
  <2>2. CASE o = p
    BY <1>1, <1>2, <2>1, <2>2 DEF StoreStep
  <2>3. CASE o # p
    BY <1>1, <2>1, <2>3 DEF StoreStep
  <2> QED BY <2>2, <2>3
<1>3. ASSUME NEW r \in Request, EndTurn(r)
      PROVE  StoreStep(p)
  <2>1. \/ /\ persisted'[r]
           /\ memory' = [memory EXCEPT ![at[r]] =
                            Appended(memory[at[r]], SessionOf[r], ReplyOf[r], now)]
        \/ UNCHANGED memory
    BY <1>3 DEF EndTurn, Remember
  <2>2. CASE at[r] = p
    BY <1>1, <1>3, <2>1, <2>2 DEF StoreStep
  <2>3. CASE at[r] # p
    BY <1>1, <2>1, <2>3 DEF StoreStep
  <2> QED BY <2>2, <2>3
<1>4. ASSUME NEW o \in Replica, RestartReplica(o)
      PROVE  StoreStep(p)
  <2>1. memory' = [memory EXCEPT ![o] = EmptyMemory]
    BY <1>4 DEF RestartReplica
  <2> QED BY <1>1, <1>4, <2>1 DEF StoreStep
<1>5. ASSUME NEW s \in Session, NEW o \in Replica, ForgetSession(s, o)
      PROVE  StoreStep(p)
  <2>1. memory' = [memory EXCEPT ![o] = Forgotten(memory[o], s)]
    BY <1>5 DEF ForgetSession
  <2> QED BY <1>1, <1>5, <2>1 DEF StoreStep
<1>6. ASSUME NEW r \in Request, TurnStep(r)
      PROVE  UNCHANGED memory \/ (\E o \in Replica : HandleTurn(r, o)) \/ EndTurn(r)
  BY <1>6 DEF TurnStep, StartTurn, ReadTurn, OtherStep, memories
<1>7. Tick \/ UNCHANGED backendVars => UNCHANGED memory
  BY DEF Tick, backendVars, memories
<1>8. UNCHANGED memory => StoreStep(p)
  BY DEF StoreStep
<1> QED BY <1>2, <1>3, <1>4, <1>5, <1>6, <1>7, <1>8 DEF BackendNext

\* Every step of the backend is, for the memory of each replica, an operation of
\* the store that ConversationStore models, the loss of the store, or nothing.
THEOREM ReplicasUseTheStore ==
    BackendSpec => [][\A p \in Replica : StoreStep(p)]_backendVars
<1>1. BInv /\ [BackendNext]_backendVars => [\A p \in Replica : StoreStep(p)]_backendVars
  BY MemoryStep
<1> QED BY <1>1, BackendInvariance, PTL DEF BackendSpec

\* The memory of every replica keeps its order, and its caps on sessions and on
\* messages, whatever turns, replies and restarts it sees.
THEOREM ReplicasStayBounded ==
    BackendSpec => [](\A p \in Replica :
        OrderOK(memory[p]) /\ WithinCapacity(memory[p]) /\ WithinWindow(memory[p]))
<1>1. BInv => \A p \in Replica :
        OrderOK(memory[p]) /\ WithinCapacity(memory[p]) /\ WithinWindow(memory[p])
  BY DEF BInv, BackendTypeOK, StoreOK
<1> QED BY <1>1, BackendInvariance, PTL

\* No replica loses a session without a reason.
THEOREM ReplicasLoseWithReason ==
    BackendSpec => [][\A p \in Replica : \A s \in Live(memory[p]) \ Live(memory'[p]) :
                        LostWithReason(p, s)]_backendVars
<1>1. ASSUME BInv, [BackendNext]_backendVars, NEW p \in Replica,
             NEW s \in Live(memory[p]), s \notin Live(memory'[p])
      PROVE  LostWithReason(p, s)
  <2>1. StoreOK(memory[p]) /\ now \in Int
    BY <1>1 DEF BInv, BackendTypeOK
  <2>2. CASE memory'[p] = memory[p]
    BY <1>1, <2>2
  <2>3. CASE RestartReplica(p)
    BY <2>3 DEF LostWithReason
  <2>4. ASSUME NEW u \in Session, ForgetSession(u, p), memory'[p] = Forgotten(memory[p], u)
        PROVE  LostWithReason(p, s)
    <3>1. Live(memory'[p]) = Live(memory[p]) \ {u}
      BY <2>4 DEF Forgotten, Retain, Live
    <3> QED BY <1>1, <2>4, <3>1 DEF LostWithReason
  <2>5. ASSUME NEW r \in Request,
               memory'[p] = Synced(memory[p], SessionOf[r], TranscriptOf[r], now)
        PROVE  LostWithReason(p, s)
    <3>1. SessionOf[r] \in Session /\ TranscriptOf[r] \in Seq(Message)
      BY TurnAssumption
    <3>2. s \notin Live(Synced(memory[p], SessionOf[r], TranscriptOf[r], now))
      BY <1>1, <2>5
    <3> QED BY <1>1, <2>1, <2>5, <3>1, <3>2, SyncedLossIsJustified DEF LostWithReason
  <2>6. ASSUME NEW r \in Request,
               memory'[p] = Appended(memory[p], SessionOf[r], ReplyOf[r], now)
        PROVE  LostWithReason(p, s)
    BY <1>1, <2>6, OthersInsertNothing
  <2>7. StoreStep(p)
    BY <1>1, MemoryStep
  <2> QED BY <2>2, <2>3, <2>4, <2>5, <2>6, <2>7 DEF StoreStep
<1>2. BInv /\ [BackendNext]_backendVars =>
        [\A p \in Replica : \A s \in Live(memory[p]) \ Live(memory'[p]) :
            LostWithReason(p, s)]_backendVars
  BY <1>1
<1> QED BY <1>2, BackendInvariance, PTL DEF BackendSpec

\* A replica holds a session only since a turn of that session came to it: what
\* is answered late, forgotten or restarted brings none back.
THEOREM TurnsAloneCreateSessions ==
    BackendSpec => [][\A p \in Replica : \A s \in Live(memory'[p]) \ Live(memory[p]) :
                        \E r \in Request : SessionOf[r] = s /\ HandleTurn(r, p)]_backendVars
<1>1. ASSUME BInv, [BackendNext]_backendVars, NEW p \in Replica,
             NEW s \in Live(memory'[p]), s \notin Live(memory[p])
      PROVE  \E r \in Request : SessionOf[r] = s /\ HandleTurn(r, p)
  <2>1. StoreOK(memory[p]) /\ now \in Int
    BY <1>1 DEF BInv, BackendTypeOK
  <2>2. memory'[p] # memory[p]
    BY <1>1
  <2>3. memory'[p] # EmptyMemory
    BY <1>1 DEF EmptyMemory, Live
  <2>4. \A u \in Session : memory'[p] # Forgotten(memory[p], u)
    BY <1>1, OthersInsertNothing
  <2>5. \A r \in Request : memory'[p] # Appended(memory[p], SessionOf[r], ReplyOf[r], now)
    BY <1>1, OthersInsertNothing
  <2>6. PICK r \in Request :
            /\ HandleTurn(r, p)
            /\ memory'[p] = Synced(memory[p], SessionOf[r], TranscriptOf[r], now)
    BY <1>1, <2>2, <2>3, <2>4, <2>5, MemoryStep DEF StoreStep
  <2>7. SessionOf[r] \in Session /\ TranscriptOf[r] \in Seq(Message)
    BY TurnAssumption
  <2>8. Live(memory'[p]) \subseteq Live(memory[p]) \cup {SessionOf[r]}
    BY <2>1, <2>6, <2>7, SyncedIsHeld
  <2> QED BY <1>1, <2>6, <2>8
<1>2. BInv /\ [BackendNext]_backendVars =>
        [\A p \in Replica : \A s \in Live(memory'[p]) \ Live(memory[p]) :
            \E r \in Request : SessionOf[r] = s /\ HandleTurn(r, p)]_backendVars
  BY <1>1
<1> QED BY <1>2, BackendInvariance, PTL DEF BackendSpec

-----------------------------------------------------------------------------
(* Where a reply goes.  The history variable replies lists the turns whose *)
(* answers a memory took.                                                  *)

\* The awaits before an answer is complete.
Unanswered == Speaking \cup {"calling"}

\* A reply is in the memory of the replica that got its request, under the
\* session the request named, once, and only after its answer was complete.
RepliesGoHome ==
    /\ \A r \in Request : pc[r] \in Unanswered => ~persisted[r]
    /\ \A p \in Replica, s \in Session : \A i \in DOMAIN replies[p][s] :
        LET r == replies[p][s][i]
        IN  /\ at[r] = p /\ SessionOf[r] = s /\ persisted[r]
            /\ \A j \in DOMAIN replies[p][s] : replies[p][s][j] = r => j = i

\* Among all memories, sessions and places, a turn is answered in one.
NoReplyTwice ==
    \A p, q \in Replica, s, t \in Session :
        \A i \in DOMAIN replies[p][s], j \in DOMAIN replies[q][t] :
            replies[p][s][i] = replies[q][t][j] => p = q /\ s = t /\ i = j

\* Only the end of an answer persists anything, and no step makes an answer
\* incomplete again.
LEMMA StepPersists ==
    ASSUME BInv, NEW r \in Request, TurnStep(r), ~EndTurn(r)
    PROVE  /\ UNCHANGED persisted
           /\ \A q \in Request : pc'[q] \in Unanswered => pc[q] \in Unanswered
<1>1. /\ Unanswered = {"new", "rejected", "accepted", "opening", "reading", "token", "calling"}
      /\ pc = [q \in Request |-> pc[q]]
  BY DEF Unanswered, Speaking, BInv, IInv, TypeOK
<1>2. ASSUME NEW label, pc' = [pc EXCEPT ![r] = label],
             label \in Unanswered => pc[r] \in Unanswered
      PROVE  \A q \in Request : pc'[q] \in Unanswered => pc[q] \in Unanswered
  BY <1>1, <1>2
<1>3. CASE \E p \in Replica : HandleTurn(r, p)
  <2>1. /\ pc[r] = "new" /\ UNCHANGED persisted
        /\ \E label \in {"rejected", "accepted", "calling"} : pc' = [pc EXCEPT ![r] = label]
    BY <1>3 DEF HandleTurn, Handle, Goto
  <2> QED BY <1>1, <1>2, <2>1
<1>4. CASE StartTurn(r)
  BY <1>1, <1>2, <1>4 DEF StartTurn, StartStream, Goto
<1>5. CASE ReadTurn(r)
  <2>1. /\ pc[r] = "reading" /\ UNCHANGED persisted
        /\ pc' = pc \/ pc' = [pc EXCEPT ![r] = "token"]
    BY <1>5 DEF ReadTurn, ReadLine, Yield, Goto
  <2> QED BY <1>1, <1>2, <2>1
<1>6. CASE OtherStep(r)
  <2>1. CASE Abandon(r)
    BY <1>1, <1>2, <2>1 DEF Abandon, Goto
  <2>2. CASE UpstreamOpens(r)
    <3>1. /\ pc[r] = "opening" /\ UNCHANGED persisted
          /\ \E label \in {"reading", "refused"} : pc' = [pc EXCEPT ![r] = label]
      BY <2>2 DEF UpstreamOpens, Yield, Goto
    <3> QED BY <1>1, <1>2, <3>1
  <2>3. CASE ReadGone(r) \/ ReadBroken(r) \/ Cancel(r) \/ CallFails(r)
    BY <1>1, <1>2, <2>3 DEF ReadGone, ReadBroken, Cancel, CallFails, Close, Goto
  <2>4. CASE UpstreamFails(r)
    BY <1>1, <1>2, <2>4 DEF UpstreamFails, Yield, Goto
  <2>5. CASE GenerationTimeout(r)
    <3>1. /\ UNCHANGED persisted
          /\ \E label \in {"error", "closed"} : pc' = [pc EXCEPT ![r] = label]
      BY <2>5 DEF GenerationTimeout, Close, Yield, Goto
    <3> QED BY <1>1, <1>2, <3>1
  <2>6. CASE Resume(r)
    <3>1. /\ UNCHANGED persisted
          /\ \/ pc[r] = "token" /\ pc' = [pc EXCEPT ![r] = "reading"]
             \/ \E label \in {"done", "closed"} : pc' = [pc EXCEPT ![r] = label]
      BY <2>6 DEF Resume, Close, Yield, Goto
    <3> QED BY <1>1, <1>2, <3>1
  <2>7. CASE ClientLeaves(r)
    BY <2>7 DEF ClientLeaves
  <2> QED BY <1>6, <2>1, <2>2, <2>3, <2>4, <2>5, <2>6, <2>7 DEF OtherStep
<1> QED BY <1>3, <1>4, <1>5, <1>6 DEF TurnStep

\* A reply that is complete goes to its memory, once.
LEMMA EndTurnGoesHome ==
    ASSUME BInv, BackendTypeOK', RepliesGoHome, NEW r \in Request, EndTurn(r)
    PROVE  RepliesGoHome'
<1>1. /\ pc[r] \in {"reading", "calling"} /\ UNCHANGED at /\ at[r] \in Replica
      /\ \E label \in {"usage", "done", "answered"} : pc' = [pc EXCEPT ![r] = label]
      /\ \E told \in BOOLEAN : persisted' = [persisted EXCEPT ![r] = told]
  <2>1. HasReply(r) \in BOOLEAN
    BY DEF HasReply
  <2>2. at[r] \in Replica
    BY EndTurnRemembers
  <2> QED BY <2>1, <2>2 DEF EndTurn, ReadEnd, CallReturns, Yield, Goto
<1>2. ~persisted[r]
  BY <1>1 DEF RepliesGoHome, Unanswered, Speaking
<1>3. /\ pc = [q \in Request |-> pc[q]] /\ persisted \in [Request -> BOOLEAN]
      /\ replies \in [Replica -> [Session -> Seq(Request)]]
      /\ SessionOf[r] \in Session
  BY TurnAssumption DEF BInv, IInv, TypeOK, BackendTypeOK
<1>4. \A q \in Request : pc'[q] \in Unanswered => ~persisted'[q]
  <2>1. pc'[r] \notin Unanswered
    BY <1>1, <1>3 DEF Unanswered, Speaking
  <2>2. \A q \in Request \ {r} : pc'[q] = pc[q] /\ persisted'[q] = persisted[q]
    BY <1>1, <1>3
  <2> QED BY <2>1, <2>2 DEF RepliesGoHome
<1>5. ASSUME NEW p \in Replica, NEW s \in Session
      PROVE  /\ \A i \in DOMAIN replies[p][s] :
                    replies[p][s][i] \in Request \ {r}
             /\ replies[p][s] \in Seq(Request)
  BY <1>2, <1>3 DEF RepliesGoHome
<1>6. CASE UNCHANGED replies
  <2>1. \A p \in Replica, s \in Session : \A i \in DOMAIN replies[p][s] :
            persisted'[replies[p][s][i]] = persisted[replies[p][s][i]]
    BY <1>1, <1>3, <1>5
  <2> QED BY <1>1, <1>4, <1>6, <2>1 DEF RepliesGoHome
<1>7. CASE /\ persisted'[r]
           /\ replies' = [replies EXCEPT ![at[r]] =
                [replies[at[r]] EXCEPT ![SessionOf[r]] =
                    Append(replies[at[r]][SessionOf[r]], r)]]
  <2> SUFFICES ASSUME NEW p \in Replica, NEW s \in Session, NEW i \in DOMAIN replies'[p][s]
               PROVE  LET q == replies'[p][s][i]
                      IN  /\ at[q] = p /\ SessionOf[q] = s /\ persisted'[q]
                          /\ \A j \in DOMAIN replies'[p][s] : replies'[p][s][j] = q => j = i
    BY <1>1, <1>4 DEF RepliesGoHome
  <2> DEFINE old == replies[p][s]
             new == replies'[p][s]
  <2>1. /\ old \in Seq(Request) /\ DOMAIN old = 1..Len(old) /\ Len(old) \in Nat
        /\ \A j \in 1..Len(old) :
            /\ old[j] \in Request \ {r} /\ at[old[j]] = p /\ SessionOf[old[j]] = s
            /\ persisted'[old[j]]
            /\ \A k \in 1..Len(old) : old[k] = old[j] => k = j
    <3>1. old \in Seq(Request) /\ \A j \in DOMAIN old : old[j] \in Request \ {r}
      BY <1>5
    <3>2. \A j \in DOMAIN old :
            /\ at[old[j]] = p /\ SessionOf[old[j]] = s /\ persisted[old[j]]
            /\ \A k \in DOMAIN old : old[k] = old[j] => k = j
      BY DEF RepliesGoHome
    <3>3. \A q \in Request \ {r} : persisted'[q] = persisted[q]
      BY <1>1, <1>3
    <3> HIDE DEF old
    <3> QED BY <3>1, <3>2, <3>3
  <2>2. CASE p = at[r] /\ s = SessionOf[r]
    <3>1. new = Append(old, r)
      BY <1>1, <1>3, <1>7, <2>2
    <3> HIDE DEF old
    <3>2. /\ DOMAIN new = 1..(Len(old) + 1) /\ new[Len(old) + 1] = r
          /\ \A j \in 1..Len(old) : new[j] = old[j]
      BY <2>1, <3>1
    <3> HIDE DEF new
    <3>3. CASE i = Len(old) + 1
      BY <1>7, <2>1, <2>2, <3>2, <3>3 DEF new
    <3>4. CASE i # Len(old) + 1
      <4>1. i \in 1..Len(old) /\ new[i] = old[i]
        BY <2>1, <3>2, <3>4 DEF new
      <4>2. \A j \in 1..(Len(old) + 1) : new[j] = old[i] => j = i
        BY <2>1, <3>2, <4>1
      <4> QED BY <2>1, <3>2, <4>1, <4>2 DEF new
    <3> QED BY <3>3, <3>4
  <2>3. CASE ~(p = at[r] /\ s = SessionOf[r])
    <3>1. new = old
      BY <1>1, <1>3, <1>7, <2>3
    <3> QED BY <2>1, <3>1
  <2> QED BY <2>2, <2>3
<1> QED BY <1>6, <1>7 DEF EndTurn, Remember

\* Every step keeps the replies where they belong.
LEMMA NextGoesHome == BInv /\ BInv' /\ RepliesGoHome /\ [BackendNext]_backendVars => RepliesGoHome'
<1> SUFFICES ASSUME BInv, BInv', RepliesGoHome, [BackendNext]_backendVars
             PROVE  RepliesGoHome'
  OBVIOUS
<1>1. CASE UNCHANGED backendVars
  BY <1>1 DEF backendVars, memories, vars, RepliesGoHome
<1>2. ASSUME NEW r \in Request, EndTurn(r)
      PROVE  RepliesGoHome'
  BY <1>2, EndTurnGoesHome DEF BInv
<1>3. ASSUME NEW r \in Request, NEW o \in Replica, HandleTurn(r, o)
      PROVE  RepliesGoHome'
  <2>1. ~EndTurn(r)
    BY <1>3 DEF HandleTurn, Handle, EndTurn, ReadEnd, CallReturns
  <2>2. /\ UNCHANGED persisted
        /\ \A q \in Request : pc'[q] \in Unanswered => pc[q] \in Unanswered
    BY <1>3, <2>1, StepPersists DEF TurnStep
  <2>3. pc[r] = "new" /\ at' = [at EXCEPT ![r] = o]
        /\ replies' = [replies EXCEPT ![o] = [replies[o] EXCEPT ![SessionOf[r]] = <<>>]]
    BY <1>3 DEF HandleTurn, Handle, SyncTurn
  <2>4. ~persisted[r]
    BY <2>3 DEF RepliesGoHome, Unanswered, Speaking
  <2>5. /\ replies \in [Replica -> [Session -> Seq(Request)]] /\ SessionOf[r] \in Session
        /\ at = [q \in Request |-> at[q]]
    BY TurnAssumption DEF BInv, IInv, TypeOK, BackendTypeOK
  <2>6. ASSUME NEW p \in Replica, NEW s \in Session
        PROVE  replies'[p][s] = replies[p][s] \/ replies'[p][s] = <<>>
    BY <2>3, <2>5
  <2>7. ASSUME NEW p \in Replica, NEW s \in Session, NEW i \in DOMAIN replies[p][s]
        PROVE  at'[replies[p][s][i]] = at[replies[p][s][i]]
    <3>1. replies[p][s][i] \in Request /\ replies[p][s][i] # r
      BY <2>4, <2>5 DEF RepliesGoHome
    <3> QED BY <2>3, <2>5, <3>1
  <2>8. \A q \in Request : pc'[q] \in Unanswered => ~persisted'[q]
    BY <2>2 DEF RepliesGoHome
  <2> SUFFICES ASSUME NEW p \in Replica, NEW s \in Session, NEW i \in DOMAIN replies'[p][s]
               PROVE  LET q == replies'[p][s][i]
                      IN  /\ at'[q] = p /\ SessionOf[q] = s /\ persisted'[q]
                          /\ \A j \in DOMAIN replies'[p][s] : replies'[p][s][j] = q => j = i
    BY <2>8 DEF RepliesGoHome
  <2>9. replies'[p][s] = replies[p][s]
    BY <2>6
  <2> QED BY <2>2, <2>7, <2>9 DEF RepliesGoHome
<1>4. ASSUME NEW r \in Request, TurnStep(r), ~EndTurn(r), UNCHANGED <<at, replies>>
      PROVE  RepliesGoHome'
  BY <1>4, StepPersists DEF RepliesGoHome
<1>5. ASSUME NEW r \in Request, TurnStep(r)
      PROVE  RepliesGoHome'
  <2>1. \/ EndTurn(r)
        \/ \E o \in Replica : HandleTurn(r, o)
        \/ UNCHANGED <<at, replies>>
    BY <1>5 DEF TurnStep, StartTurn, ReadTurn, OtherStep, memories, StartStream, ReadLine,
                Abandon, UpstreamOpens, ReadGone, ReadBroken, UpstreamFails, GenerationTimeout, Resume,
                Cancel, CallFails, ClientLeaves, Close
  <2> QED BY <1>2, <1>3, <1>4, <1>5, <2>1
<1>6. ASSUME NEW o \in Replica, RestartReplica(o)
      PROVE  RepliesGoHome'
  <2>1. /\ UNCHANGED <<at, persisted, replies>>
        /\ \A q \in Request : pc'[q] = pc[q] \/ pc'[q] = "lost"
    BY <1>6 DEF RestartReplica, Restart
  <2>2. "lost" \notin Unanswered
    BY DEF Unanswered, Speaking
  <2> QED BY <2>1, <2>2 DEF RepliesGoHome
<1>7. ASSUME NEW s \in Session, NEW o \in Replica, ForgetSession(s, o)
      PROVE  RepliesGoHome'
  BY <1>7 DEF ForgetSession, vars, RepliesGoHome
<1>8. CASE Tick
  BY <1>8 DEF Tick, vars, memories, RepliesGoHome
<1> QED BY <1>1, <1>5, <1>6, <1>7, <1>8 DEF BackendNext

\* _remember appends a reply on the replica that answered, to the session its
\* request named, after the answer was complete and once: no restart, retry or
\* other turn of the session makes a memory take a reply again, or another's.
THEOREM RepliesGoHomeOnce == BackendSpec => [](RepliesGoHome /\ NoReplyTwice)
<1>1. BackendInit => RepliesGoHome
  <2> SUFFICES ASSUME BackendInit
               PROVE  RepliesGoHome
    OBVIOUS
  <2>1. \A r \in Request : ~persisted[r]
    BY DEF BackendInit, Init
  <2>2. \A p \in Replica, s \in Session : replies[p][s] = <<>>
    BY DEF BackendInit
  <2> QED BY <2>1, <2>2 DEF RepliesGoHome
<1>2. RepliesGoHome => NoReplyTwice
  BY DEF RepliesGoHome, NoReplyTwice
<1> QED BY <1>1, <1>2, NextGoesHome, BackendInvariance, PTL DEF BackendSpec

\* No memory of any replica holds a piece of an answer that failed, was stopped or
\* was cut: what it took of a stream is a reply whose end was sent, and no error.
THEOREM OnlyWholeAnswersAreTaken ==
    BackendSpec => [](\A p \in Replica, s \in Session : \A i \in DOMAIN replies[p][s] :
        LET r == replies[p][s][i]
        IN  r \in Streaming =>
                Sent(r, {"token"}) /\ Sent(r, {"usage", "done"}) /\ ~Sent(r, ErrorFrame))
<1>1. RepliesGoHome /\ RememberedIffComplete =>
        \A p \in Replica, s \in Session : \A i \in DOMAIN replies[p][s] :
            LET r == replies[p][s][i]
            IN  r \in Streaming =>
                    Sent(r, {"token"}) /\ Sent(r, {"usage", "done"}) /\ ~Sent(r, ErrorFrame)
  BY DEF RepliesGoHome, RememberedIffComplete
<1> QED BY <1>1, RepliesGoHomeOnce, BackendImplementsRoute,
           OnlyCompleteRepliesAreRemembered, PTL
=============================================================================
