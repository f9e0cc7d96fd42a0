---------------------- MODULE ConversationStoreProofs ----------------------
(***************************************************************************)
(* The bounds and the order of the conversation store hold after every     *)
(* step, for any number of callers, sessions and messages and any setting. *)
(***************************************************************************)
EXTENDS ConversationStore, SessionMemoryProofs

\* A call that is under way names the session it was made for.
CallsNameSessions ==
    \A c \in Caller : call[c].op \in {"sync", "append"} => call[c].sid \in Session

\* The clock reading a call carries is never ahead of the clock.
ReadingsArePast == \A c \in Caller : call[c].at <= now

IInv ==
    /\ StoreOK(memory)
    /\ now \in Nat
    /\ call \in [Caller -> Call]
    /\ CallsNameSessions
    /\ ReadingsArePast

\* The mark of an idle caller is a call.
LEMMA NoCallType == NoCall \in Call
  BY NoContentAssumption DEF NoCall, Call

\* A new call that is well formed keeps the invariant.
LEMMA BeginOK ==
    ASSUME IInv, NEW c \in Caller, NEW request \in Call, Begin(c, request),
           request.op \in {"sync", "append"} => request.sid \in Session,
           request.at = now
    PROVE  IInv'
<1>1. memory' = memory /\ now' = now /\ call' = [call EXCEPT ![c] = request]
  BY DEF Begin
<1>2. call' \in [Caller -> Call]
  BY <1>1 DEF IInv
<1>3. CallsNameSessions'
  BY <1>1 DEF IInv, CallsNameSessions
<1>4. StoreOK(memory)' /\ now' \in Nat
  BY <1>1 DEF IInv
<1>5. ReadingsArePast'
  BY <1>1 DEF IInv, ReadingsArePast
<1> QED BY <1>2, <1>3, <1>4, <1>5 DEF IInv

\* A locked section that leaves the store within its bounds keeps the
\* invariant.
LEMMA FinishOK ==
    ASSUME IInv, NEW c \in Caller, NEW op, NEW m, Finish(c, op, m), StoreOK(m)
    PROVE  IInv'
<1>1. memory' = m /\ now' = now /\ call' = [call EXCEPT ![c] = NoCall]
  BY DEF Finish
<1>2. call' \in [Caller -> Call]
  BY <1>1, NoCallType DEF IInv
<1>3. CallsNameSessions'
  BY <1>1 DEF IInv, CallsNameSessions, NoCall
<1>4. StoreOK(memory)' /\ now' \in Nat
  BY <1>1 DEF IInv
<1>5. ReadingsArePast'
  BY <1>1 DEF IInv, ReadingsArePast, NoCall
<1> QED BY <1>2, <1>3, <1>4, <1>5 DEF IInv

\* An empty store keeps to its bounds, and nobody is calling.
LEMMA InitIInv == Init => IInv
<1> SUFFICES ASSUME Init PROVE IInv
  OBVIOUS
<1>1. StoreOK(memory)
  BY EmptyMemoryOK DEF Init
<1>2. call \in [Caller -> Call] /\ CallsNameSessions /\ ReadingsArePast
  BY NoCallType DEF Init, CallsNameSessions, ReadingsArePast, NoCall
<1> QED BY <1>1, <1>2 DEF Init, IInv

\* Every step of the store keeps the invariant.
LEMMA NextIInv == IInv /\ [Next]_vars => IInv'
<1> SUFFICES ASSUME IInv, [Next]_vars PROVE IInv'
  OBVIOUS
<1>1. CASE Tick
  <2>1. \A c \in Caller : call[c].at \in Nat
    BY DEF IInv, Call
  <2> QED BY <1>1, <2>1 DEF Tick, IInv, CallsNameSessions, ReadingsArePast
<1>2. CASE \E c \in Caller : CallerStep(c)
  <2>1. PICK c \in Caller : CallerStep(c)
    BY <1>2
  <2>2. call[c] \in Call /\ call[c].at \in Int
    BY DEF IInv, Call
  <2>3. CASE \E sid \in Session, transcript \in Transcript : BeginSync(c, sid, transcript)
    <3>1. PICK sid \in Session, transcript \in Transcript : BeginSync(c, sid, transcript)
      BY <2>3
    <3> DEFINE request == [op |-> "sync", sid |-> sid, transcript |-> transcript,
                           content |-> NoContent, at |-> now]
    <3>2. request \in Call /\ request.sid \in Session /\ request.at = now
      BY TranscriptAssumption, NoContentAssumption DEF Call, IInv
    <3>3. Begin(c, request)
      BY <3>1 DEF BeginSync
    <3> HIDE DEF request
    <3> QED BY <3>2, <3>3, BeginOK
  <2>4. CASE \E sid \in Session, content \in Content : BeginAppend(c, sid, content)
    <3>1. PICK sid \in Session, content \in Content : BeginAppend(c, sid, content)
      BY <2>4
    <3> DEFINE request == [op |-> "append", sid |-> sid, transcript |-> <<>>,
                           content |-> content, at |-> now]
    <3>2. request \in Call /\ request.sid \in Session /\ request.at = now
      BY DEF Call, IInv
    <3>3. Begin(c, request)
      BY <3>1 DEF BeginAppend
    <3> HIDE DEF request
    <3> QED BY <3>2, <3>3, BeginOK
  <2>5. CASE BeginStats(c)
    <3> DEFINE request == [op |-> "stats", sid |-> NoSession, transcript |-> <<>>,
                           content |-> NoContent, at |-> now]
    <3>1. /\ request \in Call /\ request.op \notin {"sync", "append"}
          /\ request.at = now
      BY NoContentAssumption DEF Call, IInv
    <3>2. Begin(c, request)
      BY <2>5 DEF BeginStats
    <3> HIDE DEF request
    <3> QED BY <3>1, <3>2, BeginOK
  <2>6. CASE SyncLocked(c)
    <3>1. call[c].op = "sync" /\ call[c].sid \in Session
      BY <2>6 DEF SyncLocked, Finish, IInv, CallsNameSessions
    <3>2. StoreOK(Synced(memory, call[c].sid, call[c].transcript, call[c].at))
      BY <2>2, <3>1, SyncedOK DEF IInv, Call
    <3> QED BY <2>6, <3>2, FinishOK DEF SyncLocked
  <2>7. CASE AppendLocked(c)
    <3>1. call[c].op = "append" /\ call[c].sid \in Session
      BY <2>7 DEF AppendLocked, Finish, IInv, CallsNameSessions
    <3>2. StoreOK(Appended(memory, call[c].sid, call[c].content, call[c].at))
      BY <2>2, <3>1, AppendedOK DEF IInv, Call
    <3> QED BY <2>7, <3>2, FinishOK DEF AppendLocked
  <2>8. CASE StatsLocked(c)
    <3>1. StoreOK(Sweep(memory, call[c].at))
      BY <2>2, SweepOK DEF IInv, StoreOK, WithinCapacity
    <3> QED BY <2>8, <3>1, FinishOK DEF StatsLocked
  <2>9. CASE \E sid \in Session : Forget(c, sid)
    <3>1. PICK sid \in Session : Forget(c, sid)
      BY <2>9
    <3>2. StoreOK(Forgotten(memory, sid))
      BY ForgottenOK DEF IInv
    <3> QED BY <3>1, <3>2 DEF Forget, IInv, CallsNameSessions, ReadingsArePast
  <2> QED BY <2>1, <2>3, <2>4, <2>5, <2>6, <2>7, <2>8, <2>9 DEF CallerStep
<1>3. CASE UNCHANGED vars
  BY <1>3 DEF vars, IInv, CallsNameSessions, ReadingsArePast
<1> QED BY <1>1, <1>2, <1>3 DEF Next

\* The invariant holds in every reachable state.
LEMMA Invariance == Spec => []IInv
  BY InitIInv, NextIInv, PTL DEF Spec

-----------------------------------------------------------------------------
\* The store, the clock and the pending calls keep their types.
THEOREM TypeCorrect == Spec => []TypeOK
<1>1. IInv => TypeOK
  BY DEF IInv, TypeOK, StoreOK
<1> QED BY <1>1, Invariance, PTL

\* The recency order of the sessions stays strict and total.
THEOREM OrderIsKept == Spec => []Ordered
<1>1. IInv => Ordered
  BY DEF IInv, Ordered, StoreOK
<1> QED BY <1>1, Invariance, PTL

\* Never more than max_sessions sessions are in memory between two locked
\* sections, however callers interleave.
THEOREM CapacityIsKept == Spec => []CapacityHolds
<1>1. IInv => CapacityHolds
  BY DEF IInv, CapacityHolds, StoreOK
<1> QED BY <1>1, Invariance, PTL

\* Never more than the window of messages is held for a session.
THEOREM WindowIsKept == Spec => []WindowHolds
<1>1. IInv => WindowHolds
  BY DEF IInv, WindowHolds, StoreOK
<1> QED BY <1>1, Invariance, PTL
-----------------------------------------------------------------------------
\* When sync returns, its own session is held, with exactly the windowed
\* transcript of the caller, as the last that eviction would reach.
THEOREM SyncKeepsItsSession == Spec => SyncIsKept
<1> DEFINE Kept1(c) ==
        call[c].op = "sync" /\ SyncLocked(c) =>
          LET sid == call[c].sid
          IN  /\ sid \in Live(memory')
              /\ memory'.entries[sid].messages = Window(Cleaned(call[c].transcript))
              /\ \A o \in Live(memory') : <<sid, o>> \notin memory'.older
<1>1. ASSUME IInv, NEW c \in Caller PROVE Kept1(c)
  <2> SUFFICES ASSUME call[c].op = "sync", SyncLocked(c) PROVE Kept1(c)
    OBVIOUS
  <2>1. /\ StoreOK(memory) /\ call[c].sid \in Session
        /\ call[c].transcript \in Seq(Message) /\ call[c].at \in Int
    BY <1>1 DEF IInv, CallsNameSessions, Call
  <2>2. memory' = Synced(memory, call[c].sid, call[c].transcript, call[c].at)
    BY DEF SyncLocked, Finish
  <2> QED BY <2>1, <2>2, SyncedIsHeld
<1>2. IInv => \A c \in Caller : Kept1(c)
  BY <1>1
<1>3. IInv => [\A c \in Caller : Kept1(c)]_vars
  BY <1>2
<1> QED BY <1>3, Invariance, PTL DEF SyncIsKept

\* Only the sync of a session brings it into the store: a late reply never
\* restores what was forgotten, evicted or expired.
THEOREM SyncAloneCreates == Spec => OnlySyncCreates
<1> DEFINE Created ==
        \A s \in Live(memory') \ Live(memory) :
          \E c \in Caller : call[c].op = "sync" /\ call[c].sid = s /\ SyncLocked(c)
<1>1. ASSUME IInv, Next PROVE Created
  <2> SUFFICES ASSUME NEW s \in Live(memory') \ Live(memory)
               PROVE  \E c \in Caller :
                        call[c].op = "sync" /\ call[c].sid = s /\ SyncLocked(c)
    OBVIOUS
  <2>1. CASE Tick
    BY <2>1 DEF Tick
  <2>2. CASE \E c \in Caller : CallerStep(c)
    <3>1. PICK c \in Caller : CallerStep(c)
      BY <2>2
    <3>2. CASE SyncLocked(c)
      <4>1. /\ call[c].op = "sync"
            /\ memory' = Synced(memory, call[c].sid, call[c].transcript, call[c].at)
        BY <3>2 DEF SyncLocked, Finish
      <4>2. /\ StoreOK(memory) /\ call[c].sid \in Session
            /\ call[c].transcript \in Seq(Message) /\ call[c].at \in Int
        BY <1>1, <4>1 DEF IInv, CallsNameSessions, Call
      <4>3. Live(memory') \subseteq Live(memory) \cup {call[c].sid}
        BY <4>1, <4>2, SyncedIsHeld
      <4> QED BY <3>2, <4>1, <4>3
    <3>3. CASE AppendLocked(c)
      BY <3>3, OthersInsertNothing DEF AppendLocked, Finish
    <3>4. CASE StatsLocked(c)
      BY <3>4, OthersInsertNothing DEF StatsLocked, Finish
    <3>5. CASE \E sid \in Session : Forget(c, sid)
      BY <3>5, OthersInsertNothing DEF Forget
    <3>6. CASE UNCHANGED memory
      BY <3>6
    <3> QED BY <3>1, <3>2, <3>3, <3>4, <3>5, <3>6
            DEF CallerStep, BeginSync, BeginAppend, BeginStats, Begin
  <2> QED BY <1>1, <2>1, <2>2 DEF Next
<1>2. IInv /\ [Next]_vars => [Created]_vars
  BY <1>1
<1> QED BY <1>2, Invariance, PTL DEF OnlySyncCreates, Spec
\* A session leaves the store only when it is forgotten, when it has been idle
\* for longer than the time to live, or when the store is full of sessions
\* used after it.
THEOREM NoLossWithoutReason == Spec => LossIsJustified
<1> DEFINE Justified(s) ==
        \/ \E c \in Caller : Forget(c, s)
        \/ Expired(memory, s, now)
        \/ Overflowed(s)
<1>1. ASSUME IInv, Next, NEW s \in Live(memory) \ Live(memory')
      PROVE  Justified(s)
  <2>1. CASE Tick
    BY <1>1, <2>1 DEF Tick
  <2>2. CASE \E c \in Caller : CallerStep(c)
    <3>1. PICK c \in Caller : CallerStep(c)
      BY <2>2
    <3>2. /\ StoreOK(memory) /\ call[c] \in Call /\ call[c].at \in Nat
          /\ call[c].at <= now /\ now \in Nat
      BY <1>1 DEF IInv, Call, ReadingsArePast
    <3>3. ASSUME Expired(memory, s, call[c].at)
          PROVE  Justified(s)
      <4>1. memory.entries[s].lastSeen \in Int
        BY <1>1, <3>2 DEF StoreOK, IsMemory, Live, Entry
      <4>2. Expired(memory, s, now)
        BY <3>2, <3>3, <4>1, SettingsType DEF Expired
      <4> QED BY <4>2
    <3>4. CASE SyncLocked(c)
      <4>1. /\ call[c].op = "sync"
            /\ memory' = Synced(memory, call[c].sid, call[c].transcript, call[c].at)
        BY <3>4 DEF SyncLocked, Finish
      <4>2. call[c].sid \in Session /\ call[c].transcript \in Seq(Message)
        BY <1>1, <3>2, <4>1 DEF IInv, CallsNameSessions, Call
      <4>3. Expired(memory, s, call[c].at) \/ Overflowed(s)
        <5>1. call[c].at \in Int
          BY <3>2
        <5>2. StoreOK(memory) /\ s \in Live(memory) /\ s \notin Live(memory')
          BY <1>1, <3>2
        <5> QED BY <4>1, <4>2, <5>1, <5>2, SyncedLossIsJustified DEF Overflowed
      <4> QED BY <3>3, <4>3
    <3>5. CASE AppendLocked(c)
      BY <1>1, <3>5, OthersInsertNothing DEF AppendLocked, Finish
    <3>6. CASE StatsLocked(c)
      <4>1. memory' = Sweep(memory, call[c].at)
        BY <3>6 DEF StatsLocked, Finish
      <4>2. Live(memory') = SweepKeeps(memory, call[c].at)
        BY <4>1 DEF Sweep, Retain, Live
      <4>3. Expired(memory, s, call[c].at)
        BY <1>1, <3>2, <4>2, SweepDropsExpired
      <4> QED BY <3>3, <4>3
    <3>7. CASE \E sid \in Session : Forget(c, sid)
      <4>1. PICK sid \in Session : Forget(c, sid)
        BY <3>7
      <4>2. Live(memory') = Live(memory) \ {sid}
        BY <4>1 DEF Forget, Forgotten, Retain, Live
      <4> QED BY <1>1, <4>1, <4>2
    <3>8. CASE UNCHANGED memory
      BY <1>1, <3>8
    <3> QED BY <3>1, <3>4, <3>5, <3>6, <3>7, <3>8
            DEF CallerStep, BeginSync, BeginAppend, BeginStats, Begin
  <2> QED BY <1>1, <2>1, <2>2 DEF Next
<1>2. IInv /\ [Next]_vars => [\A s \in Live(memory) \ Live(memory') : Justified(s)]_vars
  BY <1>1
<1> QED BY <1>2, Invariance, PTL DEF LossIsJustified, Spec
=============================================================================
