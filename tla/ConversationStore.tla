------------------------- MODULE ConversationStore -------------------------
(***************************************************************************)
(* The ConversationStore of services/api/app/sessions.py under concurrent  *)
(* callers.  sync, append_assistant and stats read the clock first and     *)
(* take the lock after; a caller is a thread of the server, and between    *)
(* its two steps time may pass and other callers may run.  One caller is   *)
(* the single-threaded event loop the service runs on today.               *)
(***************************************************************************)
EXTENDS SessionMemory

CONSTANTS
    Caller,         \* the threads that call the store
    Transcript,     \* the message lists clients send
    NoSession,      \* stands for the argument of a call that has none
    MaxTime,        \* bound: the clock stops here
    MaxTurnCount    \* bound: no sync begins on a session with more turns

ASSUME TranscriptAssumption == Transcript \subseteq Seq(Message)

VARIABLES
    memory,   \* _sessions, with its order
    now,      \* the monotonic clock
    call      \* call[c]: the call c is making, between clock and lock

vars == <<memory, now, call>>

NoCall == [op |-> "none", sid |-> NoSession, transcript |-> <<>>,
           content |-> NoContent, at |-> 0]

Call == [op : {"none", "sync", "append", "stats"},
         sid : Session \cup {NoSession},
         transcript : Seq(Message),
         content : Content,
         at : Nat]

TypeOK ==
    /\ IsMemory(memory)
    /\ now \in Nat
    /\ call \in [Caller -> Call]

Init ==
    /\ memory = EmptyMemory
    /\ now = 0
    /\ call = [c \in Caller |-> NoCall]

-----------------------------------------------------------------------------
Begin(c, request) ==
    /\ call[c] = NoCall
    /\ call' = [call EXCEPT ![c] = request]
    /\ UNCHANGED <<memory, now>>

\* now = self._clock(), before the lock of sync.
BeginSync(c, sid, transcript) ==
    /\ sid \in Live(memory) => memory.entries[sid].turns <= MaxTurnCount
    /\ Begin(c, [op |-> "sync", sid |-> sid, transcript |-> transcript,
                 content |-> NoContent, at |-> now])

\* append_assistant returns at once on an empty reply.
BeginAppend(c, sid, content) ==
    /\ content # NoContent
    /\ Begin(c, [op |-> "append", sid |-> sid, transcript |-> <<>>,
                 content |-> content, at |-> now])

BeginStats(c) ==
    Begin(c, [op |-> "stats", sid |-> NoSession, transcript |-> <<>>,
              content |-> NoContent, at |-> now])

Finish(c, op, m) ==
    /\ call[c].op = op
    /\ memory' = m
    /\ call' = [call EXCEPT ![c] = NoCall]
    /\ UNCHANGED now

\* The locked sections.
SyncLocked(c) ==
    Finish(c, "sync",
           Synced(memory, call[c].sid, call[c].transcript, call[c].at))

AppendLocked(c) ==
    Finish(c, "append",
           Appended(memory, call[c].sid, call[c].content, call[c].at))

StatsLocked(c) == Finish(c, "stats", Sweep(memory, call[c].at))

\* forget reads no clock: it is its locked section.
Forget(c, sid) ==
    /\ call[c] = NoCall
    /\ memory' = Forgotten(memory, sid)
    /\ UNCHANGED <<now, call>>

Tick ==
    /\ now < MaxTime
    /\ now' = now + 1
    /\ UNCHANGED <<memory, call>>

CallerStep(c) ==
    \/ \E sid \in Session, transcript \in Transcript : BeginSync(c, sid, transcript)
    \/ \E sid \in Session, content \in Content : BeginAppend(c, sid, content)
    \/ BeginStats(c)
    \/ SyncLocked(c)
    \/ AppendLocked(c)
    \/ StatsLocked(c)
    \/ \E sid \in Session : Forget(c, sid)

Next == Tick \/ \E c \in Caller : CallerStep(c)

Spec == Init /\ [][Next]_vars

-----------------------------------------------------------------------------
\* The order of the sessions stays a strict total order of the live ones.
Ordered == OrderOK(memory)

\* Memory is bounded: after every locked section at most max_sessions
\* sessions are held (sync adds one and sweeps again).
CapacityHolds == WithinCapacity(memory)

\* Each session holds at most 2 * max_turns messages, whatever the client
\* sends and however many replies are appended between two turns.
WindowHolds == WithinWindow(memory)

\* No session is lost without a reason: it was forgotten, or its last use is
\* longer ago than the time to live, or the store is full of sessions used
\* after it (_sweep evicts in the order of use and stops at the cap).
Overflowed(s) ==
    /\ Cardinality(Live(memory')) = Capacity
    /\ \A o \in Live(memory') :
        \/ <<s, o>> \in memory.older
        \/ \A p \in Live(memory') : <<o, p>> \notin memory'.older

LossIsJustified ==
    [][\A s \in Live(memory) \ Live(memory') :
          \/ \E c \in Caller : Forget(c, s)
          \/ Expired(memory, s, now)
          \/ Overflowed(s)]_vars

\* The turn that was just synced is never the victim of its own sweep: when
\* sync returns, the session it synced is held, with the conversation that
\* sync returns to the caller and as the most recently used.
SyncIsKept ==
    [][\A c \in Caller : call[c].op = "sync" /\ SyncLocked(c) =>
          LET sid == call[c].sid
          IN  /\ sid \in Live(memory')
              /\ memory'.entries[sid].messages = Window(Cleaned(call[c].transcript))
              /\ \A o \in Live(memory') : <<sid, o>> \notin memory'.older]_vars

\* A session comes into being by sync alone: the reply of a generation that
\* ends after its session was forgotten or evicted brings nothing back.
OnlySyncCreates ==
    [][\A s \in Live(memory') \ Live(memory) :
          \E c \in Caller : call[c].op = "sync" /\ call[c].sid = s /\ SyncLocked(c)]_vars
=============================================================================
