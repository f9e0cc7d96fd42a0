--------------------------- MODULE SessionMemory ---------------------------
(***************************************************************************)
(* The data of services/api/app/sessions.py: the in-memory conversation    *)
(* store of one API process, as a value, and its operations as functions   *)
(* from one value of the store to the next.                                *)
(*                                                                         *)
(* The OrderedDict of the code is a function from the live session ids to  *)
(* their entries together with its order: <<a, b>> \in older says that a   *)
(* comes before b, so that popitem(last=False) removes a first.            *)
(***************************************************************************)
EXTENDS Integers, Sequences, FiniteSets

CONSTANTS
    Session,       \* the ids clients make up for their conversations
    Content,       \* the texts of messages, NoContent among them
    NoContent,     \* the empty text
    MaxTurns,      \* max_turns, as configured
    TtlSeconds,    \* ttl_seconds, as configured
    MaxSessions    \* max_sessions, as configured

ASSUME SettingsAssumption ==
    MaxTurns \in Int /\ TtlSeconds \in Int /\ MaxSessions \in Int

ASSUME NoContentAssumption == NoContent \in Content

AtLeast(low, n) == IF n < low THEN low ELSE n

\* __init__ lifts every setting to the least value that makes sense.
MaxMessages == AtLeast(2, 2 * MaxTurns)
Ttl         == AtLeast(1, TtlSeconds)
Capacity    == AtLeast(1, MaxSessions)

Role == {"user", "assistant", "system"}
Message == [role : Role, content : Content]
Entry == [messages : Seq(Message), lastSeen : Int, turns : Nat]

\* A value of the store.
IsMemory(m) ==
    /\ m = [entries |-> m.entries, older |-> m.older]
    /\ DOMAIN m.entries \subseteq Session
    /\ m.entries \in [DOMAIN m.entries -> Entry]
    /\ m.older \subseteq Session \X Session

-----------------------------------------------------------------------------
\* What sync keeps of a transcript: user and assistant messages with a text,
\* in their order.  The k-th of the kept positions is the one that k kept
\* positions do not exceed.  (SelectSeq gives the same sequence, but hides
\* from proofs what it returns; MCConversationStore compares the two.)
Kept(m) == m.role \in {"user", "assistant"} /\ m.content # NoContent

KeptPositions(transcript) == {i \in DOMAIN transcript : Kept(transcript[i])}

NthKept(transcript, k) ==
    CHOOSE i \in KeptPositions(transcript) :
        Cardinality({j \in KeptPositions(transcript) : j <= i}) = k

Cleaned(transcript) ==
    [k \in 1..Cardinality(KeptPositions(transcript)) |->
        transcript[NthKept(transcript, k)]]

\* _window: the last MaxMessages messages.
Window(messages) ==
    IF Len(messages) > MaxMessages
    THEN SubSeq(messages, Len(messages) - MaxMessages + 1, Len(messages))
    ELSE messages

-----------------------------------------------------------------------------
EmptyMemory == [entries |-> [s \in {} |-> NoContent], older |-> {}]

Live(m) == DOMAIN m.entries

\* _expired: idle for strictly longer than the time to live.
Expired(m, s, t) == t - m.entries[s].lastSeen > Ttl

\* What is left of the store when only the sessions of keep stay.
Retain(m, keep) ==
    [entries |-> [s \in keep |-> m.entries[s]],
     older   |-> m.older \cap (keep \X keep)]

Fresh(m, t) == {s \in Live(m) : ~Expired(m, s, t)}

\* Wrong: evicts while the store is full, not while it is over its cap.
SweepKeepsOneLess(m, t) ==
    {s \in Fresh(m, t) :
        Cardinality({o \in Fresh(m, t) : <<s, o>> \in m.older}) < Capacity - 1}

\* _sweep: the expired sessions go, then the least recently used ones until
\* Capacity are left: a fresh session stays when fewer than Capacity fresh
\* ones are more recent.
SweepKeeps(m, t) ==
    {s \in Fresh(m, t) :
        Cardinality({o \in Fresh(m, t) : <<s, o>> \in m.older}) < Capacity}

Sweep(m, t) == Retain(m, SweepKeeps(m, t))

\* self._sessions[sid] = entry; self._sessions.move_to_end(sid)
PutLast(m, sid, entry) ==
    [entries |-> [s \in Live(m) \cup {sid} |->
                    IF s = sid THEN entry ELSE m.entries[s]],
     older   |-> {p \in m.older : p[1] # sid /\ p[2] # sid}
                   \cup ((Live(m) \ {sid}) \X {sid})]

\* Wrong: sync sweeps before it inserts, and not after.
SyncedWithOneSweep(m, sid, transcript, t) ==
    LET swept == Sweep(m, t)
        turns == IF sid \in Live(swept) THEN swept.entries[sid].turns ELSE 0
    IN  PutLast(swept, sid, [messages |-> Window(Cleaned(transcript)),
                             lastSeen |-> t,
                             turns    |-> turns + 1])

\* Wrong: the transcript is added to what the session remembers.
SyncedByMerging(m, sid, transcript, t) ==
    LET swept == Sweep(m, t)
        held  == IF sid \in Live(swept) THEN swept.entries[sid].messages ELSE <<>>
        turns == IF sid \in Live(swept) THEN swept.entries[sid].turns ELSE 0
    IN  Sweep(PutLast(swept, sid, [messages |-> Window(held \o Cleaned(transcript)),
                                   lastSeen |-> t,
                                   turns    |-> turns + 1]), t)

\* sync, with the clock read at t before the lock is taken.
Synced(m, sid, transcript, t) ==
    LET swept == Sweep(m, t)
        turns == IF sid \in Live(swept) THEN swept.entries[sid].turns ELSE 0
        entry == [messages |-> Window(Cleaned(transcript)),
                  lastSeen |-> t,
                  turns    |-> turns + 1]
    IN  Sweep(PutLast(swept, sid, entry), t)

\* Wrong: the text is appended in place of a message.
AppendedBare(m, sid, content, t) ==
    IF content = NoContent \/ sid \notin Live(m)
    THEN m
    ELSE PutLast(m, sid,
            [m.entries[sid] EXCEPT !.messages = Window(Append(@, content)),
                                   !.lastSeen = t])

\* append_assistant: no reply, or no such session, and nothing happens; an
\* expired session that no sweep has removed yet is there.
Appended(m, sid, content, t) ==
    IF content = NoContent \/ sid \notin Live(m)
    THEN m
    ELSE LET reply == [role |-> "assistant", content |-> content]
             entry == [messages |-> Window(Append(m.entries[sid].messages, reply)),
                       lastSeen |-> t,
                       turns    |-> m.entries[sid].turns]
         IN  PutLast(m, sid, entry)

\* forget
Forgotten(m, sid) == Retain(m, Live(m) \ {sid})

\* context and info: what a session id that is gone or expired answers is
\* the answer for one that never was.
Known(m, sid, t) == sid \in Live(m) /\ ~Expired(m, sid, t)
Context(m, sid, t) == IF Known(m, sid, t) THEN m.entries[sid].messages ELSE <<>>

-----------------------------------------------------------------------------
\* The order of the dict is a strict total order of the live sessions.
OrderOK(m) ==
    /\ m.older \subseteq Live(m) \X Live(m)
    /\ \A a \in Live(m) : <<a, a>> \notin m.older
    /\ \A a, b \in Live(m) : a # b => <<a, b>> \in m.older \/ <<b, a>> \in m.older
    /\ \A a, b, c \in Live(m) :
        <<a, b>> \in m.older /\ <<b, c>> \in m.older => <<a, c>> \in m.older

\* No more than the configured number of sessions is held.
WithinCapacity(m) == IsFiniteSet(Live(m)) /\ Cardinality(Live(m)) <= Capacity

\* No session holds more messages than the window.
WithinWindow(m) == \A s \in Live(m) : Len(m.entries[s].messages) <= MaxMessages
=============================================================================
