------------------------ MODULE SessionMemoryProofs ------------------------
(***************************************************************************)
(* What the operations of the conversation store preserve, for any number  *)
(* of sessions, any transcript and any setting.                            *)
(***************************************************************************)
EXTENDS SessionMemory, FiniteSetTheorems, TLAPS

\* A store as the service leaves it between two locked sections.
StoreOK(m) ==
    IsMemory(m) /\ OrderOK(m) /\ WithinCapacity(m) /\ WithinWindow(m)

\* __init__ leaves room for at least one session and one pair of messages.
LEMMA SettingsType ==
    /\ MaxMessages \in Nat /\ MaxMessages >= 2
    /\ Ttl \in Nat /\ Ttl >= 1
    /\ Capacity \in Nat /\ Capacity >= 1
  BY SettingsAssumption DEF MaxMessages, Ttl, Capacity, AtLeast

-----------------------------------------------------------------------------
\* _window returns messages, and never more than the window.
LEMMA WindowType ==
    ASSUME NEW messages \in Seq(Message)
    PROVE  /\ Window(messages) \in Seq(Message)
           /\ Len(Window(messages)) <= MaxMessages
<1> DEFINE last == SubSeq(messages, Len(messages) - MaxMessages + 1, Len(messages))
<1>1. CASE Len(messages) > MaxMessages
  <2>1. last \in Seq(Message) /\ Len(last) = MaxMessages
    BY <1>1, SettingsType
  <2> QED BY <1>1, <2>1, SettingsType DEF Window
<1>2. CASE ~(Len(messages) > MaxMessages)
  BY <1>2, SettingsType DEF Window
<1> QED BY <1>1, <1>2

\* Counting the kept positions up to each kept position numbers them: every
\* k up to their count is the number of exactly one of them.  The numbering
\* is injective into a set of the same size, hence onto.
LEMMA NthKeptExists ==
    ASSUME NEW t \in Seq(Message),
           NEW k \in 1..Cardinality(KeptPositions(t))
    PROVE  NthKept(t, k) \in KeptPositions(t)
<1> DEFINE K == KeptPositions(t)
           Upto(i) == {j \in K : j <= i}
           N == Cardinality(K)
           rank == [i \in K |-> Cardinality(Upto(i))]
<1>1. K \subseteq 1..Len(t) /\ Len(t) \in Nat
  BY DEF KeptPositions
<1>2. IsFiniteSet(1..Len(t))
  BY <1>1, FS_Interval
<1>3. IsFiniteSet(K) /\ N \in Nat
  BY <1>1, <1>2, FS_Subset, FS_CardinalityType
<1>4. ASSUME NEW i \in K
      PROVE  IsFiniteSet(Upto(i)) /\ Cardinality(Upto(i)) \in 1..N
  <2>1. Upto(i) \in SUBSET K
    OBVIOUS
  <2>2. IsFiniteSet(Upto(i)) /\ Cardinality(Upto(i)) <= N
    BY <1>3, <2>1, FS_Subset
  <2>3. i \in Upto(i)
    BY <1>1
  <2>4. Cardinality(Upto(i)) # 0
    BY <2>2, <2>3, FS_EmptySet
  <2>5. Cardinality(Upto(i)) \in Nat
    BY <2>2, FS_CardinalityType
  <2> HIDE DEF K, Upto, N
  <2> QED BY <1>3, <2>2, <2>4, <2>5
<1>5. ASSUME NEW i \in K, NEW j \in K, i < j
      PROVE  Cardinality(Upto(i)) # Cardinality(Upto(j))
  <2>1. Upto(i) \in SUBSET Upto(j)
    BY <1>1, <1>5
  <2>2. j \in Upto(j) /\ j \notin Upto(i)
    BY <1>1, <1>5
  <2>3. IsFiniteSet(Upto(j))
    BY <1>4
  <2> HIDE DEF K, Upto
  <2> QED BY <2>1, <2>2, <2>3, FS_Subset
<1>6. rank \in Injection(K, 1..N)
  <2>1. rank \in [K -> 1..N]
    <3> HIDE DEF Upto, N, K
    <3> QED BY <1>4
  <2>2. ASSUME NEW i \in K, NEW j \in K, rank[i] = rank[j]
        PROVE  i = j
    <3>1. i \in Int /\ j \in Int
      BY <1>1
    <3>2. Cardinality(Upto(i)) = Cardinality(Upto(j))
      BY <2>2
    <3> HIDE DEF K, Upto, rank
    <3> QED BY <1>5, <3>1, <3>2
  <2> HIDE DEF rank, N
  <2> QED BY <2>1, <2>2 DEF Injection, IsInjective
<1>7. IsFiniteSet(1..N) /\ Cardinality(1..N) = N
  <2> HIDE DEF N
  <2> QED BY <1>3, FS_Interval
<1>8. rank \in Surjection(K, 1..N)
  <2> HIDE DEF rank, K
  <2> QED BY <1>6, <1>7, FS_Injection
<1>9. PICK i \in K : rank[i] = k
  <2> HIDE DEF rank
  <2> QED BY <1>8 DEF Surjection
<1>10. i \in KeptPositions(t) /\ Cardinality({j \in KeptPositions(t) : j <= i}) = k
  BY <1>9
<1> QED BY <1>10 DEF NthKept

\* sync cleans a transcript into a list of messages, each of them a user or
\* assistant message of the transcript that has a text.
LEMMA CleanedType ==
    ASSUME NEW t \in Seq(Message)
    PROVE  /\ Cleaned(t) \in Seq(Message)
           /\ \A k \in DOMAIN Cleaned(t) : Kept(Cleaned(t)[k])
<1>1. KeptPositions(t) \subseteq 1..Len(t) /\ Len(t) \in Nat
  BY DEF KeptPositions
<1>2. Cardinality(KeptPositions(t)) \in Nat
  <2>1. IsFiniteSet(1..Len(t))
    BY <1>1, FS_Interval
  <2> QED BY <1>1, <2>1, FS_Subset, FS_CardinalityType
<1>3. ASSUME NEW k \in 1..Cardinality(KeptPositions(t))
      PROVE  t[NthKept(t, k)] \in Message /\ Kept(t[NthKept(t, k)])
  BY NthKeptExists, <1>1 DEF KeptPositions
<1> QED BY <1>2, <1>3 DEF Cleaned
-----------------------------------------------------------------------------
\* Dropping sessions leaves a store in order.
LEMMA RetainOK ==
    ASSUME NEW m, NEW keep \in SUBSET Live(m),
           IsMemory(m), OrderOK(m), IsFiniteSet(Live(m)), WithinWindow(m)
    PROVE  /\ IsMemory(Retain(m, keep))
           /\ OrderOK(Retain(m, keep))
           /\ WithinWindow(Retain(m, keep))
           /\ Live(Retain(m, keep)) = keep
           /\ IsFiniteSet(keep)
<1>1. /\ Retain(m, keep).entries = [s \in keep |-> m.entries[s]]
      /\ Retain(m, keep).older = m.older \cap (keep \X keep)
      /\ Live(Retain(m, keep)) = keep
  BY DEF Retain, Live
<1>2. IsMemory(Retain(m, keep))
  BY DEF IsMemory, Retain, Live
<1>3. OrderOK(Retain(m, keep))
  BY <1>1 DEF OrderOK
<1>4. WithinWindow(Retain(m, keep))
  BY <1>1 DEF WithinWindow
<1>5. IsFiniteSet(keep)
  BY FS_Subset
<1> QED BY <1>1, <1>2, <1>3, <1>4, <1>5

\* A sweep leaves at most Capacity sessions.  Each session that stays has
\* fewer than Capacity fresh ones after it, and no two have equally many, for
\* the order is strict and total; more of them than numbers below Capacity
\* there cannot be.
LEMMA SweepKeepsFew ==
    ASSUME NEW m, NEW t \in Int,
           IsMemory(m), OrderOK(m), IsFiniteSet(Live(m))
    PROVE  /\ IsFiniteSet(SweepKeeps(m, t))
           /\ Cardinality(SweepKeeps(m, t)) <= Capacity
<1> DEFINE F == Fresh(m, t)
           keep == SweepKeeps(m, t)
           After(s) == {o \in F : <<s, o>> \in m.older}
           rank == [s \in keep |-> Cardinality(After(s))]
<1>1. keep \subseteq F /\ F \subseteq Live(m)
  BY DEF SweepKeeps, Fresh
<1>2. IsFiniteSet(F) /\ IsFiniteSet(keep)
  BY <1>1, FS_Subset
<1>3. ASSUME NEW s \in keep
      PROVE  IsFiniteSet(After(s)) /\ Cardinality(After(s)) \in 0..(Capacity - 1)
  <2>1. IsFiniteSet(After(s))
    <3>1. After(s) \in SUBSET F
      OBVIOUS
    <3> HIDE DEF F, After
    <3> QED BY <1>2, <3>1, FS_Subset
  <2>2. Cardinality(After(s)) < Capacity
    BY DEF SweepKeeps
  <2>3. Cardinality(After(s)) \in Nat
    BY <2>1, FS_CardinalityType
  <2> HIDE DEF After
  <2> QED BY <2>1, <2>2, <2>3, SettingsType
<1>4. ASSUME NEW a \in keep, NEW b \in keep, <<a, b>> \in m.older
      PROVE  Cardinality(After(a)) # Cardinality(After(b))
  <2>1. After(b) \in SUBSET After(a)
    BY <1>1, <1>4 DEF OrderOK
  <2>2. b \in After(a) /\ b \notin After(b)
    BY <1>1, <1>4 DEF OrderOK
  <2>3. IsFiniteSet(After(a))
    BY <1>3
  <2> HIDE DEF After
  <2> QED BY <2>1, <2>2, <2>3, FS_Subset
<1>5. ASSUME NEW a \in keep, NEW b \in keep, a # b
      PROVE  rank[a] # rank[b]
  <2>1. <<a, b>> \in m.older \/ <<b, a>> \in m.older
    BY <1>1, <1>5 DEF OrderOK
  <2>2. rank[a] = Cardinality(After(a)) /\ rank[b] = Cardinality(After(b))
    OBVIOUS
  <2> HIDE DEF After, rank
  <2> QED BY <1>4, <2>1, <2>2
<1>6. rank \in [keep -> 0..(Capacity - 1)]
  <2> HIDE DEF After, keep
  <2> QED BY <1>3
<1>7. /\ IsFiniteSet(0..(Capacity - 1))
      /\ Cardinality(0..(Capacity - 1)) = Capacity
  BY SettingsType, FS_Interval
<1>8. Cardinality(keep) \in Nat
  BY <1>2, FS_CardinalityType
<1>9. ~(Cardinality(0..(Capacity - 1)) < Cardinality(keep))
  <2> HIDE DEF rank, keep
  <2> QED BY <1>2, <1>5, <1>6, <1>7, FS_PigeonHole
<1>10. Cardinality(keep) <= Capacity
  <2> HIDE DEF keep
  <2> QED BY <1>7, <1>8, <1>9, SettingsType
<1> QED BY <1>2, <1>10

\* _sweep brings any ordered store, however full, within its bounds.
LEMMA SweepOK ==
    ASSUME NEW m, NEW t \in Int,
           IsMemory(m), OrderOK(m), IsFiniteSet(Live(m)), WithinWindow(m)
    PROVE  StoreOK(Sweep(m, t)) /\ Live(Sweep(m, t)) = SweepKeeps(m, t)
<1>1. SweepKeeps(m, t) \in SUBSET Live(m)
  BY DEF SweepKeeps, Fresh
<1> QED BY <1>1, RetainOK, SweepKeepsFew DEF Sweep, StoreOK, WithinCapacity

\* Inserting a session, or moving it, puts it last and keeps the order of the
\* others.
LEMMA PutLastOK ==
    ASSUME NEW m, NEW sid \in Session, NEW entry \in Entry,
           IsMemory(m), OrderOK(m), IsFiniteSet(Live(m)), WithinWindow(m),
           Len(entry.messages) <= MaxMessages
    PROVE  /\ IsMemory(PutLast(m, sid, entry))
           /\ OrderOK(PutLast(m, sid, entry))
           /\ WithinWindow(PutLast(m, sid, entry))
           /\ Live(PutLast(m, sid, entry)) = Live(m) \cup {sid}
           /\ IsFiniteSet(Live(m) \cup {sid})
<1> DEFINE n == PutLast(m, sid, entry)
           L == Live(m) \cup {sid}
           others == Live(m) \ {sid}
<1>1. /\ n.entries = [s \in L |-> IF s = sid THEN entry ELSE m.entries[s]]
      /\ n.older = {p \in m.older : p[1] # sid /\ p[2] # sid} \cup (others \X {sid})
      /\ n = [entries |-> n.entries, older |-> n.older]
      /\ Live(n) = L
  BY DEF PutLast, Live
<1>2. m.older \subseteq Live(m) \X Live(m)
  BY DEF OrderOK
<1>3. IsMemory(n)
  <2>1. L \subseteq Session /\ others \subseteq Session
    BY DEF IsMemory, Live
  <2>2. n.entries \in [L -> Entry]
    BY <1>1 DEF IsMemory, Live
  <2>3. n.older \subseteq Session \X Session
    BY <1>1, <1>2, <2>1
  <2> HIDE DEF n, L, others
  <2> QED BY <1>1, <2>1, <2>2, <2>3 DEF IsMemory, Live
<1>4. \A a, b : <<a, b>> \in n.older <=>
          \/ <<a, b>> \in m.older /\ a # sid /\ b # sid
          \/ a \in others /\ b = sid
  BY <1>1
<1>5. OrderOK(n)
  <2> HIDE DEF n
  <2>1. n.older \subseteq L \X L
    BY <1>1, <1>2
  <2>2. \A a \in L : <<a, a>> \notin n.older
    BY <1>2, <1>4 DEF OrderOK
  <2>3. \A a, b \in L : a # b => <<a, b>> \in n.older \/ <<b, a>> \in n.older
    BY <1>4 DEF OrderOK
  <2>4. \A a, b, c \in L :
          <<a, b>> \in n.older /\ <<b, c>> \in n.older => <<a, c>> \in n.older
    BY <1>2, <1>4 DEF OrderOK
  <2> QED BY <1>1, <2>1, <2>2, <2>3, <2>4 DEF OrderOK
<1>6. WithinWindow(n)
  BY <1>1 DEF WithinWindow
<1>7. IsFiniteSet(L)
  BY FS_AddElement
<1> QED BY <1>1, <1>3, <1>5, <1>6, <1>7

-----------------------------------------------------------------------------
\* sync leaves the store within its bounds whatever the client sent.
LEMMA SyncedOK ==
    ASSUME NEW m, StoreOK(m), NEW sid \in Session,
           NEW transcript \in Seq(Message), NEW t \in Int
    PROVE  StoreOK(Synced(m, sid, transcript, t))
<1> DEFINE swept == Sweep(m, t)
           turns == IF sid \in Live(swept) THEN swept.entries[sid].turns ELSE 0
           entry == [messages |-> Window(Cleaned(transcript)),
                     lastSeen |-> t,
                     turns    |-> turns + 1]
           put == PutLast(swept, sid, entry)
<1>1. StoreOK(swept)
  BY SweepOK DEF StoreOK, WithinCapacity
<1>2. turns \in Nat
  <2> HIDE DEF swept
  <2> QED BY <1>1 DEF StoreOK, IsMemory, Live, Entry
<1>3. /\ Window(Cleaned(transcript)) \in Seq(Message)
      /\ Len(Window(Cleaned(transcript))) <= MaxMessages
  BY CleanedType, WindowType
<1>4. entry \in Entry /\ Len(entry.messages) <= MaxMessages
  <2> HIDE DEF turns
  <2> QED BY <1>2, <1>3 DEF Entry
<1>5. /\ IsMemory(put) /\ OrderOK(put) /\ WithinWindow(put)
      /\ IsFiniteSet(Live(put))
  <2> HIDE DEF swept, entry
  <2> QED BY <1>1, <1>4, PutLastOK DEF StoreOK, WithinCapacity
<1>6. StoreOK(Sweep(put, t))
  <2> HIDE DEF put
  <2> QED BY <1>5, SweepOK
<1> QED BY <1>6 DEF Synced

\* The session that sync inserts survives the sweep that follows: it was seen
\* just now and no session comes after it.
LEMMA SyncedIsHeld ==
    ASSUME NEW m, StoreOK(m), NEW sid \in Session,
           NEW transcript \in Seq(Message), NEW t \in Int
    PROVE  LET n == Synced(m, sid, transcript, t)
           IN  /\ sid \in Live(n)
               /\ n.entries[sid].messages = Window(Cleaned(transcript))
               /\ \A o \in Live(n) : <<sid, o>> \notin n.older
               /\ Live(n) \subseteq Live(m) \cup {sid}
<1> DEFINE swept == Sweep(m, t)
           turns == IF sid \in Live(swept) THEN swept.entries[sid].turns ELSE 0
           entry == [messages |-> Window(Cleaned(transcript)),
                     lastSeen |-> t,
                     turns    |-> turns + 1]
           put == PutLast(swept, sid, entry)
           n == Sweep(put, t)
           After == {o \in Fresh(put, t) : <<sid, o>> \in put.older}
<1>1. Live(swept) \subseteq Live(m)
  BY DEF Sweep, Retain, SweepKeeps, Fresh, Live
<1>2. /\ Live(put) = Live(swept) \cup {sid}
      /\ put.entries[sid] = entry
  <2> HIDE DEF swept, entry
  <2> QED BY DEF PutLast, Live
<1>3. \A o : <<sid, o>> \notin put.older
  <2> HIDE DEF swept, entry
  <2> QED BY DEF PutLast
<1>4. sid \in Fresh(put, t)
  <2>1. put.entries[sid].lastSeen = t
    <3> HIDE DEF put
    <3> QED BY <1>2
  <2> HIDE DEF put
  <2> QED BY <1>2, <2>1, SettingsType DEF Fresh, Expired
<1>5. After = {}
  <2> HIDE DEF put
  <2> QED BY <1>3
<1>6. sid \in SweepKeeps(put, t)
  <2>1. Cardinality(After) < Capacity
    <3> HIDE DEF After
    <3> QED BY <1>5, SettingsType, FS_EmptySet
  <2> HIDE DEF put
  <2> QED BY <1>4, <2>1 DEF SweepKeeps
<1>7. /\ Live(n) = SweepKeeps(put, t)
      /\ n.entries[sid] = put.entries[sid]
      /\ n.older \subseteq put.older
      /\ SweepKeeps(put, t) \subseteq Live(put)
  <2> HIDE DEF put
  <2> QED BY <1>6 DEF Sweep, Retain, Live, SweepKeeps, Fresh
<1>8. n = Synced(m, sid, transcript, t)
  BY DEF Synced
<1>9. n.entries[sid].messages = Window(Cleaned(transcript))
  <2> HIDE DEF put, n
  <2> QED BY <1>2, <1>7
<1> HIDE DEF n, put, swept
<1> QED BY <1>1, <1>2, <1>3, <1>6, <1>7, <1>8, <1>9

\* Nothing else inserts a session.
LEMMA OthersInsertNothing ==
    ASSUME NEW m, NEW sid, NEW content, NEW t
    PROVE  /\ Live(Sweep(m, t)) \subseteq Live(m)
           /\ Live(Appended(m, sid, content, t)) = Live(m)
           /\ Live(Forgotten(m, sid)) \subseteq Live(m)
  BY DEF Sweep, Retain, SweepKeeps, Fresh, Live, Appended, PutLast, Forgotten

\* append_assistant never makes the store larger: it adds no session, and
\* the window is applied to the longer list.
LEMMA AppendedOK ==
    ASSUME NEW m, StoreOK(m), NEW sid \in Session, NEW content \in Content, NEW t \in Int
    PROVE  StoreOK(Appended(m, sid, content, t))
<1>1. CASE content = NoContent \/ sid \notin Live(m)
  BY <1>1 DEF Appended
<1>2. CASE ~(content = NoContent \/ sid \notin Live(m))
  <2> DEFINE reply == [role |-> "assistant", content |-> content]
             longer == Append(m.entries[sid].messages, reply)
             entry == [messages |-> Window(longer),
                       lastSeen |-> t,
                       turns    |-> m.entries[sid].turns]
  <2>1. m.entries[sid] \in Entry
    BY <1>2 DEF StoreOK, IsMemory, Live
  <2>2. longer \in Seq(Message)
    BY <2>1 DEF Entry, Message, Role
  <2>3. Window(longer) \in Seq(Message) /\ Len(Window(longer)) <= MaxMessages
    <3> HIDE DEF longer
    <3> QED BY <2>2, WindowType
  <2>4. entry \in Entry /\ Len(entry.messages) <= MaxMessages
    <3> HIDE DEF longer
    <3> QED BY <2>1, <2>3 DEF Entry
  <2>5. StoreOK(PutLast(m, sid, entry))
    <3>1. Live(m) \cup {sid} = Live(m)
      BY <1>2
    <3> HIDE DEF entry
    <3> QED BY <2>4, <3>1, PutLastOK DEF StoreOK, WithinCapacity
  <2> QED BY <1>2, <2>5 DEF Appended
<1> QED BY <1>1, <1>2

\* forget keeps the rest of the store as it is.
LEMMA ForgottenOK ==
    ASSUME NEW m, StoreOK(m), NEW sid
    PROVE  StoreOK(Forgotten(m, sid)) /\ sid \notin Live(Forgotten(m, sid))
<1> DEFINE keep == Live(m) \ {sid}
<1>1. /\ IsMemory(Retain(m, keep)) /\ OrderOK(Retain(m, keep))
      /\ WithinWindow(Retain(m, keep)) /\ Live(Retain(m, keep)) = keep
  BY RetainOK DEF StoreOK, WithinCapacity
<1>2. /\ IsFiniteSet(keep) /\ Cardinality(keep) <= Cardinality(Live(m))
      /\ Cardinality(keep) \in Nat /\ Cardinality(Live(m)) \in Nat
  BY FS_Subset, FS_CardinalityType DEF StoreOK, WithinCapacity
<1>3. Cardinality(keep) <= Capacity
  <2> HIDE DEF keep
  <2> QED BY <1>2, SettingsType DEF StoreOK, WithinCapacity
<1> QED BY <1>1, <1>2, <1>3 DEF Forgotten, StoreOK, WithinCapacity

\* The store a process starts with.
LEMMA EmptyMemoryOK == StoreOK(EmptyMemory)
<1>1. Live(EmptyMemory) = {} /\ EmptyMemory.older = {}
  BY DEF EmptyMemory, Live
<1>2. IsMemory(EmptyMemory)
  BY DEF EmptyMemory, IsMemory
<1> QED BY <1>1, <1>2, FS_EmptySet, SettingsType
        DEF StoreOK, OrderOK, WithinCapacity, WithinWindow
-----------------------------------------------------------------------------
\* A fresh session that a sweep drops made room for a full store of sessions
\* that all come after it.  The fresh sessions are numbered by how many come
\* after each, without gaps, so those numbered below Capacity are Capacity.
LEMMA EvictionFillsTheStore ==
    ASSUME NEW m, NEW t \in Int, IsMemory(m), OrderOK(m), IsFiniteSet(Live(m)),
           NEW s \in Fresh(m, t) \ SweepKeeps(m, t)
    PROVE  /\ Cardinality(SweepKeeps(m, t)) = Capacity
           /\ \A o \in SweepKeeps(m, t) : <<s, o>> \in m.older
<1> DEFINE F == Fresh(m, t)
           N == Cardinality(F)
           keep == SweepKeeps(m, t)
           After(a) == {o \in F : <<a, o>> \in m.older}
           rank == [a \in F |-> Cardinality(After(a))]
<1>1. keep \subseteq F /\ F \subseteq Live(m)
  BY DEF SweepKeeps, Fresh
<1>2. IsFiniteSet(F) /\ N \in Nat /\ IsFiniteSet(keep) /\ Cardinality(keep) \in Nat
  BY <1>1, FS_Subset, FS_CardinalityType
<1>3. ASSUME NEW a \in F
      PROVE  /\ IsFiniteSet(After(a)) /\ Cardinality(After(a)) \in 0..(N - 1)
             /\ a \in keep <=> Cardinality(After(a)) < Capacity
  <2>1. After(a) \in SUBSET F /\ a \notin After(a)
    BY <1>1 DEF OrderOK
  <2>2. a \in keep <=> Cardinality(After(a)) < Capacity
    BY DEF SweepKeeps
  <2> HIDE DEF After, F, keep
  <2>3. /\ IsFiniteSet(After(a)) /\ Cardinality(After(a)) <= N
        /\ Cardinality(After(a)) # N
    BY <1>2, <2>1, FS_Subset DEF N
  <2>4. Cardinality(After(a)) \in Nat
    BY <2>3, FS_CardinalityType
  <2> HIDE DEF N
  <2> QED BY <1>2, <2>2, <2>3, <2>4
<1>4. ASSUME NEW a \in F, NEW b \in F, <<a, b>> \in m.older
      PROVE  Cardinality(After(b)) < Cardinality(After(a))
  <2>1. After(b) \in SUBSET After(a)
    BY <1>1, <1>4 DEF OrderOK
  <2>2. b \in After(a) /\ b \notin After(b)
    BY <1>1, <1>4 DEF OrderOK
  <2>3. /\ IsFiniteSet(After(a)) /\ Cardinality(After(a)) \in Int
        /\ Cardinality(After(b)) \in Int
    <3> HIDE DEF After, N, F
    <3> QED BY <1>3
  <2> HIDE DEF After
  <2> QED BY <2>1, <2>2, <2>3, FS_Subset
<1>5. \A o \in keep : <<s, o>> \in m.older
  <2> SUFFICES ASSUME NEW o \in keep, <<s, o>> \notin m.older PROVE FALSE
    OBVIOUS
  <2>1. o \in F /\ s \in F /\ s # o /\ o \in keep /\ s \notin keep
    BY <1>1
  <2>2. <<o, s>> \in m.older
    BY <1>1, <2>1 DEF OrderOK
  <2>3. Cardinality(After(s)) < Cardinality(After(o))
    BY <1>4, <2>1, <2>2
  <2>4. /\ Cardinality(After(o)) \in Int /\ Cardinality(After(s)) \in Int
        /\ Cardinality(After(o)) < Capacity /\ ~(Cardinality(After(s)) < Capacity)
    <3> HIDE DEF After, N, F, keep
    <3> QED BY <1>3, <2>1
  <2> HIDE DEF After
  <2> QED BY <2>3, <2>4, SettingsType
<1>6. IsFiniteSet(0..(N - 1)) /\ Cardinality(0..(N - 1)) = N
  <2>1. N - 1 \in Int /\ N \in Nat
    <3> HIDE DEF N
    <3> QED BY <1>2
  <2> HIDE DEF N
  <2> QED BY <2>1, FS_Interval
<1>7. rank \in Injection(F, 0..(N - 1))
  <2>1. rank \in [F -> 0..(N - 1)]
    <3> HIDE DEF After, N, F
    <3> QED BY <1>3
  <2>2. ASSUME NEW a \in F, NEW b \in F, rank[a] = rank[b], a # b
        PROVE  FALSE
    <3>1. <<a, b>> \in m.older \/ <<b, a>> \in m.older
      BY <1>1, <2>2 DEF OrderOK
    <3>2. Cardinality(After(a)) = Cardinality(After(b)) /\ Cardinality(After(a)) \in Int
      <4>1. Cardinality(After(a)) = Cardinality(After(b))
        BY <2>2
      <4> HIDE DEF After, rank, N, F
      <4> QED BY <1>3, <4>1
    <3> HIDE DEF After, rank
    <3> QED BY <1>4, <3>1, <3>2
  <2> HIDE DEF rank, N
  <2> QED BY <2>1, <2>2 DEF Injection, IsInjective
<1>8. rank \in Surjection(F, 0..(N - 1))
  <2> HIDE DEF rank, F
  <2> QED BY <1>2, <1>6, <1>7, FS_Injection DEF N
<1>9. Capacity <= N - 1
  <2>1. Cardinality(After(s)) \in 0..(N - 1) /\ ~(Cardinality(After(s)) < Capacity)
    BY <1>3
  <2> HIDE DEF After, N
  <2> QED BY <1>2, <2>1, SettingsType
<1> DEFINE numbered == [a \in keep |-> rank[a]]
<1>10. numbered \in Surjection(keep, 0..(Capacity - 1))
  <2>1. ASSUME NEW a \in keep PROVE numbered[a] \in 0..(Capacity - 1)
    <3>1. a \in F /\ numbered[a] = Cardinality(After(a))
      BY <1>1
    <3>2. numbered[a] \in Nat /\ numbered[a] < Capacity
      <4> HIDE DEF After, numbered
      <4> QED BY <1>2, <1>3, <3>1
    <3> HIDE DEF numbered
    <3> QED BY <3>2, SettingsType
  <2>2. ASSUME NEW k \in 0..(Capacity - 1) PROVE \E a \in keep : numbered[a] = k
    <3>1. k \in 0..(N - 1)
      <4> HIDE DEF N
      <4> QED BY <1>2, <1>9, SettingsType
    <3>2. PICK a \in F : rank[a] = k
      <4> HIDE DEF rank, N, F
      <4> QED BY <1>8, <3>1 DEF Surjection
    <3>3. Cardinality(After(a)) = k
      BY <3>2
    <3>4. a \in keep
      <4> HIDE DEF After
      <4> QED BY <1>3, <3>3, SettingsType
    <3> QED BY <3>2, <3>4
  <2>3. numbered \in [keep -> 0..(Capacity - 1)]
    <3> HIDE DEF rank, keep
    <3> QED BY <2>1
  <2> HIDE DEF numbered, keep
  <2> QED BY <2>2, <2>3 DEF Surjection
<1>11. Cardinality(0..(Capacity - 1)) = Capacity
  BY SettingsType, FS_Interval
<1>12. Capacity <= Cardinality(keep)
  <2> HIDE DEF numbered, keep
  <2> QED BY <1>2, <1>10, <1>11, FS_Surjection
<1>13. Cardinality(keep) <= Capacity
  BY SweepKeepsFew
<1>14. Cardinality(keep) = Capacity
  <2> HIDE DEF keep
  <2> QED BY <1>2, <1>12, <1>13, SettingsType
<1> QED BY <1>5, <1>14

\* A store within its capacity loses only expired sessions to a sweep.
LEMMA SweepDropsExpired ==
    ASSUME NEW m, StoreOK(m), NEW t \in Int, NEW s \in Live(m) \ SweepKeeps(m, t)
    PROVE  Expired(m, s, t)
<1> SUFFICES ASSUME ~Expired(m, s, t) PROVE FALSE
  OBVIOUS
<1> DEFINE keep == SweepKeeps(m, t)
<1>1. s \in Fresh(m, t) \ keep
  BY DEF Fresh
<1>2. IsMemory(m) /\ OrderOK(m) /\ IsFiniteSet(Live(m)) /\ Cardinality(Live(m)) <= Capacity
  BY DEF StoreOK, WithinCapacity
<1>3. Cardinality(keep) = Capacity
  BY <1>1, <1>2, EvictionFillsTheStore
<1>4. keep \in SUBSET Live(m) /\ keep # Live(m)
  BY DEF SweepKeeps, Fresh
<1>5. /\ Cardinality(keep) <= Cardinality(Live(m))
      /\ Cardinality(keep) # Cardinality(Live(m))
      /\ Cardinality(Live(m)) \in Nat
  <2> HIDE DEF keep
  <2> QED BY <1>2, <1>4, FS_Subset, FS_CardinalityType
<1> HIDE DEF keep
<1> QED BY <1>2, <1>3, <1>5, SettingsType

\* sync loses a session only if it was expired when the clock was read, or if
\* the store is full of sessions that were used after it.
LEMMA SyncedLossIsJustified ==
    ASSUME NEW m, StoreOK(m), NEW sid \in Session,
           NEW transcript \in Seq(Message), NEW t \in Int,
           NEW s \in Live(m), s \notin Live(Synced(m, sid, transcript, t))
    PROVE  LET n == Synced(m, sid, transcript, t)
           IN  \/ Expired(m, s, t)
               \/ /\ Cardinality(Live(n)) = Capacity
                  /\ \A o \in Live(n) :
                        \/ <<s, o>> \in m.older
                        \/ \A p \in Live(n) : <<o, p>> \notin n.older
<1> DEFINE n == Synced(m, sid, transcript, t)
           swept == Sweep(m, t)
           turns == IF sid \in Live(swept) THEN swept.entries[sid].turns ELSE 0
           entry == [messages |-> Window(Cleaned(transcript)),
                     lastSeen |-> t,
                     turns    |-> turns + 1]
           put == PutLast(swept, sid, entry)
<1>1. n = Sweep(put, t)
  BY DEF Synced
<1>2. /\ Live(swept) = SweepKeeps(m, t)
      /\ swept.older \subseteq m.older
      /\ \A a \in Live(swept) : swept.entries[a] = m.entries[a]
  BY DEF Sweep, Retain, Live
<1>3. CASE s \notin Live(swept)
  <2>1. Expired(m, s, t)
    BY <1>2, <1>3, SweepDropsExpired
  <2> QED BY <2>1
<1>4. CASE s \in Live(swept)
  <2>1. s # sid /\ \A p \in Live(n) : <<sid, p>> \notin n.older
    BY SyncedIsHeld
  <2>2. StoreOK(swept)
    BY SweepOK DEF StoreOK, WithinCapacity
  <2>3. turns \in Nat
    <3> HIDE DEF swept
    <3> QED BY <2>2 DEF StoreOK, IsMemory, Live, Entry
  <2>4. /\ Window(Cleaned(transcript)) \in Seq(Message)
        /\ Len(Window(Cleaned(transcript))) <= MaxMessages
    BY CleanedType, WindowType
  <2>5. entry \in Entry /\ Len(entry.messages) <= MaxMessages
    <3> HIDE DEF turns
    <3> QED BY <2>3, <2>4 DEF Entry
  <2>6. /\ IsMemory(put) /\ OrderOK(put) /\ IsFiniteSet(Live(put))
        /\ Live(put) = Live(swept) \cup {sid}
        /\ put.entries[s] = swept.entries[s]
        /\ \A o : <<s, o>> \in put.older => <<s, o>> \in swept.older \/ o = sid
    <3>1. put.entries[s] = swept.entries[s]
      <4> HIDE DEF swept, entry
      <4> QED BY <1>4, <2>1 DEF PutLast
    <3>2. \A o : <<s, o>> \in put.older => <<s, o>> \in swept.older \/ o = sid
      <4> HIDE DEF swept, entry
      <4> QED BY DEF PutLast
    <3> HIDE DEF swept, entry
    <3> QED BY <2>2, <2>5, <3>1, <3>2, PutLastOK DEF StoreOK, WithinCapacity
  <2>7. s \in Fresh(put, t)
    <3>1. ~Expired(m, s, t)
      BY <1>2, <1>4 DEF SweepKeeps, Fresh
    <3> HIDE DEF put, swept
    <3> QED BY <1>2, <1>4, <2>6, <3>1 DEF Fresh, Expired
  <2>8. Live(n) = SweepKeeps(put, t)
    <3> HIDE DEF put
    <3> QED BY <1>1 DEF Sweep, Retain, Live
  <2>9. /\ Cardinality(Live(n)) = Capacity
        /\ \A o \in Live(n) : <<s, o>> \in put.older
    <3> HIDE DEF put
    <3> QED BY <2>6, <2>7, <2>8, EvictionFillsTheStore
  <2> HIDE DEF put, swept
  <2> QED BY <1>2, <2>1, <2>6, <2>9
<1> QED BY <1>3, <1>4
-----------------------------------------------------------------------------
\* What a window that cuts keeps: the last messages, in their order.
LEMMA WindowCuts ==
    ASSUME NEW messages \in Seq(Message), Len(messages) > MaxMessages
    PROVE  /\ Window(messages) \in Seq(Message)
           /\ Len(Window(messages)) = MaxMessages
           /\ \A i \in 1..MaxMessages :
                 Window(messages)[i] = messages[Len(messages) - MaxMessages + i]
<1> DEFINE n == Len(messages)
           low == n - MaxMessages + 1
           last == SubSeq(messages, low, n)
<1>1. Window(messages) = last
  BY DEF Window
<1>2. n \in Nat /\ low \in 1..n /\ n - low + 1 = MaxMessages
  BY SettingsType
<1>3. last \in Seq(Message)
  BY WindowType, <1>1
<1>4. Len(last) = MaxMessages
  <2> HIDE DEF low, n
  <2> QED BY <1>2, SettingsType
<1>5. ASSUME NEW i \in 1..MaxMessages PROVE last[i] = messages[n - MaxMessages + i]
  <2>1. low + i - 1 = n - MaxMessages + i /\ i \in 1..(n - low + 1)
    BY <1>2, SettingsType
  <2>2. last[i] = messages[low + i - 1]
    <3> HIDE DEF low, n
    <3> QED BY <1>2, <2>1, SettingsType
  <2> HIDE DEF last, low, n
  <2> QED BY <2>1, <2>2
<1> HIDE DEF last
<1> QED BY <1>1, <1>3, <1>4, <1>5

\* A reply that is appended to a window is in the window of the longer
\* conversation: cutting early loses nothing that would be kept later.
LEMMA WindowAppend ==
    ASSUME NEW messages \in Seq(Message), NEW reply \in Message
    PROVE  Window(Append(Window(messages), reply)) = Window(Append(messages, reply))
<1> DEFINE n == Len(messages)
           longer == Append(messages, reply)
           last == Window(messages)
           more == Append(last, reply)
<1>1. /\ n \in Nat /\ longer \in Seq(Message) /\ Len(longer) = n + 1
      /\ \A i \in 1..n : longer[i] = messages[i]
      /\ longer[n + 1] = reply
  OBVIOUS
<1>2. CASE ~(n > MaxMessages)
  BY <1>2 DEF Window
<1>3. CASE n > MaxMessages
  <2>1. /\ last \in Seq(Message) /\ Len(last) = MaxMessages
        /\ \A i \in 1..MaxMessages : last[i] = messages[n - MaxMessages + i]
    BY <1>3, WindowCuts
  <2> HIDE DEF last
  <2>2. /\ more \in Seq(Message) /\ Len(more) = MaxMessages + 1
        /\ \A i \in 1..MaxMessages : more[i] = last[i]
        /\ more[MaxMessages + 1] = reply
    BY <2>1, SettingsType
  <2> HIDE DEF more, longer, n
  <2>3. Len(more) > MaxMessages /\ Len(longer) > MaxMessages
    BY <1>1, <1>3, <2>2, SettingsType
  <2>4. /\ Window(more) \in Seq(Message) /\ Len(Window(more)) = MaxMessages
        /\ \A i \in 1..MaxMessages : Window(more)[i] = more[Len(more) - MaxMessages + i]
    BY <2>2, <2>3, WindowCuts
  <2>5. /\ Window(longer) \in Seq(Message) /\ Len(Window(longer)) = MaxMessages
        /\ \A i \in 1..MaxMessages : Window(longer)[i] = longer[Len(longer) - MaxMessages + i]
    BY <1>1, <2>3, WindowCuts
  <2>6. ASSUME NEW i \in 1..MaxMessages PROVE Window(more)[i] = Window(longer)[i]
    <3>1. /\ i \in Nat /\ MaxMessages \in Nat
          /\ Len(more) - MaxMessages + i = i + 1
          /\ Len(longer) - MaxMessages + i = n - MaxMessages + 1 + i
      BY <1>1, <2>2, SettingsType
    <3>2. Window(more)[i] = more[i + 1] /\ Window(longer)[i] = longer[n - MaxMessages + 1 + i]
      BY <2>4, <2>5, <3>1
    <3>3. CASE i = MaxMessages
      <4>1. n - MaxMessages + 1 + i = n + 1
        BY <1>1, <3>1, <3>3
      <4> QED BY <1>1, <2>2, <3>2, <3>3, <4>1
    <3>4. CASE i # MaxMessages
      <4>1. /\ i + 1 \in 1..MaxMessages
            /\ n - MaxMessages + (i + 1) = n - MaxMessages + 1 + i
            /\ n - MaxMessages + 1 + i \in 1..n
        BY <1>1, <1>3, <3>1, <3>4
      <4>2. more[i + 1] = last[i + 1]
        BY <2>2, <4>1
      <4>3. last[i + 1] = messages[n - MaxMessages + 1 + i]
        BY <2>1, <4>1
      <4> QED BY <1>1, <3>2, <4>1, <4>2, <4>3
    <3> QED BY <3>3, <3>4
  <2>7. Window(more) = Window(longer)
    <3> DEFINE u == Window(more)
               v == Window(longer)
    <3> SUFFICES u = v
      OBVIOUS
    <3>1. /\ u \in Seq(Message) /\ Len(u) = MaxMessages
          /\ v \in Seq(Message) /\ Len(v) = MaxMessages
          /\ \A i \in 1..MaxMessages : u[i] = v[i]
      BY <2>4, <2>5, <2>6
    <3> HIDE DEF u, v
    <3> QED BY <3>1
  <2> QED BY <2>7 DEF more, last, longer
<1> QED BY <1>2, <1>3

\* sync is the business of one session: of every other one it leaves either
\* nothing or all.  A session that was expired begins anew.
LEMMA SyncedLeavesOthers ==
    ASSUME NEW m, StoreOK(m), NEW sid \in Session,
           NEW transcript \in Seq(Message), NEW t \in Int
    PROVE  LET n == Synced(m, sid, transcript, t)
           IN  /\ \A o \in Live(n) \ {sid} :
                    o \in Live(m) /\ n.entries[o] = m.entries[o] /\ ~Expired(m, o, t)
               /\ n.entries[sid].lastSeen = t
               /\ sid \in Live(m) /\ Expired(m, sid, t) => n.entries[sid].turns = 1
<1> DEFINE swept == Sweep(m, t)
           turns == IF sid \in Live(swept) THEN swept.entries[sid].turns ELSE 0
           entry == [messages |-> Window(Cleaned(transcript)),
                     lastSeen |-> t,
                     turns    |-> turns + 1]
           put == PutLast(swept, sid, entry)
           n == Sweep(put, t)
<1>1. n = Synced(m, sid, transcript, t)
  BY DEF Synced
<1>2. \A o \in Live(swept) :
          o \in Live(m) /\ swept.entries[o] = m.entries[o] /\ ~Expired(m, o, t)
  BY DEF Sweep, Retain, SweepKeeps, Fresh, Live
<1>3. /\ Live(put) = Live(swept) \cup {sid}
      /\ put.entries[sid] = entry
      /\ \A o \in Live(swept) \ {sid} : put.entries[o] = swept.entries[o]
  <2> HIDE DEF swept, entry
  <2> QED BY DEF PutLast, Live
<1>4. \A o \in Live(n) : o \in Live(put) /\ n.entries[o] = put.entries[o]
  <2> HIDE DEF put
  <2> QED BY DEF Sweep, Retain, SweepKeeps, Fresh, Live
<1>5. sid \in Live(n)
  BY <1>1, SyncedIsHeld
<1>6. sid \in Live(m) /\ Expired(m, sid, t) => turns = 0
  <2> HIDE DEF swept
  <2> QED BY <1>2
<1>7. n.entries[sid] = entry
  <2> HIDE DEF n, put, entry
  <2> QED BY <1>3, <1>4, <1>5
<1>8. entry.lastSeen = t /\ (turns = 0 => entry.turns = 1)
  <2> HIDE DEF turns
  <2> QED OBVIOUS
<1>9. \A o \in Live(n) \ {sid} :
        o \in Live(m) /\ n.entries[o] = m.entries[o] /\ ~Expired(m, o, t)
  <2> HIDE DEF n, put, entry, swept
  <2> QED BY <1>2, <1>3, <1>4
<1> HIDE DEF n, put, entry, swept, turns
<1> QED BY <1>1, <1>6, <1>7, <1>8, <1>9

\* So are append_assistant and forget.
LEMMA OthersStayAsTheyAre ==
    ASSUME NEW m, NEW sid, NEW content, NEW t, NEW o \in Live(m) \ {sid}
    PROVE  /\ Appended(m, sid, content, t).entries[o] = m.entries[o]
           /\ Forgotten(m, sid).entries[o] = m.entries[o]
  BY DEF Appended, PutLast, Forgotten, Retain, Live

\* What a reply makes of the session it goes to.
LEMMA AppendedEntry ==
    ASSUME NEW m, NEW sid \in Live(m), NEW content \in Content \ {NoContent}, NEW t
    PROVE  LET e == Appended(m, sid, content, t).entries[sid]
               reply == [role |-> "assistant", content |-> content]
           IN  /\ e.messages = Window(Append(m.entries[sid].messages, reply))
               /\ e.lastSeen = t
<1> DEFINE entry == [messages |-> Window(Append(m.entries[sid].messages,
                                                [role |-> "assistant", content |-> content])),
                     lastSeen |-> t,
                     turns    |-> m.entries[sid].turns]
<1>1. Appended(m, sid, content, t) = PutLast(m, sid, entry)
  BY DEF Appended
<1>2. PutLast(m, sid, entry).entries[sid] = entry
  <2> HIDE DEF entry
  <2> QED BY DEF PutLast
<1> QED BY <1>1, <1>2
=============================================================================
