------------------------------ MODULE MCChatView ------------------------------
(***************************************************************************)
(* ChatView for TLC, and the answers of Admission on small requests.       *)
(***************************************************************************)
EXTENDS ChatView, Functions

MCPost == [role : {"user", "system"}, chars : 0..(MaxChars + 1)]
MCPosts == UNION {[1..n -> MCPost] : n \in 0..3}

\* A list of messages that is accepted ends with the user, and nobody's message
\* in it is empty, too long or from a system; one that has such a message is
\* refused with 400 exactly when the first of them has a role to complain of.
ASSUME MessagesAreJudgedInOrder ==
    \A posts \in MCPosts :
        LET bad == {i \in DOMAIN posts : posts[i].role = "system"
                                        \/ posts[i].chars \notin 1..MaxChars} IN
        /\ ValidMessages(posts) => bad = {} /\ posts # <<>>
        /\ RoleRefused(posts) <=>
             \E i \in bad : posts[i].role = "system" /\ \A j \in bad : i <= j
        /\ TotalOf(posts) = SumFunction([i \in DOMAIN posts |-> posts[i].chars])

MCRequest ==
    [length : {None} \cup 0..(2 * MaxBody + 2),
     chunks : UNION {[1..n -> 0..(MaxBody + 1)] : n \in 1..2},
     parses : BOOLEAN, token : {{}, {"expired"}},
     messages : {<<>>, <<[role |-> "user", chars |-> 1]>>,
                 <<[role |-> "system", chars |-> 1]>>},
     settings : BOOLEAN]

Bytes(req) == SumFunction(req.chunks)

\* middleware.py:175-181 says of the cap that it catches "chunked bodies that
\* omit Content-Length".  A body that is too large reaches the route only so: its
\* length is not declared and its first chunk is within the cap.
ASSUME OnlyLaterChunksAreUncapped ==
    \A req \in MCRequest :
        /\ req.length \in {None, Bytes(req)}
        /\ Bytes(req) > MaxBody
        => \/ Status(req) = 413
           \/ req.length = None /\ req.chunks[1] <= MaxBody /\ Len(req.chunks) > 1

\* No request without a good token and a well-formed transcript reaches the route.
ASSUME AdmittedIsInOrder ==
    \A req \in MCRequest :
        Status(req) = 200 => /\ req.token = {} /\ req.parses /\ req.settings
                             /\ ValidMessages(req.messages)
=============================================================================
