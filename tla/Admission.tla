----------------------------- MODULE Admission ------------------------------
(***************************************************************************)
(* What POST chat/completions goes through before its route runs: the      *)
(* declared length and the cap on the body (app/middleware.py), the access *)
(* token (app/auth.py) and the request model (app/models.py), in the order *)
(* in which app/main.py and FastAPI put them.                              *)
(*                                                                         *)
(* Nothing here keeps state, so that a request is a value and its answer a *)
(* function of it.  A text is its length.                                  *)
(***************************************************************************)
EXTENDS Integers, Sequences

CONSTANTS
    MaxBody,       \* MAX_BODY_BYTES
    MaxMessages,   \* MAX_MESSAGES
    MaxChars,      \* MAX_CHARS_PER_MESSAGE
    MaxTotal,      \* MAX_TOTAL_CHARS
    None           \* not there

ASSUME LimitsAssumption ==
    /\ MaxBody \in Nat /\ MaxMessages \in Nat
    /\ MaxChars \in Nat /\ MaxTotal \in Nat

ASSUME NoLengthAssumption == None \notin Int

Post == [role : {"user", "assistant", "system"}, chars : Nat]

\* What can be wrong with a token, or with finding the key it is signed with.
Defect == {"missing", "jwks_error", "malformed", "expired", "issuer", "invalid",
           "token_use", "client_id"}

\* length is the Content-Length, None if it is not a number; chunks are the
\* sizes of the messages that receive() returns; settings stands for the fields
\* beside messages, which have ranges of their own.
Request == [length : Nat \cup {None}, chunks : Seq(Nat) \ {<<>>}, parses : BOOLEAN,
            token : SUBSET Defect, messages : Seq(Post), settings : BOOLEAN]

-----------------------------------------------------------------------------
(* The body.                                                               *)

DeclaredTooLarge(length) == length # None /\ length > MaxBody

\* The later chunks are counted too, but nothing asks for the count.
FirstTooLarge(chunks) == chunks[1] > MaxBody

-----------------------------------------------------------------------------
(* The caller.                                                             *)

\* AuthError: whatever is wrong, the answer is the same.
TokenRefused(token) == token # {}

-----------------------------------------------------------------------------
(* The transcript.                                                         *)

RoleOK(post) == post.role \in {"user", "assistant"}
ContentOK(post) == post.chars \in 1..MaxChars

LengthOK(posts) == Len(posts) \in 1..MaxMessages

\* total[n]: the characters of the first n messages.
TotalOf(posts) ==
    LET total[n \in 0..Len(posts)] ==
            IF n = 0 THEN 0 ELSE total[n - 1] + posts[n].chars
    IN  total[Len(posts)]

LastIsUser(posts) == posts[Len(posts)].role = "user"

ValidMessages(posts) ==
    /\ LengthOK(posts)
    /\ \A i \in DOMAIN posts : RoleOK(posts[i]) /\ ContentOK(posts[i])
    /\ TotalOf(posts) <= MaxTotal
    /\ LastIsUser(posts)

\* The first thing found wrong in a list of a proper length is a role.
RoleRefused(posts) ==
    /\ LengthOK(posts)
    /\ \E i \in DOMAIN posts :
         /\ ~RoleOK(posts[i])
         /\ \A j \in 1..(i - 1) : RoleOK(posts[j]) /\ ContentOK(posts[j])

-----------------------------------------------------------------------------
(* The answer.                                                             *)

\* RequestContextMiddleware, BodySizeLimitMiddleware, the JSON of the body,
\* require_auth, and the request model last of all.
Fails(check, req) ==
    \/ check = 1 /\ DeclaredTooLarge(req.length)
    \/ check = 2 /\ FirstTooLarge(req.chunks)
    \/ check = 3 /\ ~req.parses
    \/ check = 4 /\ TokenRefused(req.token)
    \/ check = 5 /\ RoleRefused(req.messages)
    \/ check = 6 /\ ~(ValidMessages(req.messages) /\ req.settings)

Refusal == <<413, 413, 422, 401, 400, 422>>

\* The first check that fails decides; without any, the route runs.
Status(req) ==
    LET failing == {i \in 1..6 : Fails(i, req)} IN
    IF failing = {} THEN 200
    ELSE Refusal[CHOOSE i \in failing : \A j \in failing : i <= j]

=============================================================================
