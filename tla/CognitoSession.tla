--------------------------- MODULE CognitoSession ---------------------------
(***************************************************************************)
(* The sign-in session of one browser tab: spa/src/auth/cognito.ts and     *)
(* useAuth.ts, with the two callbacks of ChatView that ask for a token.    *)
(*                                                                         *)
(* Tokens and login material are in sessionStorage, which outlives a page; *)
(* everything else dies with the page.  window.location.assign only begins *)
(* a navigation: until the next page comes, callbacks and answers of the   *)
(* network still run, and a later assign replaces an earlier one.          *)
(***************************************************************************)
EXTENDS Integers, FiniteSets

CONSTANTS
    Caller,          \* the calls of getAccessToken
    Submitting,      \* those of submit; the others are of newChat
    MaxLogins,       \* bound: how often loginRedirect begins
    MaxGenerations,  \* bound: how often tokens are issued
    None,            \* nothing stored, no navigation, no code
    SignOut          \* the navigation to the logout endpoint

ASSUME CallerAssumption == Submitting \subseteq Caller
ASSUME BoundsAssumption == MaxLogins \in Nat /\ MaxGenerations \in Nat
ASSUME NoneAssumption == None \notin Nat /\ SignOut \notin Nat /\ None # SignOut

Login == 1..MaxLogins
Generation == 1..MaxGenerations

VARIABLES
    \* sessionStorage
    tokens,     \* TOKENS_KEY: the generation of the stored tokens
    material,   \* PKCE_VERIFIER_KEY and OAUTH_STATE_KEY: of which login
    \* Cognito and the clock
    issued,     \* the generations issued so far
    expiring,   \* the generations that are about to expire
    logins,     \* the logins begun so far
    \* the page
    page,       \* "loading", "exchanging", "app", "leaving" or "away"
    address,    \* the login whose code is in the address bar
    target,     \* where the navigation in progress goes
    signedIn,   \* isAuthenticated
    hashing,    \* the logins whose challenge is being computed
    phase,      \* phase[c]: where the call c is
    held        \* held[c]: the generation c found and refreshes

storage == <<tokens, material>>
outside == <<issued, expiring>>
calls == <<phase, held>>
vars == <<storage, outside, logins, page, address, target, signedIn, hashing, calls>>

TypeOK ==
    /\ tokens \in Generation \cup {None}
    /\ material \in Login \cup {None}
    /\ issued \in 0..MaxGenerations
    /\ expiring \subseteq Generation
    /\ logins \in 0..MaxLogins
    /\ page \in {"loading", "exchanging", "app", "leaving", "away"}
    /\ address \in Login \cup {None}
    /\ target \in Login \cup {None, SignOut}
    /\ signedIn \in BOOLEAN
    /\ hashing \subseteq Login
    /\ phase \in [Caller -> {"idle", "refreshing", "over"}]
    /\ held \in [Caller -> Generation \cup {None}]

\* A tab is opened.
Init ==
    /\ tokens = None
    /\ material = None
    /\ issued = 0
    /\ expiring = {}
    /\ logins = 0
    /\ page = "loading"
    /\ address = None
    /\ target = None
    /\ signedIn = FALSE
    /\ hashing = {}
    /\ phase = [c \in Caller |-> "idle"]
    /\ held = [c \in Caller |-> None]

-----------------------------------------------------------------------------
\* toStoredTokens and saveTokens, with the answer of the token endpoint.
SaveTokens ==
    /\ issued < MaxGenerations
    /\ issued' = issued + 1
    /\ tokens' = issued + 1

\* clearTokens: the login material goes as well.
ClearTokens ==
    /\ tokens' = None
    /\ material' = None

\* The page runs code and takes clicks, even while it is being left.
Alive == page \in {"app", "leaving"}

\* Wrong: the material is stored before the challenge is awaited.
BeginLoginStoring ==
    /\ logins < MaxLogins
    /\ logins' = logins + 1
    /\ hashing' = hashing \cup {logins + 1}
    /\ material' = logins + 1

\* loginRedirect, up to the await of its challenge.
BeginLogin ==
    /\ logins < MaxLogins
    /\ logins' = logins + 1
    /\ hashing' = hashing \cup {logins + 1}
    /\ UNCHANGED material

\* loginRedirect after that: the material is stored and the page is left.
Redirect(l) ==
    /\ Alive
    /\ l \in hashing
    /\ hashing' = hashing \ {l}
    /\ material' = l
    /\ target' = l
    /\ page' = "leaving"
    /\ UNCHANGED <<tokens, outside, logins, address, signedIn, calls>>

\* The login button; and onRequireLogin when the API answers 401, which
\* leaves tokens and screen as they are.
ClickLogin ==
    /\ Alive
    /\ BeginLogin
    /\ UNCHANGED <<tokens, outside, page, address, target, signedIn, calls>>

-----------------------------------------------------------------------------
\* Wrong: the flag is the tokens themselves.
DeriveTokens ==
    /\ page' = "app"
    /\ signedIn' = tokens'

\* deriveUserFromSession ends the bootstrap.
Derive ==
    /\ page' = "app"
    /\ signedIn' = (tokens' # None)

\* Wrong: a code of another login drops the session of this tab.
BootstrapDropping ==
    /\ page = "loading"
    /\ \/ /\ address = None
          /\ address' = None
          /\ UNCHANGED storage
          /\ Derive
       \/ /\ address # None /\ address # material
          /\ address' = None
          /\ ClearTokens
          /\ Derive
       \/ /\ address # None /\ address = material
          /\ page' = "exchanging"
          /\ UNCHANGED <<storage, address, signedIn>>
    /\ UNCHANGED <<outside, logins, target, hashing, calls>>

\* handleRedirectCallback, up to its await: no code, or a code that is not of
\* the login this tab last began, and it is over.
Bootstrap ==
    /\ page = "loading"
    /\ \/ /\ address = None \/ address # material
          /\ address' = None
          /\ UNCHANGED storage
          /\ Derive
       \/ /\ address # None /\ address = material
          /\ page' = "exchanging"
          /\ UNCHANGED <<storage, address, signedIn>>
    /\ UNCHANGED <<outside, logins, target, hashing, calls>>

ExchangeSucceeds ==
    /\ page = "exchanging"
    /\ SaveTokens
    /\ material' = None
    /\ address' = None
    /\ Derive
    /\ UNCHANGED <<expiring, logins, target, hashing, calls>>

\* A status other than 2xx cleans the address; a network failure does not.
ExchangeFails ==
    /\ page = "exchanging"
    /\ address' \in {None, address}
    /\ UNCHANGED storage
    /\ Derive
    /\ UNCHANGED <<outside, logins, target, hashing, calls>>

-----------------------------------------------------------------------------
\* The end of getAccessToken without a token: the session is dropped, and
\* submit, but not newChat, asks for a login.
Denied(c) ==
    /\ phase' = [phase EXCEPT ![c] = "over"]
    /\ tokens' = None
    /\ signedIn' = FALSE
    /\ \/ /\ c \in Submitting
          /\ logins < MaxLogins
          /\ material' = None
          /\ logins' = logins + 1
          /\ hashing' = hashing \cup {logins + 1}
       \/ /\ c \notin Submitting
          /\ material' = None
          /\ UNCHANGED <<logins, hashing>>
    /\ UNCHANGED <<outside, page, address, target, held>>

\* getValidAccessToken without a refresh: the stored tokens will do, or there
\* are none.
GetToken(c) ==
    /\ Alive
    /\ signedIn
    /\ phase[c] = "idle"
    /\ \/ /\ tokens # None
          /\ tokens \notin expiring
          /\ phase' = [phase EXCEPT ![c] = "over"]
          /\ UNCHANGED <<storage, outside, logins, page, address, target,
                         signedIn, hashing, held>>
       \/ /\ tokens = None
          /\ Denied(c)

\* getValidAccessToken up to the await of refreshTokens.
Refresh(c) ==
    /\ Alive
    /\ signedIn
    /\ phase[c] = "idle"
    /\ tokens \in expiring
    /\ phase' = [phase EXCEPT ![c] = "refreshing"]
    /\ held' = [held EXCEPT ![c] = tokens]
    /\ UNCHANGED <<storage, outside, logins, page, address, target, signedIn, hashing>>

RefreshSucceeds(c) ==
    /\ Alive
    /\ phase[c] = "refreshing"
    /\ SaveTokens
    /\ phase' = [phase EXCEPT ![c] = "over"]
    /\ UNCHANGED <<material, expiring, logins, page, address, target, signedIn,
                   hashing, held>>

\* Wrong: the session is cleared and the screen is not told.
RefreshFailsQuietly(c) ==
    /\ Alive
    /\ phase[c] = "refreshing"
    /\ ClearTokens
    /\ phase' = [phase EXCEPT ![c] = "over"]
    /\ UNCHANGED <<outside, logins, page, address, target, signedIn, hashing, held>>

RefreshFails(c) ==
    /\ Alive
    /\ phase[c] = "refreshing"
    /\ Denied(c)

\* logoutRedirect
Logout ==
    /\ Alive
    /\ signedIn
    /\ ClearTokens
    /\ target' = SignOut
    /\ page' = "leaving"
    /\ UNCHANGED <<outside, logins, address, signedIn, hashing, calls>>

-----------------------------------------------------------------------------
\* The next page comes; the calls of this one die with it.
Unload ==
    /\ page = "leaving"
    /\ page' = "away"
    /\ signedIn' = FALSE
    /\ hashing' = {}
    /\ phase' = [c \in Caller |-> IF phase[c] = "refreshing" THEN "over" ELSE phase[c]]
    /\ UNCHANGED <<storage, outside, logins, address, target, held>>

\* Cognito redirects back, with the code of the login or with an error; or
\* the user comes back otherwise.
Return ==
    /\ page = "away"
    /\ page' = "loading"
    /\ address' \in {None} \cup (IF target \in Login THEN {target} ELSE {})
    /\ target' = None
    /\ UNCHANGED <<storage, outside, logins, signedIn, hashing, calls>>

Expire ==
    /\ tokens \in Generation \ expiring
    /\ expiring' = expiring \cup {tokens}
    /\ UNCHANGED <<storage, issued, logins, page, address, target, signedIn,
                   hashing, calls>>

CallStep(c) == GetToken(c) \/ Refresh(c) \/ RefreshSucceeds(c) \/ RefreshFails(c)

Next ==
    \/ Bootstrap
    \/ ExchangeSucceeds
    \/ ExchangeFails
    \/ \E c \in Caller : CallStep(c)
    \/ ClickLogin
    \/ \E l \in Login : Redirect(l)
    \/ Logout
    \/ Unload
    \/ Return
    \/ Expire

Spec == Init /\ [][Next]_vars

-----------------------------------------------------------------------------
\* The screen of the chat is shown on stored tokens: whoever clears them
\* tells the screen, or is leaving the page.
SignedInHasTokens == signedIn /\ page = "app" => tokens # None

\* Overlapping logins do not mix: what is stored is of the login the browser
\* is taken to, so that its callback finds its own verifier.
LastLoginIsStored ==
    page \in {"leaving", "away"} /\ target \in Login /\ material # None => material = target

\* Tokens that are not about to expire are lost by a logout, or by a refresh
\* of older tokens that overlapped the one that saved them, and not otherwise.
FreshTokensAreKept ==
    [][tokens # None /\ tokens \notin expiring /\ tokens' = None =>
          \/ Logout
          \/ \E c \in Caller : phase[c] = "refreshing" /\ held[c] # tokens /\ RefreshFails(c)]_vars
=============================================================================
