------------------------ MODULE CognitoSessionProofs ------------------------
(***************************************************************************)
(* For any callers and any number of logins and token generations: the     *)
(* screen, the storage and the navigation of a tab agree, and tokens that  *)
(* are good are not thrown away.                                           *)
(***************************************************************************)
EXTENDS CognitoSession, TLAPS

\* A call refreshes tokens that are about to expire, and still are when its
\* answer comes.
HeldIsExpiring == \A c \in Caller : phase[c] = "refreshing" => held[c] \in expiring

IInv == TypeOK /\ SignedInHasTokens /\ LastLoginIsStored /\ HeldIsExpiring

\* What is stored, and where a navigation goes, is told from nothing.
LEMMA SomethingIsNotNone ==
    /\ None \notin Login /\ SignOut \notin Login /\ SignOut # None
    /\ None \notin Generation
  BY NoneAssumption, BoundsAssumption DEF Login, Generation

\* saveTokens stores a generation of tokens that was not issued before.
LEMMA SaveTokensType ==
    ASSUME TypeOK, SaveTokens
    PROVE  issued' \in 0..MaxGenerations /\ tokens' \in Generation /\ tokens' # None
<1>1. issued' \in 0..MaxGenerations /\ tokens' \in Generation
  BY BoundsAssumption DEF TypeOK, SaveTokens, Generation
<1> QED BY <1>1, SomethingIsNotNone

\* loginRedirect counts a login and awaits its challenge.
LEMMA BeginLoginType ==
    ASSUME TypeOK, logins < MaxLogins
    PROVE  logins + 1 \in 0..MaxLogins /\ hashing \cup {logins + 1} \subseteq Login
  BY BoundsAssumption DEF TypeOK, Login

\* A call that moves on is the only one that does.
LEMMA PhaseMoves ==
    ASSUME TypeOK, NEW c \in Caller, NEW next \in {"refreshing", "over"},
           phase' = [phase EXCEPT ![c] = next]
    PROVE  /\ phase' \in [Caller -> {"idle", "refreshing", "over"}]
           /\ \A d \in Caller : phase'[d] = (IF d = c THEN next ELSE phase[d])
  BY DEF TypeOK

\* A bootstrap ends with a screen that says what is stored.
LEMMA DeriveOK ==
    ASSUME IInv, Derive, target' = target, tokens' \in Generation \cup {None},
           material' \in Login \cup {None}, issued' \in 0..MaxGenerations,
           address' \in Login \cup {None},
           UNCHANGED <<expiring, logins, hashing, calls>>
    PROVE  IInv'
<1>1. page' = "app" /\ signedIn' = (tokens' # None) /\ signedIn' \in BOOLEAN
  BY DEF Derive
<1>2. TypeOK'
  BY <1>1 DEF IInv, TypeOK, calls
<1>3. SignedInHasTokens'
  BY <1>1 DEF SignedInHasTokens
<1>4. LastLoginIsStored'
  BY <1>1 DEF LastLoginIsStored
<1>5. HeldIsExpiring'
  BY DEF IInv, HeldIsExpiring, calls
<1> QED BY <1>2, <1>3, <1>4, <1>5 DEF IInv

\* A call that gets no token drops the session, and the screen is told.
LEMMA DeniedOK ==
    ASSUME IInv, NEW c \in Caller, Denied(c)
    PROVE  IInv'
<1>1. /\ tokens' = None /\ material' = None /\ signedIn' = FALSE
      /\ phase' = [phase EXCEPT ![c] = "over"]
      /\ UNCHANGED <<issued, expiring, page, address, target, held>>
  BY DEF Denied, outside
<1>2. logins' \in 0..MaxLogins /\ hashing' \subseteq Login
  <2>1. CASE logins < MaxLogins /\ logins' = logins + 1 /\ hashing' = hashing \cup {logins + 1}
    BY <2>1, BeginLoginType DEF IInv
  <2>2. CASE UNCHANGED <<logins, hashing>>
    BY <2>2 DEF IInv, TypeOK
  <2> QED BY <2>1, <2>2 DEF Denied
<1>3. TypeOK'
  BY <1>1, <1>2, PhaseMoves DEF IInv, TypeOK
<1>4. SignedInHasTokens' /\ LastLoginIsStored'
  BY <1>1 DEF SignedInHasTokens, LastLoginIsStored
<1>5. HeldIsExpiring'
  BY <1>1, PhaseMoves DEF IInv, HeldIsExpiring
<1> QED BY <1>3, <1>4, <1>5 DEF IInv

\* A call of getAccessToken, from its start to its end.
LEMMA CallStepOK ==
    ASSUME IInv, NEW c \in Caller, CallStep(c)
    PROVE  IInv'
<1>1. CASE GetToken(c)
  <2>1. CASE Denied(c)
    BY <2>1, DeniedOK
  <2>2. CASE /\ phase' = [phase EXCEPT ![c] = "over"]
             /\ UNCHANGED <<storage, outside, logins, page, address, target,
                            signedIn, hashing, held>>
    <3>1. TypeOK'
      BY <2>2, PhaseMoves DEF IInv, TypeOK, storage, outside
    <3>2. SignedInHasTokens' /\ LastLoginIsStored'
      BY <2>2 DEF IInv, SignedInHasTokens, LastLoginIsStored, storage
    <3>3. HeldIsExpiring'
      BY <2>2, PhaseMoves DEF IInv, HeldIsExpiring, outside
    <3> QED BY <3>1, <3>2, <3>3 DEF IInv
  <2> QED BY <1>1, <2>1, <2>2 DEF GetToken
<1>2. CASE Refresh(c)
  <2>1. /\ tokens \in expiring /\ tokens \in Generation
        /\ phase' = [phase EXCEPT ![c] = "refreshing"]
        /\ held' = [held EXCEPT ![c] = tokens]
        /\ UNCHANGED <<storage, outside, logins, page, address, target, signedIn, hashing>>
    BY <1>2 DEF Refresh, IInv, TypeOK
  <2>2. TypeOK'
    BY <2>1, PhaseMoves DEF IInv, TypeOK, storage, outside
  <2>3. SignedInHasTokens' /\ LastLoginIsStored'
    BY <2>1 DEF IInv, SignedInHasTokens, LastLoginIsStored, storage
  <2>4. HeldIsExpiring'
    BY <2>1, PhaseMoves DEF IInv, TypeOK, HeldIsExpiring, outside
  <2> QED BY <2>2, <2>3, <2>4 DEF IInv
<1>3. CASE RefreshSucceeds(c)
  <2>1. /\ SaveTokens
        /\ phase' = [phase EXCEPT ![c] = "over"]
        /\ UNCHANGED <<material, expiring, logins, page, address, target, signedIn,
                       hashing, held>>
    BY <1>3 DEF RefreshSucceeds
  <2>2. issued' \in 0..MaxGenerations /\ tokens' \in Generation /\ tokens' # None
    BY <2>1, SaveTokensType DEF IInv
  <2>3. TypeOK'
    BY <2>1, <2>2, PhaseMoves DEF IInv, TypeOK
  <2>4. SignedInHasTokens' /\ LastLoginIsStored'
    BY <2>1, <2>2 DEF IInv, SignedInHasTokens, LastLoginIsStored
  <2>5. HeldIsExpiring'
    BY <2>1, PhaseMoves DEF IInv, HeldIsExpiring
  <2> QED BY <2>3, <2>4, <2>5 DEF IInv
<1>4. CASE RefreshFails(c)
  BY <1>4, DeniedOK DEF RefreshFails
<1> QED BY <1>1, <1>2, <1>3, <1>4 DEF CallStep

\* The page loads: handleRedirectCallback.
LEMMA BootstrapOK ==
    ASSUME IInv, Bootstrap \/ ExchangeSucceeds \/ ExchangeFails
    PROVE  IInv'
<1>1. /\ tokens \in Generation \cup {None} /\ material \in Login \cup {None}
      /\ issued \in 0..MaxGenerations /\ address \in Login \cup {None}
  BY DEF IInv, TypeOK
<1>2. CASE Bootstrap
  <2>1. CASE address' = None /\ UNCHANGED storage /\ Derive
    BY <1>1, <1>2, <2>1, DeriveOK DEF Bootstrap, storage, outside
  <2>2. CASE page' = "exchanging" /\ UNCHANGED <<storage, address, signedIn>>
    <3>1. UNCHANGED <<storage, outside, logins, address, target, signedIn, hashing, calls>>
      BY <1>2, <2>2 DEF Bootstrap
    <3>2. TypeOK'
      BY <2>2, <3>1 DEF IInv, TypeOK, storage, outside, calls
    <3> QED BY <2>2, <3>1, <3>2 DEF IInv, SignedInHasTokens, LastLoginIsStored,
                                    HeldIsExpiring, outside, calls
  <2> QED BY <1>2, <2>1, <2>2 DEF Bootstrap
<1>3. CASE ExchangeSucceeds
  BY <1>1, <1>3, SaveTokensType, DeriveOK DEF ExchangeSucceeds, IInv
<1>4. CASE ExchangeFails
  BY <1>1, <1>4, DeriveOK DEF ExchangeFails, storage, outside
<1> QED BY <1>2, <1>3, <1>4

\* The tab goes elsewhere, and comes back.
LEMMA NavigationOK ==
    ASSUME IInv, (\E l \in Login : Redirect(l)) \/ Logout \/ Unload \/ Return
    PROVE  IInv'
<1>1. CASE \E l \in Login : Redirect(l)
  <2>1. PICK l \in Login : Redirect(l)
    BY <1>1
  <2>2. TypeOK'
    BY <2>1 DEF Redirect, IInv, TypeOK, outside, calls
  <2> QED BY <2>1, <2>2 DEF Redirect, IInv, SignedInHasTokens, LastLoginIsStored,
                            HeldIsExpiring, outside, calls
<1>2. CASE Logout
  <2>1. TypeOK'
    BY <1>2 DEF Logout, ClearTokens, IInv, TypeOK, outside, calls
  <2> QED BY <1>2, <2>1, SomethingIsNotNone
          DEF Logout, IInv, SignedInHasTokens, LastLoginIsStored, HeldIsExpiring, outside, calls
<1>3. CASE Unload
  <2>1. \A c \in Caller : phase'[c] \in {"idle", "over"}
    BY <1>3 DEF Unload, IInv, TypeOK
  <2>2. phase' \in [Caller -> {"idle", "refreshing", "over"}]
    BY <1>3, <2>1 DEF Unload
  <2>3. TypeOK'
    BY <1>3, <2>2 DEF Unload, IInv, TypeOK, storage, outside
  <2>4. HeldIsExpiring'
    BY <2>1 DEF HeldIsExpiring
  <2> QED BY <1>3, <2>3, <2>4 DEF Unload, IInv, SignedInHasTokens, LastLoginIsStored, storage
<1>4. CASE Return
  <2>1. address' \in Login \cup {None}
    BY <1>4 DEF Return
  <2>2. TypeOK'
    BY <1>4, <2>1 DEF Return, IInv, TypeOK, storage, outside, calls
  <2> QED BY <1>4, <2>2 DEF Return, IInv, SignedInHasTokens, LastLoginIsStored,
                            HeldIsExpiring, outside, calls
<1> QED BY <1>1, <1>2, <1>3, <1>4

\* A click on the login button, and the clock.
LEMMA ClickAndClockOK ==
    ASSUME IInv, ClickLogin \/ Expire
    PROVE  IInv'
<1>1. CASE ClickLogin
  <2>1. logins' \in 0..MaxLogins /\ hashing' \subseteq Login
    BY <1>1, BeginLoginType DEF ClickLogin, BeginLogin, IInv
  <2>2. UNCHANGED <<tokens, material, outside, page, address, target, signedIn, calls>>
    BY <1>1 DEF ClickLogin, BeginLogin
  <2>3. TypeOK'
    BY <2>1, <2>2 DEF IInv, TypeOK, outside, calls
  <2> QED BY <2>2, <2>3 DEF IInv, SignedInHasTokens, LastLoginIsStored,
                            HeldIsExpiring, outside, calls
<1>2. CASE Expire
  <2>1. TypeOK'
    BY <1>2 DEF Expire, IInv, TypeOK, storage, calls
  <2> QED BY <1>2, <2>1 DEF Expire, IInv, SignedInHasTokens, LastLoginIsStored,
                            HeldIsExpiring, storage, calls
<1> QED BY <1>1, <1>2

\* The invariant holds when a tab is opened.
LEMMA InitIInv == Init => IInv
<1> SUFFICES ASSUME Init PROVE IInv
  OBVIOUS
<1>1. 0 \in 0..MaxGenerations /\ 0 \in 0..MaxLogins
  BY BoundsAssumption
<1>2. TypeOK
  BY <1>1 DEF Init, TypeOK
<1> QED BY <1>2 DEF Init, IInv, SignedInHasTokens, LastLoginIsStored, HeldIsExpiring

\* Every step keeps it.
LEMMA NextIInv == IInv /\ [Next]_vars => IInv'
<1> SUFFICES ASSUME IInv, [Next]_vars PROVE IInv'
  OBVIOUS
<1>1. CASE UNCHANGED vars
  BY <1>1 DEF vars, storage, outside, calls, IInv, TypeOK, SignedInHasTokens,
              LastLoginIsStored, HeldIsExpiring
<1> QED BY <1>1, CallStepOK, BootstrapOK, NavigationOK, ClickAndClockOK DEF Next

\* The invariant holds in every reachable state.
LEMMA Invariance == Spec => []IInv
  BY InitIInv, NextIInv, PTL DEF Spec

-----------------------------------------------------------------------------
\* Storage, screen and calls keep their types.
THEOREM TypeCorrect == Spec => []TypeOK
  BY Invariance, PTL DEF IInv

\* The chat is on the screen only with tokens in storage: every path of
\* cognito.ts that clears them reaches useAuth or leaves the page.
THEOREM ScreenHasTokens == Spec => []SignedInHasTokens
  BY Invariance, PTL DEF IInv

\* However many logins overlap, the verifier in storage is of the login the
\* browser is taken to.
THEOREM VerifierFitsNavigation == Spec => []LastLoginIsStored
  BY Invariance, PTL DEF IInv

\* Only a call whose refresh fails, or a logout, clears good tokens; and that
\* call had begun with others.
LEMMA OnlyRefreshesAndLogoutsClear ==
    ASSUME IInv, [Next]_vars, tokens # None, tokens \notin expiring, tokens' = None
    PROVE  \/ Logout
           \/ \E c \in Caller :
                phase[c] = "refreshing" /\ held[c] # tokens /\ RefreshFails(c)
<1>1. tokens' # tokens
  OBVIOUS
<1>2. ASSUME NEW c \in Caller, CallStep(c)
      PROVE  phase[c] = "refreshing" /\ held[c] # tokens /\ RefreshFails(c)
  <2>1. ~GetToken(c) /\ ~Refresh(c)
    BY <1>1 DEF GetToken, Refresh, storage
  <2>2. ~RefreshSucceeds(c)
    BY SaveTokensType DEF RefreshSucceeds, IInv
  <2>3. RefreshFails(c)
    BY <1>2, <2>1, <2>2 DEF CallStep
  <2> QED BY <2>3 DEF RefreshFails, IInv, HeldIsExpiring
<1>3. ~Bootstrap /\ ~ExchangeFails
  BY <1>1 DEF Bootstrap, ExchangeFails, storage
<1>4. ~ExchangeSucceeds
  BY SaveTokensType DEF ExchangeSucceeds, IInv
<1>5. ~ClickLogin /\ ~Unload /\ ~Return /\ ~Expire /\ ~UNCHANGED vars
  BY <1>1 DEF ClickLogin, Unload, Return, Expire, vars, storage
<1>6. \A l \in Login : ~Redirect(l)
  BY <1>1 DEF Redirect
<1> QED BY <1>2, <1>3, <1>4, <1>5, <1>6 DEF Next

\* Tokens that are not about to expire are lost by a logout, or by the refresh
\* of older ones that overlapped the refresh that saved them.
THEOREM GoodTokensAreKept == Spec => FreshTokensAreKept
<1>1. IInv /\ [Next]_vars =>
        [tokens # None /\ tokens \notin expiring /\ tokens' = None =>
          \/ Logout
          \/ \E c \in Caller : phase[c] = "refreshing" /\ held[c] # tokens /\ RefreshFails(c)]_vars
  BY OnlyRefreshesAndLogoutsClear
<1> QED BY <1>1, Invariance, PTL DEF FreshTokensAreKept, Spec
=============================================================================
