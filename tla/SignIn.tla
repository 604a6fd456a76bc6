-------------------------------- MODULE SignIn --------------------------------
(***************************************************************************)
(* Whom a client acts for: every call that changes it, and the acting-     *)
(* tenant gate that depends on it.  A client of the Node persona holds up  *)
(* to three credentials: the cookies of its jar, a device token, and an    *)
(* access token adopted from a client-credentials grant.  Ten operations   *)
(* in six files put them there, take them away and drop what was cached    *)
(* for the previous principal, each in an order of its own.                *)
(*                                                                         *)
(* A principal is named by the call that signed it in.  What refreshes do  *)
(* to the tokens of one session is RefreshSession's; here the jar is the   *)
(* principal whose cookies it holds.  An action is one turn of the event   *)
(* loop; the awaits of onAuthenticated(), which read the in-memory jar,    *)
(* are part of the turn that starts them.                                  *)
(***************************************************************************)
EXTENDS Naturals, Sequences, FiniteSets

CONSTANTS Logins,     \* calls that sign a user in, each a principal of its own
          Devices,    \* calls of authenticateDevice()
          Adoptions,  \* calls of loginClientCredentials({adoptAsCredential: true})
          Refreshes,  \* calls of refresh()
          Logouts,    \* calls of logout()
          Boot,       \* the user signed in at the start
          None,       \* undefined
          Tenants,    \* tenants a handle may act on
          Reach,      \* [user -> tenants its login result lets it act on]
          MaxCalls    \* bound: credential calls in one history

Users           == Logins \cup {Boot}
Principals      == Users \cup Devices \cup Adoptions
CredentialCalls == Logins \cup Devices \cup Adoptions \cup Refreshes \cup Logouts

ASSUME SignInAssumption ==
    /\ Logins \cap (Devices \cup Adoptions \cup Refreshes \cup Logouts) = {}
    /\ Devices \cap (Adoptions \cup Refreshes \cup Logouts) = {}
    /\ Adoptions \cap (Refreshes \cup Logouts) = {}
    /\ Refreshes \cap Logouts = {}
    /\ Boot \notin CredentialCalls
    /\ None \notin CredentialCalls \cup Tenants \cup {Boot}
    /\ Reach \in [Users -> SUBSET Tenants]
    /\ MaxCalls \in Nat

VARIABLES closed,   \* session.closed
          memo,     \* session.decisionMemo: its entries, oldest first
          jar,      \* principal whose cookies the jar holds, or None
          device,   \* session.deviceAccessToken
          adopted,  \* OidcClient's #adoptedCredential
          scope,    \* session.principalScope: the login that reported it
          handles,  \* acting tenants for which the application has a handle
          step,     \* where each credential call is
          way,      \* how each call of Logins signs in
          kept,     \* authenticateDevice()'s previousDeviceToken
          by,       \* principal whose cookies a refresh() carries
          bare,     \* calls whose POST left without the cookie jar
          \* history, read by properties only:
          tangled   \* calls that were under way together with another

sessionVars == <<jar, device, adopted, scope>>
callRest    == <<way, kept, by, bare, tangled>>
callVars    == <<step, callRest>>
signInVars  == <<closed, memo, sessionVars, handles, callVars>>

\* login() and verifyMfa(); loginOpaque(); the finish of a passkey sign-in;
\* mfaSetupConfirm(); webauthnSetupRegisterFinish(); the three SSO completions.
Ways == {"password", "opaque", "passkey", "confirm", "register", "sso"}

Active == {c \in CredentialCalls : step[c] \in {"starting", "posted", "landed"}}

\* Sign-ins whose answer broke off when its cookies were in the jar.
Torn == {c \in Logins : step[c] = "torn"}

\* Whom the next request acts for.  A device token keeps the jar away; with
\* cookies and a bearer on one request the server reads the cookie.
Acting == IF device # None THEN device ELSE IF jar # None THEN jar ELSE adopted

Tangle(c) == IF Active \ {c} = {} THEN tangled ELSE tangled \cup Active \cup {c}

\* A POST goes out.  With a device token held it takes the agents without a
\* jar, and so does what noCredentialsConfig() is passed to.
Posts(c, withoutJar) ==
    /\ step' = [step EXCEPT ![c] = "posted"]
    /\ bare' = IF withoutJar THEN bare \cup {c} ELSE bare
    /\ tangled' = Tangle(c)

Ends(c, how) == step' = [step EXCEPT ![c] = how]

-------------------------------------------------------------------------------
(* Signing a user in *)

\* login() and verifyMfa() replace a device token before they post.
PasswordCall(c) ==
    /\ step[c] = "idle" /\ ~closed
    /\ memo' = <<>> /\ device' = None
    /\ way' = [way EXCEPT ![c] = "password"]
    /\ Posts(c, FALSE)
    /\ UNCHANGED <<closed, jar, adopted, scope, handles, kept, by>>

\* loginOpaque(): the first of its two POSTs sets no cookie.
OpaqueCall(c) ==
    /\ step[c] = "idle" /\ ~closed
    /\ memo' = <<>>
    /\ way' = [way EXCEPT ![c] = "opaque"]
    /\ step' = [step EXCEPT ![c] = "starting"]
    /\ tangled' = Tangle(c)
    /\ UNCHANGED <<closed, sessionVars, handles, kept, by, bare>>

OpaqueFinishes(c) ==
    /\ step[c] = "starting"
    /\ Posts(c, device # None)
    /\ UNCHANGED <<closed, memo, sessionVars, handles, way, kept, by>>

\* finish() does not know the password of this record: login() in its place.
OpaqueFallsBack(c) ==
    /\ step[c] = "starting" /\ ~closed
    /\ memo' = <<>> /\ device' = None
    /\ way' = [way EXCEPT ![c] = "password"]
    /\ Posts(c, FALSE)
    /\ UNCHANGED <<closed, jar, adopted, scope, handles, kept, by>>

\* webauthnAuthenticateFinish(), webauthnDiscoverableFinish().
PasskeyCall(c) ==
    /\ step[c] = "idle" /\ ~closed
    /\ memo' = <<>>
    /\ way' = [way EXCEPT ![c] = "passkey"]
    /\ Posts(c, device # None)
    /\ UNCHANGED <<closed, sessionVars, handles, kept, by>>

\* mfaSetupConfirm().
ConfirmCall(c) ==
    /\ step[c] = "idle" /\ ~closed
    /\ memo' = <<>>
    /\ way' = [way EXCEPT ![c] = "confirm"]
    /\ Posts(c, device # None)
    /\ UNCHANGED <<closed, sessionVars, handles, kept, by>>

\* webauthnSetupRegisterFinish() carries no session credential, and in Node
\* that means the agents without a jar.
RegisterCall(c) ==
    /\ step[c] = "idle" /\ ~closed
    /\ memo' = <<>>
    /\ way' = [way EXCEPT ![c] = "register"]
    /\ Posts(c, TRUE)
    /\ UNCHANGED <<closed, sessionVars, handles, kept, by>>

\* ssoComplete(), ssoCompleteOauth2(), ssoCompleteHandoff(): no ensureOpen(),
\* and nothing is dropped before the answer.
SsoCall(c) ==
    /\ step[c] = "idle"
    /\ way' = [way EXCEPT ![c] = "sso"]
    /\ Posts(c, device # None)
    /\ UNCHANGED <<closed, memo, sessionVars, handles, kept, by>>

\* The answer's Set-Cookie headers, if there is a jar to take them.
SignInLands(c) ==
    /\ step[c] = "posted"
    /\ jar' = IF c \in bare THEN jar ELSE c
    /\ Ends(c, "landed")
    /\ UNCHANGED <<closed, memo, device, adopted, scope, handles, callRest>>

\* recordPrincipalScope().
PasswordReturns(c) ==
    /\ step[c] = "landed" /\ way[c] = "password"
    /\ scope' = c
    /\ Ends(c, "done")
    /\ UNCHANGED <<closed, memo, jar, device, adopted, handles, callRest>>

OpaqueReturns(c) ==
    /\ step[c] = "landed" /\ way[c] = "opaque"
    /\ device' = None /\ scope' = c
    /\ Ends(c, "done")
    /\ UNCHANGED <<closed, memo, jar, adopted, handles, callRest>>

\* Fault: the previous login's report stays in force.
PasskeyReturns_KeepsScope(c) ==
    /\ step[c] = "landed" /\ way[c] = "passkey"
    /\ device' = None
    /\ Ends(c, "done")
    /\ UNCHANGED <<closed, memo, jar, adopted, scope, handles, callRest>>

\* The answer says nothing of the user's reach: back to unknown.
PasskeyReturns(c) ==
    /\ step[c] = "landed" /\ way[c] = "passkey"
    /\ device' = None /\ scope' = None
    /\ Ends(c, "done")
    /\ UNCHANGED <<closed, memo, jar, adopted, handles, callRest>>

\* The two ways out of a forced enrolment leave a device token in place.
EnrolmentReturns(c) ==
    /\ step[c] = "landed" /\ way[c] \in {"confirm", "register"}
    /\ scope' = c
    /\ Ends(c, "done")
    /\ UNCHANGED <<closed, memo, jar, device, adopted, handles, callRest>>

\* Fault: the previous principal's decisions are not forgotten.
SsoReturns_KeepsMemo(c) ==
    /\ step[c] = "landed" /\ way[c] = "sso"
    /\ device' = None /\ scope' = None
    /\ Ends(c, "done")
    /\ UNCHANGED <<closed, memo, jar, adopted, handles, callRest>>

\* #forgetPreviousPrincipal().
SsoReturns(c) ==
    /\ step[c] = "landed" /\ way[c] = "sso"
    /\ memo' = <<>> /\ device' = None /\ scope' = None
    /\ Ends(c, "done")
    /\ UNCHANGED <<closed, jar, adopted, handles, callRest>>

\* Refused, guided elsewhere (a second factor, an enrolment), or lost.
SignInThrows(c) ==
    /\ step[c] \in {"starting", "posted"}
    /\ Ends(c, "failed")
    /\ UNCHANGED <<closed, memo, sessionVars, handles, callRest>>

\* The answer breaks off behind its headers: the call throws with its cookies
\* in the jar, and what comes after the await is not done.
SignInBreaksOff(c) ==
    /\ step[c] = "landed"
    /\ Ends(c, "torn")
    /\ UNCHANGED <<closed, memo, sessionVars, handles, callRest>>

-------------------------------------------------------------------------------
(* authenticateDevice(), client-credentials adoption *)

DeviceCall(c) ==
    /\ step[c] = "idle" /\ ~closed
    /\ memo' = <<>>
    /\ kept' = [kept EXCEPT ![c] = device]
    /\ device' = None
    /\ Posts(c, TRUE)
    /\ UNCHANGED <<closed, jar, adopted, scope, handles, way, by>>

DeviceReturns(c) ==
    /\ step[c] = "posted"
    /\ device' = c /\ scope' = None
    /\ Ends(c, "done")
    /\ UNCHANGED <<closed, memo, jar, adopted, handles, callRest>>

DeviceThrows(c) ==
    /\ step[c] = "posted"
    /\ device' = kept[c]
    /\ Ends(c, "failed")
    /\ UNCHANGED <<closed, memo, jar, adopted, scope, handles, callRest>>

\* Every request to /oauth2/ goes without session and jar.
AdoptionCall(c) ==
    /\ step[c] = "idle"
    /\ Posts(c, TRUE)
    /\ UNCHANGED <<closed, memo, sessionVars, handles, way, kept, by>>

\* #adoptCredential(): the memo is left as it is.
AdoptionReturns(c) ==
    /\ step[c] = "posted"
    /\ adopted' = c /\ device' = None /\ scope' = None
    /\ Ends(c, "done")
    /\ UNCHANGED <<closed, memo, jar, handles, callRest>>

-------------------------------------------------------------------------------
(* refresh() and logout() *)

RefreshCall(c) ==
    /\ step[c] = "idle" /\ ~closed
    /\ memo' = <<>>
    /\ by' = [by EXCEPT ![c] = jar]
    /\ Posts(c, device # None)
    /\ UNCHANGED <<closed, sessionVars, handles, way, kept>>

\* The rotated cookies, which are those of whoever's were sent; the answer may
\* break off behind them.
RefreshReturns(c) ==
    /\ step[c] = "posted" /\ by[c] # None
    /\ jar' = IF c \in bare THEN jar ELSE by[c]
    /\ \E how \in {"done", "failed"} : Ends(c, how)
    /\ UNCHANGED <<closed, memo, device, adopted, scope, handles, callRest>>

LogoutCall(c) ==
    /\ step[c] = "idle" /\ ~closed
    /\ memo' = <<>>
    /\ Posts(c, device # None)
    /\ UNCHANGED <<closed, sessionVars, handles, way, kept, by>>

LogoutLands(c) ==
    /\ step[c] = "posted"
    /\ jar' = IF c \in bare THEN jar ELSE None
    /\ Ends(c, "landed")
    /\ UNCHANGED <<closed, memo, device, adopted, scope, handles, callRest>>

\* The finally block, after success and after every failure.
LogoutReturns(c) ==
    /\ step[c] \in {"posted", "landed"}
    /\ device' = None /\ scope' = None
    /\ Ends(c, IF step[c] = "landed" THEN "done" ELSE "failed")
    /\ UNCHANGED <<closed, memo, jar, adopted, handles, callRest>>

\* refresh() or loginClientCredentials() throws: nothing here changes.
CallThrows(c) ==
    /\ step[c] = "posted"
    /\ Ends(c, "failed")
    /\ UNCHANGED <<closed, memo, sessionVars, handles, callRest>>

-------------------------------------------------------------------------------
(* The handle: ensureOpen(), close(), actingTenant() *)

\* ensureOpen() throws.
RefusedClosed(c) ==
    /\ step[c] = "idle" /\ closed
    /\ Ends(c, "failed")
    /\ UNCHANGED <<closed, memo, sessionVars, handles, callRest>>

close ==
    /\ ~closed
    /\ closed' = TRUE
    /\ memo' = <<>>
    /\ UNCHANGED <<sessionVars, handles, callVars>>

\* A new handle over the session, gated on what the login reported if anything.
actingTenant(t) ==
    /\ scope # None => t \in Reach[scope]
    /\ t \notin handles
    /\ handles' = handles \cup {t}
    /\ UNCHANGED <<closed, memo, sessionVars, callVars>>

-------------------------------------------------------------------------------

\* A client that is signed in, or not yet.
SignInInit ==
    /\ \E p \in {Boot, None} : jar = p /\ scope = p
    /\ closed = FALSE /\ memo = <<>>
    /\ device = None /\ adopted = None
    /\ handles = {None}
    /\ step = [c \in CredentialCalls |-> "idle"]
    /\ way = [c \in Logins |-> None]
    /\ kept = [c \in Devices |-> None]
    /\ by = [c \in Refreshes |-> None]
    /\ bare = {} /\ tangled = {}

SignInStep(c) ==
    \/ PasswordCall(c) \/ PasswordReturns(c)
    \/ OpaqueCall(c) \/ OpaqueFinishes(c) \/ OpaqueFallsBack(c) \/ OpaqueReturns(c)
    \/ PasskeyCall(c) \/ PasskeyReturns(c)
    \/ ConfirmCall(c) \/ RegisterCall(c) \/ EnrolmentReturns(c)
    \/ SsoCall(c) \/ SsoReturns(c)
    \/ SignInLands(c) \/ SignInThrows(c) \/ SignInBreaksOff(c)

CredentialCall ==
    \/ \E c \in Logins : SignInStep(c)
    \/ \E c \in Devices : DeviceCall(c) \/ DeviceReturns(c) \/ DeviceThrows(c)
    \/ \E c \in Adoptions : AdoptionCall(c) \/ AdoptionReturns(c) \/ CallThrows(c)
    \/ \E c \in Refreshes : RefreshCall(c) \/ RefreshReturns(c) \/ CallThrows(c)
    \/ \E c \in Logouts : LogoutCall(c) \/ LogoutLands(c) \/ LogoutReturns(c)
    \/ \E c \in CredentialCalls \ Adoptions : RefusedClosed(c)

CredentialStep ==
    /\ CredentialCall
    /\ Cardinality({c \in CredentialCalls : step'[c] # "idle"}) <= MaxCalls

HandleStep == close \/ \E t \in Tenants : actingTenant(t)

SignInNext == CredentialStep \/ HandleStep

SignInSpec == SignInInit /\ [][SignInNext]_signInVars

-------------------------------------------------------------------------------
(* Properties *)

SignInTypeOK ==
    /\ closed \in BOOLEAN
    /\ jar \in Users \cup {None}
    /\ device \in Devices \cup {None}
    /\ adopted \in Adoptions \cup {None}
    /\ scope \in Users \cup {None}
    /\ handles \subseteq Tenants \cup {None}
    /\ step \in [CredentialCalls ->
                   {"idle", "starting", "posted", "landed", "done", "failed", "torn"}]
    /\ way \in [Logins -> Ways \cup {None}]
    /\ kept \in [Devices -> Devices \cup {None}]
    /\ by \in [Refreshes -> Users \cup {None}]
    /\ bare \subseteq CredentialCalls /\ tangled \subseteq CredentialCalls

\* With no credential call under way, actingTenant() is gated on what was
\* reported of the principal the client acts for, or on nothing.  A report
\* outlives its principal only if its login overlapped another call, or its
\* cookies missed the jar, or the client acts for a sign-in whose answer broke
\* off behind its cookies (section 5.2, N5.5; rest/client.ts:actingTenant).
GateKnowsWhom ==
    Active = {} => \/ scope \in {None, Acting} \cup tangled \cup bare
                   \/ Acting \in Torn

\* Calls that overlap know it.
OverlapKnown ==
    \A c, d \in Active : c # d => c \in tangled

\* A sign-in that is out by itself, with its cookies on the way to the jar, has
\* no device token in its way, and its cookies are in once they have landed.
LonerLands ==
    \A c \in Logins :
        (step[c] \in {"posted", "landed"} /\ c \notin tangled \cup bare)
            => /\ way[c] \in {"password", "confirm", "register"} => device = None
               /\ step[c] = "landed" => jar = c

\* Whose cookies the jar may hold while a report is in force that was its
\* login's alone: that login's, or those of a sign-in that has landed or torn.
Reported == {scope} \cup Torn \cup {c \in Logins : step[c] = "landed"}

\* While such a report is in force, the jar and the cookies a refresh() carries
\* are of those, a device call has no token to put back, and a logout that has
\* emptied the jar has yet to drop the report.
ReportHolds ==
    (scope # None /\ scope \notin tangled \cup bare)
        => /\ device = None
           /\ \A d \in Devices : step[d] = "posted" => kept[d] = None
           /\ \/ \E c \in Logouts : step[c] = "landed"
              \/ /\ jar \in Reported
                 /\ \A r \in Refreshes : step[r] = "posted" => by[r] \in Reported

\* The inductive invariant behind GateKnowsWhom.
GateInv == SignInTypeOK /\ OverlapKnown /\ LonerLands /\ ReportHolds

\* A user's sign-in that nothing else overlapped is used from the moment it
\* returns: the next request carries its session (CONTRACT.md section 6.1 rule
\* 11, "that session is used from then on"; section 24.7, setup/register/finish
\* "adopts credentials exactly as mfa_setup_confirm does").
SignInIsUsed ==
    [][\A c \in Logins :
          (step[c] # "done" /\ step'[c] = "done" /\ c \notin tangled)
              => Acting' = c]_signInVars
===============================================================================
