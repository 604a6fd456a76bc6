------------------------- MODULE RefreshSessionProofs -------------------------
(***************************************************************************)
(* Proofs about RefreshSession, for any number of calls of each kind, a    *)
(* perfect or a lossy network, and every interleaving: the types, the one  *)
(* refresh run at a time, the copies of the session and the tokens the     *)
(* calls present.                                                          *)
(***************************************************************************)
EXTENDS RefreshSession, TLAPS

\* What a refresh mints from a token is a token.
LEMMA SuccessorType ==
    ASSUME NEW t \in Token, ServerTypeOK, Redeemable(t)
    PROVE  Successor(t) \in Token \ {NoToken}
BY ServerAssumption DEF ServerTypeOK, Redeemable, Successor, Token, NoToken, Sessions

\* A refresh the server accepts keeps its state typed and returns a token.
LEMMA RotateType ==
    ASSUME NEW t \in Token, ServerTypeOK, Rotate(t)
    PROVE  /\ ServerTypeOK'
           /\ Successor(t) \in Token
<1>1. Successor(t) \in Token \ {NoToken}
  BY SuccessorType DEF Rotate
<1> QED
  BY <1>1 DEF ServerTypeOK, Rotate, Redeemable, Token

\* The absence of a token counts as a token.
LEMMA NoTokenType == NoToken \in Token
BY DEF NoToken, Token

\* Whatever credentials the interceptors compose for a request are typed.
LEMMA CredTypes ==
    ASSUME TypeOK
    PROVE  /\ RestCred \in Wire
           /\ \A t \in Token : GrpcCred(t) \in Wire
           /\ \A c \in Calls, t \in Token : ReplayCred(c, t) \in Wire
           /\ RefreshCookie \in Token
           /\ RefreshWire \in Wire
<1> USE NoTokenType DEF TypeOK, Wire, NoWire
<1>1. RestCred \in Wire
  BY DEF RestCred
<1>2. \A t \in Token : GrpcCred(t) \in Wire
  BY DEF GrpcCred
<1>3. \A c \in Calls, t \in Token : ReplayCred(c, t) \in Wire
  BY DEF ReplayCred
<1>4. RefreshCookie \in Token /\ RefreshWire \in Wire
  BY DEF RefreshCookie, RefreshWire
<1> QED
  BY <1>1, <1>2, <1>3, <1>4

\* A client starts in a typed state.
LEMMA InitType == Init => TypeOK
<1> SUFFICES ASSUME Init PROVE TypeOK
  OBVIOUS
<1>1. PICK tok \in {NoToken, [s |-> Boot, n |-> 1]} :
         /\ jar = tok /\ csrf = tok /\ cached = tok
         /\ auth = (tok # NoToken)
         /\ risked = (tok = NoToken)
         /\ live = [s \in Sessions |-> IF s = tok.s THEN 1 ELSE 0]
         /\ fresh = {tok} \ {NoToken}
  BY DEF Init
<1>2. tok \in Token /\ risked \in BOOLEAN
  BY <1>1 DEF Token, NoToken, Sessions
<1>3. ServerTypeOK
  BY <1>1, <1>2 DEF ServerTypeOK, Init
<1> QED
  BY <1>1, <1>2, <1>3, NoTokenType DEF Init, TypeOK, PC, Wire, NoWire

\* Entering the guard keeps what it changes typed.
LEMMA EnterGuardType ==
    ASSUME TypeOK, NEW c \in Guarded, EnterGuard(c)
    PROVE  /\ guard' \in Guarded \cup {None}
           /\ phase' \in {"none", "posted", "landed"}
           /\ runTok' \in Token
           /\ shown' \subseteq Token
           /\ pc' \in [Calls -> PC]
BY CredTypes, NoTokenType DEF TypeOK, EnterGuard, guardVars, Calls, PC

\* Releasing the waiters of a refresh that resolved keeps the state typed.
LEMMA ReleaseOkType ==
    ASSUME TypeOK, csrf' \in Token, ReleaseOk
    PROVE  /\ guard' \in Guarded \cup {None}
           /\ phase' \in {"none", "posted", "landed"}
           /\ runTok' \in Token
           /\ pending' \in OidcCalls \cup {None}
           /\ tries' \in [OidcCalls -> Nat]
           /\ pc' \in [Calls -> PC]
           /\ wire' \in [Calls -> Wire]
           /\ retried' \in [Requests -> BOOLEAN]
           /\ prev' \in [DeviceCalls -> DeviceCalls \cup {None}]
           /\ attempts' \in [Requests -> Nat]
<1>1. guard' \in Guarded \cup {None} /\ pending' \in OidcCalls \cup {None}
  BY DEF ReleaseOk, TypeOK, LeaderRestarts, LeaderWaits, Guarded
<1>2. phase' \in {"none", "posted", "landed"} /\ runTok' \in Token
  BY NoTokenType DEF ReleaseOk
<1>3. tries' \in [OidcCalls -> Nat] /\ attempts' \in [Requests -> Nat]
  BY DEF ReleaseOk, TypeOK
<1>4. pc' \in [Calls -> PC]
  BY DEF ReleaseOk, TypeOK, PC, LeaderAfterOk
<1>5. wire' \in [Calls -> Wire]
  BY CredTypes DEF ReleaseOk, TypeOK
<1>6. /\ retried' \in [Requests -> BOOLEAN]
      /\ prev' \in [DeviceCalls -> DeviceCalls \cup {None}]
  BY DEF ReleaseOk, TypeOK
<1> QED
  BY <1>1, <1>2, <1>3, <1>4, <1>5, <1>6

\* Releasing the waiters of a refresh that rejected keeps the state typed.
LEMMA ReleaseFailType ==
    ASSUME TypeOK, ServerTypeOK', ReleaseFail,
           shown' \subseteq Token, torn' \in BOOLEAN, risked' \in BOOLEAN
    PROVE  TypeOK'
<1>1. auth' \in BOOLEAN /\ csrf' \in Token
  BY NoTokenType DEF ReleaseFail, TypeOK
<1>2. pc' \in [Calls -> PC] /\ guard' = None /\ phase' = "none" /\ runTok' \in Token
  BY NoTokenType DEF ReleaseFail, TypeOK, PC
<1>3. pending' \in OidcCalls \cup {None}
  BY DEF ReleaseFail, TypeOK
<1> QED
  BY <1>1, <1>2, <1>3 DEF ReleaseFail, TypeOK, callVars

\* Every step of the closure that holds the guard keeps the state typed.
LEMMA GuardStepType ==
    TypeOK /\ (RunLands \/ RunResolves \/ RunRejects \/ OidcRunResolves \/ OidcRunRejects)
        => TypeOK'
<1> SUFFICES ASSUME TypeOK PROVE
        RunLands \/ RunResolves \/ RunRejects \/ OidcRunResolves \/ OidcRunRejects => TypeOK'
  OBVIOUS
<1>1. CASE RunLands
  <2>1. ServerTypeOK' /\ Successor(runTok) \in Token
    BY <1>1, RotateType DEF RunLands, TypeOK
  <2> QED
    BY <1>1, <2>1 DEF RunLands, TypeOK, oidcVars, callVars, histVars
<1>2. CASE RunResolves
  <2>1. csrf' \in Token /\ cached' \in Token
    BY <1>2 DEF RunResolves, TypeOK
  <2> QED
    BY <1>2, <2>1, ReleaseOkType
    DEF RunResolves, TypeOK, ServerTypeOK, serverVars, histVars
<1>3. CASE RunRejects
  <2>1. ServerTypeOK' /\ shown' \subseteq Token /\ torn' \in BOOLEAN /\ risked' \in BOOLEAN
    BY <1>3, RotateType DEF RunRejects, TypeOK, ServerTypeOK, serverVars
  <2> QED
    BY <1>3, <2>1, ReleaseFailType DEF RunRejects
<1>4. CASE OidcRunResolves
  <2>1. csrf' \in Token /\ cached' \in Token
    BY <1>4 DEF OidcRunResolves, TypeOK
  <2> QED
    BY <1>4, <2>1, ReleaseOkType
    DEF OidcRunResolves, TypeOK, ServerTypeOK, serverVars, histVars
<1>5. CASE OidcRunRejects
  <2>1. ServerTypeOK' /\ shown' \subseteq Token /\ torn' \in BOOLEAN /\ risked' \in BOOLEAN
    BY <1>5 DEF OidcRunRejects, TypeOK, ServerTypeOK, serverVars
  <2> QED
    BY <1>5, <2>1, ReleaseFailType DEF OidcRunRejects
<1> QED
  BY <1>1, <1>2, <1>3, <1>4, <1>5

\* A call that is answered for good keeps the state typed.
LEMMA AnswerType ==
    ASSUME TypeOK, NEW c \in Calls, NEW r \in PC, Answer(c, r)
    PROVE  TypeOK'
<1>1. wire' \in [Calls -> Wire]
  BY NoTokenType DEF Answer, TypeOK, Wire, NoWire
<1> QED
  BY <1>1 DEF Answer, TypeOK, ServerTypeOK, serverVars, sesVars, guardVars, oidcVars,
       histVars

\* Every step of a REST request or an RPC keeps the state typed.
LEMMA RequestStepType ==
    ASSUME TypeOK, NEW c \in Requests,
           Send(c) \/ Succeeds(c) \/ Fails(c) \/ Unauthenticated(c) \/ UnauthenticatedFinal(c)
    PROVE  TypeOK'
<1>1. CASE Send(c)
  <2>1. wire' \in [Calls -> Wire]
    BY <1>1, CredTypes DEF Send, TypeOK
  <2>2. pc' \in [Calls -> PC] /\ attempts' \in [Requests -> Nat]
    BY <1>1 DEF Send, TypeOK, PC
  <2> QED
    BY <1>1, <2>1, <2>2 DEF Send, TypeOK, ServerTypeOK, serverVars, sesVars,
       guardVars, oidcVars, histVars
<1>2. CASE Succeeds(c) \/ Fails(c) \/ UnauthenticatedFinal(c)
  BY <1>2, AnswerType DEF Succeeds, Fails, UnauthenticatedFinal, PC, Calls, Guarded
<1>3. CASE Unauthenticated(c)
  <2>1. c \in Guarded
    BY DEF Guarded
  <2> QED
    BY <1>3, <2>1, EnterGuardType DEF Unauthenticated, TypeOK, ServerTypeOK,
       serverVars, sesVars, oidcVars
<1> QED
  BY <1>1, <1>2, <1>3

\* Every step of oidcRefresh() keeps the state typed.
LEMMA OidcStepType ==
    ASSUME TypeOK, NEW c \in OidcCalls,
           OidcLeads(c) \/ OidcJoins(c) \/ OidcDiscovered(c) \/ OidcDiscoveryFails(c)
    PROVE  TypeOK'
<1>0. c \in Guarded /\ c \in Calls
  BY DEF Guarded, Calls
<1>1. CASE OidcLeads(c)
  <2>1. CASE EnterGuard(c)
    BY <1>0, <1>1, <2>1, EnterGuardType DEF OidcLeads, TypeOK, ServerTypeOK,
       serverVars, sesVars, callVars
  <2>2. CASE ~EnterGuard(c)
    BY <1>0, <1>1, <2>2 DEF OidcLeads, TypeOK, ServerTypeOK, serverVars, sesVars,
       guardVars, callVars, PC
  <2> QED
    BY <2>1, <2>2
<1>2. CASE OidcJoins(c)
  BY <1>0, <1>2, AnswerType DEF OidcJoins, PC
<1>3. CASE OidcDiscovered(c)
  BY <1>0, <1>3, EnterGuardType DEF OidcDiscovered, TypeOK, ServerTypeOK,
     serverVars, sesVars, oidcVars, callVars
<1>4. CASE OidcDiscoveryFails(c)
  BY <1>0, <1>4 DEF OidcDiscoveryFails, TypeOK, ServerTypeOK, serverVars, sesVars,
     guardVars, callVars, histVars, PC
<1> QED
  BY <1>1, <1>2, <1>3, <1>4

\* Every step of the explicit refresh() keeps the state typed.
LEMMA RefreshStepType ==
    ASSUME TypeOK, NEW c \in RefreshCalls,
           RefreshCall(c) \/ RefreshLands(c) \/ RefreshReturns(c) \/ RefreshThrows(c)
    PROVE  TypeOK'
<1>0. c \in Calls /\ wire[c] \in Wire /\ wire[c].tok \in Token
  BY DEF Calls, TypeOK, Wire
<1>1. CASE RefreshCall(c)
  <2>1. wire' \in [Calls -> Wire] /\ pc' \in [Calls -> PC] /\ shown' \subseteq Token
    BY <1>0, <1>1, CredTypes DEF RefreshCall, TypeOK, PC
  <2> QED
    BY <1>1, <2>1 DEF RefreshCall, TypeOK, ServerTypeOK, serverVars, sesVars,
       guardVars, oidcVars
<1>2. CASE RefreshLands(c)
  <2>1. ServerTypeOK' /\ jar' \in Token
    BY <1>0, <1>2, RotateType DEF RefreshLands, TypeOK
  <2> QED
    BY <1>2, <2>1 DEF RefreshLands, TypeOK, guardVars, oidcVars, callVars, histVars, PC
<1>3. CASE RefreshReturns(c)
  <2>1. wire' \in [Calls -> Wire]
    BY <1>3, NoTokenType DEF RefreshReturns, TypeOK, Wire, NoWire
  <2> QED
    BY <1>3, <2>1 DEF RefreshReturns, TypeOK, ServerTypeOK, serverVars, guardVars, oidcVars, PC
<1>4. CASE RefreshThrows(c)
  <2>1. ServerTypeOK' /\ torn' \in BOOLEAN
    BY <1>0, <1>4, RotateType DEF RefreshThrows, TypeOK, ServerTypeOK, serverVars
  <2>2. wire' \in [Calls -> Wire]
    BY <1>4, NoTokenType DEF RefreshThrows, TypeOK, Wire, NoWire
  <2> QED
    BY <1>4, <2>1, <2>2 DEF RefreshThrows, TypeOK, sesVars, guardVars, oidcVars, PC
<1> QED
  BY <1>1, <1>2, <1>3, <1>4

\* Every step of login() keeps the state typed.
LEMMA LoginStepType ==
    ASSUME TypeOK, NEW c \in LoginCalls,
           LoginCall(c) \/ LoginLands(c) \/ LoginReturns(c) \/ LoginThrows(c)
    PROVE  TypeOK'
<1>0. c \in Calls /\ c \in Sessions
  BY DEF Calls, Sessions
<1>1. CASE LoginCall(c)
  BY <1>1 DEF LoginCall, TypeOK, ServerTypeOK, serverVars, guardVars, oidcVars,
     callVars, histVars, PC
<1>2. CASE LoginLands(c)
  <2>1. [s |-> c, n |-> 1] \in Token \ {NoToken}
    BY <1>0, ServerAssumption DEF Token, NoToken, Sessions
  <2>2. ServerTypeOK' /\ jar' \in Token
    BY <1>0, <1>2, <2>1 DEF LoginLands, StartSession, TypeOK, ServerTypeOK
  <2> QED
    BY <1>2, <2>2 DEF LoginLands, TypeOK, guardVars, oidcVars, callVars, histVars, PC
<1>3. CASE LoginReturns(c)
  BY <1>0, <1>3 DEF LoginReturns, TypeOK, ServerTypeOK, serverVars, guardVars,
     oidcVars, callVars, PC
<1>4. CASE LoginThrows(c)
  BY <1>0, <1>4 DEF LoginThrows, TypeOK, ServerTypeOK, serverVars, sesVars, guardVars,
     oidcVars, callVars, PC
<1> QED
  BY <1>1, <1>2, <1>3, <1>4

\* Every step of logout() keeps the state typed.
LEMMA LogoutStepType ==
    ASSUME TypeOK, NEW c \in LogoutCalls,
           LogoutCall(c) \/ LogoutLands(c) \/ LogoutReturns(c)
    PROVE  TypeOK'
<1>0. c \in Calls
  BY DEF Calls
<1>1. CASE LogoutCall(c)
  <2>1. wire' \in [Calls -> Wire] /\ pc' \in [Calls -> PC]
    BY <1>1, CredTypes DEF LogoutCall, TypeOK, PC
  <2> QED
    BY <1>1, <2>1 DEF LogoutCall, TypeOK, ServerTypeOK, serverVars, sesVars,
       guardVars, oidcVars, histVars
<1>2. CASE LogoutLands(c)
  <2>1. ServerTypeOK' /\ jar' \in Token
    BY <1>2, NoTokenType DEF LogoutLands, EndSession, TypeOK, ServerTypeOK
  <2> QED
    BY <1>2, <2>1 DEF LogoutLands, TypeOK, guardVars, oidcVars, callVars, histVars, PC
<1>3. CASE LogoutReturns(c)
  <2>1. wire' \in [Calls -> Wire]
    BY <1>3, NoTokenType DEF LogoutReturns, TypeOK, Wire, NoWire
  <2>2. pc' \in [Calls -> PC]
    BY <1>3 DEF LogoutReturns, TypeOK, PC
  <2> QED
    BY <1>3, <2>1, <2>2, NoTokenType DEF LogoutReturns, TypeOK, ServerTypeOK, serverVars, guardVars,
       oidcVars
<1> QED
  BY <1>1, <1>2, <1>3

\* Every step of authenticateDevice() keeps the state typed.
LEMMA DeviceStepType ==
    ASSUME TypeOK, NEW c \in DeviceCalls,
           DeviceCall(c) \/ DeviceReturns(c) \/ DeviceThrows(c)
    PROVE  TypeOK'
<1>1. CASE DeviceCall(c)
  BY <1>1 DEF DeviceCall, TypeOK, ServerTypeOK, serverVars, guardVars, oidcVars,
     histVars, PC
<1>2. CASE DeviceReturns(c)
  BY <1>2 DEF DeviceReturns, TypeOK, ServerTypeOK, guardVars, oidcVars, callVars, PC
<1>3. CASE DeviceThrows(c)
  BY <1>3 DEF DeviceThrows, TypeOK, ServerTypeOK, serverVars, guardVars, oidcVars,
     callVars, histVars, PC
<1> QED
  BY <1>1, <1>2, <1>3

\* An access token's expiry keeps the state typed.
LEMMA ExpireType == TypeOK /\ Expire => TypeOK'
BY DEF Expire, ExpireAccess, TypeOK, ServerTypeOK, sesVars, guardVars, oidcVars,
       callVars, histVars

\* The session's variables, the server's tokens and every call's saved values
\* keep their types along every interleaving of the handlers.
THEOREM TypeCorrect == Spec => []TypeOK
<1>1. Init => TypeOK
  BY InitType
<1>2. TypeOK /\ [Next]_vars => TypeOK'
  <2> SUFFICES ASSUME TypeOK, [Next]_vars PROVE TypeOK'
    OBVIOUS
  <2>1. CASE Invoke
    BY <2>1, RequestStepType, OidcStepType, RefreshStepType, LoginStepType,
       LogoutStepType, DeviceStepType DEF Invoke
  <2>2. CASE RestAnswer
    BY <2>2, GuardStepType, RequestStepType, OidcStepType, RefreshStepType,
       LoginStepType, LogoutStepType, DeviceStepType DEF RestAnswer, Requests
  <2>3. CASE GrpcAnswer
    BY <2>3, RequestStepType DEF GrpcAnswer, Requests
  <2>4. CASE Expire
    BY <2>4, ExpireType
  <2>5. CASE UNCHANGED vars
    BY <2>5 DEF vars, TypeOK, ServerTypeOK, serverVars, sesVars, guardVars,
       oidcVars, callVars, histVars
  <2> QED
    BY <2>1, <2>2, <2>3, <2>4, <2>5 DEF Next
<1> QED
  BY <1>1, <1>2, PTL DEF Spec

-------------------------------------------------------------------------------
(* The guard *)

\* No call is of two kinds, and None is not a call.
LEMMA Disjoint ==
    /\ Requests \cap OidcCalls = {}
    /\ Guarded \cap (RefreshCalls \cup LoginCalls \cup LogoutCalls \cup DeviceCalls) = {}
    /\ None \notin Calls
    /\ Requests \subseteq Calls /\ OidcCalls \subseteq Calls /\ Guarded \subseteq Calls
    /\ RefreshCalls \subseteq Calls /\ LoginCalls \subseteq Calls
    /\ LogoutCalls \subseteq Calls /\ DeviceCalls \subseteq Calls
BY SessionAssumption DEF Requests, Guarded, Calls

\* The guard is free and nobody waits at the start.
LEMMA InitGuard == Init => GuardInv
BY Disjoint DEF Init, GuardInv, WaitersHaveARun, RequestHistory, OneOidcLeader

\* A call that is not behind the guard moves; the guard and what waits on it
\* do not.
LEMMA OutsideStep ==
    ASSUME TypeOK, GuardInv,
           NEW c \in Calls \ Guarded, NEW v \in {"posted", "landed", "ok", "failed"},
           pc' = [pc EXCEPT ![c] = v],
           UNCHANGED <<guard, phase, pending, attempts, retried>>
    PROVE  GuardInv'
<1>1. c \notin Requests /\ c \notin OidcCalls
  BY DEF Guarded
<1>2. \A d \in Calls : d # c => pc'[d] = pc[d]
  BY DEF TypeOK
<1>3. pc'[c] = v
  BY DEF TypeOK
<1>4. WaitersHaveARun'
  BY <1>2, <1>3, Disjoint DEF GuardInv, WaitersHaveARun, TypeOK
<1>5. \A d \in Requests : RequestHistory(d)'
  BY <1>1, <1>2, Disjoint DEF GuardInv, RequestHistory
<1>6. OneOidcLeader'
  BY <1>1, <1>2, <1>3, Disjoint DEF GuardInv, OneOidcLeader, TypeOK
<1>7. \A d \in Calls : pc'[d] \in {"waiting", "joined"} => d \in Guarded
  BY <1>2, <1>3 DEF GuardInv
<1> QED
  BY <1>4, <1>5, <1>6, <1>7 DEF GuardInv

\* A request on the wire is answered for good.
LEMMA FinalAnswer ==
    ASSUME TypeOK, GuardInv, NEW c \in Requests, NEW v \in Done,
           pc[c] = "sent", Answer(c, v)
    PROVE  GuardInv'
<1>1. c \in Calls /\ c \notin OidcCalls
  BY Disjoint
<1>2. \A d \in Calls : d # c => pc'[d] = pc[d]
  BY DEF TypeOK, Answer
<1>3. pc'[c] = v
  BY <1>1 DEF TypeOK, Answer
<1>4. UNCHANGED <<guard, phase, pending, attempts, retried>>
  BY DEF Answer, guardVars, oidcVars, callVars
<1>5. WaitersHaveARun'
  BY <1>1, <1>2, <1>3, <1>4, Disjoint DEF GuardInv, WaitersHaveARun, TypeOK, Done
<1>6. \A d \in Requests : RequestHistory(d)'
  BY <1>2, <1>3, <1>4, Disjoint DEF GuardInv, RequestHistory, Done
<1>7. OneOidcLeader'
  BY <1>1, <1>2, <1>3, <1>4, Disjoint DEF GuardInv, OneOidcLeader, TypeOK, Done
<1>8. \A d \in Calls : pc'[d] \in {"waiting", "joined"} => d \in Guarded
  BY <1>2, <1>3 DEF GuardInv, Done
<1> QED
  BY <1>5, <1>6, <1>7, <1>8 DEF GuardInv

\* A request's first send leaves the guard's invariant true.
LEMMA SendGuard ==
    ASSUME TypeOK, GuardInv, NEW c \in Requests, Send(c)
    PROVE  GuardInv'
<1>1. c \in Calls /\ c \notin OidcCalls
  BY Disjoint
<1>2. /\ \A d \in Calls : d # c => pc'[d] = pc[d]
      /\ \A d \in Requests : d # c => attempts'[d] = attempts[d]
      /\ pc'[c] = "sent" /\ pc[c] = "idle" /\ attempts'[c] = 1
  BY <1>1 DEF TypeOK, Send
<1>3. UNCHANGED <<guard, phase, pending, retried>>
  BY DEF Send, guardVars, oidcVars
<1>4. WaitersHaveARun'
  BY <1>1, <1>2, <1>3, Disjoint DEF GuardInv, WaitersHaveARun, TypeOK
<1>5. \A d \in Requests : RequestHistory(d)'
  BY <1>2, <1>3, Disjoint DEF GuardInv, RequestHistory
<1>6. OneOidcLeader'
  BY <1>1, <1>2, <1>3, Disjoint DEF GuardInv, OneOidcLeader, TypeOK
<1>7. \A d \in Calls : pc'[d] \in {"waiting", "joined"} => d \in Guarded
  BY <1>2 DEF GuardInv
<1> QED
  BY <1>4, <1>5, <1>6, <1>7 DEF GuardInv

\* Entering the guard leaves it held by a call that waits on it.
LEMMA EnterGuardWaits ==
    ASSUME TypeOK, GuardInv, NEW c \in Guarded, pc[c] # "waiting", EnterGuard(c)
    PROVE  /\ WaitersHaveARun'
           /\ pc'[c] = "waiting"
           /\ \A d \in Calls : d # c => pc'[d] = pc[d]
<1>1. c \in Calls /\ c # None
  BY Disjoint
<1>2. pc'[c] = "waiting" /\ \A d \in Calls : d # c => pc'[d] = pc[d]
  BY <1>1 DEF EnterGuard, TypeOK
<1>3. guard' # None /\ phase' # "none" /\ pc'[guard'] = "waiting"
  BY <1>1, <1>2 DEF EnterGuard, GuardInv, WaitersHaveARun, TypeOK, guardVars
<1> QED
  BY <1>2, <1>3 DEF WaitersHaveARun

\* A 401 or UNAUTHENTICATED that enters the guard keeps its invariant.
LEMMA UnauthenticatedGuard ==
    ASSUME TypeOK, GuardInv, NEW c \in Requests, Unauthenticated(c)
    PROVE  GuardInv'
<1>1. c \in Guarded /\ c \in Calls /\ c \notin OidcCalls
  BY Disjoint DEF Guarded
<1>2. /\ WaitersHaveARun'
      /\ pc'[c] = "waiting" /\ pc[c] = "sent"
      /\ \A d \in Calls : d # c => pc'[d] = pc[d]
  BY <1>1, EnterGuardWaits DEF Unauthenticated
<1>3. /\ ~retried[c] /\ retried'[c]
      /\ \A d \in Requests : d # c => retried'[d] = retried[d]
      /\ UNCHANGED <<pending, attempts>>
  BY DEF Unauthenticated, MayRefresh, TypeOK, oidcVars
<1>4. \A d \in Requests : RequestHistory(d)'
  BY <1>2, <1>3, Disjoint DEF GuardInv, RequestHistory
<1>5. OneOidcLeader'
  BY <1>1, <1>2, <1>3, Disjoint DEF GuardInv, OneOidcLeader, TypeOK
<1>6. \A d \in Calls : pc'[d] \in {"waiting", "joined"} => d \in Guarded
  BY <1>1, <1>2 DEF GuardInv
<1> QED
  BY <1>2, <1>4, <1>5, <1>6 DEF GuardInv

\* oidcRefresh()'s own steps keep the guard's invariant.
LEMMA OidcStepGuard ==
    ASSUME TypeOK, GuardInv, NEW c \in OidcCalls,
           OidcLeads(c) \/ OidcJoins(c) \/ OidcDiscovered(c) \/ OidcDiscoveryFails(c)
    PROVE  GuardInv'
<1>0. c \in Guarded /\ c \in Calls /\ c \notin Requests /\ c # None
  BY Disjoint DEF Guarded
<1>1. CASE OidcLeads(c)
  <2>1. pc[c] = "idle" /\ pending = None /\ pending' = c /\ UNCHANGED <<attempts, retried>>
    BY <1>1 DEF OidcLeads, callVars
  <2>2. /\ WaitersHaveARun'
        /\ pc'[c] \in {"waiting", "discovering"}
        /\ \A d \in Calls : d # c => pc'[d] = pc[d]
    <3>1. CASE EnterGuard(c)
      BY <1>0, <2>1, <3>1, EnterGuardWaits
    <3>2. CASE pc' = [pc EXCEPT ![c] = "discovering"] /\ UNCHANGED guardVars
      BY <1>0, <2>1, <3>2 DEF TypeOK, GuardInv, WaitersHaveARun, guardVars
    <3> QED
      BY <1>1, <3>1, <3>2 DEF OidcLeads
  <2>3. \A d \in Requests : RequestHistory(d)'
    BY <1>0, <2>1, <2>2, Disjoint DEF GuardInv, RequestHistory
  <2>4. OneOidcLeader'
    BY <1>0, <2>1, <2>2, Disjoint DEF GuardInv, OneOidcLeader
  <2>5. \A d \in Calls : pc'[d] \in {"waiting", "joined"} => d \in Guarded
    BY <1>0, <2>2 DEF GuardInv
  <2> QED
    BY <2>2, <2>3, <2>4, <2>5 DEF GuardInv
<1>2. CASE OidcJoins(c)
  <2>1. /\ pc[c] = "idle" /\ pending # None /\ pc'[c] = "joined"
        /\ \A d \in Calls : d # c => pc'[d] = pc[d]
        /\ UNCHANGED <<guard, phase, pending, attempts, retried>>
    BY <1>0, <1>2 DEF OidcJoins, Answer, TypeOK, guardVars, oidcVars, callVars
  <2>2. WaitersHaveARun'
    BY <1>0, <2>1, Disjoint DEF GuardInv, WaitersHaveARun, TypeOK
  <2>3. \A d \in Requests : RequestHistory(d)'
    BY <1>0, <2>1, Disjoint DEF GuardInv, RequestHistory
  <2>4. OneOidcLeader'
    BY <1>0, <2>1, Disjoint DEF GuardInv, OneOidcLeader, TypeOK
  <2>5. \A d \in Calls : pc'[d] \in {"waiting", "joined"} => d \in Guarded
    BY <1>0, <2>1 DEF GuardInv
  <2> QED
    BY <2>2, <2>3, <2>4, <2>5 DEF GuardInv
<1>3. CASE OidcDiscovered(c)
  <2>1. /\ WaitersHaveARun'
        /\ pc[c] = "discovering" /\ pc'[c] = "waiting"
        /\ \A d \in Calls : d # c => pc'[d] = pc[d]
        /\ UNCHANGED <<pending, attempts, retried>>
    BY <1>0, <1>3, EnterGuardWaits DEF OidcDiscovered, oidcVars, callVars
  <2>2. \A d \in Requests : RequestHistory(d)'
    BY <1>0, <2>1, Disjoint DEF GuardInv, RequestHistory
  <2>3. OneOidcLeader'
    BY <1>0, <2>1, Disjoint DEF GuardInv, OneOidcLeader, TypeOK
  <2>4. \A d \in Calls : pc'[d] \in {"waiting", "joined"} => d \in Guarded
    BY <1>0, <2>1 DEF GuardInv
  <2> QED
    BY <2>1, <2>2, <2>3, <2>4 DEF GuardInv
<1>4. CASE OidcDiscoveryFails(c)
  <2>1. /\ pc[c] = "discovering" /\ pending' = None
        /\ UNCHANGED <<guard, phase, attempts, retried>>
        /\ \A d \in Calls :
              pc'[d] = IF d = c \/ pc[d] = "joined" THEN "failed" ELSE pc[d]
    BY <1>4 DEF OidcDiscoveryFails, guardVars, callVars
  <2>2. pending = c
    BY <2>1 DEF GuardInv, OneOidcLeader
  <2>3. WaitersHaveARun'
    BY <1>0, <2>1, Disjoint DEF GuardInv, WaitersHaveARun, TypeOK
  <2>4. \A d \in Requests : RequestHistory(d)'
    BY <1>0, <2>1, Disjoint DEF GuardInv, RequestHistory, Done
  <2>5. OneOidcLeader'
    BY <1>0, <2>1, <2>2, Disjoint DEF GuardInv, OneOidcLeader
  <2>6. \A d \in Calls : pc'[d] \in {"waiting", "joined"} => d \in Guarded
    BY <2>1 DEF GuardInv
  <2> QED
    BY <2>3, <2>4, <2>5, <2>6 DEF GuardInv
<1> QED
  BY <1>1, <1>2, <1>3, <1>4

\* A run that resolves releases every waiting request; of the oidcRefreshes
\* only the leader can be waiting afterwards, and then it holds the guard.
LEMMA ReleaseOkGuard ==
    ASSUME TypeOK, GuardInv, guard # None, ReleaseOk
    PROVE  /\ GuardInv'
           /\ \A c \in Calls : pc'[c] = "waiting" => LeaderRestarts /\ c = pending
           /\ LeaderRestarts => pc'[pending] = "waiting"
<1>1. /\ guard' = (IF LeaderRestarts THEN pending ELSE None)
      /\ phase' = (IF LeaderRestarts THEN "posted" ELSE "none")
      /\ pending' = (IF LeaderWaits /\ ~LeaderRestarts THEN None ELSE pending)
      /\ UNCHANGED retried
  BY DEF ReleaseOk
<1>2. \A c \in Requests :
         /\ pc'[c] = IF pc[c] = "waiting" THEN "sent" ELSE pc[c]
         /\ attempts'[c] = IF pc[c] = "waiting" THEN attempts[c] + 1 ELSE attempts[c]
  BY Disjoint DEF ReleaseOk
<1>3. \A c \in Calls \ Requests :
         pc'[c] = IF LeaderWaits /\ (c = pending \/ (~LeaderRestarts /\ pc[c] = "joined"))
                  THEN LeaderAfterOk ELSE pc[c]
  BY DEF ReleaseOk
<1>4. LeaderRestarts => LeaderWaits /\ pending # guard /\ LeaderAfterOk = "waiting"
  BY DEF LeaderRestarts, LeaderAfterOk
<1>5. ~LeaderRestarts => LeaderAfterOk \in Done
  BY DEF LeaderAfterOk, Done
<1>6. LeaderWaits => pending \in OidcCalls /\ pending \in Calls \ Requests /\ pending # None
  BY Disjoint DEF LeaderWaits, TypeOK
<1>7. \A c \in OidcCalls : pc[c] = "waiting" => LeaderWaits /\ c = pending
  BY Disjoint DEF GuardInv, OneOidcLeader, LeaderWaits
<1>8. \A c \in Calls : pc'[c] = "waiting" => LeaderRestarts /\ c = pending
  <2> TAKE c \in Calls
  <2>1. CASE c \in Requests
    BY <1>2, <2>1
  <2>2. CASE c \notin Requests /\ c \in OidcCalls
    BY <1>3, <1>5, <1>7, <2>2 DEF Done
  <2>3. CASE c \notin Guarded
    BY <1>3, <1>6, <2>3 DEF GuardInv, Guarded
  <2> QED
    BY <2>1, <2>2, <2>3 DEF Guarded
<1>9. LeaderRestarts => pc'[pending] = "waiting"
  BY <1>3, <1>4, <1>6
<1>10. WaitersHaveARun'
  BY <1>1, <1>4, <1>6, <1>8, <1>9 DEF WaitersHaveARun
<1>11. \A c \in Requests : RequestHistory(c)'
  BY <1>1, <1>2 DEF GuardInv, RequestHistory
<1>12. OneOidcLeader'
  <2>1. \A c \in OidcCalls : pc'[c] \in {"waiting", "discovering"} => pending' = c
    BY <1>1, <1>3, <1>4, <1>5, <1>7, Disjoint DEF GuardInv, OneOidcLeader, Done
  <2>2. pending' # None => pc'[pending'] \in {"waiting", "discovering"}
    <3>1. CASE LeaderWaits
      BY <1>1, <1>9, <3>1
    <3>2. CASE ~LeaderWaits
      <4>1. LeaderWaits = FALSE /\ pending' = pending
        BY <1>1, <3>2
      <4>2. pending # None => pending \in Calls \ Requests
        BY Disjoint DEF TypeOK
      <4> QED
        BY <1>3, <3>2, <4>1, <4>2 DEF GuardInv, OneOidcLeader
    <3> QED
      BY <3>1, <3>2
  <2>3. \A c \in Calls : pc'[c] = "joined" => c \in OidcCalls /\ pending' # None
    <3> TAKE c \in Calls
    <3>1. CASE c \in Requests
      BY <1>2, <3>1 DEF GuardInv, RequestHistory, Done
    <3>2. CASE c \notin Requests
      BY <1>1, <1>3, <1>4, <1>5, <1>6, <3>2 DEF GuardInv, OneOidcLeader, Done
    <3> QED
      BY <3>1, <3>2
  <2> QED
    BY <2>1, <2>2, <2>3 DEF OneOidcLeader
<1>13. \A c \in Calls : pc'[c] \in {"waiting", "joined"} => c \in Guarded
  BY <1>6, <1>8, <1>12 DEF OneOidcLeader, Guarded, LeaderRestarts
<1> QED
  BY <1>8, <1>9, <1>10, <1>11, <1>12, <1>13 DEF GuardInv

\* A run that rejects releases everyone.
LEMMA ReleaseFailGuard ==
    ASSUME TypeOK, GuardInv, ReleaseFail
    PROVE  /\ GuardInv'
           /\ \A c \in Calls : pc'[c] # "waiting"
<1>1. /\ guard' = None /\ phase' = "none"
      /\ pending' = (IF LeaderWaits THEN None ELSE pending)
      /\ UNCHANGED <<attempts, retried>>
      /\ \A c \in Calls :
            pc'[c] = IF pc[c] = "waiting" \/ (LeaderWaits /\ pc[c] = "joined")
                     THEN "failed" ELSE pc[c]
  BY DEF ReleaseFail, callVars
<1>2. \A c \in Calls : pc'[c] # "waiting"
  BY <1>1
<1>3. WaitersHaveARun'
  BY <1>1, <1>2 DEF WaitersHaveARun
<1>4. \A c \in Requests : RequestHistory(c)'
  BY <1>1, Disjoint DEF GuardInv, RequestHistory, Done
<1>5. OneOidcLeader'
  BY <1>1, Disjoint DEF GuardInv, OneOidcLeader, LeaderWaits, TypeOK
<1>6. \A c \in Calls : pc'[c] \in {"waiting", "joined"} => c \in Guarded
  BY <1>1 DEF GuardInv
<1> QED
  BY <1>2, <1>3, <1>4, <1>5, <1>6 DEF GuardInv

\* The steps of the closure that holds the guard keep its invariant.
LEMMA GuardStepGuard ==
    ASSUME TypeOK, GuardInv,
           RunLands \/ RunResolves \/ RunRejects \/ OidcRunResolves \/ OidcRunRejects
    PROVE  GuardInv'
<1>1. CASE RunLands
  <2>1. phase' = "landed" /\ UNCHANGED <<guard, pending, pc, attempts, retried>>
    BY <1>1 DEF RunLands, oidcVars, callVars
  <2>2. WaitersHaveARun'
    BY <2>1 DEF GuardInv, WaitersHaveARun
  <2>3. \A c \in Requests : RequestHistory(c)'
    BY <2>1 DEF GuardInv, RequestHistory
  <2>4. OneOidcLeader'
    BY <2>1 DEF GuardInv, OneOidcLeader
  <2> QED
    BY <2>1, <2>2, <2>3, <2>4 DEF GuardInv
<1>2. CASE RunResolves \/ OidcRunResolves
  BY <1>2, ReleaseOkGuard DEF RunResolves, OidcRunResolves, CookieRun, OidcRun
<1>3. CASE RunRejects \/ OidcRunRejects
  BY <1>3, ReleaseFailGuard DEF RunRejects, OidcRunRejects
<1> QED
  BY <1>1, <1>2, <1>3

\* The calls that stay outside the guard keep its invariant.
LEMMA OutsideStepsGuard ==
    ASSUME TypeOK, GuardInv,
           \/ \E c \in RefreshCalls : \/ RefreshCall(c) \/ RefreshLands(c)
                                      \/ RefreshReturns(c) \/ RefreshThrows(c)
           \/ \E c \in LoginCalls : \/ LoginCall(c) \/ LoginLands(c)
                                    \/ LoginReturns(c) \/ LoginThrows(c)
           \/ \E c \in LogoutCalls : LogoutCall(c) \/ LogoutLands(c) \/ LogoutReturns(c)
           \/ \E c \in DeviceCalls : DeviceCall(c) \/ DeviceReturns(c) \/ DeviceThrows(c)
    PROVE  /\ GuardInv'
           /\ UNCHANGED <<guard, phase, pending, attempts, retried>>
           /\ \A d \in Guarded : pc'[d] = pc[d]
           /\ \A d \in Calls \ Guarded : pc'[d] # "waiting"
<1> DEFINE Moves(c, v) == /\ pc' = [pc EXCEPT ![c] = v]
                          /\ UNCHANGED <<guard, phase, pending, attempts, retried>>
<1> USE DEF guardVars, oidcVars, callVars
<1>1. \E c \in Calls \ Guarded : \E v \in {"posted", "landed", "ok", "failed"} : Moves(c, v)
  <2>1. CASE \E c \in RefreshCalls : \/ RefreshCall(c) \/ RefreshLands(c)
                                     \/ RefreshReturns(c) \/ RefreshThrows(c)
    BY <2>1, Disjoint DEF RefreshCall, RefreshLands, RefreshReturns, RefreshThrows
  <2>2. CASE \E c \in LoginCalls : \/ LoginCall(c) \/ LoginLands(c)
                                   \/ LoginReturns(c) \/ LoginThrows(c)
    BY <2>2, Disjoint DEF LoginCall, LoginLands, LoginReturns, LoginThrows, Answer
  <2>3. CASE \E c \in LogoutCalls : LogoutCall(c) \/ LogoutLands(c) \/ LogoutReturns(c)
    BY <2>3, Disjoint DEF LogoutCall, LogoutLands, LogoutReturns
  <2>4. CASE \E c \in DeviceCalls : DeviceCall(c) \/ DeviceReturns(c) \/ DeviceThrows(c)
    BY <2>4, Disjoint DEF DeviceCall, DeviceReturns, DeviceThrows
  <2> QED
    BY <2>1, <2>2, <2>3, <2>4
<1>2. PICK c \in Calls \ Guarded, v \in {"posted", "landed", "ok", "failed"} : Moves(c, v)
  BY <1>1
<1>3. GuardInv'
  BY <1>2, OutsideStep
<1>4. /\ \A d \in Guarded : pc'[d] = pc[d]
      /\ \A d \in Calls \ Guarded : pc'[d] # "waiting"
  BY <1>2, Disjoint DEF TypeOK, GuardInv
<1> QED
  BY <1>2, <1>3, <1>4

\* GuardInv is inductive, given the types.
LEMMA GuardStep == TypeOK /\ GuardInv /\ [Next]_vars => GuardInv'
<1> SUFFICES ASSUME TypeOK, GuardInv, [Next]_vars PROVE GuardInv'
  OBVIOUS
<1>1. ASSUME NEW c \in Requests,
             Send(c) \/ Succeeds(c) \/ Fails(c) \/ Unauthenticated(c)
                 \/ UnauthenticatedFinal(c)
      PROVE  GuardInv'
  BY <1>1, SendGuard, FinalAnswer, UnauthenticatedGuard
  DEF Succeeds, Fails, UnauthenticatedFinal, Done
<1>2. CASE Invoke
  BY <1>1, <1>2, OidcStepGuard, OutsideStepsGuard DEF Invoke
<1>3. CASE RestAnswer
  BY <1>1, <1>3, GuardStepGuard, OidcStepGuard, OutsideStepsGuard DEF RestAnswer, Requests
<1>4. CASE GrpcAnswer
  BY <1>1, <1>4 DEF GrpcAnswer, Requests
<1>5. CASE Expire \/ UNCHANGED vars
  <2>1. UNCHANGED <<guard, phase, pending, pc, attempts, retried>>
    BY <1>5 DEF Expire, vars, guardVars, oidcVars, callVars
  <2>2. WaitersHaveARun' /\ OneOidcLeader'
    BY <2>1 DEF GuardInv, WaitersHaveARun, OneOidcLeader
  <2>3. \A c \in Requests : RequestHistory(c)'
    BY <2>1 DEF GuardInv, RequestHistory
  <2> QED
    BY <2>1, <2>2, <2>3 DEF GuardInv
<1> QED
  BY <1>2, <1>3, <1>4, <1>5 DEF Next

\* The guard's inductive invariant holds of every execution.
THEOREM GuardCorrect == Spec => []GuardInv
<1>1. Init => GuardInv
  BY InitGuard
<1> QED
  BY <1>1, GuardStep, TypeCorrect, PTL DEF Spec

\* No call is ever left waiting on a guard that no refresh holds.
THEOREM NoLostWaiter == Spec => []WaitersHaveARun
<1>1. GuardInv => WaitersHaveARun
  BY DEF GuardInv
<1> QED
  BY <1>1, GuardCorrect, PTL

\* No request is put on the wire more than twice, however refreshes, logins and
\* failures interleave: there is no refresh loop.
THEOREM NoRefreshLoop == Spec => []ReplayedOnce
<1>1. GuardInv => ReplayedOnce
  BY DEF GuardInv, ReplayedOnce, RequestHistory
<1> QED
  BY <1>1, GuardCorrect, PTL

-------------------------------------------------------------------------------
(* The session's guard implements SingleFlight *)

\* A call that enters the guard is the abstract Enter.
LEMMA EnterRefines ==
    ASSUME TypeOK, GuardInv, NEW c \in Guarded, pc[c] # "waiting", EnterGuard(c),
           Told' = Told
    PROVE  Flight!FlightNext
<1>1. c \in Calls
  BY Disjoint
<1>2. /\ pc'[c] = "waiting"
      /\ \A d \in Calls : d # c => pc'[d] = pc[d]
  BY EnterGuardWaits
<1>3. c \notin Waiting /\ Waiting' = Waiting \cup {c}
  BY <1>1, <1>2 DEF Waiting
<1>4. guard' = IF guard = None THEN c ELSE guard
  BY DEF EnterGuard, guardVars
<1>5. Flight!Enter(c)
  BY <1>3, <1>4 DEF Flight!Enter
<1> QED
  BY <1>5 DEF Flight!FlightNext

\* A run that resolves is the abstract Settle("ok"): every request that waited
\* is replayed, and only the leading oidcRefresh may hold the guard again.
LEMMA SettleOkRefines ==
    ASSUME TypeOK, GuardInv, guard # None, ReleaseOk
    PROVE  Flight!FlightNext
<1>1. /\ GuardInv'
      /\ \A c \in Calls : pc'[c] = "waiting" => LeaderRestarts /\ c = pending
      /\ LeaderRestarts => pc'[pending] = "waiting"
  BY ReleaseOkGuard
<1>2. Told' = [c \in Requests |-> IF c \in Waiting THEN "ok" ELSE Told[c]]
  <2>1. \A c \in Requests : Told'[c] = IF c \in Waiting THEN "ok" ELSE Told[c]
    <3> TAKE c \in Requests
    <3>1. /\ pc'[c] = (IF pc[c] = "waiting" THEN "sent" ELSE pc[c])
          /\ attempts'[c] = (IF pc[c] = "waiting" THEN attempts[c] + 1 ELSE attempts[c])
          /\ retried' = retried
      BY Disjoint DEF ReleaseOk
    <3>2. c \in Calls /\ RequestHistory(c)
      BY Disjoint DEF GuardInv
    <3> QED
      BY <3>1, <3>2 DEF Told, Waiting, RequestHistory
  <2> QED
    BY <2>1 DEF Told
<1>3. guard' = None => Waiting' = {}
  BY <1>1 DEF Waiting, GuardInv, WaitersHaveARun
<1>4. CASE LeaderRestarts
  <2>1. /\ guard' = pending
        /\ pending \in OidcCalls /\ pending # guard /\ pc[pending] = "waiting"
    BY <1>4 DEF ReleaseOk, LeaderRestarts, LeaderWaits, TypeOK
  <2>2. pending \in Waiting \ ({guard} \cup Requests)
    BY <2>1, Disjoint DEF Waiting
  <2>3. Waiting' = {pending}
    BY <1>1, <1>4, <2>1, Disjoint DEF Waiting
  <2>4. Flight!Settle("ok")
    BY <1>2, <2>1, <2>2, <2>3 DEF Flight!Settle
  <2> QED
    BY <2>4 DEF Flight!FlightNext, Flight!Outcome
<1>5. CASE ~LeaderRestarts
  <2>1. guard' = None
    BY <1>5 DEF ReleaseOk
  <2>2. Flight!Settle("ok")
    BY <1>2, <1>3, <2>1 DEF Flight!Settle
  <2> QED
    BY <2>2 DEF Flight!FlightNext, Flight!Outcome
<1> QED
  BY <1>4, <1>5

\* A run that rejects is the abstract Settle("fail").
LEMMA SettleFailRefines ==
    ASSUME TypeOK, GuardInv, guard # None, ReleaseFail
    PROVE  Flight!FlightNext
<1>1. /\ guard' = None
      /\ UNCHANGED <<attempts, retried>>
      /\ \A c \in Calls :
            pc'[c] = IF pc[c] = "waiting" \/ (LeaderWaits /\ pc[c] = "joined")
                     THEN "failed" ELSE pc[c]
  BY DEF ReleaseFail, callVars
<1>2. Told' = [c \in Requests |-> IF c \in Waiting THEN "fail" ELSE Told[c]]
  <2>1. \A c \in Requests : Told'[c] = IF c \in Waiting THEN "fail" ELSE Told[c]
    <3> TAKE c \in Requests
    <3>1. c \in Calls /\ RequestHistory(c)
      BY Disjoint DEF GuardInv
    <3> QED
      BY <1>1, <3>1 DEF Told, Waiting, RequestHistory, Done
  <2> QED
    BY <2>1 DEF Told
<1>3. Waiting' = {}
  BY ReleaseFailGuard DEF Waiting
<1>4. Flight!Settle("fail")
  BY <1>1, <1>2, <1>3 DEF Flight!Settle
<1> QED
  BY <1>4 DEF Flight!FlightNext, Flight!Outcome

\* A step that moves one call c, not in or out of the guard, is a stutter.
LEMMA OneCallStutters ==
    ASSUME TypeOK, NEW c \in Calls, pc[c] # "waiting", pc'[c] # "waiting",
           \A d \in Calls : d # c => pc'[d] = pc[d],
           guard' = guard, Told' = Told
    PROVE  UNCHANGED Flight!flightVars
<1>1. Waiting' = Waiting
  BY DEF Waiting
<1> QED
  BY <1>1 DEF Flight!flightVars

\* Every step of a REST request or an RPC enters the guard or stutters.
LEMMA RequestRefines ==
    ASSUME TypeOK, GuardInv, NEW c \in Requests,
           Send(c) \/ Succeeds(c) \/ Fails(c) \/ Unauthenticated(c) \/ UnauthenticatedFinal(c)
    PROVE  Flight!FlightNext \/ UNCHANGED Flight!flightVars
<1>0. c \in Calls /\ c \in Guarded /\ RequestHistory(c)
  BY Disjoint DEF Guarded, GuardInv
<1>1. CASE Send(c)
  <2>1. /\ pc[c] = "idle" /\ pc'[c] = "sent" /\ attempts'[c] = 1
        /\ \A d \in Calls : d # c => pc'[d] = pc[d]
        /\ \A d \in Requests : d # c => attempts'[d] = attempts[d]
        /\ UNCHANGED <<guard, retried>>
    BY <1>0, <1>1 DEF Send, TypeOK, guardVars
  <2>2. Told' = Told
    BY <1>0, <2>1, Disjoint DEF Told, RequestHistory
  <2> QED
    BY <1>0, <2>1, <2>2, OneCallStutters
<1>2. CASE Succeeds(c) \/ Fails(c) \/ UnauthenticatedFinal(c)
  <2>1. /\ pc[c] = "sent" /\ pc'[c] \in Done
        /\ \A d \in Calls : d # c => pc'[d] = pc[d]
        /\ UNCHANGED <<guard, retried, attempts>>
    BY <1>0, <1>2 DEF Succeeds, Fails, UnauthenticatedFinal, Answer, TypeOK,
       guardVars, callVars, Done
  <2>2. Told' = Told
    BY <1>0, <2>1, Disjoint DEF Told, RequestHistory, Done
  <2>3. pc'[c] # "waiting"
    BY <2>1 DEF Done
  <2> QED
    BY <1>0, <2>1, <2>2, <2>3, OneCallStutters
<1>3. CASE Unauthenticated(c)
  <2>1. /\ pc[c] = "sent" /\ EnterGuard(c) /\ ~retried[c]
        /\ retried' = [retried EXCEPT ![c] = TRUE]
        /\ UNCHANGED attempts
    BY <1>3 DEF Unauthenticated, MayRefresh
  <2>2. pc'[c] = "waiting" /\ \A d \in Calls : d # c => pc'[d] = pc[d]
    BY <1>0, <2>1, EnterGuardWaits
  <2>3. Told' = Told
    BY <1>0, <2>1, <2>2, Disjoint DEF Told, RequestHistory, TypeOK
  <2> QED
    BY <1>0, <2>1, <2>3, EnterRefines
<1> QED
  BY <1>1, <1>2, <1>3

\* Every step of an oidcRefresh enters the guard or stutters.
LEMMA OidcRefines ==
    ASSUME TypeOK, GuardInv, NEW c \in OidcCalls,
           OidcLeads(c) \/ OidcJoins(c) \/ OidcDiscovered(c) \/ OidcDiscoveryFails(c)
    PROVE  Flight!FlightNext \/ UNCHANGED Flight!flightVars
<1>0. c \in Calls /\ c \in Guarded /\ c \notin Requests
  BY Disjoint DEF Guarded
<1>1. CASE EnterGuard(c) /\ (OidcLeads(c) \/ OidcDiscovered(c))
  <2>1. pc[c] # "waiting" /\ UNCHANGED <<attempts, retried>>
    BY <1>1 DEF OidcLeads, OidcDiscovered, callVars
  <2>2. \A d \in Calls : d # c => pc'[d] = pc[d]
    BY <1>0, <1>1, <2>1, EnterGuardWaits
  <2>3. Told' = Told
    BY <1>0, <2>1, <2>2, Disjoint DEF Told
  <2> QED
    BY <1>0, <1>1, <2>1, <2>3, EnterRefines
<1>2. CASE ~EnterGuard(c) \/ OidcJoins(c) \/ OidcDiscoveryFails(c)
  <2>1. /\ UNCHANGED <<guard, attempts, retried>>
        /\ \A d \in Calls : (pc'[d] = "waiting") <=> (pc[d] = "waiting")
        /\ \A d \in Requests : pc'[d] = pc[d]
    <3>1. CASE OidcLeads(c) /\ ~EnterGuard(c)
      BY <1>0, <3>1, Disjoint DEF OidcLeads, TypeOK, guardVars, callVars
    <3>2. CASE OidcJoins(c)
      BY <1>0, <3>2, Disjoint DEF OidcJoins, Answer, TypeOK, guardVars, callVars
    <3>3. CASE OidcDiscoveryFails(c)
      BY <1>0, <3>3, Disjoint
      DEF OidcDiscoveryFails, GuardInv, RequestHistory, TypeOK, guardVars, callVars, Done
    <3>4. CASE OidcDiscovered(c)
      BY <1>2, <3>2, <3>3, <3>4 DEF OidcDiscovered
    <3> QED
      BY <1>2, <3>1, <3>2, <3>3, <3>4
  <2>2. Waiting' = Waiting
    BY <2>1 DEF Waiting
  <2>3. Told' = Told
    BY <2>1, Disjoint DEF Told
  <2> QED
    BY <2>1, <2>2, <2>3 DEF Flight!flightVars
<1> QED
  BY <1>1, <1>2 DEF OidcLeads, OidcDiscovered

\* Every step of the session is a step of the abstract guard, or a stutter.
LEMMA FlightStep ==
    TypeOK /\ GuardInv /\ [Next]_vars => [Flight!FlightNext]_(Flight!flightVars)
<1> SUFFICES ASSUME TypeOK, GuardInv, [Next]_vars
             PROVE  Flight!FlightNext \/ UNCHANGED Flight!flightVars
  OBVIOUS
<1>1. CASE RunResolves \/ OidcRunResolves
  BY <1>1, SettleOkRefines DEF RunResolves, OidcRunResolves, CookieRun, OidcRun
<1>2. CASE RunRejects \/ OidcRunRejects
  BY <1>2, SettleFailRefines DEF RunRejects, OidcRunRejects, CookieRun, OidcRun
<1>3. CASE \/ \E c \in RefreshCalls : \/ RefreshCall(c) \/ RefreshLands(c)
                                      \/ RefreshReturns(c) \/ RefreshThrows(c)
           \/ \E c \in LoginCalls : \/ LoginCall(c) \/ LoginLands(c)
                                    \/ LoginReturns(c) \/ LoginThrows(c)
           \/ \E c \in LogoutCalls : LogoutCall(c) \/ LogoutLands(c) \/ LogoutReturns(c)
           \/ \E c \in DeviceCalls : DeviceCall(c) \/ DeviceReturns(c) \/ DeviceThrows(c)
  <2>1. /\ UNCHANGED <<guard, attempts, retried>>
        /\ \A d \in Guarded : pc'[d] = pc[d]
        /\ \A d \in Calls \ Guarded : pc'[d] # "waiting"
    BY <1>3, OutsideStepsGuard
  <2>2. Waiting' = Waiting
    BY <2>1, Disjoint DEF Waiting, GuardInv
  <2>3. Told' = Told
    BY <2>1 DEF Told, Guarded
  <2> QED
    BY <2>1, <2>2, <2>3 DEF Flight!flightVars
<1>4. CASE RunLands \/ Expire \/ UNCHANGED vars
  <2>1. UNCHANGED <<guard, pc, attempts, retried>>
    BY <1>4 DEF RunLands, Expire, vars, guardVars, callVars
  <2> QED
    BY <2>1 DEF Flight!flightVars, Waiting, Told
<1>5. CASE Invoke
  BY <1>3, <1>5, RequestRefines, OidcRefines DEF Invoke
<1>6. CASE RestAnswer
  BY <1>1, <1>2, <1>3, <1>4, <1>6, RequestRefines, OidcRefines DEF RestAnswer, Requests
<1>7. CASE GrpcAnswer
  BY <1>7, RequestRefines DEF GrpcAnswer, Requests
<1> QED
  BY <1>4, <1>5, <1>6, <1>7 DEF Next

\* The session implements the single-flight guard: for any number of calls,
\* concurrent 401s and UNAUTHENTICATEDs share one refresh and its outcome.
THEOREM GuardIsSingleFlight == Spec => SharesOneRefresh
<1>1. Init => Flight!FlightInit
  <2> SUFFICES ASSUME Init PROVE Flight!FlightInit
    OBVIOUS
  <2>1. Waiting = {}
    BY DEF Init, Waiting
  <2>2. Told = [c \in Requests |-> "none"]
    BY DEF Init, Told
  <2> QED
    BY <2>1, <2>2 DEF Init, Flight!FlightInit
<1> QED
  BY <1>1, FlightStep, TypeCorrect, GuardCorrect, PTL
  DEF Spec, SharesOneRefresh, Flight!FlightSpec
-------------------------------------------------------------------------------
(* The copies follow the jar *)

\* Whoever shares the guard, or none of the three kinds that set cookies, moves:
\* the copies and the jar stay, and a landed run is not displaced.
LEMMA BystanderCopies ==
  ASSUME CopiesInv, UNCHANGED <<csrf, cached, jar>>, torn => torn',
         UNCHANGED <<guard, phase>> \/ (guard = None /\ phase' = "posted"),
         \A c \in RefreshCalls \cup LoginCalls \cup LogoutCalls :
            pc[c] = "landed" => pc'[c] = "landed"
  PROVE  CopiesInv'
<1>1. phase' = "landed" => phase = "landed" /\ guard' = guard
  OBVIOUS
<1>2. phase = "landed" => phase' = "landed"
  BY DEF CopiesInv, CookieRun
<1>3. Syncing => Syncing'
  BY <1>2 DEF Syncing
<1> QED
  BY <1>1, <1>3 DEF CopiesInv, CookieRun

LEMMA GuardCopies ==
  ASSUME TypeOK, CopiesInv,
         RunLands \/ RunResolves \/ RunRejects \/ OidcRunResolves \/ OidcRunRejects
  PROVE  CopiesInv'
<1> DEFINE Outside == RefreshCalls \cup LoginCalls \cup LogoutCalls
<1>0. Outside \subseteq Calls /\ Outside \cap Guarded = {}
  BY Disjoint
<1>1. CASE RunLands
  BY <1>1 DEF RunLands, CopiesInv, CookieRun, Syncing
<1>2. CASE RunResolves
  BY <1>2 DEF RunResolves, ReleaseOk, CopiesInv
<1>3. CASE RunRejects \/ OidcRunRejects
  <2>1. phase = "landed" => torn'
    BY <1>3 DEF RunRejects, OidcRunRejects, CopiesInv, CookieRun, OidcRun
  <2>2. /\ phase' = "none" /\ csrf' \in {csrf, NoToken} /\ UNCHANGED <<cached, jar>>
        /\ \A c \in Calls : pc[c] = "landed" => pc'[c] = "landed"
        /\ torn => torn'
    BY <1>3 DEF RunRejects, OidcRunRejects, ReleaseFail
  <2>3. phase # "landed" /\ Syncing => Syncing'
    BY <1>0, <2>2 DEF Syncing
  <2>4. CASE phase = "landed"
    BY <2>1, <2>2, <2>4 DEF CopiesInv
  <2>5. CASE phase # "landed"
    BY <1>0, <2>2, <2>3, <2>5 DEF CopiesInv
  <2> QED
    BY <2>4, <2>5
<1>4. CASE OidcRunResolves
  <2>1. phase # "landed"
    BY <1>4 DEF OidcRunResolves, CopiesInv, CookieRun, OidcRun
  <2>2. /\ phase' # "landed" /\ UNCHANGED <<csrf, jar, torn>> /\ cached' \in {cached, jar}
    BY <1>4 DEF OidcRunResolves, ReleaseOk, histVars
  <2>3. \A c \in Outside : pc[c] = "landed" => pc'[c] = "landed"
    <3> SUFFICES ASSUME NEW c \in Outside, pc[c] = "landed" PROVE pc'[c] = "landed"
      OBVIOUS
    <3>1. c \in Calls /\ c \notin Requests /\ c \notin OidcCalls
      BY <1>0 DEF Guarded
    <3>2. ~(LeaderWaits /\ c = pending)
      BY DEF LeaderWaits
    <3> QED
      BY <1>4, <3>1, <3>2 DEF OidcRunResolves, ReleaseOk
  <2>4. Syncing => Syncing'
    BY <2>1, <2>3 DEF Syncing
  <2> QED
    BY <2>2, <2>3, <2>4 DEF CopiesInv
<1> QED
  BY <1>1, <1>2, <1>3, <1>4

\* An answer that sets cookies is followed by the continuation that copies them.
LEMMA OutsideCopies ==
  ASSUME TypeOK, CopiesInv,
         \/ \E c \in RefreshCalls : \/ RefreshCall(c) \/ RefreshLands(c)
                                    \/ RefreshReturns(c) \/ RefreshThrows(c)
         \/ \E c \in LoginCalls : \/ LoginCall(c) \/ LoginLands(c)
                                  \/ LoginReturns(c) \/ LoginThrows(c)
         \/ \E c \in LogoutCalls : LogoutCall(c) \/ LogoutLands(c) \/ LogoutReturns(c)
         \/ \E c \in DeviceCalls : DeviceCall(c) \/ DeviceReturns(c) \/ DeviceThrows(c)
  PROVE  CopiesInv'
<1> USE DEF guardVars, oidcVars, callVars, sesVars, histVars
<1>0. CASE \/ \E c \in RefreshCalls : RefreshThrows(c) /\ pc[c] = "landed"
           \/ \E c \in LoginCalls : LoginThrows(c) /\ pc[c] = "landed"
  BY <1>0 DEF RefreshThrows, LoginThrows, CopiesInv, CookieRun
<1>1. CASE \/ \E c \in RefreshCalls : RefreshCall(c) \/ (RefreshThrows(c) /\ pc[c] # "landed")
           \/ \E c \in LoginCalls : LoginCall(c) \/ (LoginThrows(c) /\ pc[c] # "landed")
           \/ \E c \in LogoutCalls : LogoutCall(c)
           \/ \E c \in DeviceCalls : DeviceCall(c) \/ DeviceReturns(c) \/ DeviceThrows(c)
  <2>1. UNCHANGED <<csrf, cached, jar, guard, phase>> /\ (torn => torn')
    BY <1>1 DEF RefreshCall, RefreshThrows, LoginCall, LoginThrows, LogoutCall, DeviceCall,
                DeviceReturns, DeviceThrows, Answer
  <2>2. \E c \in Calls, v \in PC : pc[c] # "landed" /\ pc' = [pc EXCEPT ![c] = v]
    BY <1>1, Disjoint DEF RefreshCall, RefreshThrows, LoginCall, LoginThrows, LogoutCall,
                DeviceCall, DeviceReturns, DeviceThrows, Answer, PC
  <2>3. \A c \in Calls : pc[c] = "landed" => pc'[c] = "landed"
    BY <2>2 DEF TypeOK
  <2> QED
    BY <2>1, <2>3, BystanderCopies, Disjoint
<1>2. CASE \/ \E c \in RefreshCalls : RefreshLands(c)
           \/ \E c \in LoginCalls : LoginLands(c)
  <2>1. Syncing'
    BY <1>2, Disjoint DEF RefreshLands, LoginLands, Syncing, TypeOK
  <2>2. UNCHANGED <<guard, phase>>
    BY <1>2 DEF RefreshLands, LoginLands
  <2> QED
    BY <2>1, <2>2 DEF CopiesInv, CookieRun
<1>3. CASE \/ \E c \in RefreshCalls : RefreshReturns(c)
           \/ \E c \in LoginCalls : LoginReturns(c)
  BY <1>3 DEF RefreshReturns, LoginReturns, CopiesInv, CookieRun
<1>4. ASSUME NEW c \in LogoutCalls, LogoutLands(c) \/ LogoutReturns(c) PROVE CopiesInv'
  <2>0. c \in Calls /\ c \notin RefreshCalls \cup LoginCalls
    BY SessionAssumption, Disjoint
  <2>1. UNCHANGED <<guard, phase, cached, torn>> /\ \E v \in PC : pc' = [pc EXCEPT ![c] = v]
    BY <1>4 DEF LogoutLands, LogoutReturns, PC
  <2>2. \A d \in RefreshCalls \cup LoginCalls : pc'[d] = pc[d]
    BY <2>0, <2>1, Disjoint DEF TypeOK
  <2>3. Syncing' = Syncing
    BY <2>1, <2>2 DEF Syncing
  <2>4. CASE LogoutReturns(c)
    BY <2>1, <2>3, <2>4 DEF LogoutReturns, CopiesInv, CookieRun
  <2>5. CASE LogoutLands(c)
    <3>1. jar' \in {jar, NoToken} /\ pc'[c] = "landed"
      BY <2>0, <2>5 DEF LogoutLands, TypeOK
    <3> QED
      BY <2>1, <2>3, <3>1 DEF CopiesInv, CookieRun
  <2> QED
    BY <1>4, <2>4, <2>5
<1> QED
  BY <1>0, <1>1, <1>2, <1>3, <1>4

LEMMA CopiesStep == TypeOK /\ CopiesInv /\ [Next]_vars => CopiesInv'
<1> SUFFICES ASSUME TypeOK, CopiesInv, [Next]_vars PROVE CopiesInv'
  OBVIOUS
<1> USE DEF guardVars, oidcVars, callVars, sesVars, histVars
<1>1. ASSUME NEW c \in Guarded,
             \/ c \in Requests /\ (Send(c) \/ Succeeds(c) \/ Fails(c) \/ Unauthenticated(c)
                                     \/ UnauthenticatedFinal(c))
             \/ c \in OidcCalls /\ (OidcLeads(c) \/ OidcJoins(c) \/ OidcDiscovered(c)
                                     \/ OidcDiscoveryFails(c))
      PROVE  CopiesInv'
  <2>1. UNCHANGED <<csrf, cached, jar, torn>>
    BY <1>1 DEF Send, Succeeds, Fails, Unauthenticated, UnauthenticatedFinal, Answer, OidcLeads,
                OidcJoins, OidcDiscovered, OidcDiscoveryFails
  <2>2. UNCHANGED <<guard, phase>> \/ (guard = None /\ phase' = "posted")
    BY <1>1 DEF Send, Succeeds, Fails, Unauthenticated, UnauthenticatedFinal, Answer, OidcLeads,
                OidcJoins, OidcDiscovered, OidcDiscoveryFails, EnterGuard
  <2>3. \A d \in RefreshCalls \cup LoginCalls \cup LogoutCalls :
           pc[d] = "landed" => pc'[d] = "landed"
    <3> SUFFICES ASSUME NEW d \in RefreshCalls \cup LoginCalls \cup LogoutCalls,
                        pc[d] = "landed"
                 PROVE  pc'[d] = "landed"
      OBVIOUS
    <3>1. d \in Calls /\ d # c
      BY Disjoint
    <3> QED
      BY <1>1, <3>1 DEF Send, Succeeds, Fails, Unauthenticated, UnauthenticatedFinal, Answer,
                OidcLeads, OidcJoins, OidcDiscovered, OidcDiscoveryFails, EnterGuard, TypeOK
  <2> QED
    BY <2>1, <2>2, <2>3, BystanderCopies
<1>2. CASE Invoke
  BY <1>1, <1>2, OutsideCopies DEF Invoke, Guarded
<1>3. CASE RestAnswer
  BY <1>1, <1>3, GuardCopies, OutsideCopies DEF RestAnswer, Requests, Guarded
<1>4. CASE GrpcAnswer
  BY <1>1, <1>4 DEF GrpcAnswer, Requests, Guarded
<1>5. CASE Expire \/ UNCHANGED vars
  BY <1>5, BystanderCopies DEF Expire, vars
<1> QED
  BY <1>2, <1>3, <1>4, <1>5 DEF Next

\* Once every answer that set cookies has been processed the copies are the jar's,
\* whatever order logins, refreshes and logouts were answered in (onAuthenticated,
\* doRefresh).
THEOREM CopiesCorrect == Spec => []CopiesFollowJar
<1>1. Init => CopiesInv
  BY DEF Init, CopiesInv
<1>2. TypeOK /\ CopiesInv => CopiesFollowJar
  BY Disjoint DEF CopiesInv, CopiesFollowJar, JarSettled, Syncing
<1> QED
  BY <1>1, <1>2, CopiesStep, TypeCorrect, PTL DEF Spec

-------------------------------------------------------------------------------
(* Whose tokens oidcRefresh returns *)

\* oidcRefresh returns only off a run of its own, however cookie refreshes and other
\* oidcRefreshes share the guard (refreshUnderGuard).
THEOREM OwnTokens == Spec => OidcReturnsItsOwnTokens
<1>1. TypeOK /\ [Next]_vars =>
        [\A c \in OidcCalls : (pc[c] # "ok" /\ pc'[c] = "ok") => OidcRun /\ guard = pending]_vars
  <2> SUFFICES ASSUME TypeOK, Next, NEW c \in OidcCalls, pc[c] # "ok", pc'[c] = "ok"
               PROVE  OidcRun /\ guard = pending
    OBVIOUS
  <2>0. c \in Calls /\ c \notin Requests
    BY Disjoint
  <2>1. ReleaseOk
    <3>1. ASSUME NEW d \in Calls \ {c}, NEW v \in PC, pc' = [pc EXCEPT ![d] = v] PROVE FALSE
      BY <2>0, <3>1 DEF TypeOK
    <3>2. ASSUME NEW d \in Requests,
                 Send(d) \/ Succeeds(d) \/ Fails(d) \/ Unauthenticated(d)
                         \/ UnauthenticatedFinal(d)
          PROVE  FALSE
      BY <2>0, <3>1, <3>2, Disjoint
      DEF Send, Succeeds, Fails, Unauthenticated, UnauthenticatedFinal, Answer, EnterGuard, PC
    <3>3. ASSUME NEW d \in OidcCalls,
                 OidcLeads(d) \/ OidcJoins(d) \/ OidcDiscovered(d) \/ OidcDiscoveryFails(d)
          PROVE  FALSE
      BY <2>0, <3>3, Disjoint
      DEF OidcLeads, OidcJoins, OidcDiscovered, OidcDiscoveryFails, Answer, EnterGuard, TypeOK
    <3>4. ASSUME NEW d \in RefreshCalls, \/ RefreshCall(d) \/ RefreshLands(d)
                                         \/ RefreshReturns(d) \/ RefreshThrows(d)
          PROVE  FALSE
      BY <3>1, <3>4, SessionAssumption, Disjoint
      DEF RefreshCall, RefreshLands, RefreshReturns, RefreshThrows, PC
    <3>5. ASSUME NEW d \in LoginCalls, \/ LoginCall(d) \/ LoginLands(d)
                                       \/ LoginReturns(d) \/ LoginThrows(d)
          PROVE  FALSE
      BY <3>1, <3>5, Disjoint DEF LoginCall, LoginLands, LoginReturns, LoginThrows, Answer, PC, Guarded
    <3>6. ASSUME NEW d \in LogoutCalls, LogoutCall(d) \/ LogoutLands(d) \/ LogoutReturns(d)
          PROVE  FALSE
      BY <3>1, <3>6, Disjoint DEF LogoutCall, LogoutLands, LogoutReturns, PC, Guarded
    <3>7. ASSUME NEW d \in DeviceCalls, DeviceCall(d) \/ DeviceReturns(d) \/ DeviceThrows(d)
          PROVE  FALSE
      BY <3>1, <3>7, Disjoint DEF DeviceCall, DeviceReturns, DeviceThrows, PC, Guarded
    <3>8. ~RunLands /\ ~RunRejects /\ ~OidcRunRejects /\ ~Expire
      BY <2>0 DEF RunLands, RunRejects, OidcRunRejects, ReleaseFail, Expire
    <3> QED
      BY <3>2, <3>3, <3>4, <3>5, <3>6, <3>7, <3>8
      DEF Next, Invoke, RestAnswer, GrpcAnswer, Requests, RunResolves, OidcRunResolves
  <2>2. LeaderWaits /\ LeaderAfterOk = "ok"
    BY <2>0, <2>1 DEF ReleaseOk
  <2>3. pending = guard
    BY <2>2 DEF LeaderAfterOk
  <2> QED
    BY <2>2, <2>3 DEF LeaderWaits, OidcRun, TypeOK
<1> QED
  BY <1>1, TypeCorrect, PTL DEF Spec, OidcReturnsItsOwnTokens
-------------------------------------------------------------------------------
(* A burst keeps the session *)

\* What a free guard presents is the jar's token, and a run that resolves leaves no
\* cookie run behind.
LEMMA RunsOfCookies ==
  ASSUME TypeOK
  PROVE  /\ \A c \in Guarded : EnterGuard(c) =>
              /\ UNCHANGED <<guard, phase, runTok, shown>> \/ guard = None
              /\ guard = None /\ c \notin OidcCalls =>
                   phase' = "posted" /\ runTok' = RefreshCookie /\ shown' = shown \cup {runTok'}
              /\ guard = None /\ c \in OidcCalls =>
                   guard' = c /\ runTok' = NoToken /\ shown' = shown \cup {NoToken}
         /\ ReleaseOk => ~CookieRun'
         /\ ReleaseFail => ~CookieRun'
<1>1. \A c \in Guarded : EnterGuard(c) =>
        /\ UNCHANGED <<guard, phase, runTok, shown>> \/ guard = None
        /\ guard = None /\ c \notin OidcCalls =>
             phase' = "posted" /\ runTok' = RefreshCookie /\ shown' = shown \cup {runTok'}
        /\ guard = None /\ c \in OidcCalls =>
             guard' = c /\ runTok' = NoToken /\ shown' = shown \cup {NoToken}
  BY DEF EnterGuard, guardVars
<1>2. ReleaseOk => ~CookieRun'
  BY DEF ReleaseOk, CookieRun, LeaderRestarts, LeaderWaits, TypeOK
<1>3. ReleaseFail => ~CookieRun'
  BY DEF ReleaseFail, CookieRun
<1> QED
  BY <1>1, <1>2, <1>3

\* A refresh that is accepted leaves the session at the token it answers with.
LEMMA RotateRedeems ==
  ASSUME TypeOK, NEW t \in Token, Rotate(t), jar' = Successor(t)
  PROVE  Redeemable(jar)'
<1>1. t.s \in Sessions /\ live' = [live EXCEPT ![t.s] = t.n + 1]
  BY DEF Rotate, Redeemable
<1>2. jar'.s = t.s /\ jar'.n = t.n + 1
  BY DEF Successor
<1>3. live'[t.s] = t.n + 1
  BY <1>1 DEF TypeOK, ServerTypeOK
<1> QED
  BY <1>1, <1>2, <1>3 DEF Redeemable

LEMMA KeptStep ==
  ASSUME SessionStays, TypeOK, GuardInv, KeptInv, [Next]_vars
  PROVE  KeptInv'
<1> USE DEF guardVars, oidcVars, callVars, sesVars, serverVars, histVars
<1>1. ASSUME NEW c \in Guarded,
             UNCHANGED <<risked, auth, device, jar, live>>,
             UNCHANGED <<guard, phase, runTok>> \/ EnterGuard(c),
             \A d \in RefreshCalls : pc'[d] = pc[d]
      PROVE  KeptInv'
  <2>1. Redeemable(jar)' = Redeemable(jar)
    BY <1>1 DEF Redeemable
  <2>2. CASE UNCHANGED <<guard, phase, runTok>>
    BY <1>1, <2>1, <2>2 DEF KeptInv, CookieRun
  <2>3. CASE EnterGuard(c) /\ guard = None /\ c \notin OidcCalls
    BY <1>1, <2>1, <2>3, RunsOfCookies DEF KeptInv, RefreshCookie
  <2>4. CASE EnterGuard(c) /\ guard = None /\ c \in OidcCalls
    BY <1>1, <2>1, <2>4, RunsOfCookies DEF KeptInv, CookieRun
  <2> QED
    BY <1>1, <2>2, <2>3, <2>4, RunsOfCookies
<1>2. ASSUME NEW c \in Requests,
             Send(c) \/ Succeeds(c) \/ Fails(c) \/ Unauthenticated(c) \/ UnauthenticatedFinal(c)
      PROVE  KeptInv'
  <2>1. UNCHANGED <<risked, auth, device, jar, live>>
    BY <1>2 DEF Send, Succeeds, Fails, Unauthenticated, UnauthenticatedFinal, Answer
  <2>2. UNCHANGED <<guard, phase, runTok>> \/ EnterGuard(c)
    BY <1>2 DEF Send, Succeeds, Fails, Unauthenticated, UnauthenticatedFinal, Answer
  <2>3. \A d \in RefreshCalls : pc'[d] = pc[d]
    BY <1>2, Disjoint
    DEF Send, Succeeds, Fails, Unauthenticated, UnauthenticatedFinal, Answer, EnterGuard, TypeOK, Guarded
  <2> QED
    BY <1>1, <2>1, <2>2, <2>3 DEF Guarded
<1>3. ASSUME NEW c \in OidcCalls,
             OidcLeads(c) \/ OidcJoins(c) \/ OidcDiscovered(c) \/ OidcDiscoveryFails(c)
      PROVE  KeptInv'
  <2>1. UNCHANGED <<risked, auth, device, jar, live>>
    BY <1>3 DEF OidcLeads, OidcJoins, OidcDiscovered, OidcDiscoveryFails, Answer
  <2>2. UNCHANGED <<guard, phase, runTok>> \/ EnterGuard(c)
    BY <1>3 DEF OidcLeads, OidcJoins, OidcDiscovered, OidcDiscoveryFails, Answer
  <2>3. \A d \in RefreshCalls : pc'[d] = pc[d]
    BY <1>3, Disjoint DEF OidcLeads, OidcJoins, OidcDiscovered, OidcDiscoveryFails, Answer,
                          EnterGuard, TypeOK, Guarded, GuardInv, OneOidcLeader
  <2> QED
    BY <1>1, <2>1, <2>2, <2>3 DEF Guarded
<1>4. CASE RunLands
  <2>1. Rotate(runTok) /\ jar' = Successor(runTok) /\ phase' = "landed"
        /\ UNCHANGED <<risked, auth, device, guard>>
    BY <1>4 DEF RunLands
  <2>2. Redeemable(jar)'
    BY <2>1, RotateRedeems DEF TypeOK
  <2> QED
    BY <1>4, <2>1, <2>2 DEF RunLands, KeptInv
<1>5. CASE RunResolves \/ OidcRunResolves
  <2>1. ~CookieRun' /\ UNCHANGED <<risked, auth, device, jar, live>>
    BY <1>5, RunsOfCookies DEF RunResolves, OidcRunResolves
  <2>2. \A d \in RefreshCalls : pc[d] = "idle" => pc'[d] = "idle"
    <3> SUFFICES ASSUME NEW d \in RefreshCalls, pc[d] = "idle" PROVE pc'[d] = "idle"
      OBVIOUS
    <3>1. d \in Calls /\ d \notin Requests /\ d \notin OidcCalls
      BY Disjoint DEF Guarded
    <3>2. ~(LeaderWaits /\ d = pending)
      BY DEF LeaderWaits
    <3> QED
      BY <1>5, <3>1, <3>2 DEF RunResolves, OidcRunResolves, ReleaseOk
  <2> QED
    BY <2>1, <2>2 DEF KeptInv, Redeemable
<1>6. CASE RunRejects
  <2>1. risked' \/ (~Redeemable(runTok) /\ CookieRun /\ phase = "posted" /\ UNCHANGED risked)
    BY <1>6 DEF RunRejects
  <2> QED
    BY <2>1 DEF KeptInv
<1>7. CASE OidcRunRejects
  BY <1>7 DEF OidcRunRejects, KeptInv
<1>8. ASSUME NEW c \in RefreshCalls, \/ RefreshCall(c) \/ RefreshLands(c)
                                     \/ RefreshReturns(c) \/ RefreshThrows(c)
      PROVE  KeptInv'
  <2>1. RefreshCall(c) \/ pc[c] # "idle"
    BY <1>8 DEF RefreshLands, RefreshReturns, RefreshThrows
  <2>2. risked'
    BY <1>8, <2>1 DEF RefreshCall, RefreshLands, RefreshReturns, RefreshThrows, KeptInv
  <2> QED
    BY <2>2 DEF KeptInv
<1>9. CASE Expire \/ UNCHANGED vars
  <2>1. UNCHANGED <<risked, auth, device, jar, live, guard, phase, runTok, pc>>
    BY <1>9 DEF Expire, ExpireAccess, vars
  <2> QED
    BY <2>1 DEF KeptInv, Redeemable, CookieRun
<1> QED
  BY <1>2, <1>3, <1>4, <1>5, <1>6, <1>7, <1>8, <1>9
  DEF Next, Invoke, RestAnswer, GrpcAnswer, Requests, SessionStays

\* However many requests, RPCs and oidcRefreshes expire at once, and in whatever
\* order their 401s and the refreshes' answers come, the client stays logged in with
\* a token the server redeems, as long as no refresh loses its answer, no oidcRefresh
\* fails and the application does not call refresh() (section 9 rule 2).
THEOREM BurstKeepsSession == SessionStays => (Spec => []SessionKept)
<1> SUFFICES ASSUME SessionStays PROVE Spec => []SessionKept
  OBVIOUS
<1>1. Init => KeptInv
  <2> SUFFICES ASSUME Init, ~risked
               PROVE  /\ auth /\ device = None /\ Redeemable(jar) /\ ~CookieRun
                      /\ \A c \in RefreshCalls : pc[c] = "idle"
    BY DEF KeptInv
  <2>1. PICK tok \in {NoToken, [s |-> Boot, n |-> 1]} :
           /\ jar = tok /\ auth = (tok # NoToken) /\ risked = (tok = NoToken)
           /\ live = [s \in Sessions |-> IF s = tok.s THEN 1 ELSE 0]
    BY DEF Init
  <2>2. tok = [s |-> Boot, n |-> 1] /\ tok # NoToken
    BY <2>1
  <2> QED
    BY <2>1, <2>2, Disjoint DEF Init, Redeemable, Sessions, CookieRun
<1>2. KeptInv => SessionKept
  BY DEF KeptInv, SessionKept
<1>3. TypeOK /\ GuardInv /\ KeptInv /\ [Next]_vars => KeptInv'
  BY KeptStep
<1> QED
  BY <1>1, <1>2, <1>3, TypeCorrect, GuardCorrect, PTL DEF Spec
-------------------------------------------------------------------------------
(* Spent tokens stay off the wire *)

\* What the refresh that a step may start for a request presents.
Unspent == (guard = None /\ guard' \in Requests /\ auth) => runTok' \notin shown \ {NoToken}

\* Nothing of the session or of the run under way changes, and no explicit
\* refresh goes out.
LEMMA SpentStutters ==
  ASSUME SpentInv, UNCHANGED <<device, guard, phase, runTok, jar, live, shown, auth>>,
         \A c \in RefreshCalls : pc'[c] = "posted" => pc[c] = "posted" /\ wire'[c] = wire[c]
  PROVE  SpentInv' /\ Unspent
<1>1. Unspent
  BY Disjoint DEF Unspent, Guarded
<1>2. \A c \in RefreshCalls : pc'[c] = "posted" => wire'[c].tok.s = jar'.s
  BY DEF SpentInv
<1> QED
  BY <1>1, <1>2 DEF SpentInv, CookieRun

\* A call enters the guard: a free one starts a run, which presents the jar's
\* token or, for an oidcRefresh, none.
LEMMA SpentEnter ==
  ASSUME TypeOK, SpentInv, NEW c \in Guarded, EnterGuard(c),
         UNCHANGED <<device, jar, live, auth>>,
         \A d \in RefreshCalls : pc'[d] = pc[d] /\ wire'[d] = wire[d]
  PROVE  SpentInv' /\ Unspent
<1>1. CASE guard # None
  <2>1. UNCHANGED <<guard, phase, runTok, shown>>
    BY <1>1 DEF EnterGuard, guardVars
  <2> QED
    BY <2>1, SpentStutters
<1>2. CASE guard = None /\ c \in OidcCalls
  <2>1. guard' = c /\ shown' = shown \cup {NoToken} /\ ~CookieRun /\ ~CookieRun'
    BY <1>2, RunsOfCookies DEF CookieRun
  <2>2. shown' \ {NoToken} = shown \ {NoToken}
    BY <2>1
  <2>3. Unspent
    BY <1>2, <2>1, Disjoint DEF Unspent
  <2> QED
    BY <2>1, <2>2, <2>3 DEF SpentInv
<1>3. CASE guard = None /\ c \notin OidcCalls
  <2>1. /\ guard' = c /\ phase' = "posted" /\ runTok' = jar /\ shown' = shown \cup {jar}
        /\ ~CookieRun /\ CookieRun'
    BY <1>3, Disjoint DEF EnterGuard, RefreshCookie, SpentInv, CookieRun
  <2>2. jar.n \in Nat
    BY DEF TypeOK, Token, NoToken
  <2>3. \A t \in shown' \ {NoToken} : t.s = jar.s /\ t.n <= jar.n
    BY <2>1, <2>2 DEF SpentInv
  <2>4. Unspent
    BY <2>1 DEF SpentInv, Unspent
  <2> QED
    BY <2>1, <2>3, <2>4 DEF SpentInv
<1> QED
  BY <1>1, <1>2, <1>3

\* A step of a request or an oidcRefresh enters the guard or leaves the session
\* and its run alone.
LEMMA SpentGuarded ==
  ASSUME TypeOK, SpentInv, NEW c \in Guarded,
         \/ c \in Requests /\ (Send(c) \/ Succeeds(c) \/ Fails(c) \/ Unauthenticated(c)
                                 \/ UnauthenticatedFinal(c))
         \/ c \in OidcCalls /\ (OidcLeads(c) \/ OidcJoins(c) \/ OidcDiscovered(c)
                                 \/ OidcDiscoveryFails(c))
  PROVE  SpentInv' /\ Unspent
<1> USE DEF guardVars, oidcVars, callVars, sesVars, serverVars, histVars
<1>1. UNCHANGED <<device, jar, live, auth>>
  BY DEF Send, Succeeds, Fails, Unauthenticated, UnauthenticatedFinal, Answer, OidcLeads,
         OidcJoins, OidcDiscovered, OidcDiscoveryFails
<1>2. UNCHANGED <<guard, phase, runTok, shown>> \/ EnterGuard(c)
  BY DEF Send, Succeeds, Fails, Unauthenticated, UnauthenticatedFinal, Answer, OidcLeads,
         OidcJoins, OidcDiscovered, OidcDiscoveryFails
<1>3. ASSUME NEW d \in RefreshCalls
      PROVE  wire'[d] = wire[d] /\ (pc'[d] = pc[d] \/ (pc'[d] = "failed" /\ pc[d] = "joined"))
  <2>1. /\ c \in Calls /\ d \in Calls /\ d # c /\ d \notin Guarded
        /\ pc \in [Calls -> PC] /\ wire \in [Calls -> Wire]
    BY Disjoint DEF TypeOK
  <2>2. \/ wire' = wire
        \/ \E w : wire' = [wire EXCEPT ![c] = w]
    BY DEF Send, Succeeds, Fails, Unauthenticated, UnauthenticatedFinal, Answer, OidcLeads,
           OidcJoins, OidcDiscovered, OidcDiscoveryFails
  <2>3. wire'[d] = wire[d]
    BY <2>1, <2>2
  <2>4. \/ \E r : pc' = [pc EXCEPT ![c] = r]
        \/ pc' = [e \in Calls |-> IF e = c \/ pc[e] = "joined" THEN "failed" ELSE pc[e]]
    BY DEF Send, Succeeds, Fails, Unauthenticated, UnauthenticatedFinal, Answer, OidcLeads,
           OidcJoins, OidcDiscovered, OidcDiscoveryFails, EnterGuard
  <2>5. pc'[d] = pc[d] \/ (pc'[d] = "failed" /\ pc[d] = "joined")
    <3>1. CASE \E r : pc' = [pc EXCEPT ![c] = r]
      BY <2>1, <3>1
    <3>2. CASE pc' = [e \in Calls |-> IF e = c \/ pc[e] = "joined" THEN "failed" ELSE pc[e]]
      <4>1. pc'[d] = IF pc[d] = "joined" THEN "failed" ELSE pc[d]
        BY <2>1, <3>2
      <4> QED
        BY <4>1
    <3> QED
      BY <2>4, <3>1, <3>2
  <2> QED
    BY <2>3, <2>5
<1>4. CASE UNCHANGED <<guard, phase, runTok, shown>>
  BY <1>1, <1>3, <1>4, SpentStutters
<1>5. CASE EnterGuard(c)
  <2>1. \A d \in RefreshCalls : pc'[d] = pc[d] /\ wire'[d] = wire[d]
    BY <1>3, <1>5, Disjoint DEF EnterGuard, TypeOK
  <2> QED
    BY <1>1, <1>5, <2>1, SpentEnter
<1> QED
  BY <1>2, <1>4, <1>5

\* What a refresh that the server accepts sets is ahead of everything presented.
LEMMA SpentLands ==
  ASSUME TypeOK, SpentInv, NEW t \in Token, t.s = jar.s, Rotate(t), jar' = Successor(t),
         UNCHANGED <<device, shown, guard, runTok>>,
         phase' = "landed" \/ UNCHANGED phase,
         \A c \in RefreshCalls : pc'[c] = "posted" => pc[c] = "posted" /\ wire'[c] = wire[c]
  PROVE  SpentInv' /\ Unspent
<1>1. /\ t.s \in Sessions /\ live[t.s] = t.n /\ t.n \in Nat
      /\ live' = [live EXCEPT ![t.s] = t.n + 1]
      /\ jar'.s = jar.s /\ jar'.n = t.n + 1
  BY DEF Rotate, Redeemable, Successor, Token, NoToken
<1>2. jar # NoToken /\ jar.n <= t.n /\ jar.n \in Nat
  BY <1>1, ServerAssumption DEF SpentInv, TypeOK, Token, NoToken, Sessions
<1>3. live'[jar'.s] = jar'.n
  BY <1>1 DEF TypeOK, ServerTypeOK
<1>4. \A u \in shown \ {NoToken} : u.s = jar.s /\ u.n <= jar.n /\ u.n \in Nat
  BY DEF SpentInv, TypeOK, Token
<1>5. /\ \A u \in shown' \ {NoToken} : u.s = jar'.s /\ u.n <= jar'.n
      /\ jar' \notin shown' \ {NoToken}
  BY <1>1, <1>2, <1>4
<1>6. Unspent
  BY Disjoint DEF Unspent, Guarded
<1> QED
  BY <1>1, <1>3, <1>5, <1>6 DEF SpentInv, CookieRun

LEMMA SpentRun ==
  ASSUME TypeOK, GuardInv, SpentInv,
         RunLands \/ RunResolves \/ RunRejects \/ OidcRunResolves \/ OidcRunRejects
  PROVE  SpentInv' /\ Unspent
<1>1. guard # None
  BY DEF RunLands, RunResolves, RunRejects, OidcRunResolves, OidcRunRejects, CookieRun, OidcRun
<1>2. Unspent
  BY <1>1 DEF Unspent
<1>3. CASE RunLands
  BY <1>3, SpentLands DEF RunLands, SpentInv, TypeOK, histVars, callVars
<1>4. CASE RunResolves \/ OidcRunResolves \/ RunRejects \/ OidcRunRejects
  <2>1. ~CookieRun' /\ UNCHANGED <<device, jar>> /\ shown' \subseteq shown
    BY <1>4, RunsOfCookies
    DEF RunResolves, OidcRunResolves, RunRejects, OidcRunRejects, ReleaseFail, histVars
  <2>2. jar # NoToken => jar.n <= live'[jar.s]
    <3>1. CASE RunResolves \/ OidcRunResolves \/ OidcRunRejects \/ UNCHANGED serverVars
      BY <3>1 DEF RunResolves, OidcRunResolves, OidcRunRejects, serverVars, SpentInv
    <3>2. CASE Rotate(runTok) /\ CookieRun /\ phase = "posted"
      <4>1. runTok.s = jar.s /\ runTok.s \in Sessions /\ live[jar.s] = runTok.n /\ runTok.n \in Nat
        BY <3>2 DEF SpentInv, Rotate, Redeemable, TypeOK, Token, NoToken
      <4>2. live'[jar.s] = live[jar.s] + 1
        BY <3>2, <4>1 DEF Rotate, TypeOK, ServerTypeOK
      <4>3. jar.n \in Nat
        BY DEF TypeOK, Token, NoToken
      <4> QED
        BY <4>1, <4>2, <4>3 DEF SpentInv
    <3> QED
      BY <1>4, <3>1, <3>2 DEF RunRejects
  <2>3. \A c \in RefreshCalls : pc'[c] = "posted" => wire'[c].tok.s = jar.s
    <3> SUFFICES ASSUME NEW c \in RefreshCalls, pc'[c] = "posted"
                 PROVE  pc[c] = "posted" /\ wire'[c] = wire[c]
      BY DEF SpentInv
    <3>1. c \in Calls /\ c \notin Requests /\ c \notin OidcCalls /\ c \notin RestCalls /\ c \notin GrpcCalls
      BY Disjoint DEF Guarded, Requests
    <3>2. CASE RunResolves \/ OidcRunResolves
      BY <3>1, <3>2 DEF RunResolves, OidcRunResolves, ReleaseOk, LeaderAfterOk, LeaderWaits
    <3>3. CASE RunRejects \/ OidcRunRejects
      BY <3>1, <3>3 DEF RunRejects, OidcRunRejects, ReleaseFail, callVars
    <3> QED
      BY <1>4, <3>2, <3>3
  <2>4. jar \in shown' \ {NoToken} => ~auth'
    <3>1. CASE RunResolves \/ OidcRunResolves \/ OidcRunRejects
      <4>1. ~(CookieRun /\ phase = "posted")
        BY <3>1 DEF RunResolves, OidcRunResolves, OidcRunRejects, OidcRun, CookieRun
      <4> QED
        BY <3>1, <4>1, <2>1 DEF RunResolves, OidcRunResolves, OidcRunRejects, ReleaseFail, SpentInv
    <3>2. CASE RunRejects /\ \E c \in RestCalls : pc[c] = "waiting"
      BY <3>2 DEF RunRejects, ReleaseFail
    <3>3. CASE RunRejects /\ ~\E c \in RestCalls : pc[c] = "waiting"
      <4>1. shown' = shown \ {runTok} /\ auth' = auth
        BY <3>3 DEF RunRejects, ReleaseFail
      <4> QED
        BY <4>1 DEF SpentInv
    <3> QED
      BY <1>4, <3>1, <3>2, <3>3
  <2> QED
    BY <1>2, <2>1, <2>2, <2>3, <2>4 DEF SpentInv
<1> QED
  BY <1>3, <1>4

\* The application's own refresh() presents the jar's token.
LEMMA SpentRefresh ==
  ASSUME TypeOK, SpentInv, NEW c \in RefreshCalls,
         RefreshCall(c) \/ RefreshLands(c) \/ RefreshReturns(c) \/ RefreshThrows(c)
  PROVE  SpentInv' /\ Unspent
<1> USE DEF guardVars, sesVars
<1>0. c \in Calls
  BY Disjoint
<1>1. CASE RefreshCall(c)
  <2>1. UNCHANGED <<device, guard, phase, runTok, jar, live, shown, auth>>
    BY <1>1 DEF RefreshCall, serverVars
  <2>2. \A d \in RefreshCalls : pc'[d] = "posted" => wire'[d].tok.s = jar.s
    <3> SUFFICES ASSUME NEW d \in RefreshCalls, pc'[d] = "posted" PROVE wire'[d].tok.s = jar.s
      OBVIOUS
    <3>1. d \in Calls
      BY Disjoint
    <3>2. CASE d = c
      <4>1. wire'[d] = RefreshWire
        BY <1>0, <1>1, <3>2 DEF RefreshCall, TypeOK
      <4> QED
        BY <4>1 DEF RefreshWire, RefreshCookie, SpentInv
    <3>3. CASE d # c
      BY <1>0, <1>1, <3>1, <3>3 DEF RefreshCall, TypeOK, SpentInv
    <3> QED
      BY <3>2, <3>3
  <2>3. Unspent
    BY <2>1, Disjoint DEF Unspent, Guarded
  <2> QED
    BY <2>1, <2>2, <2>3 DEF SpentInv, CookieRun
<1>2. ASSUME pc'[c] # "posted", \A d \in Calls : d # c => pc'[d] = pc[d] /\ wire'[d] = wire[d]
      PROVE  \A d \in RefreshCalls : pc'[d] = "posted" => pc[d] = "posted" /\ wire'[d] = wire[d]
  BY <1>2, Disjoint
<1>3. CASE RefreshLands(c)
  <2>1. wire[c].tok \in Token /\ wire[c].tok.s = jar.s
    BY <1>0, <1>3 DEF RefreshLands, TypeOK, Wire, SpentInv
  <2>2. \A d \in RefreshCalls : pc'[d] = "posted" => pc[d] = "posted" /\ wire'[d] = wire[d]
    BY <1>0, <1>2, <1>3 DEF RefreshLands, TypeOK, callVars
  <2> QED
    BY <1>3, <2>1, <2>2, SpentLands DEF RefreshLands, histVars
<1>4. CASE RefreshReturns(c) \/ RefreshThrows(c)
  <2>1. UNCHANGED <<device, guard, phase, runTok, jar, shown, auth>>
    BY <1>4 DEF RefreshReturns, RefreshThrows
  <2>2. \A d \in RefreshCalls : pc'[d] = "posted" => pc[d] = "posted" /\ wire'[d] = wire[d]
    BY <1>0, <1>2, <1>4 DEF RefreshReturns, RefreshThrows, TypeOK
  <2>3. jar # NoToken => jar.n <= live'[jar.s]
    <3>1. CASE UNCHANGED live
      BY <3>1 DEF SpentInv
    <3>2. CASE pc[c] = "posted" /\ Rotate(wire[c].tok)
      <4>1. wire[c].tok \in Token /\ wire[c].tok.s = jar.s
        BY <1>0, <3>2 DEF TypeOK, Wire, SpentInv
      <4>2. jar.s \in Sessions /\ live[jar.s] = wire[c].tok.n /\ wire[c].tok.n \in Nat
        BY <3>2, <4>1 DEF Rotate, Redeemable, Token, NoToken
      <4>3. live'[jar.s] = live[jar.s] + 1
        BY <3>2, <4>1, <4>2 DEF Rotate, TypeOK, ServerTypeOK
      <4>4. jar.n \in Nat
        BY DEF TypeOK, Token, NoToken
      <4> QED
        BY <4>2, <4>3, <4>4 DEF SpentInv
    <3> QED
      BY <1>4, <3>1, <3>2 DEF RefreshReturns, RefreshThrows, serverVars
  <2>4. Unspent
    BY <2>1, Disjoint DEF Unspent, Guarded
  <2> QED
    BY <2>1, <2>2, <2>3, <2>4 DEF SpentInv, CookieRun
<1> QED
  BY <1>1, <1>3, <1>4

LEMMA SpentStep ==
  ASSUME SessionStays, TypeOK, GuardInv, SpentInv, [Next]_vars
  PROVE  SpentInv' /\ Unspent
<1>1. CASE Expire \/ UNCHANGED vars
  BY <1>1, SpentStutters
  DEF Expire, ExpireAccess, vars, sesVars, guardVars, histVars, callVars, serverVars
<1> QED
  BY <1>1, SpentGuarded, SpentRun, SpentRefresh
  DEF Next, Invoke, RestAnswer, GrpcAnswer, Requests, Guarded, SessionStays

\* Requests, RPCs, oidcRefreshes and calls of refresh(), however they interleave and
\* whatever answers are lost or break off: the token of a refresh that cost the client
\* its session is not presented again while it counts as authenticated (section 9
\* rule 3).
THEOREM SpentStaysOff == SessionStays => (Spec => SpentTokenNeverPresented)
<1> SUFFICES ASSUME SessionStays PROVE Spec => SpentTokenNeverPresented
  OBVIOUS
<1>1. Init => SpentInv
  <2> SUFFICES ASSUME Init PROVE SpentInv
    OBVIOUS
  <2>1. PICK tok \in {NoToken, [s |-> Boot, n |-> 1]} :
           jar = tok /\ live = [s \in Sessions |-> IF s = tok.s THEN 1 ELSE 0]
    BY DEF Init
  <2>2. jar # NoToken => jar.n <= live[jar.s]
    BY <2>1 DEF Sessions
  <2> QED
    BY <2>2, Disjoint DEF Init, SpentInv, CookieRun
<1>2. TypeOK /\ GuardInv /\ SpentInv /\ [Next]_vars => SpentInv'
  BY SpentStep
<1>3. TypeOK /\ GuardInv /\ SpentInv /\ [Next]_vars => [Unspent]_vars
  BY SpentStep
<1>4. SpentTokenNeverPresented <=> [][Unspent]_vars
  BY PTL DEF SpentTokenNeverPresented, Unspent
<1> QED
  BY <1>1, <1>2, <1>3, <1>4, TypeCorrect, GuardCorrect, PTL DEF Spec
===============================================================================
