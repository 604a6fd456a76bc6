--------------------------- MODULE AuthzClientProofs ---------------------------
(***************************************************************************)
(* What a client with a decision memo guarantees for every set of checks,  *)
(* questions, tenants and credential calls, every TTL, size and delay: each *)
(* check is answered its own question, and no decision is served past the  *)
(* ceiling or, but for the exposed ones, to another principal.             *)
(***************************************************************************)
EXTENDS AuthzClient, TLAPS

\* A client starts typed, with no call under way.
LEMMA GateInit == SignInInit => GateInv
<1> SUFFICES ASSUME SignInInit PROVE GateInv
  OBVIOUS
<1>1. SignInTypeOK
  BY SignInAssumption DEF SignInInit, SignInTypeOK, Users
<1>2. \A c \in CredentialCalls : step[c] = "idle"
  BY DEF SignInInit
<1>3. OverlapKnown
  BY <1>2 DEF OverlapKnown, Active
<1>4. LonerLands
  BY <1>2 DEF LonerLands, CredentialCalls
<1>5. ReportHolds
  BY <1>2 DEF ReportHolds, Reported, CredentialCalls, SignInInit
<1> QED
  BY <1>1, <1>3, <1>4, <1>5 DEF GateInv

\* Everything a call does before its first await leaves overlaps known: it
\* tangles itself with whatever else is under way.
LEMMA StartsKnown ==
  ASSUME SignInTypeOK, OverlapKnown, NEW c \in CredentialCalls,
         NEW s \in {"starting", "posted"},
         step' = [step EXCEPT ![c] = s], tangled' = Tangle(c)
  PROVE  /\ OverlapKnown'
         /\ \A d \in CredentialCalls \ {c} : d \in Active => {c, d} \subseteq tangled'
         /\ tangled \subseteq tangled'
<1>1. Active' = Active \cup {c}
  BY DEF Active, SignInTypeOK
<1>2. CASE Active \ {c} = {}
  BY <1>1, <1>2 DEF OverlapKnown, Tangle
<1>3. CASE Active \ {c} # {}
  BY <1>1, <1>3 DEF OverlapKnown, Tangle
<1> QED
  BY <1>2, <1>3

\* A call under way that goes on or ends leaves overlaps known.
LEMMA GoesOnKnown ==
  ASSUME SignInTypeOK, OverlapKnown, NEW c \in CredentialCalls,
         NEW s \in {"landed", "done", "failed", "torn"},
         s = "landed" => step[c] = "posted",
         step' = [step EXCEPT ![c] = s], tangled' = tangled
  PROVE  OverlapKnown'
<1>1. s = "landed" => c \in Active
  BY DEF Active, SignInTypeOK
<1>2. Active' \subseteq Active
  BY <1>1 DEF Active, SignInTypeOK
<1> QED
  BY <1>2 DEF OverlapKnown

\* A call that starts, or takes its next step before it posts, keeps the
\* sign-ins that are alone alone: whoever else is under way is tangled now.
LEMMA StartsLone ==
  ASSUME GateInv, NEW c \in CredentialCalls, NEW s \in {"starting", "posted"},
         step' = [step EXCEPT ![c] = s], tangled' = Tangle(c),
         bare \subseteq bare',
         c \in Logins => (way'[c] \in {"password", "confirm", "register"}
                             /\ c \notin bare' => device' = None),
         \A d \in Logins \ {c} : way'[d] = way[d],
         UNCHANGED jar
  PROVE  LonerLands'
<1> SUFFICES ASSUME NEW d \in Logins, step'[d] \in {"posted", "landed"},
                    d \notin tangled' \cup bare'
             PROVE  /\ way'[d] \in {"password", "confirm", "register"} => device' = None
                    /\ step'[d] = "landed" => jar' = d
  BY DEF LonerLands
<1>1. CASE d = c
  BY <1>1 DEF GateInv, SignInTypeOK
<1>2. CASE d # c
  <2>1. d \in CredentialCalls /\ d \in Active
    BY <1>2 DEF GateInv, SignInTypeOK, Active, CredentialCalls
  <2> QED
    BY <1>2, <2>1, StartsKnown DEF GateInv
<1> QED
  BY <1>1, <1>2

\* Nothing that starts takes a report out of force or away from its jar.
LEMMA StartsReport ==
  ASSUME GateInv, NEW c \in CredentialCalls, NEW s \in {"starting", "posted"},
         step' = [step EXCEPT ![c] = s], tangled' = Tangle(c), bare \subseteq bare',
         step[c] \in {"idle", "starting"}, device' \in {device, None},
         c \in Devices => kept'[c] = device,
         \A d \in Devices \ {c} : kept'[d] = kept[d],
         c \in Refreshes => by'[c] = jar,
         \A r \in Refreshes \ {c} : by'[r] = by[r],
         UNCHANGED <<jar, scope>>
  PROVE  ReportHolds'
<1> SUFFICES ASSUME scope # None, scope \notin tangled' \cup bare'
             PROVE  ReportHolds'
  BY DEF ReportHolds
<1>1. scope \notin tangled \cup bare
  BY StartsKnown DEF GateInv
<1>2. device = None /\ \A d \in Devices : step[d] = "posted" => kept[d] = None
  BY <1>1 DEF GateInv, ReportHolds
<1>3. device' = None /\ \A d \in Devices : step'[d] = "posted" => kept'[d] = None
  BY <1>2 DEF GateInv, SignInTypeOK, CredentialCalls
<1>4. CASE \E d \in Logouts : step[d] = "landed"
  <2>1. \E d \in Logouts : step'[d] = "landed"
    BY <1>4 DEF GateInv, SignInTypeOK, CredentialCalls
  <2> QED
    BY <1>3, <2>1 DEF ReportHolds
<1>5. CASE jar \in Reported /\ \A r \in Refreshes : step[r] = "posted" => by[r] \in Reported
  <2>1. Reported' = Reported
    BY DEF GateInv, SignInTypeOK, CredentialCalls, Reported, Torn
  <2>2. \A r \in Refreshes : step'[r] = "posted" => by'[r] \in Reported
    BY <1>5 DEF GateInv, SignInTypeOK, CredentialCalls
  <2> QED
    BY <1>3, <1>5, <2>1, <2>2 DEF ReportHolds
<1> QED
  BY <1>1, <1>4, <1>5 DEF GateInv, ReportHolds

\* A sign-in that starts keeps the gate's invariant.
LEMMA SignInStartKeepsGate ==
  ASSUME GateInv, NEW c \in Logins,
         \/ PasswordCall(c) \/ OpaqueCall(c) \/ PasskeyCall(c) \/ ConfirmCall(c)
         \/ RegisterCall(c) \/ SsoCall(c) \/ OpaqueFinishes(c) \/ OpaqueFallsBack(c)
  PROVE  GateInv'
<1> c \in CredentialCalls
  BY DEF CredentialCalls
<1>1. PICK s \in {"starting", "posted"} :
        step' = [step EXCEPT ![c] = s] /\ tangled' = Tangle(c) /\ bare \subseteq bare'
  BY DEF PasswordCall, OpaqueCall, PasskeyCall, ConfirmCall, RegisterCall, SsoCall,
         OpaqueFinishes, OpaqueFallsBack, Posts
<1>2. SignInTypeOK'
  BY <1>1 DEF GateInv, SignInTypeOK, PasswordCall, OpaqueCall, PasskeyCall, ConfirmCall,
         RegisterCall, SsoCall, OpaqueFinishes, OpaqueFallsBack, Posts, Tangle, Active,
         Ways, sessionVars
<1>3. OverlapKnown'
  BY <1>1, StartsKnown DEF GateInv
<1>4. LonerLands'
  <2>1. way'[c] \in {"password", "confirm", "register"} /\ c \notin bare' => device' = None
    BY DEF GateInv, SignInTypeOK, PasswordCall, OpaqueCall, PasskeyCall, ConfirmCall,
           RegisterCall, SsoCall, OpaqueFinishes, OpaqueFallsBack, Posts, sessionVars
  <2>2. (\A d \in Logins \ {c} : way'[d] = way[d]) /\ UNCHANGED jar
    BY DEF GateInv, SignInTypeOK, PasswordCall, OpaqueCall, PasskeyCall, ConfirmCall,
           RegisterCall, SsoCall, OpaqueFinishes, OpaqueFallsBack, sessionVars
  <2> QED
    BY <1>1, <2>1, <2>2, StartsLone
<1>5. ReportHolds'
  <2>1. /\ device' \in {device, None} /\ step[c] \in {"idle", "starting"}
        /\ UNCHANGED <<jar, scope, kept, by>>
    BY DEF PasswordCall, OpaqueCall, PasskeyCall, ConfirmCall, RegisterCall, SsoCall,
           OpaqueFinishes, OpaqueFallsBack, sessionVars
  <2>2. c \notin Devices \cup Refreshes
    BY SignInAssumption
  <2> QED
    BY <1>1, <2>1, <2>2, StartsReport
<1> QED
  BY <1>2, <1>3, <1>4, <1>5 DEF GateInv
\* A device login, an adoption, a refresh() or a logout that starts keeps it.
LEMMA OtherStartKeepsGate ==
  ASSUME GateInv, NEW c \in Devices \cup Adoptions \cup Refreshes \cup Logouts, 
         \/ c \in Devices /\ DeviceCall(c)
         \/ c \in Adoptions /\ AdoptionCall(c)
         \/ c \in Refreshes /\ RefreshCall(c)
         \/ c \in Logouts /\ LogoutCall(c)
  PROVE  GateInv'
<1> c \in CredentialCalls /\ c \notin Logins
  BY SignInAssumption DEF CredentialCalls
<1>1. /\ step' = [step EXCEPT ![c] = "posted"] /\ tangled' = Tangle(c)
      /\ bare \subseteq bare' /\ device' \in {device, None} /\ step[c] = "idle"
      /\ UNCHANGED <<jar, scope, way>>
  BY DEF DeviceCall, AdoptionCall, RefreshCall, LogoutCall, Posts, sessionVars
<1>2. SignInTypeOK'
  BY <1>1 DEF GateInv, SignInTypeOK, DeviceCall, AdoptionCall, RefreshCall, LogoutCall, Posts, Tangle, Active, sessionVars
<1>3. OverlapKnown'
  BY <1>1, StartsKnown DEF GateInv
<1>4. LonerLands'
  BY <1>1, StartsLone
<1>5. ReportHolds'
  <2>1. /\ c \in Devices => kept'[c] = device
        /\ c \in Refreshes => by'[c] = jar
        /\ \A d \in Devices \ {c} : kept'[d] = kept[d]
        /\ \A r \in Refreshes \ {c} : by'[r] = by[r]
    BY SignInAssumption DEF GateInv, SignInTypeOK, DeviceCall, AdoptionCall, RefreshCall, LogoutCall
  <2> QED
    BY <1>1, <2>1, StartsReport
<1> QED
  BY <1>2, <1>3, <1>4, <1>5 DEF GateInv

\* A sign-in that was alone when its answer was read is alone when it returns:
\* its report is in force, its session in the jar, and nothing is under way.
LEMMA ReturnReports ==
  ASSUME GateInv, NEW c \in Logins, step[c] = "landed",
         step' = [step EXCEPT ![c] = "done"], UNCHANGED <<jar, kept, by, bare, tangled>>,
         \/ scope' = None
         \/ scope' = c /\ (c \notin tangled \cup bare => device' = None)
  PROVE  ReportHolds'
<1> SUFFICES ASSUME scope' = c, c \notin tangled \cup bare
             PROVE  ReportHolds'
  BY DEF ReportHolds
<1> c \in CredentialCalls /\ c \in Active
  BY DEF CredentialCalls, Active
<1>1. \A d \in CredentialCalls \ {c} : step[d] # "posted"
  BY DEF GateInv, OverlapKnown, Active
<1>2. \A d \in Devices \cup Refreshes : step'[d] # "posted"
  BY <1>1, SignInAssumption DEF GateInv, SignInTypeOK, CredentialCalls
<1>3. jar = c
  BY DEF GateInv, LonerLands
<1>4. device' = None
  BY SignInAssumption DEF CredentialCalls
<1>5. jar' \in Reported'
  BY <1>3 DEF Reported
<1> QED
  BY <1>2, <1>4, <1>5 DEF ReportHolds

\* A sign-in that returns keeps the gate's invariant.
LEMMA SignInReturnKeepsGate ==
  ASSUME GateInv, NEW c \in Logins,
         \/ PasswordReturns(c) \/ OpaqueReturns(c) \/ PasskeyReturns(c)
         \/ EnrolmentReturns(c) \/ SsoReturns(c)
  PROVE  GateInv'
<1> c \in CredentialCalls
  BY DEF CredentialCalls
<1>1. /\ step[c] = "landed" /\ step' = [step EXCEPT ![c] = "done"]
      /\ device' \in {device, None} /\ scope' \in {c, None}
      /\ UNCHANGED <<closed, jar, adopted, handles, way, kept, by, bare, tangled>>
  BY DEF PasswordReturns, OpaqueReturns, PasskeyReturns, EnrolmentReturns, SsoReturns,
         Ends, callRest
<1>2. SignInTypeOK'
  BY <1>1 DEF GateInv, SignInTypeOK, Users
<1>3. OverlapKnown'
  BY <1>1, GoesOnKnown DEF GateInv
<1>4. LonerLands'
  BY <1>1 DEF GateInv, LonerLands, SignInTypeOK, CredentialCalls
<1>5. scope' = c /\ c \notin tangled \cup bare => device' = None
  BY <1>1 DEF GateInv, LonerLands, PasswordReturns, OpaqueReturns, PasskeyReturns,
         EnrolmentReturns, SsoReturns
<1>6. ReportHolds'
  BY <1>1, <1>5, ReturnReports
<1> QED
  BY <1>2, <1>3, <1>4, <1>6 DEF GateInv
\* While one call takes a step, no sign-in under way besides it is alone.
LEMMA OthersAreTangled ==
  ASSUME GateInv, NEW c \in Active, NEW d \in Logins \ {c},
         step[d] \in {"posted", "landed"}
  PROVE  d \in tangled
BY DEF GateInv, OverlapKnown, Active, CredentialCalls

\* A sign-in whose cookies land, which throws, or whose answer breaks off keeps
\* the gate's invariant.
LEMMA SignInMovesKeepsGate ==
  ASSUME GateInv, NEW c \in Logins,
         SignInLands(c) \/ SignInThrows(c) \/ SignInBreaksOff(c)
  PROVE  GateInv'
<1> c \in CredentialCalls
  BY DEF CredentialCalls
<1>1. CASE SignInLands(c)
  <2>1. c \in Active /\ step[c] = "posted" /\ step' = [step EXCEPT ![c] = "landed"]
        /\ UNCHANGED <<device, scope, way, kept, by, bare, tangled>>
    BY <1>1 DEF SignInLands, Active, Ends, callRest
  <2>2. SignInTypeOK'
    BY <1>1 DEF SignInLands, Ends, callRest, GateInv, SignInTypeOK, Users
  <2>3. OverlapKnown'
    BY <2>1, GoesOnKnown DEF GateInv
  <2>4. LonerLands'
    BY <1>1, <2>1, OthersAreTangled DEF SignInLands, GateInv, LonerLands, SignInTypeOK
  <2>5. ReportHolds'
    <3>1. step'[c] = "landed" /\ \A d \in CredentialCalls \ {c} : step'[d] = step[d]
      BY <2>1 DEF GateInv, SignInTypeOK
    <3>2. \A d \in Devices \cup Refreshes : step'[d] = "posted" => step[d] = "posted"
      BY <2>1, <3>1 DEF CredentialCalls
    <3>3. \A d \in Logouts : step[d] = "landed" => step'[d] = "landed"
      BY <2>1, <3>1 DEF CredentialCalls
    <3>4. Reported \cup {c} \subseteq Reported'
      BY <2>1, <3>1 DEF Reported, Torn, CredentialCalls
    <3>5. jar' \in {jar, c}
      BY <1>1 DEF SignInLands
    <3> QED
      BY <2>1, <3>2, <3>3, <3>4, <3>5 DEF GateInv, ReportHolds
  <2> QED
    BY <2>2, <2>3, <2>4, <2>5 DEF GateInv
<1>2. CASE SignInThrows(c) \/ SignInBreaksOff(c)
  <2>1. PICK s \in {"failed", "torn"} :
          /\ step' = [step EXCEPT ![c] = s]
          /\ (step[c] = "landed" => s = "torn") /\ step[c] # "torn"
          /\ UNCHANGED <<closed, jar, device, adopted, scope, handles, way, kept, by, bare,
                         tangled>>
    BY <1>2 DEF SignInThrows, SignInBreaksOff, Ends, callRest, sessionVars
  <2>2. SignInTypeOK'
    BY <2>1 DEF GateInv, SignInTypeOK
  <2>3. OverlapKnown'
    BY <2>1, GoesOnKnown DEF GateInv
  <2>4. LonerLands'
    BY <2>1 DEF GateInv, LonerLands, SignInTypeOK, CredentialCalls
  <2>5. ReportHolds'
    <3>1. step'[c] = s /\ \A d \in CredentialCalls \ {c} : step'[d] = step[d]
      BY <2>1 DEF GateInv, SignInTypeOK
    <3>2. \A d \in Devices \cup Refreshes \cup Logouts : step'[d] = step[d]
      BY <3>1, SignInAssumption DEF CredentialCalls
    <3>3. Reported \subseteq Reported'
      BY <2>1, <3>1 DEF Reported, Torn, CredentialCalls
    <3> QED
      BY <2>1, <3>2, <3>3 DEF GateInv, ReportHolds
  <2> QED
    BY <2>2, <2>3, <2>4, <2>5 DEF GateInv
<1> QED
  BY <1>1, <1>2

\* A device login that ends keeps it: what it puts back is no token while a
\* report is in force.
LEMMA DeviceEndKeepsGate ==
  ASSUME GateInv, NEW c \in Devices, DeviceReturns(c) \/ DeviceThrows(c)
  PROVE  GateInv'
<1> c \in CredentialCalls /\ c \notin Logins \cup Logouts
  BY SignInAssumption DEF CredentialCalls
<1>1. PICK s \in {"done", "failed"} :
        /\ c \in Active /\ step[c] = "posted" /\ step' = [step EXCEPT ![c] = s]
        /\ s = "done" => device' = c /\ scope' = None
        /\ s = "failed" => device' = kept[c] /\ scope' = scope
        /\ UNCHANGED <<closed, jar, adopted, handles, way, kept, by, bare, tangled>>
  BY DEF DeviceReturns, DeviceThrows, Active, Ends, callRest
<1>2. SignInTypeOK'
  BY <1>1 DEF GateInv, SignInTypeOK
<1>3. OverlapKnown'
  BY <1>1, GoesOnKnown DEF GateInv
<1>4. LonerLands'
  BY <1>1, OthersAreTangled DEF GateInv, LonerLands, SignInTypeOK, CredentialCalls
<1>5. ReportHolds'
  <2>1. \A d \in CredentialCalls \ {c} : step'[d] = step[d]
    BY <1>1 DEF GateInv, SignInTypeOK
  <2>2. scope' = scope => Reported' = Reported
    BY <1>1, <2>1 DEF Reported, Torn, CredentialCalls
  <2>3. step'[c] # "posted" /\ \A d \in Logouts \cup Refreshes : step'[d] = step[d]
    BY <1>1, <2>1, SignInAssumption DEF GateInv, SignInTypeOK, CredentialCalls
  <2> QED
    BY <1>1, <2>1, <2>2, <2>3 DEF GateInv, ReportHolds, CredentialCalls
<1> QED
  BY <1>2, <1>3, <1>4, <1>5 DEF GateInv

\* An adoption, a refresh() or a logout that goes on or ends keeps it.
LEMMA OtherStepKeepsGate ==
  ASSUME GateInv, NEW c \in Adoptions \cup Refreshes \cup Logouts,
         \/ c \in Adoptions /\ (AdoptionReturns(c) \/ CallThrows(c))
         \/ c \in Refreshes /\ (RefreshReturns(c) \/ CallThrows(c))
         \/ c \in Logouts /\ (LogoutLands(c) \/ LogoutReturns(c))
  PROVE  GateInv'
<1> c \in CredentialCalls /\ c \notin Logins \cup Devices
  BY SignInAssumption DEF CredentialCalls
<1>1. PICK s \in {"landed", "done", "failed"} :
        /\ c \in Active /\ step' = [step EXCEPT ![c] = s]
        /\ s = "landed" => step[c] = "posted" /\ c \in Logouts
        /\ UNCHANGED <<closed, handles, way, kept, by, bare, tangled>>
  BY DEF AdoptionReturns, CallThrows, RefreshReturns, LogoutLands, LogoutReturns,
         Active, Ends, callRest, sessionVars
<1>2. SignInTypeOK'
  BY <1>1 DEF GateInv, SignInTypeOK, AdoptionReturns, CallThrows, RefreshReturns,
         LogoutLands, LogoutReturns, sessionVars
<1>3. OverlapKnown'
  BY <1>1, GoesOnKnown DEF GateInv
<1>4. LonerLands'
  <2>1. \A d \in Logins : step'[d] \in {"posted", "landed"} =>
          step[d] \in {"posted", "landed"} /\ d \in tangled'
    BY <1>1, OthersAreTangled DEF GateInv, SignInTypeOK, CredentialCalls
  <2> QED
    BY <2>1 DEF LonerLands
<1>5. ReportHolds'
  <2>1. \A d \in CredentialCalls \ {c} : step'[d] = step[d]
    BY <1>1 DEF GateInv, SignInTypeOK
  <2> scope' = scope => Reported' = Reported
    BY <1>1, <2>1 DEF Reported, Torn, CredentialCalls
  <2>2. CASE AdoptionReturns(c) \/ LogoutReturns(c)
    BY <2>2 DEF AdoptionReturns, LogoutReturns, ReportHolds
  <2>3. CASE c \in Adoptions \cup Refreshes /\ CallThrows(c)
    <3>1. step[c] = "posted" /\ step'[c] = "failed" /\ UNCHANGED <<jar, device, scope>>
      BY <2>3 DEF CallThrows, Ends, sessionVars, GateInv, SignInTypeOK
    <3> QED
      BY <1>1, <2>1, <3>1 DEF GateInv, ReportHolds, CredentialCalls
  <2>4. CASE c \in Refreshes /\ RefreshReturns(c)
    <3>1. /\ step[c] = "posted" /\ step'[c] # "posted" /\ jar' \in {jar, by[c]}
          /\ UNCHANGED <<device, scope>>
      BY <2>4 DEF RefreshReturns, Ends, GateInv, SignInTypeOK
    <3> QED
      BY <1>1, <2>1, <2>4, <3>1 DEF GateInv, ReportHolds, CredentialCalls
  <2>5. CASE c \in Logouts /\ LogoutLands(c)
    <3>1. step'[c] = "landed" /\ UNCHANGED <<device, scope>>
      BY <2>5 DEF LogoutLands, Ends, GateInv, SignInTypeOK
    <3> QED
      BY <1>1, <2>1, <2>5, <3>1 DEF GateInv, ReportHolds, CredentialCalls
  <2> QED
    BY <2>2, <2>3, <2>4, <2>5, Zenon
<1> QED
  BY <1>2, <1>3, <1>4, <1>5 DEF GateInv

\* A call that is refused on a closed client changes nobody's principal.
LEMMA RefusedKeepsGate ==
  ASSUME GateInv, NEW c \in CredentialCalls, RefusedClosed(c)
  PROVE  GateInv'
<1>1. /\ step[c] = "idle" /\ step' = [step EXCEPT ![c] = "failed"]
      /\ UNCHANGED <<closed, jar, device, adopted, scope, handles, way, kept, by, bare, tangled>>
  BY DEF RefusedClosed, Ends, callRest, sessionVars
<1>2. SignInTypeOK'
  BY <1>1 DEF GateInv, SignInTypeOK
<1>3. OverlapKnown'
  BY <1>1, GoesOnKnown DEF GateInv
<1>4. \A d \in CredentialCalls : step'[d] = step[d] \/ (d = c /\ step'[d] = "failed")
  BY <1>1 DEF GateInv, SignInTypeOK
<1>5. LonerLands'
  BY <1>1, <1>4 DEF GateInv, LonerLands, CredentialCalls
<1>6. Reported' = Reported
  BY <1>1, <1>4 DEF Reported, Torn, CredentialCalls
<1>7. ReportHolds'
  BY <1>1, <1>4, <1>6 DEF GateInv, ReportHolds, CredentialCalls
<1> QED
  BY <1>2, <1>3, <1>5, <1>7 DEF GateInv

\* What the invariant speaks of: everything but the memo.
gateVars == <<closed, jar, device, adopted, scope, handles, step, way, kept, by, bare, tangled>>

\* Steps that leave all of it alone keep it, whatever they do to the memo.
LEMMA StutterKeepsGate ==
  ASSUME GateInv, UNCHANGED gateVars
  PROVE  GateInv'
BY DEF GateInv, gateVars, SignInTypeOK, OverlapKnown, LonerLands, ReportHolds, Reported, Torn,
       Active

\* Closing a client or making a handle over it changes nobody's principal.
LEMMA HandleKeepsGate ==
  ASSUME GateInv, HandleStep
  PROVE  GateInv'
<1>1. closed' \in BOOLEAN /\ handles' \subseteq Tenants \cup {None}
      /\ UNCHANGED <<jar, device, adopted, scope, step, way, kept, by, bare, tangled>>
  BY DEF HandleStep, close, actingTenant, sessionVars, callVars, callRest, GateInv, SignInTypeOK
<1> QED
  BY <1>1 DEF GateInv, SignInTypeOK, OverlapKnown, LonerLands, ReportHolds, Reported, Torn,
              Active

\* Every step of a client keeps the gate's invariant.
LEMMA GateStep ==
  ASSUME GateInv, CredentialStep \/ HandleStep \/ UNCHANGED gateVars
  PROVE  GateInv'
<1>1. CASE CredentialStep
  <2>1. CASE \E c \in Logins : SignInStep(c)
    BY <2>1, SignInStartKeepsGate, SignInReturnKeepsGate, SignInMovesKeepsGate DEF SignInStep
  <2>2. CASE \E c \in Devices : DeviceCall(c) \/ DeviceReturns(c) \/ DeviceThrows(c)
    BY <2>2, OtherStartKeepsGate, DeviceEndKeepsGate
  <2>3. CASE \E c \in Adoptions : AdoptionCall(c) \/ AdoptionReturns(c) \/ CallThrows(c)
    BY <2>3, OtherStartKeepsGate, OtherStepKeepsGate
  <2>4. CASE \E c \in Refreshes : RefreshCall(c) \/ RefreshReturns(c) \/ CallThrows(c)
    BY <2>4, OtherStartKeepsGate, OtherStepKeepsGate
  <2>5. CASE \E c \in Logouts : LogoutCall(c) \/ LogoutLands(c) \/ LogoutReturns(c)
    BY <2>5, OtherStartKeepsGate, OtherStepKeepsGate
  <2>6. CASE \E c \in CredentialCalls \ Adoptions : RefusedClosed(c)
    BY <2>6, RefusedKeepsGate
  <2> QED
    BY <1>1, <2>1, <2>2, <2>3, <2>4, <2>5, <2>6 DEF CredentialStep, CredentialCall
<1> QED
  BY <1>1, HandleKeepsGate, StutterKeepsGate

\* A report whose login is alone is of the principal the client acts for, but for
\* a sign-in that broke off since.
LEMMA GateInvKnowsWhom == GateInv => GateKnowsWhom
<1> SUFFICES ASSUME GateInv, Active = {}, scope # None, scope \notin tangled \cup bare
             PROVE  scope = Acting \/ Acting \in Torn
  BY DEF GateKnowsWhom
<1>1. \A c \in Logins \cup Logouts : step[c] # "landed"
  BY DEF Active, CredentialCalls
<1>2. device = None /\ jar \in {scope} \cup Torn
  BY <1>1 DEF GateInv, ReportHolds, Reported
<1>3. jar # None
  BY <1>2, SignInAssumption DEF Torn, CredentialCalls
<1> QED
  BY <1>2, <1>3 DEF Acting

\* The inductive invariant of the acting-tenant gate (rest/client.ts:actingTenant
\* and the ten operations that change the principal) holds of every execution.
THEOREM GateCorrect == SignInSpec => []GateInv
<1>1. SignInInit => GateInv
  BY GateInit
<1>2. GateInv /\ [SignInNext]_signInVars => GateInv'
  BY GateStep DEF SignInNext, signInVars, sessionVars, callVars, callRest, gateVars
<1> QED
  BY <1>1, <1>2, PTL DEF SignInSpec

\* actingTenant() is gated on what was reported of the principal the client acts
\* for, or on nothing, however many sign-ins, device logins, adoptions,
\* refreshes and logouts interleave, unless the report's own login overlapped
\* another call or its cookies missed the jar, or the client acts for a sign-in
\* whose answer broke off behind its cookies (rest/client.ts:actingTenant).
THEOREM GateSound == SignInSpec => []GateKnowsWhom
BY GateCorrect, GateInvKnowsWhom, PTL

\* A step of AuthzClient that does more than a credential call or a handle does
\* leaves what the gate's invariant speaks of alone.
THEOREM ClientGateCorrect == Spec => []GateInv
<1>1. Init => GateInv
  BY GateInit DEF Init
<1>2. GateInv /\ [Next]_vars => GateInv'
  <2> SUFFICES ASSUME GateInv, [Next]_vars PROVE GateInv'
    OBVIOUS
  <2>1. CASE \E c \in Checks : CheckStep(c)
    <3>1. UNCHANGED gateVars
      BY <2>1 DEF CheckStep, CheckClosed, CheckHit, CheckMiss, CheckAnswered, CheckRetries,
             CheckThrows, CheckResends, Settles, signInVars, sessionRest, sessionVars,
             callVars, callRest, gateVars
    <3> QED
      BY <3>1, GateStep
  <2>2. CASE Credentials \/ Handle
    BY <2>2, GateStep DEF Credentials, Handle
  <2>3. CASE Tick \/ UNCHANGED vars
    <3>1. UNCHANGED gateVars
      BY <2>3 DEF Tick, vars, signInVars, sessionRest, sessionVars, callVars, callRest, gateVars
    <3> QED
      BY <3>1, GateStep
  <2> QED
    BY <2>1, <2>2, <2>3 DEF Next
<1> QED
  BY <1>1, <1>2, PTL DEF Spec

\* The gate is as sound beside checks as without them: what GateSound says of a
\* client's calls holds of a client that checks too (rest/client.ts:actingTenant).
THEOREM ClientGateSound == Spec => []GateKnowsWhom
BY ClientGateCorrect, GateInvKnowsWhom, PTL

-------------------------------------------------------------------------------
(* The memo *)

LEMMA TtlNat == Ttl \in Nat /\ Ttl <= MAX_TTL
BY AuthzAssumption DEF Ttl, Least

\* What an entry of a typed memo is made of.
LEMMA EntryTyped ==
  ASSUME memo \in Seq(Entry), NEW i \in DOMAIN memo
  PROVE  /\ memo[i] \in Entry /\ memo[i].key \in Key /\ memo[i].age \in 0 .. Ttl
         /\ memo[i].decision \in Decision
         /\ memo[i].decision.by \in Principals /\ memo[i].decision.via \in Checks
<1>1. memo[i] \in Entry
  OBVIOUS
<1>2. memo[i].key \in Key /\ memo[i].age \in 0 .. Ttl /\ memo[i].decision \in Decision
  BY <1>1 DEF Entry
<1> QED
  BY <1>1, <1>2 DEF Decision

\* Map.delete() drops one entry and keeps the others.
LEMMA WithoutKeeps ==
  ASSUME memo \in Seq(Entry), NEW k
  PROVE  /\ Without(k) \in Seq(Entry)
         /\ \A i \in DOMAIN Without(k) : \E j \in DOMAIN memo : Without(k)[i] = memo[j]
<1>1. CASE Entries(k) = {}
  BY <1>1 DEF Without
<1>2. CASE Entries(k) # {}
  <2> DEFINE gone == CHOOSE i \in Entries(k) : TRUE
             w    == [i \in 1 .. Len(memo) - 1 |-> memo[IF i < gone THEN i ELSE i + 1]]
  <2>1. gone \in DOMAIN memo /\ Len(memo) \in Nat \ {0}
    BY <1>2 DEF Entries
  <2>2. \A i \in 1 .. Len(memo) - 1 : (IF i < gone THEN i ELSE i + 1) \in DOMAIN memo
    BY <2>1
  <2>3. w \in [1 .. Len(memo) - 1 -> Entry] /\ Len(memo) - 1 \in Nat
    BY <2>1, <2>2
  <2>4. w \in Seq(Entry)
    BY <2>3
  <2>5. Without(k) = w
    BY <1>2 DEF Without
  <2> HIDE DEF gone
  <2>6. \A i \in DOMAIN w : \E j \in DOMAIN memo : w[i] = memo[j]
    BY <2>2
  <2> QED
    BY <2>4, <2>5, <2>6
<1> QED
  BY <1>1, <1>2

\* DecisionMemo.set() adds the new entry and invents none.
LEMMA AfterSetKeeps ==
  ASSUME memo \in Seq(Entry), NEW k \in Key, NEW d \in Decision
  PROVE  /\ AfterSet(k, d) \in Seq(Entry)
         /\ \A i \in DOMAIN AfterSet(k, d) :
               \/ \E j \in DOMAIN memo : AfterSet(k, d)[i] = memo[j]
               \/ AfterSet(k, d)[i] = [key |-> k, decision |-> d, age |-> 0]
<1>1. CASE Ttl = 0
  BY <1>1 DEF AfterSet
<1>2. CASE Ttl # 0
  <2> DEFINE e      == [key |-> k, decision |-> d, age |-> 0]
             stored == Append(Without(k), e)
             extra  == IF Len(stored) > MAX_ENTRIES THEN Len(stored) - MAX_ENTRIES ELSE 0
  <2>1. e \in Entry
    BY TtlNat DEF Entry
  <2>2. stored \in Seq(Entry) /\ Len(stored) = Len(Without(k)) + 1
        /\ Len(Without(k)) \in Nat
    BY <2>1, WithoutKeeps
  <2>3. extra \in Nat /\ extra <= Len(stored)
    BY <2>2, AuthzAssumption
  <2>4. AfterSet(k, d) = SubSeq(stored, extra + 1, Len(stored))
    BY <1>2 DEF AfterSet
  <2>5. \A i \in 1 .. Len(stored) :
           \/ \E j \in DOMAIN memo : stored[i] = memo[j]
           \/ stored[i] = e
    BY <2>2, WithoutKeeps
  <2> HIDE DEF e, extra
  <2>6. AfterSet(k, d) \in Seq(Entry)
    BY <2>2, <2>3, <2>4
  <2>7. \A i \in DOMAIN AfterSet(k, d) :
           extra + i \in 1 .. Len(stored) /\ AfterSet(k, d)[i] = stored[extra + i]
    BY <2>2, <2>3, <2>4
  <2> QED
    BY <2>5, <2>6, <2>7 DEF e
<1> QED
  BY <1>1, <1>2
-------------------------------------------------------------------------------
(* Types, and where a decision and a delay come from *)

\* What a client's calls leave alone of the checks, and what they do to the memo.
LEMMA CallsLeaveChecks ==
  ASSUME Credentials \/ Handle
  PROVE  memo' \in {memo, <<>>} /\ UNCHANGED checkVars
BY DEF Credentials, CredentialStep, CredentialCall, SignInStep, Handle, HandleStep,
       PasswordCall, OpaqueCall, PasskeyCall, ConfirmCall, RegisterCall, SsoCall,
       OpaqueFinishes, OpaqueFallsBack, PasswordReturns, OpaqueReturns, PasskeyReturns,
       EnrolmentReturns, SsoReturns, SignInLands, SignInThrows, SignInBreaksOff, DeviceCall,
       DeviceReturns, DeviceThrows, AdoptionCall, AdoptionReturns, RefreshCall,
       RefreshReturns, LogoutCall, LogoutLands, LogoutReturns, CallThrows,
       RefusedClosed, close, actingTenant

\* What a check leaves alone of the calls.
LEMMA CheckLeavesCalls ==
  ASSUME NEW c \in Checks, CheckStep(c)
  PROVE  UNCHANGED sessionRest
BY DEF CheckStep, CheckClosed, CheckHit, CheckMiss, CheckAnswered, CheckRetries, CheckThrows,
       CheckResends, signInVars, sessionRest, sessionVars, callVars, callRest

\* The variables of the checks, typed, and what they say of a decision.
ChecksTyped == TypeOK /\ CheckInv

\* A check's step keeps them.
LEMMA CheckStepTyped ==
  ASSUME ChecksTyped, GateInv', NEW c \in Checks, CheckStep(c)
  PROVE  ChecksTyped'
<1> USE DEF ChecksTyped
<1>1. SignInTypeOK'
  BY DEF GateInv
<1>2. CASE CheckClosed(c)
  BY <1>1, <1>2 DEF CheckClosed, signInVars, TypeOK, CheckInv, InFlight
<1>3. CASE \E q \in Questions, t \in handles : CheckHit(c, q, t)
  <2>1. PICK q \in Questions, t \in handles : CheckHit(c, q, t)
    BY <1>3
  <2>2. [q |-> q, t |-> t] \in Key
    BY DEF TypeOK, SignInTypeOK, Key
  <2>3. \A i \in DOMAIN memo : memo[i].decision \in Decision
    BY EntryTyped DEF TypeOK
  <2>4. memo' = memo
    BY <2>1 DEF CheckHit, signInVars
  <2>5. result' \in [Checks -> Decision \cup {None}]
    BY <2>1, <2>3 DEF CheckHit, Live, Entries, TypeOK
  <2> QED
    BY <1>1, <2>1, <2>2, <2>4, <2>5 DEF CheckHit, TypeOK, CheckInv, InFlight
<1>4. CASE \E q \in Questions, t \in handles : CheckMiss(c, q, t)
  <2>1. PICK q \in Questions, t \in handles : CheckMiss(c, q, t)
    BY <1>4
  <2>2. [q |-> q, t |-> t] \in Key
    BY DEF TypeOK, SignInTypeOK, Key
  <2>3. /\ memo' \in Seq(Entry)
        /\ \A i \in DOMAIN memo' : \E j \in DOMAIN memo : memo'[i] = memo[j]
    BY <2>1, WithoutKeeps DEF CheckMiss, AfterMiss, TypeOK
  <2>4. Acting \in Principals \cup {None}
    BY DEF Acting, TypeOK, SignInTypeOK, Principals
  <2>5. TypeOK'
    BY <1>1, <2>1, <2>2, <2>3, <2>4, AuthzAssumption DEF CheckMiss, TypeOK
  <2>6. \A d \in Checks : pc[d] # "idle" => pc'[d] # "idle"
    BY <2>1 DEF CheckMiss, TypeOK
  <2>7. \A i \in DOMAIN memo : memo[i].decision.via \in Checks
    BY EntryTyped DEF TypeOK
  <2>8. \A i \in DOMAIN memo' : /\ memo'[i].key = memo'[i].decision.key
                                /\ pc'[memo'[i].decision.via] # "idle"
    BY <2>3, <2>6, <2>7 DEF CheckInv
  <2>9. CheckInv'
    BY <2>1, <2>2, <2>8 DEF CheckMiss, TypeOK, CheckInv, InFlight
  <2> QED
    BY <2>5, <2>9
<1>5. CASE CheckAnswered(c)
  <2> DEFINE d == [key |-> asked[c], by |-> sentBy[c], via |-> c]
             k == MemoKey(asked[c].q, asked[c].t)
  <2>1. asked[c] \in Key
    BY <1>5 DEF CheckAnswered, CheckInv, InFlight
  <2>2. k = asked[c]
    BY <2>1 DEF MemoKey, Key
  <2>3. d \in Decision
    BY <1>5, <2>1 DEF CheckAnswered, Decision, TypeOK
  <2>4. /\ memo' \in Seq(Entry)
        /\ \A i \in DOMAIN memo' : \/ \E j \in DOMAIN memo : memo'[i] = memo[j]
                                   \/ memo'[i] = [key |-> k, decision |-> d, age |-> 0]
    BY <1>5, <2>1, <2>2, <2>3, AfterSetKeeps DEF CheckAnswered, TypeOK
  <2>5. TypeOK'
    BY <1>1, <1>5, <2>3, <2>4, AuthzAssumption DEF CheckAnswered, Settles, TypeOK
  <2>6. pc'[c] = "done" /\ \A e \in Checks : pc[e] # "idle" => pc'[e] # "idle"
    BY <1>5 DEF CheckAnswered, Settles, TypeOK
  <2>7. \A i \in DOMAIN memo : memo[i].decision.via \in Checks
    BY EntryTyped DEF TypeOK
  <2>8. \A i \in DOMAIN memo' : /\ memo'[i].key = memo'[i].decision.key
                                /\ pc'[memo'[i].decision.via] # "idle"
    BY <2>2, <2>4, <2>6, <2>7 DEF CheckInv
  <2>9. CheckInv'
    BY <1>5, <2>8 DEF CheckAnswered, Settles, InFlight, TypeOK, CheckInv
  <2> QED
    BY <2>5, <2>9
<1>6. CASE CheckRetries(c)
  <2>1. PICK d \in delayMs(attempt[c]) : left' = [left EXCEPT ![c] = d]
    BY <1>6 DEF CheckRetries
  <2>2. d \in Nat
    BY DEF delayMs
  <2> QED
    BY <1>1, <1>6, <2>1, <2>2, AuthzAssumption
       DEF CheckRetries, signInVars, TypeOK, CheckInv, InFlight
<1>7. CASE CheckThrows(c)
  BY <1>1, <1>7, AuthzAssumption DEF CheckThrows, Settles, signInVars, TypeOK, CheckInv, InFlight
<1>8. CASE CheckResends(c)
  <2>1. Acting \in Principals \cup {None}
    BY DEF Acting, TypeOK, SignInTypeOK, Principals
  <2>2. attempt[c] + 1 \in 0 .. MAX_ATTEMPTS
    <3>1. pc[c] = "sleeping"
      BY <1>8 DEF CheckResends
    <3>2. attempt[c] < MAX_ATTEMPTS
      BY <3>1 DEF CheckInv
    <3>3. attempt[c] \in 0 .. MAX_ATTEMPTS
      BY DEF TypeOK
    <3> QED
      BY <3>2, <3>3, AuthzAssumption
  <2> QED
    BY <1>1, <1>8, <2>1, <2>2, AuthzAssumption DEF CheckResends, signInVars, TypeOK, CheckInv, InFlight
<1> QED
  BY <1>2, <1>3, <1>4, <1>5, <1>6, <1>7, <1>8 DEF CheckStep
\* So do the calls, and time.
LEMMA OtherStepTyped ==
  ASSUME ChecksTyped, GateInv', Credentials \/ Handle \/ Tick \/ UNCHANGED vars
  PROVE  ChecksTyped'
<1> USE DEF ChecksTyped
<1>1. SignInTypeOK'
  BY DEF GateInv
<1>2. CASE Credentials \/ Handle
  <2>1. memo' \in {memo, <<>>} /\ UNCHANGED checkVars
    BY <1>2, CallsLeaveChecks
  <2>2. exposed' \subseteq Checks
    BY <1>2 DEF Credentials, Handle, Overtaken, InFlight, TypeOK
  <2>3. memo' \in Seq(Entry)
    <3>1. memo \in Seq(Entry) /\ <<>> \in Seq(Entry)
      BY DEF TypeOK
    <3> QED
      BY <2>1, <3>1
  <2>4. TypeOK'
    BY <1>1, <2>1, <2>2, <2>3 DEF checkVars, TypeOK
  <2>5. CheckInv'
    BY <2>1 DEF checkVars, CheckInv, InFlight
  <2> QED
    BY <2>4, <2>5
<1>3. CASE Tick
  <2>1. Len(memo) \in Nat /\ DOMAIN memo = 1 .. Len(memo)
        /\ \A i \in DOMAIN memo : [memo[i] EXCEPT !.age = Least(@ + 1, Ttl)] \in Entry
    <3>1. memo \in Seq(Entry)
      BY DEF TypeOK
    <3>2. \A i \in DOMAIN memo : memo[i] \in Entry /\ memo[i].age \in 0 .. Ttl
      BY <3>1, EntryTyped
    <3>3. \A i \in DOMAIN memo : Least(memo[i].age + 1, Ttl) \in 0 .. Ttl
      BY <3>2, TtlNat DEF Least
    <3>4. ASSUME NEW e \in Entry, NEW a \in 0 .. Ttl
          PROVE  [e EXCEPT !.age = a] \in Entry
      BY DEF Entry
    <3> QED
      BY <3>1, <3>2, <3>3, <3>4
  <2>2. memo' \in [1 .. Len(memo) -> Entry]
    BY <1>3, <2>1 DEF Tick
  <2>3. memo' \in Seq(Entry)
    BY <2>1, <2>2
  <2>4. left' \in [Checks -> Nat]
    BY <1>3 DEF Tick, TypeOK
  <2>5. TypeOK'
    BY <1>1, <1>3, <2>3, <2>4 DEF Tick, TypeOK
  <2>6. \A i \in DOMAIN memo' : i \in DOMAIN memo /\ memo'[i].key = memo[i].key
                               /\ memo'[i].decision = memo[i].decision
    BY <1>3, <2>1 DEF Tick, TypeOK, Entry
  <2>7. CheckInv'
    BY <1>3, <2>6 DEF Tick, CheckInv, InFlight
  <2> QED
    BY <2>5, <2>7
<1>4. CASE UNCHANGED vars
  BY <1>1, <1>4 DEF vars, signInVars, checkVars, TypeOK, CheckInv, InFlight
<1> QED
  BY <1>2, <1>3, <1>4

\* A check's time and its question are right at the start.
LEMMA ChecksInit == Init => ChecksTyped
<1> SUFFICES ASSUME Init PROVE ChecksTyped
  OBVIOUS
<1>1. SignInTypeOK /\ memo = <<>>
  BY GateInit DEF Init, GateInv, SignInInit
<1>2. TypeOK
  BY <1>1, AuthzAssumption DEF Init, TypeOK
<1>3. CheckInv
  BY <1>1 DEF Init, CheckInv, InFlight
<1> QED
  BY <1>2, <1>3 DEF ChecksTyped

\* Every variable of a client keeps its type, and CheckInv holds, along every
\* interleaving of checks and calls.
THEOREM ClientTyped == Spec => []ChecksTyped
<1>1. Init => ChecksTyped
  BY ChecksInit
<1>2. ChecksTyped /\ GateInv' /\ [Next]_vars => ChecksTyped'
  BY CheckStepTyped, OtherStepTyped DEF Next
<1> QED
  BY <1>1, <1>2, ClientGateCorrect, PTL DEF Spec

\* A check is answered the question it asked: what it returns is what the wire or
\* the memo had under the key of its question (core/decisionMemo.ts:memoKey).
THEOREM EachItsOwn == Spec => []AnswersItsQuestion
<1>1. Init => AnswersItsQuestion
  BY DEF Init, AnswersItsQuestion
<1>2. ChecksTyped /\ AnswersItsQuestion /\ [Next]_vars => AnswersItsQuestion'
  <2> SUFFICES ASSUME ChecksTyped, AnswersItsQuestion, [Next]_vars
               PROVE  AnswersItsQuestion'
    OBVIOUS
  <2> USE DEF ChecksTyped, AnswersItsQuestion
  <2>1. ASSUME NEW c \in Checks, CheckStep(c) PROVE AnswersItsQuestion'
    <3>1. CASE \E q \in Questions, t \in handles : CheckHit(c, q, t)
      <4>1. PICK q \in Questions, t \in handles : CheckHit(c, q, t)
        BY <3>1
      <4>2. PICK i \in Live([q |-> q, t |-> t]) :
              result' = [result EXCEPT ![c] = memo[i].decision]
        BY <4>1 DEF CheckHit, MemoKey
      <4>3. memo[i].decision.key = [q |-> q, t |-> t]
        BY <4>2 DEF Live, Entries, CheckInv
      <4> QED
        BY <4>1, <4>2, <4>3 DEF CheckHit, TypeOK
    <3>2. CASE CheckAnswered(c)
      BY <3>2 DEF CheckAnswered, Settles, TypeOK
    <3>3. CASE \E q \in Questions, t \in handles : CheckMiss(c, q, t)
      BY <3>3 DEF CheckMiss, TypeOK
    <3>4. CASE CheckClosed(c) \/ CheckRetries(c) \/ CheckThrows(c) \/ CheckResends(c)
      BY <3>4 DEF CheckClosed, CheckRetries, CheckThrows, CheckResends, Settles, TypeOK
    <3> QED
      BY <2>1, <3>1, <3>2, <3>3, <3>4 DEF CheckStep
  <2>2. CASE Credentials \/ Handle
    BY <2>2, CallsLeaveChecks DEF checkVars
  <2>3. CASE Tick \/ UNCHANGED vars
    BY <2>3 DEF Tick, vars, checkVars
  <2> QED
    BY <2>1, <2>2, <2>3 DEF Next
<1> QED
  BY <1>1, <1>2, ClientTyped, PTL DEF Spec

\* No decision is served once it has been kept for MAX_TTL, whatever TTL was
\* asked for (core/decisionMemo.ts:DecisionMemo).
THEOREM ServedYoung == Spec => ServedWithinCeiling
<1>1. ChecksTyped /\ [Next]_vars =>
        [\A c \in Checks :
            (pc[c] = "idle" /\ pc'[c] = "done")
                => \E i \in DOMAIN memo : /\ memo[i].decision = result'[c]
                                          /\ memo[i].age < MAX_TTL]_vars
  <2> SUFFICES ASSUME ChecksTyped, [Next]_vars, NEW c \in Checks,
                      pc[c] = "idle", pc'[c] = "done"
               PROVE  \E i \in DOMAIN memo : /\ memo[i].decision = result'[c]
                                             /\ memo[i].age < MAX_TTL
    OBVIOUS
  <2>1. pc \in [Checks -> {"idle", "sent", "sleeping", "done", "failed"}]
        /\ result \in [Checks -> Decision \cup {None}] /\ memo \in Seq(Entry)
    BY DEF ChecksTyped, TypeOK
  <2>2. PICK d \in Checks : CheckStep(d)
    BY CallsLeaveChecks DEF Next, Tick, vars, checkVars
  <2>3. \E q \in Questions, t \in handles : CheckHit(c, q, t)
    BY <2>1, <2>2 DEF CheckStep, CheckClosed, CheckHit, CheckMiss, CheckAnswered, CheckRetries,
           CheckThrows, CheckResends, Settles
  <2>4. PICK q \in Questions, t \in handles : CheckHit(c, q, t)
    BY <2>3
  <2>5. PICK i \in Live(MemoKey(q, t)) : result' = [result EXCEPT ![c] = memo[i].decision]
    BY <2>4 DEF CheckHit
  <2>6. i \in DOMAIN memo /\ memo[i].age < Ttl
    BY <2>5 DEF Live, Entries
  <2>7. memo[i].age < MAX_TTL
    <3>1. memo[i].age \in 0 .. Ttl
      BY <2>1, <2>6, EntryTyped
    <3> QED
      BY <2>6, <3>1, TtlNat, AuthzAssumption
  <2> QED
    BY <2>1, <2>5, <2>6, <2>7
<1> QED
  BY <1>1, ClientTyped, PTL DEF Spec, ServedWithinCeiling
-------------------------------------------------------------------------------
(* Whose decisions the memo hands out *)

\* A credential call's step keeps what is known of the calls.
LEMMA StepCallsKnown ==
  ASSUME SignInTypeOK, CallsKnown, CredentialStep
  PROVE  CallsKnown'
<1> USE DEF CallsKnown, SignInTypeOK
<1>1. CASE \E c \in Logins : SignInStep(c)
  <2>1. PICK c \in Logins : SignInStep(c)
    BY <1>1
  <2>2. c \in CredentialCalls /\ c \notin Adoptions /\ None \notin Adoptions
        /\ Adoptions \subseteq CredentialCalls /\ Logins \subseteq CredentialCalls
    BY SignInAssumption DEF CredentialCalls
  <2>3. UNCHANGED adopted
    BY <2>1 DEF SignInStep, PasswordCall, OpaqueCall, PasskeyCall, ConfirmCall, RegisterCall,
           SsoCall, OpaqueFinishes, OpaqueFallsBack, PasswordReturns, OpaqueReturns,
           PasskeyReturns, EnrolmentReturns, SsoReturns, SignInLands, SignInThrows,
           SignInBreaksOff, sessionVars
  <2>4. \E s \in {"starting", "posted", "landed", "done", "failed", "torn"} :
           step' = [step EXCEPT ![c] = s] /\ (s = "starting" => way'[c] = "opaque")
    BY <2>1 DEF SignInStep, PasswordCall, OpaqueCall, PasskeyCall, ConfirmCall, RegisterCall,
           SsoCall, OpaqueFinishes, OpaqueFallsBack, PasswordReturns, OpaqueReturns,
           PasskeyReturns, EnrolmentReturns, SsoReturns, SignInLands, SignInThrows,
           SignInBreaksOff, Posts, Ends
  <2>5. \A d \in Logins \ {c} : way'[d] = way[d]
    BY <2>1 DEF SignInStep, PasswordCall, OpaqueCall, PasskeyCall, ConfirmCall, RegisterCall,
           SsoCall, OpaqueFinishes, OpaqueFallsBack, PasswordReturns, OpaqueReturns,
           PasskeyReturns, EnrolmentReturns, SsoReturns, SignInLands, SignInThrows,
           SignInBreaksOff, callRest
  <2> QED
    BY <2>2, <2>3, <2>4, <2>5
<1>2. CASE ~ \E c \in Logins : SignInStep(c)
  <2> DEFINE Moves(c) ==
               /\ c \in CredentialCalls
               /\ \E s \in {"posted", "landed", "done", "failed"} : step' = [step EXCEPT ![c] = s]
               /\ way' = way
               /\ \/ adopted' = adopted /\ step[c] # "done"
                  \/ adopted' = c /\ step'[c] = "done"
  <2>1. ASSUME NEW c \in Devices, DeviceCall(c) \/ DeviceReturns(c) \/ DeviceThrows(c)
        PROVE  Moves(c)
    BY <2>1 DEF CredentialCalls, DeviceCall, DeviceReturns, DeviceThrows, Posts, Ends, callRest
  <2>2. ASSUME NEW c \in Adoptions, AdoptionCall(c) \/ AdoptionReturns(c) \/ CallThrows(c)
        PROVE  Moves(c)
    BY <2>2 DEF CredentialCalls, AdoptionCall, AdoptionReturns, CallThrows, Posts, Ends,
           callRest, sessionVars
  <2>3. ASSUME NEW c \in Refreshes, RefreshCall(c) \/ RefreshReturns(c) \/ CallThrows(c)
        PROVE  Moves(c)
    BY <2>3 DEF CredentialCalls, RefreshCall, RefreshReturns, CallThrows, Posts, Ends,
           callRest, sessionVars
  <2>4. ASSUME NEW c \in Logouts, LogoutCall(c) \/ LogoutLands(c) \/ LogoutReturns(c)
        PROVE  Moves(c)
    BY <2>4 DEF CredentialCalls, LogoutCall, LogoutLands, LogoutReturns, Posts, Ends,
           callRest, sessionVars
  <2>5. ASSUME NEW c \in CredentialCalls, RefusedClosed(c)
        PROVE  Moves(c)
    BY <2>5 DEF RefusedClosed, Ends, callRest, sessionVars
  <2>6. PICK c : Moves(c)
    BY <1>2, <2>1, <2>2, <2>3, <2>4, <2>5 DEF CredentialStep, CredentialCall
  <2>7. None \notin Adoptions
    BY SignInAssumption DEF CredentialCalls
  <2> QED
    BY <2>6, <2>7 DEF CredentialCalls
<1> QED
  BY <1>1, <1>2

\* What a credential call's step can be, for the memo: a refusal; a start or a
\* return that clears it; a step beside a call that cleared it when it started;
\* or a step of one of the two kinds of call that do not.
LEMMA StepKinds ==
  ASSUME SignInTypeOK, CallsKnown, CredentialStep
  PROVE  \/ \E c \in CredentialCalls : RefusedClosed(c)
         \/ Active' # {} /\ memo' = <<>>
         \/ \E c \in Active : memo' = <<>> \/ ~Gentle(c)
         \/ \E c \in Logins :
              \/ SsoCall(c)
              \/ way[c] = "sso" /\ (SignInLands(c) \/ SignInThrows(c) \/ SignInBreaksOff(c))
         \/ \E c \in Adoptions : AdoptionCall(c) \/ AdoptionReturns(c) \/ CallThrows(c)
<1>1. ASSUME NEW c \in CredentialCalls, NEW s \in {"starting", "posted"},
             step' = [step EXCEPT ![c] = s]
      PROVE  c \in Active'
  BY <1>1 DEF Active, SignInTypeOK
<1>2. CASE \E c \in Logins : SignInStep(c)
  <2>1. PICK c \in Logins : SignInStep(c)
    BY <1>2
  <2> c \in CredentialCalls /\ c \notin Adoptions
    BY SignInAssumption DEF CredentialCalls
  <2>2. CASE \/ PasswordCall(c) \/ OpaqueCall(c) \/ PasskeyCall(c) \/ ConfirmCall(c)
             \/ RegisterCall(c) \/ OpaqueFallsBack(c)
    BY <1>1, <2>2 DEF PasswordCall, OpaqueCall, PasskeyCall, ConfirmCall, RegisterCall,
           OpaqueFallsBack, Posts
  <2>3. CASE \/ OpaqueFinishes(c) \/ PasswordReturns(c) \/ OpaqueReturns(c)
             \/ PasskeyReturns(c) \/ EnrolmentReturns(c)
    <3>1. c \in Active /\ way[c] # "sso"
      BY <2>3 DEF OpaqueFinishes, PasswordReturns, OpaqueReturns, PasskeyReturns,
             EnrolmentReturns, Active, CallsKnown
    <3> QED
      BY <3>1 DEF Gentle
  <2>4. CASE SignInLands(c) \/ SignInThrows(c) \/ SignInBreaksOff(c)
    <3>1. c \in Active
      BY <2>4 DEF SignInLands, SignInThrows, SignInBreaksOff, Active
    <3> QED
      BY <2>4, <3>1 DEF Gentle
  <2>5. CASE SsoReturns(c)
    BY <2>5 DEF SsoReturns, Active
  <2> QED
    BY <2>1, <2>2, <2>3, <2>4, <2>5 DEF SignInStep
<1>3. CASE \E c \in Devices : DeviceCall(c) \/ DeviceReturns(c) \/ DeviceThrows(c)
  <2>1. PICK c \in Devices : DeviceCall(c) \/ DeviceReturns(c) \/ DeviceThrows(c)
    BY <1>3
  <2>2. c \in CredentialCalls /\ ~Gentle(c)
    BY SignInAssumption DEF CredentialCalls, Gentle
  <2> QED
    BY <1>1, <2>1, <2>2 DEF DeviceCall, DeviceReturns, DeviceThrows, Posts, Active
<1>4. CASE \E c \in Refreshes : RefreshCall(c) \/ RefreshReturns(c) \/ CallThrows(c)
  <2>1. PICK c \in Refreshes : RefreshCall(c) \/ RefreshReturns(c) \/ CallThrows(c)
    BY <1>4
  <2>2. c \in CredentialCalls /\ ~Gentle(c)
    BY SignInAssumption DEF CredentialCalls, Gentle
  <2> QED
    BY <1>1, <2>1, <2>2 DEF RefreshCall, RefreshReturns, CallThrows, Posts, Active
<1>5. CASE \E c \in Logouts : LogoutCall(c) \/ LogoutLands(c) \/ LogoutReturns(c)
  <2>1. PICK c \in Logouts : LogoutCall(c) \/ LogoutLands(c) \/ LogoutReturns(c)
    BY <1>5
  <2>2. c \in CredentialCalls /\ ~Gentle(c)
    BY SignInAssumption DEF CredentialCalls, Gentle
  <2> QED
    BY <1>1, <2>1, <2>2 DEF LogoutCall, LogoutLands, LogoutReturns, Posts, Active
<1> QED
  BY <1>2, <1>3, <1>4, <1>5 DEF CredentialStep, CredentialCall

\* A credential call's step keeps what is known of the checks under way: it
\* exposes them, or it is a refusal and changes nothing.
LEMMA StepFlightKnown ==
  ASSUME SignInTypeOK, CallsKnown, FlightKnown, Credentials
  PROVE  FlightKnown'
<1>1. UNCHANGED checkVars /\ exposed' = exposed \cup Overtaken /\ InFlight' = InFlight
  BY CallsLeaveChecks DEF Credentials, checkVars, InFlight
<1>2. CASE Active # {} \/ Active' # {}
  <2>1. InFlight' \subseteq exposed'
    BY <1>1, <1>2 DEF Overtaken
  <2> QED
    BY <2>1 DEF FlightKnown, InFlight
<1>3. CASE Active = {} /\ Active' = {}
  <2>1. \E c \in CredentialCalls : RefusedClosed(c)
    <3>1. ASSUME NEW c \in CredentialCalls,
                 Posts(c, FALSE) \/ Posts(c, TRUE) \/ Posts(c, device # None)
          PROVE  c \in Active'
      BY <3>1 DEF Posts, Active, SignInTypeOK
    <3>2. \A c \in Logins :
             ~SsoCall(c) /\ ~SignInLands(c) /\ ~SignInThrows(c) /\ ~SignInBreaksOff(c)
      BY <1>3, <3>1 DEF SsoCall, SignInLands, SignInThrows, SignInBreaksOff, Active,
                        CredentialCalls
    <3>3. \A c \in Adoptions : ~AdoptionCall(c) /\ ~AdoptionReturns(c) /\ ~CallThrows(c)
      BY <1>3, <3>1 DEF AdoptionCall, AdoptionReturns, CallThrows, Active, CredentialCalls
    <3> QED
      BY <1>3, <3>2, <3>3, StepKinds DEF Credentials
  <2>2. Acting' = Acting
    BY <2>1 DEF RefusedClosed, sessionVars, Acting
  <2> QED
    BY <1>1, <1>3, <2>2 DEF FlightKnown, checkVars
<1> QED
  BY <1>2, <1>3

\* A credential call's step keeps what is known of the memo.
LEMMA StepKeptKnown ==
  ASSUME ChecksTyped, CallsKnown, KeptKnown, Credentials
  PROVE  KeptKnown'
<1>1. exposed \subseteq exposed' /\ memo' \in {memo, <<>>} /\ SignInTypeOK
  BY CallsLeaveChecks DEF Credentials, ChecksTyped, TypeOK
<1>2. CASE memo' = <<>>
  BY <1>2 DEF KeptKnown
<1>3. CASE memo' = memo /\ \E c \in Active : ~Gentle(c)
  BY <1>1, <1>3 DEF KeptKnown
<1>4. CASE memo' = memo /\ \E c \in CredentialCalls : RefusedClosed(c)
  <2>1. Active' = Active /\ Acting' = Acting /\ way' = way
        /\ \A c \in CredentialCalls : step[c] = "landed" => step'[c] = "landed"
    BY <1>1, <1>4 DEF RefusedClosed, Ends, callRest, sessionVars, Active, Acting, SignInTypeOK
  <2> QED
    BY <1>1, <1>4, <2>1 DEF KeptKnown, Gentle, SsoLanded, CredentialCalls
<1>5. CASE memo' = memo /\ \E c \in Logins : SsoCall(c)
  <2>1. PICK c \in Logins : SsoCall(c)
    BY <1>5
  <2>2. c \in CredentialCalls
    BY DEF CredentialCalls
  <2>3. /\ Active' = Active \cup {c} /\ Acting' = Acting
        /\ \A d \in CredentialCalls : step[d] = "landed" => step'[d] = "landed"
    BY <1>1, <2>1, <2>2 DEF SsoCall, Posts, sessionVars, Active, Acting, SignInTypeOK
  <2>4. way'[c] = "sso" /\ \A d \in Logins \ {c} : way'[d] = way[d]
    BY <1>1, <2>1 DEF SsoCall, SignInTypeOK
  <2> QED
    BY <1>1, <1>5, <2>3, <2>4 DEF KeptKnown, Gentle, SsoLanded, CredentialCalls
<1>6. CASE memo' = memo /\ \E c \in Logins : way[c] = "sso" /\ (SignInLands(c) \/ SignInThrows(c))
  <2>1. PICK c \in Logins : way[c] = "sso" /\ (SignInLands(c) \/ SignInThrows(c))
    BY <1>6
  <2>2. c \in CredentialCalls
    BY DEF CredentialCalls
  <2>3. Active' \subseteq Active /\ way' = way
    BY <1>1, <2>1, <2>2 DEF SignInLands, SignInThrows, Ends, callRest, Active, SignInTypeOK
  <2>4. CASE SignInLands(c)
    <3>1. step'[c] = "landed"
      BY <1>1, <2>2, <2>4 DEF SignInLands, Ends, SignInTypeOK
    <3> QED
      BY <1>1, <1>6, <2>3, <3>1 DEF KeptKnown, Gentle, SsoLanded
  <2>5. CASE SignInThrows(c)
    <3>1. /\ Acting' = Acting
          /\ \A d \in CredentialCalls : step[d] = "landed" => step'[d] = "landed"
      BY <1>1, <2>2, <2>5 DEF SignInThrows, Ends, sessionVars, Acting, SignInTypeOK
    <3> QED
      BY <1>1, <1>6, <2>3, <3>1 DEF KeptKnown, Gentle, SsoLanded, CredentialCalls
  <2> QED
    BY <2>1, <2>4, <2>5
<1>7. CASE memo' = memo /\ (\/ \E c \in Adoptions : AdoptionReturns(c)
                            \/ \E c \in Logins : SignInBreaksOff(c))
  <2>1. ASSUME NEW c \in Adoptions, AdoptionReturns(c)
        PROVE  adopted' # adopted
    BY <1>1, <2>1, SignInAssumption DEF AdoptionReturns, CallsKnown, CredentialCalls
  <2>2. ASSUME NEW c \in Logins, SignInBreaksOff(c)
        PROVE  Torn' # Torn
    <3>1. c \notin Torn /\ c \in Torn'
      BY <1>1, <2>2 DEF SignInBreaksOff, Ends, Torn, SignInTypeOK, CredentialCalls
    <3> QED
      BY <3>1
  <2>3. adopted' # adopted \/ Torn' # Torn
    BY <1>7, <2>1, <2>2
  <2>4. \A i \in DOMAIN memo : memo[i].decision.via \in exposed'
    BY <2>3, EntryTyped DEF Credentials, Overtaken, ChecksTyped, TypeOK, CheckInv
  <2> QED
    BY <1>7, <2>4 DEF KeptKnown
<1>8. CASE memo' = memo /\ \E c \in Adoptions : AdoptionCall(c) \/ CallThrows(c)
  <2>1. PICK c \in Adoptions : AdoptionCall(c) \/ CallThrows(c)
    BY <1>8
  <2>2. c \in CredentialCalls
    BY DEF CredentialCalls
  <2>3. /\ Active' \subseteq Active \cup {c} /\ Acting' = Acting /\ way' = way
        /\ \A d \in CredentialCalls : step[d] = "landed" => step'[d] = "landed"
    BY <1>1, <2>1, <2>2 DEF AdoptionCall, CallThrows, Posts, Ends, callRest, sessionVars, Active,
           Acting, SignInTypeOK
  <2> QED
    BY <1>1, <1>8, <2>3 DEF KeptKnown, Gentle, SsoLanded, CredentialCalls
<1> QED
  BY <1>1, <1>2, <1>3, <1>4, <1>5, <1>6, <1>7, <1>8, StepKinds DEF Credentials
\* What is known of the memo is known again after any step.
LEMMA MemoInvStep ==
  ASSUME ChecksTyped, GateInv, MemoInv, [Next]_vars
  PROVE  MemoInv'
<1> SignInTypeOK
  BY DEF GateInv
<1> CallsKnown /\ FlightKnown /\ KeptKnown
  BY DEF MemoInv
<1> SUFFICES CallsKnown' /\ FlightKnown' /\ KeptKnown'
  BY DEF MemoInv
<1>1. CASE Credentials
  BY <1>1, StepCallsKnown, StepFlightKnown, StepKeptKnown DEF Credentials
<1>2. CASE Handle
  <2>1. UNCHANGED <<sessionVars, callVars, checkVars, exposed>> /\ memo' \in {memo, <<>>}
    BY <1>2, CallsLeaveChecks DEF Handle, HandleStep, close, actingTenant
  <2>2. Active' = Active /\ Acting' = Acting /\ way' = way /\ step' = step /\ InFlight' = InFlight
    BY <2>1 DEF sessionVars, callVars, callRest, checkVars, Active, Acting, InFlight
  <2>3. CallsKnown' /\ FlightKnown'
    BY <2>1, <2>2 DEF CallsKnown, FlightKnown, sessionVars, checkVars
  <2>4. KeptKnown'
    BY <2>1, <2>2 DEF KeptKnown, Gentle, SsoLanded
  <2> QED
    BY <2>3, <2>4
<1>3. CASE \E c \in Checks : CheckStep(c)
  <2>1. PICK c \in Checks : CheckStep(c)
    BY <1>3
  <2>2. Active' = Active /\ Acting' = Acting /\ way' = way /\ step' = step /\ adopted' = adopted
    BY <2>1, CheckLeavesCalls DEF sessionRest, sessionVars, callVars, callRest, Active, Acting
  <2>3. CallsKnown'
    BY <2>2 DEF CallsKnown
  <2>4. CASE CheckAnswered(c)
    <3>1. c \in InFlight /\ asked[c] \in Key /\ MemoKey(asked[c].q, asked[c].t) = asked[c]
      BY <2>4 DEF CheckAnswered, InFlight, ChecksTyped, CheckInv, MemoKey, Key
    <3> DEFINE d == [key |-> asked[c], by |-> sentBy[c], via |-> c]
    <3>2. d \in Decision
      BY <2>4, <3>1 DEF CheckAnswered, Decision, ChecksTyped, TypeOK
    <3>3. \A i \in DOMAIN memo' : \/ \E j \in DOMAIN memo : memo'[i] = memo[j]
                                  \/ memo'[i].decision = d
      <4>1. memo' = AfterSet(asked[c], d) /\ memo \in Seq(Entry)
        BY <2>4, <3>1 DEF CheckAnswered, ChecksTyped, TypeOK
      <4>2. \A i \in DOMAIN AfterSet(asked[c], d) :
               \/ \E j \in DOMAIN memo : AfterSet(asked[c], d)[i] = memo[j]
               \/ AfterSet(asked[c], d)[i] = [key |-> asked[c], decision |-> d, age |-> 0]
        BY <3>1, <3>2, <4>1, AfterSetKeeps
      <4> QED
        BY <4>1, <4>2
    <3>4. c \notin exposed => Active = {} /\ sentBy[c] = Acting
      BY <2>4, <3>1 DEF FlightKnown, CheckAnswered
    <3>5. exposed' = exposed
      BY <2>4 DEF CheckAnswered
    <3>6. KeptKnown'
      BY <2>2, <3>3, <3>4, <3>5 DEF KeptKnown, Gentle, SsoLanded
    <3>7. /\ InFlight' \subseteq InFlight
          /\ \A e \in Checks \ {c} : pc'[e] = pc[e] /\ sentBy'[e] = sentBy[e]
      BY <2>4 DEF CheckAnswered, Settles, InFlight, ChecksTyped, TypeOK
    <3>8. pc'[c] = "done"
      BY <2>4 DEF CheckAnswered, Settles, ChecksTyped, TypeOK
    <3>9. FlightKnown'
      BY <2>2, <3>5, <3>7, <3>8 DEF FlightKnown
    <3> QED
      BY <2>3, <3>6, <3>9
  <2>5. CASE \E q \in Questions, t \in handles : CheckMiss(c, q, t)
    <3>1. PICK q \in Questions, t \in handles : CheckMiss(c, q, t)
      BY <2>5
    <3>2. \A i \in DOMAIN memo' : \E j \in DOMAIN memo : memo'[i] = memo[j]
      BY <3>1, WithoutKeeps DEF CheckMiss, AfterMiss, ChecksTyped, TypeOK
    <3>3. exposed \subseteq exposed' /\ (Active # {} => c \in exposed')
      BY <3>1 DEF CheckMiss
    <3>4. KeptKnown'
      BY <2>2, <3>2, <3>3 DEF KeptKnown, Gentle, SsoLanded
    <3>5. InFlight' \subseteq InFlight \cup {c} /\ sentBy'[c] = Acting
          /\ \A e \in Checks \ {c} : pc'[e] = pc[e] /\ sentBy'[e] = sentBy[e]
      BY <3>1 DEF CheckMiss, InFlight, ChecksTyped, TypeOK
    <3>6. FlightKnown'
      BY <2>2, <3>3, <3>5 DEF FlightKnown
    <3> QED
      BY <2>3, <3>4, <3>6
  <2>6. CASE \/ CheckClosed(c) \/ \E q \in Questions, t \in handles : CheckHit(c, q, t)
             \/ CheckRetries(c) \/ CheckThrows(c) \/ CheckResends(c)
    <3>1. memo' = memo /\ exposed' = exposed
      BY <2>6 DEF CheckClosed, CheckHit, CheckRetries, CheckThrows, CheckResends, signInVars
    <3>2. KeptKnown'
      BY <2>2, <3>1 DEF KeptKnown, Gentle, SsoLanded
    <3>3. /\ InFlight' \subseteq InFlight
          /\ pc'[c] = "sent" => sentBy'[c] = Acting
          /\ \A e \in Checks \ {c} : pc'[e] = pc[e] /\ sentBy'[e] = sentBy[e]
      BY <2>6 DEF CheckClosed, CheckHit, CheckRetries, CheckThrows, CheckResends, Settles,
             InFlight, ChecksTyped, TypeOK
    <3>4. FlightKnown'
      BY <2>2, <3>1, <3>3 DEF FlightKnown
    <3> QED
      BY <2>3, <3>2, <3>4
  <2> QED
    BY <2>1, <2>4, <2>5, <2>6 DEF CheckStep
<1>4. CASE Tick \/ UNCHANGED vars
  <2>1. Active' = Active /\ Acting' = Acting /\ way' = way /\ step' = step /\ adopted' = adopted
        /\ pc' = pc /\ sentBy' = sentBy /\ exposed' = exposed /\ InFlight' = InFlight
    BY <1>4 DEF Tick, vars, signInVars, sessionRest, sessionVars, callVars, callRest, checkVars,
           Active, Acting, InFlight
  <2>2. \A i \in DOMAIN memo' : i \in DOMAIN memo /\ memo'[i].decision = memo[i].decision
    BY <1>4, EntryTyped DEF Tick, vars, signInVars, ChecksTyped, TypeOK, Entry
  <2>3. CallsKnown' /\ FlightKnown'
    BY <2>1 DEF CallsKnown, FlightKnown
  <2>4. KeptKnown'
    BY <2>1, <2>2 DEF KeptKnown, Gentle, SsoLanded
  <2> QED
    BY <2>3, <2>4
<1> QED
  BY <1>1, <1>2, <1>3, <1>4 DEF Next

\* The inductive invariant of the decision memo holds of every execution.
THEOREM MemoCorrect == Spec => []MemoInv
<1>1. Init => MemoInv
  <2> SUFFICES ASSUME Init PROVE MemoInv
    OBVIOUS
  <2>1. \A c \in CredentialCalls : step[c] = "idle"
    BY DEF Init, SignInInit
  <2>2. Logins \subseteq CredentialCalls /\ adopted = None /\ memo = <<>>
    BY DEF Init, SignInInit, CredentialCalls
  <2> QED
    BY <2>1, <2>2 DEF Init, MemoInv, CallsKnown, FlightKnown, KeptKnown, Active
<1>2. ChecksTyped /\ GateInv /\ MemoInv /\ [Next]_vars => MemoInv'
  BY MemoInvStep
<1> QED
  BY <1>1, <1>2, ClientTyped, ClientGateCorrect, PTL DEF Spec

\* The memo hands a decision made for an earlier principal to a later one only if
\* the check that fetched it was out together with a credential call, or an
\* adoption or a sign-in that broke off came after it, however many of the ten
\* operations interleave with however many checks (rest/authz.ts:checkAccess,
\* section 17.1 rule 9).
THEOREM NothingInherited == Spec => InheritedOnlyFromOverlap
<1>1. ChecksTyped /\ MemoInv /\ [Next]_vars =>
        [\A c \in Checks :
            (pc[c] = "idle" /\ pc'[c] = "done" /\ Acting # None /\ Active = {})
                => result'[c].by = Acting \/ result'[c].via \in exposed]_vars
  <2> SUFFICES ASSUME ChecksTyped, MemoInv, [Next]_vars, NEW c \in Checks,
                      pc[c] = "idle", pc'[c] = "done", Active = {}
               PROVE  result'[c].by = Acting \/ result'[c].via \in exposed
    OBVIOUS
  <2>1. pc \in [Checks -> {"idle", "sent", "sleeping", "done", "failed"}]
        /\ result \in [Checks -> Decision \cup {None}]
    BY DEF ChecksTyped, TypeOK
  <2>2. PICK d \in Checks : CheckStep(d)
    BY CallsLeaveChecks DEF Next, Tick, vars, checkVars
  <2>3. \E q \in Questions, t \in handles : CheckHit(c, q, t)
    BY <2>1, <2>2 DEF CheckStep, CheckClosed, CheckHit, CheckMiss, CheckAnswered, CheckRetries,
           CheckThrows, CheckResends, Settles
  <2>4. PICK i \in DOMAIN memo : result' = [result EXCEPT ![c] = memo[i].decision]
    BY <2>3 DEF CheckHit, Live, Entries
  <2>5. ~SsoLanded
    BY DEF SsoLanded, Active, CredentialCalls
  <2>6. memo[i].decision.by = Acting \/ memo[i].decision.via \in exposed
    BY <2>5 DEF MemoInv, KeptKnown
  <2> QED
    BY <2>1, <2>4, <2>6
<1> QED
  BY <1>1, ClientTyped, MemoCorrect, PTL DEF Spec, InheritedOnlyFromOverlap
===============================================================================
