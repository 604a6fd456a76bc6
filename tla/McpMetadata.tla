------------------------------ MODULE McpMetadata ------------------------------
(***************************************************************************)
(* What a resource server announces of itself (middleware/mcpCore.ts): the *)
(* protected-resource metadata document, the challenges a guard built for  *)
(* it sends, and when the two may be served together.  Pure operators; a   *)
(* refused configuration is Refused, which the guard's factory throws.     *)
(*                                                                         *)
(* An absolute URI is a record, since only its parts are ever looked at;   *)
(* clean says that every character of it is an NQCHAR.                     *)
(***************************************************************************)
EXTENDS Sequences

CONSTANTS Refused,   \* a ValidationError thrown while the guard is built
          Absent     \* an option that is not set, a header that is not sent

URI == [scheme : STRING, loopback : BOOLEAN, authority : STRING, path : Seq(STRING),
        query : BOOLEAN, fragment : BOOLEAN, clean : BOOLEAN]

-------------------------------------------------------------------------------
(* Validation *)

IDENTIFIER == [allowQuery |-> FALSE, allowFragment |-> FALSE]
LOCATOR    == [allowQuery |-> TRUE,  allowFragment |-> TRUE]

requireAbsoluteUri(uri, policy) ==
    /\ uri # Absent
    /\ uri.query => policy.allowQuery
    /\ uri.fragment => policy.allowFragment
    /\ \/ uri.scheme = "https"
       \/ uri.scheme = "http" /\ uri.loopback

IsScope(scope) == scope # "" /\ scope # "not a token"

Distinct(s) == \A i, j \in DOMAIN s : s[i] = s[j] => i = j

-------------------------------------------------------------------------------
(* The document *)

PREFIX == <<".well-known", "oauth-protected-resource">>

deriveMetadataPath(path) == PREFIX \o path

protectedResourceMetadata(o) ==
    IF /\ requireAbsoluteUri(o.resource, IDENTIFIER)
       /\ o.authorizationServers # <<>> /\ Distinct(o.authorizationServers)
       /\ \A i \in DOMAIN o.authorizationServers :
            requireAbsoluteUri(o.authorizationServers[i], IDENTIFIER)
       /\ Distinct(o.scopesSupported)
       /\ \A i \in DOMAIN o.scopesSupported : IsScope(o.scopesSupported[i])
       /\ o.bearerMethodsSupported = <<"header">>
       /\ o.resourceDocumentation = Absent \/ requireAbsoluteUri(o.resourceDocumentation, LOCATOR)
    THEN [document |-> o, metadataPath |-> deriveMetadataPath(o.resource.path),
          metadataUrl |-> [o.resource EXCEPT !.path = deriveMetadataPath(@)]]
    ELSE Refused

\* May the document be served by the application whose guard is given?
serveProtectedResourceMetadata(metadata, guard) ==
    /\ guard.resourceMetadataUrl = metadata.metadataUrl
    /\ guard.expectedAudience = metadata.document.resource

-------------------------------------------------------------------------------
(* The guard's challenges *)

bearerChallenge(url, error, scope) ==
    IF requireAbsoluteUri(url, LOCATOR) /\ url.clean /\ (scope = Absent \/ IsScope(scope))
    THEN [error |-> error, scope |-> scope, resourceMetadata |-> url]
    ELSE Refused

\* Absent when the guard announces nothing; Refused when it announces itself
\* and does not check the audience it announces.
mcpGuardChallenges(guard, scope) ==
    LET url == guard.resourceMetadataUrl
        all == [noCredential      |-> bearerChallenge(url, Absent, Absent),
                invalidToken      |-> bearerChallenge(url, "invalid_token", Absent),
                insufficientScope |-> IF scope = Absent THEN Absent
                                      ELSE bearerChallenge(url, "insufficient_scope", scope),
                metadataPath      |-> IF url = Absent THEN <<>> ELSE url.path]
    IN  CASE url = Absent -> Absent
          [] url # Absent /\ guard.expectedAudience = Absent -> Refused
          [] OTHER -> IF Refused \in {all.noCredential, all.invalidToken, all.insufficientScope}
                      THEN Refused ELSE all

\* Which of its challenges a guard sends.
challengeFor401(challenges, presented) ==
    IF challenges = Absent THEN Absent ELSE IF presented THEN "invalidToken" ELSE "noCredential"

\* Fault: every denial asks for more scope.
challengeFor403_Any(challenges, reasonCode) ==
    IF challenges # Absent /\ challenges.insufficientScope # Absent THEN "insufficientScope" ELSE Absent

\* Only the absence of any grant is answered with the scope that would help.
challengeFor403(challenges, reasonCode) ==
    IF challenges # Absent /\ challenges.insufficientScope # Absent /\ reasonCode = "no_grant"
    THEN "insufficientScope" ELSE Absent

isMetadataDocumentRequest(challenges, method, path) ==
    challenges # Absent /\ method \in {"GET", "HEAD"} /\ path = challenges.metadataPath
===============================================================================
