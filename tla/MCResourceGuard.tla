---------------------------- MODULE MCResourceGuard ----------------------------
(* ResourceGuard for TLC: three guards, and requests that differ in what one   *)
(* of the checks looks at.                                                     *)
EXTENDS ResourceGuard, TLC

CONSTANTS Us, Them,  \* tenants
          cert, key, \* a client certificate, a DPoP key
          c1, s1, j1

Api == [scheme |-> "https", loopback |-> FALSE, authority |-> "api", path |-> <<"v1">>,
        query |-> FALSE, fragment |-> FALSE, clean |-> TRUE]
Issuer == [Api EXCEPT !.authority = "idp", !.path = <<>>]

Options == [resource |-> Api, authorizationServers |-> <<Issuer>>, scopesSupported |-> <<"read">>,
            bearerMethodsSupported |-> <<"header">>, resourceDocumentation |-> Absent]
MetadataUrl == [Api EXCEPT !.path = PREFIX \o @]

Plain == [tenant |-> Us, expectedIssuer |-> Absent, expectedAudience |-> Absent,
          resourceMetadataUrl |-> Absent, metadata |-> Absent, feed |-> FALSE, entry |-> "middleware",
          route |-> [adapter |-> "nest", role |-> "admin", access |-> TRUE, scope |-> Absent, uma |-> TRUE]]
Mcp == [Plain EXCEPT !.feed = TRUE, !.expectedIssuer = Issuer, !.expectedAudience = Api, !.resourceMetadataUrl = MetadataUrl,
                     !.metadata = Options,
                     !.route = [@ EXCEPT !.adapter = "express", !.role = Absent, !.scope = "read", !.uma = FALSE]]
Uma == [Plain EXCEPT !.route.adapter = "express"]
Custom == [Plain EXCEPT !.entry = "custom", !.route = [@ EXCEPT !.role = Absent, !.access = FALSE]]
Unmounted == [Plain EXCEPT !.entry = "none"]
\* Configurations that no guard can be built from.
Unchecked == [Mcp EXCEPT !.expectedAudience = Absent]
Elsewhere == [Mcp EXCEPT !.resourceMetadataUrl = [MetadataUrl EXCEPT !.authority = "www"]]

MCConfig == [plain |-> Plain, mcp |-> Mcp, uma |-> Uma, custom |-> Custom, unmounted |-> Unmounted,
             unchecked |-> Unchecked, elsewhere |-> Elsewhere]
MCGuards == DOMAIN MCConfig

Good == [sound |-> TRUE, exp |-> MaxTime + 1, iss |-> Issuer, aud |-> Api, tenant |-> Us, sub |-> TRUE,
         cnf |-> Absent, sid |-> s1, roles |-> {"admin"}]
Bound == [Good EXCEPT !.cnf = [x5t |-> cert, jkt |-> Absent]]
Proved == [Good EXCEPT !.cnf = [x5t |-> Absent, jkt |-> key], !.sid = Absent]
Opaque == [Good EXCEPT !.cnf = [x5t |-> Absent, jkt |-> Absent]]
Expiring == [Good EXCEPT !.exp = 1]
Foreign == [Good EXCEPT !.tenant = Them]
Elses == [Good EXCEPT !.aud = Issuer, !.roles = {}, !.sid = Absent]

Get == [method |-> "GET", path |-> <<"v1">>, cookie |-> Absent, bearer |-> Good, csrf |-> "absent",
        cert |-> Absent, proof |-> Absent, resolves |-> TRUE]
Proof == [jti |-> j1, iat |-> 1, key |-> key, sound |-> TRUE]

MCLooks == [
    get       |-> Get,
    anonymous |-> [Get EXCEPT !.bearer = Absent],
    metadata  |-> [Get EXCEPT !.path = MetadataUrl.path, !.bearer = Absent],
    crossSite |-> [Get EXCEPT !.method = "POST", !.cookie = Good, !.bearer = Foreign],
    form      |-> [Get EXCEPT !.method = "POST", !.cookie = Good, !.csrf = "match", !.resolves = FALSE],
    bound     |-> [Get EXCEPT !.bearer = Bound],
    shown     |-> [Get EXCEPT !.bearer = Bound, !.cert = cert],
    opaque    |-> [Get EXCEPT !.bearer = Opaque],
    expiring  |-> [Get EXCEPT !.bearer = Expiring],
    foreign   |-> [Get EXCEPT !.bearer = Foreign],
    elses     |-> [Get EXCEPT !.bearer = Elses],
    unproved  |-> [Get EXCEPT !.bearer = Proved],
    proved    |-> [Get EXCEPT !.bearer = Proved, !.proof = Proof]]
MCRequests == DOMAIN MCLooks

\* One call is any request, the others those that meet it in the feed or in the
\* store of proofs.
MCCarries == [c \in Calls |-> IF c = c1 THEN MCRequests ELSE {"get", "proved"}]
===============================================================================
