------------------------------- MODULE MCCalls -------------------------------
(***************************************************************************)
(* What concurrent calls look up: the client and the token of a remote     *)
(* service, and the keys that bearer tokens are verified with.  The two    *)
(* modules have no variable in common, so a behaviour is one of one of     *)
(* them, with the other at rest.                                           *)
(***************************************************************************)
EXTENDS Remote, Authn

ServiceConfig(auth, blocks, twice, tls, parses) ==
    [auth |-> auth, blocks |-> blocks, reserved |-> twice, tls |-> tls, timeoutParses |-> parses, timeout |-> 0]
MCNoService == ServiceConfig("none", {"none"}, FALSE, "none", TRUE)

\* A service without tokens, then the same one with tokens; the others are refused, or
\* fail when their client is built.
MCReloads == <<
    {ServiceConfig("static", {"static"}, FALSE, "pair", TRUE),
     ServiceConfig("none", {}, FALSE, "none", FALSE),
     ServiceConfig("oauth2", {"oauth2", "static"}, FALSE, "none", TRUE)},
    {ServiceConfig("oauth2", {"oauth2"}, FALSE, "none", TRUE),
     ServiceConfig("oauth2", {"oauth2"}, TRUE, "none", TRUE),
     ServiceConfig("static", {"static"}, FALSE, "half", TRUE)}>>
MCNoRetry == [max |-> 0, initial |-> 0, most |-> 0, statuses |-> {}]
MCRetries == {MCNoRetry, [max |-> 1, initial |-> 1, most |-> 1, statuses |-> {"busy"}]}

Name(base, upper, padded) == [base |-> base, upper |-> upper, padded |-> padded]
Text(blank, padded) == [str |-> TRUE, blank |-> blank, padded |-> padded]
Number == [str |-> FALSE, blank |-> FALSE, padded |-> FALSE]
MCValues ==
    {Null, [kind |-> "other", items |-> <<>>]}
    \cup {[kind |-> "string", items |-> <<t>>] : t \in {Text(TRUE, FALSE), Text(FALSE, TRUE)}}
    \cup {[kind |-> "array", items |-> ts] :
              ts \in {<<>>, <<Text(FALSE, TRUE), Text(TRUE, FALSE)>>, <<Text(FALSE, TRUE), Text(FALSE, FALSE)>>,
                      <<Text(FALSE, FALSE), Number>>}}

\* Roles under three names, and claims that are declared in several spellings.
email == Name("email", FALSE, FALSE)
Groups == Name("groups", TRUE, FALSE)
NoClaims == [optional |-> {}, required |-> {}]
MCExtractors ==
    [rolesClaim : {Roles, Name("groups", FALSE, TRUE), Name("scope", TRUE, FALSE)},
     userClaims : [optional : SUBSET {email, Groups},
                   required : SUBSET {Name("email", FALSE, TRUE), Name("roles", TRUE, FALSE)}],
     clientClaims : {NoClaims}]
MCTokens ==
    {[exp |-> TRUE, client_id |-> TRUE, sub |-> TRUE, grant_type |-> "authorization_code",
      payload |-> [name \in {email, Groups, roles} |-> IF name = email THEN v ELSE w]] :
        v \in MCValues, w \in MCValues, roles \in {Roles, Name("groups", FALSE, FALSE)}}
SomeExtractor == [rolesClaim |-> Roles, userClaims |-> NoClaims, clientClaims |-> NoClaims]
SomeToken == CHOOSE t \in MCTokens : ExtractPrincipal(SomeExtractor, t).claims

RemoteAtRest ==
    /\ services = [cfg |-> MCNoService, gen |-> Len(Reloads)]
    /\ client = NoClient
    /\ auths = <<>>
    /\ caller = [c \in Calls |-> [NoCall EXCEPT !.pc = "rest"]]
    /\ open = [c \in Calls |-> 0]

AuthnAtRest ==
    /\ extractor = SomeExtractor /\ token = SomeToken
    /\ published = {} /\ withdrawn = [kid \in Kids |-> MaxTime]
    /\ time = MaxTime
    /\ cachedJWKS = {} /\ lastJWKSFetch = 0
    /\ holder = Unheld /\ queue = <<>>
    /\ bearer = [r \in Bearers |-> [NoBearer EXCEPT !.pc = "rest"]]

\* The keys move on with one extractor and one token; the others are there for the claims.
KeysMove == extractor = SomeExtractor /\ token = SomeToken

MCInit ==
    \/ RemoteInit /\ AuthnAtRest
    \/ RemoteAtRest /\ AuthnInit /\ (published # {} => KeysMove)

MCNext ==
    \/ RemoteNext /\ UNCHANGED authnVars
    \/ KeysMove /\ AuthnNext /\ UNCHANGED remoteVars

MCSpec == MCInit /\ [][MCNext]_<<remoteVars, authnVars>>

=============================================================================
