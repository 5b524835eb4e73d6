-------------------------------- MODULE Authn --------------------------------
(***************************************************************************)
(* Bearer tokens (package authn): the claims that an extractor is set up   *)
(* to read and the principal that it makes of a verified token, and the    *)
(* cache of the identity provider's keys that the signature is verified    *)
(* with, shared by all requests.                                           *)
(*                                                                         *)
(* A claim name is [base, upper, padded]: its folded form, whether it is   *)
(* spelled with capitals and whether blanks surround it.  A claim value is *)
(* [kind, items]: null, a string of one item, an array of items, or any    *)
(* other JSON; an item is [str, blank, padded].                            *)
(***************************************************************************)
EXTENDS Integers, Sequences

CONSTANTS
    Bearers,            \* concurrent requests
    Kids,               \* identifiers of keys
    BadKids,            \* those whose key does not parse
    Extractors,         \* how the extractor is set up
    Tokens,             \* claims of verified tokens
    jwksCacheTTL, FetchTimeout,
    MaxTime             \* bound: ticks

VARIABLES
    extractor, token,
    published,      \* keys that the identity provider publishes
    withdrawn,      \* by key: when it was withdrawn; 0 is not yet
    time,
    cachedJWKS,     \* the cached keys; none is nil
    lastJWKSFetch,
    holder,         \* who holds the write lock
    queue,          \* who waits for it
    bearer          \* the requests

authnVars == <<extractor, token, published, withdrawn, time, cachedJWKS, lastJWKSFetch, holder, queue, bearer>>

Unheld == "nobody"
ASSUME BearersAssumption == Unheld \notin Bearers

\* Keys are kept for five minutes; the clients that the package makes give a fetch up
\* after ten seconds.
ASSUME TimesAssumption == jwksCacheTTL \in Nat /\ FetchTimeout \in Nat /\ FetchTimeout < jwksCacheTTL

Asks(pc, kid, known, forced, now) ==
    [pc |-> pc, kid |-> kid, known |-> known, forced |-> forced, now |-> now, snapshot |-> 0, got |-> {}, left |-> 0]
NoBearer == Asks("idle", "", FALSE, FALSE, 0)

\* Names and values of claims, and what the program is set up with and is sent.
ClaimNames == [base : STRING, upper : BOOLEAN, padded : BOOLEAN]
Items == [str : BOOLEAN, blank : BOOLEAN, padded : BOOLEAN]
ClaimValues ==
    {v \in [kind : {"null", "string", "array", "other"}, items : Seq(Items)] : v.kind = "string" => Len(v.items) = 1}
ClaimSpecs == [optional : SUBSET ClaimNames, required : SUBSET ClaimNames]

ASSUME ClaimsAssumption ==
    /\ Extractors \subseteq [rolesClaim : ClaimNames, userClaims : ClaimSpecs, clientClaims : ClaimSpecs]
    /\ \A t \in Tokens :
          /\ DOMAIN t = {"exp", "client_id", "sub", "grant_type", "payload"}
          /\ \A name \in DOMAIN t.payload : t.payload[name] \in ClaimValues

-----------------------------------------------------------------------------
(***************************************************************************)
(* Which claims are read.                                                  *)
(***************************************************************************)
Roles == [base |-> "roles", upper |-> FALSE, padded |-> FALSE]
fixedSchemaClaims ==
    {"client_id", "grant_type", "scope", "roles", "iss", "sub", "aud", "exp", "nbf", "iat", "jti"}

foldClaimName(name) == name.base
TrimSpace(name) == [name EXCEPT !.padded = FALSE]

validateClaimNames(names, rolesClaim) ==
    \A name \in names : foldClaimName(name) \notin {"", foldClaimName(rolesClaim)} \cup fixedSchemaClaims

validateRolesClaimName(name) == foldClaimName(name) \notin ({""} \cup fixedSchemaClaims) \ {"roles"}

\* The names of a declaration, and whether each is required.
resolve(spec) ==
    LET required == {TrimSpace(name) : name \in spec.required}
        optional == {TrimSpace(name) : name \in spec.optional}
    IN  [name \in required \cup optional |-> name \in required]

validateConfig(e) ==
    /\ validateRolesClaimName(e.rolesClaim)
    /\ \A spec \in {e.userClaims, e.clientClaims} :
          validateClaimNames(spec.optional \cup spec.required, TrimSpace(e.rolesClaim))

-----------------------------------------------------------------------------
(***************************************************************************)
(* Values of claims.                                                       *)
(***************************************************************************)
Null == [kind |-> "null", items |-> <<>>]
Nothing == [claims |-> FALSE]      \* an error

AllStrings(v) == \A k \in DOMAIN v.items : v.items[k].str
Trimmed(v) == [v EXCEPT !.items = [k \in DOMAIN @ |-> TrimSpace(@[k])]]

claimAbsent(v) == v.kind = "null" \/ (v.kind = "string" /\ v.items[1].blank)

normalizeClaimValue(v) ==
    IF v.kind \in {"string", "array"} /\ AllStrings(v) THEN Trimmed(v) ELSE v

\* Whether a value is one that a required claim can have.
NotAbsent(v) == ~claimAbsent(v)
requiredClaimValue(v) ==
    /\ v.kind \in {"string", "array"}
    /\ v.items # <<>>
    /\ AllStrings(v)
    /\ \A k \in DOMAIN v.items : ~v.items[k].blank

\* The strings that the accessor makes of a value: its items, or none.
Strings(v) ==
    IF v.kind = "string" /\ v.items[1].blank THEN <<>>
    ELSE IF v.kind \in {"string", "array"} /\ AllStrings(v) THEN v.items ELSE <<>>

\* The payload has a claim under this very name.
ValueOf(payload, name) == IF name \in DOMAIN payload THEN payload[name] ELSE Null

extractDeclared(payload, declared) ==
    LET there == {name \in DOMAIN declared : ~claimAbsent(ValueOf(payload, name))} IN
    IF \A name \in DOMAIN declared : declared[name] => name \in there /\ requiredClaimValue(payload[name])
    THEN [claims |-> TRUE, of |-> [name \in there |-> normalizeClaimValue(payload[name])]]
    ELSE Nothing

parseRolesClaim(v) ==
    IF v.kind = "null" THEN [claims |-> TRUE, of |-> <<>>]
    ELSE IF v.kind = "array" /\ AllStrings(v) THEN [claims |-> TRUE, of |-> Trimmed(v).items]
    ELSE Nothing

\* The claim that encoding/json binds to the field: in any spelling.
Bound(payload, base) ==
    IF \E name \in DOMAIN payload : name.base = base
    THEN payload[CHOOSE name \in DOMAIN payload : name.base = base] ELSE Null

resolveClaims(e, payload, declared) ==
    LET name == TrimSpace(e.rolesClaim)
        roles == parseRolesClaim(IF name = Roles THEN Bound(payload, "roles") ELSE ValueOf(payload, name))
        extra == extractDeclared(payload, declared)
    IN  IF roles.claims /\ extra.claims
        THEN [claims |-> TRUE, roles |-> roles.of, extra |-> extra.of] ELSE Nothing

\* The principal of a token whose signature has been verified.
ExtractPrincipal(e, t) ==
    LET spec == IF t.grant_type = "authorization_code" THEN e.userClaims ELSE e.clientClaims IN
    IF /\ t.exp /\ t.client_id
       /\ t.grant_type \in {"authorization_code", "client_credentials"}
       /\ t.grant_type = "authorization_code" => t.sub
    THEN resolveClaims(e, t.payload, resolve(spec))
    ELSE Nothing

-----------------------------------------------------------------------------
(***************************************************************************)
(* The keys.                                                               *)
(***************************************************************************)
BearerAt(r, pc) == bearer[r].pc = pc

\* RequireAuth and Middleware, up to the key of the token.
Authenticate(r, kid) ==
    /\ BearerAt(r, "idle")
    /\ bearer' = [bearer EXCEPT ![r] = Asks("read", kid, kid \in published, FALSE, time)]
    /\ UNCHANGED <<extractor, token, published, withdrawn, time, cachedJWKS, lastJWKSFetch, holder, queue>>

\* keyFunc looks the key up in a set of keys.  One that is missing is looked for again
\* after a forced refresh, once.  A request without a principal is answered 401.
keyFunc(r, keys) ==
    LET kid == bearer[r].kid
        known == bearer[r].known
        served == kid \notin BadKids /\ ExtractPrincipal(extractor, token).claims
    IN  bearer' = [bearer EXCEPT ![r] =
                   IF kid \in keys THEN IF served THEN Asks("served", kid, known, FALSE, 0) ELSE NoBearer
                   ELSE IF bearer[r].forced THEN Asks("unknown key", kid, known, FALSE, 0)
                   ELSE Asks("read", kid, known, TRUE, time)]

cacheValid(now) == cachedJWKS # {} /\ jwksCacheTTL > 0 /\ now - lastJWKSFetch < jwksCacheTTL

\* getJWKS under the read lock.
getJWKS(r) ==
    /\ BearerAt(r, "read")
    /\ holder = Unheld
    /\ IF ~bearer[r].forced /\ cacheValid(bearer[r].now)
       THEN keyFunc(r, cachedJWKS) /\ UNCHANGED queue
       ELSE /\ bearer' = [bearer EXCEPT ![r].pc = "lock", ![r].now = 0, ![r].snapshot = lastJWKSFetch]
            /\ queue' = Append(queue, r)
    /\ UNCHANGED <<extractor, token, published, withdrawn, time, cachedJWKS, lastJWKSFetch, holder>>

\* Another request has fetched the keys while this one waited for the lock.
FetchedEver(r) == TRUE
FetchedMeanwhile(r) == lastJWKSFetch > bearer[r].snapshot

\* getJWKS under the write lock.  Readers that have waited for a writer are let in before
\* the next one; a reader that comes just then may have to wait for it.
Locks(r) ==
    /\ holder = Unheld
    /\ queue # <<>> /\ r = Head(queue)
    /\ \A q \in Bearers : BearerAt(q, "read") => bearer[q].now = time
    /\ queue' = Tail(queue)
    /\ IF cachedJWKS # {} /\ (IF bearer[r].forced THEN FetchedMeanwhile(r) ELSE cacheValid(time))
       THEN keyFunc(r, cachedJWKS) /\ UNCHANGED holder
       ELSE /\ holder' = r
            /\ bearer' = [bearer EXCEPT ![r].pc = "fetch", ![r].snapshot = 0, ![r].now = time, ![r].left = FetchTimeout]
    /\ UNCHANGED <<extractor, token, published, withdrawn, time, cachedJWKS, lastJWKSFetch>>

\* The identity provider answers.  The answer is under way for some time.
KeysAnswered(r) ==
    /\ BearerAt(r, "fetch")
    /\ published # {}
    /\ bearer' = [bearer EXCEPT ![r].pc = "answer", ![r].got = published]
    /\ UNCHANGED <<extractor, token, published, withdrawn, time, cachedJWKS, lastJWKSFetch, holder, queue>>

\* The keys are dated from before the fetch.
DatedAfter(r) == time
DatedBefore(r) == bearer[r].now
fetchJWKS(r) ==
    /\ BearerAt(r, "answer")
    /\ cachedJWKS' = bearer[r].got
    /\ lastJWKSFetch' = DatedBefore(r)
    /\ holder' = Unheld
    /\ keyFunc(r, bearer[r].got)
    /\ UNCHANGED <<extractor, token, published, withdrawn, time, queue>>

FetchFails(r) ==
    /\ bearer[r].pc \in {"fetch", "answer"}
    /\ holder' = Unheld
    /\ bearer' = [bearer EXCEPT ![r] = NoBearer]
    /\ UNCHANGED <<extractor, token, published, withdrawn, time, cachedJWKS, lastJWKSFetch, queue>>

BearerDone(r) ==
    /\ bearer[r].pc \in {"served", "unknown key"}
    /\ bearer' = [bearer EXCEPT ![r] = NoBearer]
    /\ UNCHANGED <<extractor, token, published, withdrawn, time, cachedJWKS, lastJWKSFetch, holder, queue>>

\* The identity provider publishes a key before it signs with it, and withdraws it once.
Publish(kid) ==
    /\ kid \notin published /\ withdrawn[kid] = 0
    /\ published' = published \cup {kid}
    /\ UNCHANGED <<extractor, token, withdrawn, time, cachedJWKS, lastJWKSFetch, holder, queue, bearer>>

Withdraw(kid) ==
    /\ kid \in published
    /\ published' = published \ {kid}
    /\ withdrawn' = [withdrawn EXCEPT ![kid] = time]
    /\ UNCHANGED <<extractor, token, time, cachedJWKS, lastJWKSFetch, holder, queue, bearer>>

\* Time passes while the network is waited for, and while nothing is to be done.
AuthnTick ==
    /\ time < MaxTime
    /\ \A r \in Bearers :
          /\ bearer[r].pc \in {"read", "lock"} => holder # Unheld
          /\ bearer[r].pc \in {"fetch", "answer"} => bearer[r].left > 0
          /\ bearer[r].pc # "served"
    /\ time' = time + 1
    /\ bearer' = [r \in Bearers |-> IF r = holder THEN [bearer[r] EXCEPT !.left = @ - 1] ELSE bearer[r]]
    /\ UNCHANGED <<extractor, token, published, withdrawn, cachedJWKS, lastJWKSFetch, holder, queue>>

-----------------------------------------------------------------------------
AuthnInit ==
    /\ extractor \in {e \in Extractors : validateConfig(e)}
    /\ token \in Tokens
    /\ published \in SUBSET Kids
    /\ withdrawn = [kid \in Kids |-> 0]
    /\ time = 1
    /\ cachedJWKS = {}
    /\ lastJWKSFetch = 0
    /\ holder = Unheld
    /\ queue = <<>>
    /\ bearer = [r \in Bearers |-> NoBearer]

AuthnNext ==
    \/ \E r \in Bearers :
          \/ \E kid \in Kids : Authenticate(r, kid)
          \/ getJWKS(r) \/ Locks(r) \/ KeysAnswered(r) \/ fetchJWKS(r) \/ FetchFails(r) \/ BearerDone(r)
    \/ \E kid \in Kids : Publish(kid) \/ Withdraw(kid)
    \/ AuthnTick

AuthnSpec == AuthnInit /\ [][AuthnNext]_authnVars

-----------------------------------------------------------------------------
(***************************************************************************)
(* Properties.                                                             *)
(***************************************************************************)

\* A token is not refused for an unknown key if the key was published when its request
\* came in and still is: a forced refresh that takes over the keys another request has
\* fetched gets them from a fetch that began after it looked (getJWKS).
KnownKeyIsFound ==
    \A r \in Bearers : BearerAt(r, "unknown key") /\ bearer[r].known => bearer[r].kid \notin published

\* A token is accepted only with a key that is published, or was until less than the
\* cache's lifetime and the timeout of one fetch ago, however long the answer that
\* brought it was under way and however long the request waited for the lock.
AcceptedKeyIsRecent ==
    \A r \in Bearers :
        BearerAt(r, "served") => LET kid == bearer[r].kid IN
                           kid \in published \/ time - withdrawn[kid] < jwksCacheTTL + FetchTimeout

\* A principal has every claim that is required of it, and its accessor gives one or more
\* strings for it, none of them blank or padded.  No declared claim is one that has a
\* field of its own, in any spelling (requiredClaimValue, validateClaimNames).
PrincipalIsUsable ==
    \A type \in {"authorization_code", "client_credentials"} :
        LET spec == IF type = "authorization_code" THEN extractor.userClaims ELSE extractor.clientClaims
            p == ExtractPrincipal(extractor, [token EXCEPT !.grant_type = type])
        IN  p.claims =>
            /\ \A name \in spec.required :
                  /\ TrimSpace(name) \in DOMAIN p.extra
                  /\ LET s == Strings(p.extra[TrimSpace(name)]) IN
                     s # <<>> /\ \A k \in DOMAIN s : ~s[k].blank /\ ~s[k].padded
            /\ \A name \in DOMAIN p.extra :
                  name.base \notin fixedSchemaClaims \cup {foldClaimName(extractor.rolesClaim)}

=============================================================================
