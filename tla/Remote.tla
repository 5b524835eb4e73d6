------------------------------- MODULE Remote -------------------------------
(***************************************************************************)
(* Calls to a remote service (package remote): the registry and its cached *)
(* client, the retries of a request, and the OAuth2 token that callers     *)
(* share (remote/auth).                                                    *)
(*                                                                         *)
(* Services do not interact, so there is one.  gen counts the times that   *)
(* SetServices replaced its configuration, and what is built from a        *)
(* configuration is known by that count.  Time is counted in ticks, and a  *)
(* duration is what is left of it.                                         *)
(***************************************************************************)
EXTENDS Integers, Sequences

CONSTANTS
    Calls,              \* concurrent callers
    Reloads,            \* a sequence: the configurations of each reload of the registry
    NoService,          \* none is registered
    Retries,            \* retry configurations of requests
    NoRetry,            \* Retry is nil
    Lives,              \* lifetimes of tokens
    defaultTimeout,     \* of a request
    tokenTimeout,       \* of a token request
    buffer              \* a cached token is used if more than this is left of it

\* All configurations.
Configs == UNION {Reloads[k] : k \in DOMAIN Reloads}

ASSUME RemoteAssumption ==
    /\ Reloads \in Seq({Reloads[k] : k \in DOMAIN Reloads})
    /\ \A cfg \in Configs : cfg # NoService /\ cfg.timeout \in Nat
    /\ Lives \subseteq Nat
    /\ defaultTimeout \in Nat /\ tokenTimeout \in Nat /\ buffer \in Nat

VARIABLES
    services,   \* the registered configuration, and its count
    client,     \* the cached client: the configuration that it is built from, and its count
    auths,      \* by count: the token of the authenticator, and who holds its mutex
    caller,     \* the callers
    open        \* by caller: response bodies that are not closed

remoteVars == <<services, client, auths, caller, open>>

Unlocked == "nobody"
NoClient == [cfg |-> NoService, gen |-> 0]
NoToken == [real |-> 0, left |-> 0, life |-> 0]
NewOAuth2 == [token |-> NoToken, holder |-> Unlocked]

\* A call of an operation, with the client c that it has found.
Begun(pc, since, c, retry, path) ==
    [pc |-> pc, since |-> since, gen |-> c.gen, cfg |-> c.cfg, retry |-> retry, path |-> path, attempt |-> 0,
     backoff |-> IF retry = NoRetry THEN 0 ELSE retry.initial, left |-> 0, token |-> NoToken]
NoCall == Begun("idle", 0, NoClient, NoRetry, "relative")

-----------------------------------------------------------------------------
(***************************************************************************)
(* The registry.                                                           *)
(***************************************************************************)

\* One strategy is named, and it and no other has its settings.
strategy(cfg) == cfg.auth \in {"none", "static", "oauth2"} /\ (cfg.auth # "none" => cfg.blocks = {cfg.auth})

Build(cfg) == strategy(cfg) /\ ~(cfg.auth = "oauth2" /\ cfg.reserved)

\* A configuration that is not valid changes nothing.  The cached client goes, and so does
\* an authenticator that no call is using.
KeepsClient == client
DropsClient == NoClient
SetServices(cfg) ==
    /\ services.gen < Len(Reloads)
    /\ cfg \in Reloads[services.gen + 1]
    /\ IF Build(cfg) /\ cfg.tls # "half"
       THEN /\ services' = [cfg |-> cfg, gen |-> services.gen + 1]
            /\ client' = DropsClient
            /\ auths' = [g \in DOMAIN auths |-> IF \E c \in Calls : caller[c].gen = g THEN auths[g] ELSE NewOAuth2]
       ELSE UNCHANGED <<services, client, auths>>
    /\ UNCHANGED <<caller, open>>

CallerAt(c, pc) == caller[c].pc = pc
Goes(c, pc) == caller' = [caller EXCEPT ![c].pc = pc]
Ends(c) == caller' = [caller EXCEPT ![c] = NoCall]

\* Call and CallRaw: the cached client, looked for under the read lock.
Call(c, retry, path) ==
    /\ CallerAt(c, "idle")
    /\ caller' = [caller EXCEPT ![c] =
                    Begun(IF client # NoClient THEN "attempt" ELSE "lock", services.gen, client, retry, path)]
    /\ UNCHANGED <<services, client, auths, open>>

\* The rest of GetClient, under the lock.
GetClient(c) ==
    /\ CallerAt(c, "lock")
    /\ IF client = NoClient /\ (services.cfg = NoService \/ ~services.cfg.timeoutParses)
       THEN Ends(c) /\ UNCHANGED client
       ELSE /\ client' = IF client = NoClient THEN services ELSE client
            /\ caller' = [caller EXCEPT ![c].pc = "attempt", ![c].gen = client'.gen, ![c].cfg = client'.cfg]
    /\ UNCHANGED <<services, auths, open>>

-----------------------------------------------------------------------------
(***************************************************************************)
(* Requests and their retries.                                             *)
(***************************************************************************)
Timeout(cfg) == IF cfg.timeout = 0 THEN defaultTimeout ELSE cfg.timeout

\* The end of an attempt, with a response (and its body) or with an error.  The result is
\* returned, or there is another attempt after the back-off.
LeavesBody(c, opened) == opened
ClosesBody(c, opened) == [opened EXCEPT ![c] = 0]
Concludes(c, status) ==
    LET r == caller[c].retry
        response == status # "error"
        opened == IF response THEN [open EXCEPT ![c] = @ + 1] ELSE open
        again == r # NoRetry /\ (~response \/ status \in r.statuses) /\ caller[c].attempt < r.max
    IN  IF again
        THEN /\ open' = ClosesBody(c, opened)
             /\ caller' = [caller EXCEPT ![c].pc = "wait", ![c].left = caller[c].backoff, ![c].token = NoToken]
        ELSE open' = opened /\ IF response THEN Goes(c, "read") ELSE Ends(c)

\* executeOnce up to Apply.  Another host is refused, and that counts as a failed attempt.
executeOnce(c) ==
    /\ CallerAt(c, "attempt")
    /\ IF caller[c].path = "other host" THEN Concludes(c, "error")
       ELSE /\ caller' = [caller EXCEPT ![c].pc = IF caller[c].cfg.auth = "oauth2" THEN "token" ELSE "sent",
                                    ![c].left = Timeout(caller[c].cfg)]
            /\ open' = open
    /\ UNCHANGED <<services, client, auths>>

\* The context of the call ends, before an attempt or in the wait for the next one.  One
\* that is under way fails.
ContextEnds(c) ==
    /\ caller[c].pc \in {"attempt", "wait"} /\ caller[c].retry # NoRetry
    /\ Ends(c)
    /\ UNCHANGED <<services, client, auths, open>>

\* The request has arrived at the service.  Its answer comes, or does not, in time.
Arrives(c) ==
    /\ CallerAt(c, "sent")
    /\ Goes(c, "arrived")
    /\ UNCHANGED <<services, client, auths, open>>

ServiceResponds(c, status) ==
    /\ CallerAt(c, "arrived")
    /\ Concludes(c, status)
    /\ UNCHANGED <<services, client, auths>>

RequestFails(c) ==
    /\ caller[c].pc \in {"sent", "arrived"}
    /\ Concludes(c, "error")
    /\ UNCHANGED <<services, client, auths>>

\* The timer of the back-off fires.
NextBackoff(b, most) == IF 2 * b > most THEN most ELSE 2 * b
Retry(c) ==
    /\ CallerAt(c, "wait")
    /\ caller[c].left = 0
    /\ caller' = [caller EXCEPT ![c].pc = "attempt", ![c].attempt = @ + 1,
                            ![c].backoff = NextBackoff(@, caller[c].retry.most)]
    /\ UNCHANGED <<services, client, auths, open>>

\* Request decodes the response, RawRequest reads it; both close it.
Request(c) ==
    /\ CallerAt(c, "read")
    /\ Ends(c)
    /\ open' = [open EXCEPT ![c] = @ - 1]
    /\ UNCHANGED <<services, client, auths>>

-----------------------------------------------------------------------------
(***************************************************************************)
(* The token of an authenticator.                                          *)
(***************************************************************************)

\* A cached token is used if it will not expire within the buffer.
AnyLeft(token) == token.left > 0
EnoughLeft(token) == token.left > buffer

getToken(c) ==
    LET a == auths[caller[c].gen] IN
    /\ CallerAt(c, "token")
    /\ a.holder = Unlocked
    /\ IF EnoughLeft(a.token)
       THEN /\ caller' = [caller EXCEPT ![c].pc = "sent", ![c].token = a.token, ![c].left = Timeout(caller[c].cfg)]
            /\ UNCHANGED auths
       ELSE /\ caller' = [caller EXCEPT ![c].pc = "refresh", ![c].left = tokenTimeout]
            /\ auths' = [auths EXCEPT ![caller[c].gen].holder = c]
    /\ UNCHANGED <<services, client, open>>

\* The identity provider issues a token.  Its answer takes time.
Issues(c, life) ==
    /\ CallerAt(c, "refresh")
    /\ caller' = [caller EXCEPT ![c].pc = "issued", ![c].token = [real |-> life, left |-> 0, life |-> life]]
    /\ UNCHANGED <<services, client, auths, open>>

\* The lifetime is counted from the answer.
refreshToken(c) ==
    LET token == [caller[c].token EXCEPT !.left = @ + caller[c].token.life] IN
    /\ CallerAt(c, "issued")
    /\ auths' = [auths EXCEPT ![caller[c].gen] = [token |-> token, holder |-> Unlocked]]
    /\ caller' = [caller EXCEPT ![c].pc = "sent", ![c].token = token, ![c].left = Timeout(caller[c].cfg)]
    /\ UNCHANGED <<services, client, open>>

RefreshFails(c) ==
    /\ caller[c].pc \in {"refresh", "issued"}
    /\ auths' = [auths EXCEPT ![caller[c].gen].holder = Unlocked]
    /\ Concludes(c, "error")
    /\ UNCHANGED <<services, client>>

-----------------------------------------------------------------------------
Less(n) == IF n > 0 THEN n - 1 ELSE 0
Aged(token) == [token EXCEPT !.real = Less(@), !.left = Less(@)]
Timed == {"refresh", "issued", "sent", "arrived", "wait"}

\* Time passes, but not past the timeout of a request that is under way.
RemoteTick ==
    /\ \A c \in Calls : caller[c].pc \in Timed \ {"wait"} => caller[c].left > 0
    /\ \E c \in Calls : ~CallerAt(c, "idle")
    /\ caller' = [c \in Calls |-> [caller[c] EXCEPT !.token = Aged(@),
                                                !.left = IF caller[c].pc \in Timed THEN Less(@) ELSE @]]
    /\ auths' = [g \in DOMAIN auths |-> [auths[g] EXCEPT !.token = Aged(@)]]
    /\ UNCHANGED <<services, client, open>>

RemoteInit ==
    /\ services = [cfg |-> NoService, gen |-> 0]
    /\ client = NoClient
    /\ auths = [g \in DOMAIN Reloads |-> NewOAuth2]
    /\ caller = [c \in Calls |-> NoCall]
    /\ open = [c \in Calls |-> 0]

RemoteNext ==
    \/ \E cfg \in Configs : SetServices(cfg)
    \/ RemoteTick
    \/ \E c \in Calls :
          \/ \E retry \in Retries, path \in {"relative", "other host"} : Call(c, retry, path)
          \/ GetClient(c) \/ executeOnce(c) \/ ContextEnds(c) \/ Arrives(c) \/ RequestFails(c)
          \/ \E status \in {"ok", "client error", "busy"} : ServiceResponds(c, status)
          \/ Retry(c) \/ Request(c)
          \/ getToken(c) \/ refreshToken(c) \/ RefreshFails(c)
          \/ \E life \in Lives : Issues(c, life)

RemoteSpec == RemoteInit /\ [][RemoteNext]_remoteVars

-----------------------------------------------------------------------------
(***************************************************************************)
(* Properties.                                                             *)
(***************************************************************************)

\* A request is made with a configuration that was registered when its call began, or
\* later: no call uses a client, or a token, that was built from an earlier one
\* (SetServices: "subsequent calls use the new configuration").
CallsUseNewConfig ==
    \A c \in Calls : caller[c].pc \notin {"idle", "lock"} => caller[c].gen >= caller[c].since

\* A token has not expired when it arrives at the service with a request, although its
\* lifetime is counted from the arrival of the answer that brought it, other callers wait
\* for the mutex meanwhile, and the request takes time itself.  This is what the buffer of
\* getToken is for.  It takes a buffer that covers both timeouts, and a token that lives
\* longer than they do.
TokenLivesToArrive ==
    \A c \in Calls :
        LET t == caller[c].token
            delays == tokenTimeout + Timeout(caller[c].cfg)
        IN  (CallerAt(c, "arrived") /\ caller[c].cfg.auth = "oauth2" /\ delays <= buffer /\ t.life > delays) => t.real > 0

\* A response that is not returned to the caller is closed before the next attempt, and
\* the one that is returned is closed when it has been read (executeWithRetry, Request).
BodiesAreClosed ==
    \A c \in Calls : open[c] = IF CallerAt(c, "read") THEN 1 ELSE 0

=============================================================================
