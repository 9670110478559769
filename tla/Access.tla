--------------------------------- MODULE Access ---------------------------------
(***************************************************************************)
(* Who gets in: the two validators of auth-client (HS256 with the shared   *)
(* secret, RS256 with a cached JWKS document) and the gates the services   *)
(* put behind them.  The auth service is external: it publishes signing    *)
(* keys, withdraws them, and signs tokens that carry the role a user has   *)
(* at that moment.  Requests run in threads and share one JwksCache.       *)
(***************************************************************************)
EXTENDS Naturals

CONSTANTS
    Requests,
    Services,  \* the services asked, of the five modelled here
    Kids,      \* key ids of RS256 keys
    First,     \* the one published at the beginning
    Ttl,       \* DEFAULT_JWKS_CACHE_TTL_SECONDS
    MaxFetch,  \* the time a JWKS fetch takes at most
    Life,      \* lifetime of a token
    MaxAge,    \* step_up_max_age_seconds
    MaxClock,  \* bound: the clock
    None

VARIABLES
    clock,
    published,  \* keys in the document of the auth service
    keyFrom,    \* history: since when each key is or was in it
    keyUntil,   \* history: the last instant it was, None before the first
    admin,      \* the user's role is admin
    adminUntil, \* history: the last instant it was
    cache,      \* JwksCache._cached
    req         \* the requests

authVars == <<published, keyFrom, keyUntil, admin, adminUntil>>
vars == <<clock, authVars, cache, req>>

AdminServices == {"cost-api", "health-aggregator", "admin-api"}
NoCache == [keys |-> {}, expires |-> 0]
Idle == [pc |-> "idle", service |-> None, token |-> None, doc |-> {}, last |-> FALSE,
         since |-> 0, steady |-> TRUE, code |-> 0, keyLag |-> 0, roleLag |-> 0,
         keyMissed |-> FALSE]

Init ==
    /\ clock = 0
    /\ published = {First}
    /\ keyUntil = [k \in Kids |-> IF k = First THEN 0 ELSE None]
    /\ keyFrom = [k \in Kids |-> 0]
    /\ admin = TRUE /\ adminUntil = 0
    /\ cache = NoCache
    /\ req = [q \in Requests |-> Idle]

-----------------------------------------------------------------------------
(* The auth service and time.                                              *)

Waiting(q) == req[q].pc \in {"fetching", "served"}

Tick ==
    /\ clock < MaxClock
    /\ \A q \in Requests : Waiting(q) => clock < req[q].since + MaxFetch
    /\ clock' = clock + 1
    /\ keyUntil' = [k \in Kids |-> IF k \in published THEN clock + 1 ELSE keyUntil[k]]
    /\ adminUntil' = IF admin THEN clock + 1 ELSE adminUntil
    /\ UNCHANGED <<published, keyFrom, admin, cache, req>>

Publish(k) ==
    /\ keyUntil[k] = None
    /\ published' = published \cup {k}
    /\ keyFrom' = [keyFrom EXCEPT ![k] = clock]
    /\ keyUntil' = [keyUntil EXCEPT ![k] = clock]
    /\ UNCHANGED <<clock, admin, adminUntil, cache, req>>

Withdraw(k) ==
    /\ k \in published
    /\ published # {k}
    /\ published' = published \ {k}
    /\ req' = [q \in Requests |->
                 IF Waiting(q) /\ req[q].token.kid = k
                 THEN [req[q] EXCEPT !.steady = FALSE] ELSE req[q]]
    /\ UNCHANGED <<clock, keyFrom, keyUntil, admin, adminUntil, cache>>

Demote ==
    /\ admin
    /\ admin' = FALSE
    /\ UNCHANGED <<clock, published, keyFrom, keyUntil, adminUntil, cache, req>>

\* The tokens signed so far: with HS256 (no kid) or a key published then, and
\* the role of then, after a second factor or not.
Tokens ==
    {[kid |-> kid, iat |-> t, admin |-> admin \/ t <= adminUntil, stepUp |-> mfa] :
        kid \in {k \in Kids : keyUntil[k] # None} \cup {None},
        t \in 0 .. clock, mfa \in BOOLEAN}

Signed(t) == t.kid # None => t.iat \in keyFrom[t.kid] .. keyUntil[t.kid]

-----------------------------------------------------------------------------
(* Gates: the status code for a token whose signature holds.               *)

\* jwt.decode refuses a token at its expiry.
Unexpired(t, code) == IF t.iat + Life <= clock THEN 401 ELSE code

RequireAdmin(t) == IF t.admin THEN 200 ELSE 403

RequireStepUp(t) ==
    IF t.admin /\ t.stepUp /\ clock <= t.iat + MaxAge THEN 200 ELSE 403

Gate(service, t) ==
    Unexpired(t, CASE service = "cost-api" -> RequireAdmin(t)
                   [] service = "health-aggregator" -> RequireAdmin(t)
                   [] service = "admin-api" -> RequireStepUp(t)
                   [] OTHER -> 200)

\* The end of a request, and what the properties ask of it.
Answered(r, code) ==
    [Idle EXCEPT
       !.pc = "done", !.code = code,
       !.keyLag = IF code = 200 /\ r.token.kid # None
                  THEN clock - keyUntil[r.token.kid] ELSE 0,
       !.roleLag = IF code = 200 /\ r.service \in AdminServices
                   THEN clock - adminUntil ELSE 0,
       !.keyMissed = code = 401 /\ r.steady /\ clock < r.token.iat + Life]

-----------------------------------------------------------------------------
(* The validators.                                                         *)

Unchanged == UNCHANGED <<clock, authVars>>

Fetching(r, last) ==
    [r EXCEPT !.pc = "fetching", !.last = last, !.since = clock]

\* The HS256 validator needs no key; the algorithm has to be its own.
SharedSecret(r) ==
    Answered(r, IF r.token.kid = None THEN Gate(r.service, r.token) ELSE 401)

\* A faulty variant: an entry stays good.
NeverStale(entry) == entry # NoCache

Fresh(entry) == entry.expires > clock

\* A faulty variant: a fresh document is the last word.
TrustFreshDocument(r) ==
    IF r.token.kid = None THEN Answered(r, 401)
    ELSE IF Fresh(cache)
         THEN Answered(r, IF r.token.kid \in cache.keys
                          THEN Gate(r.service, r.token) ELSE 401)
         ELSE Fetching(r, FALSE)

\* JwksCache.get before any fetch: a stale document is fetched anew, and a
\* key that a fresh one lacks is looked for once more.
Lookup(r) ==
    IF r.token.kid = None THEN Answered(r, 401)
    ELSE IF Fresh(cache) /\ r.token.kid \in cache.keys
         THEN Answered(r, Gate(r.service, r.token))
         ELSE Fetching(r, Fresh(cache))

\* A request arrives.
Arrive(q, service, token) ==
    /\ req[q].pc = "idle"
    /\ Signed(token)
    /\ token.stepUp => service = "admin-api"
    /\ LET r == [Idle EXCEPT !.service = service, !.token = token,
                             !.steady = /\ token.kid \in published
                                           /\ service # "session-manager"]
       IN  req' = [req EXCEPT ![q] = IF service = "session-manager"
                                     THEN SharedSecret(r) ELSE Lookup(r)]
    /\ Unchanged /\ UNCHANGED cache

\* No token where it is looked for.
ArriveWithout(q) ==
    /\ req[q].pc = "idle"
    /\ req' = [req EXCEPT ![q] = [Idle EXCEPT !.pc = "done", !.code = 401]]
    /\ Unchanged /\ UNCHANGED cache

\* The auth service answers the fetch with the document of this moment.
Serve(q) ==
    /\ req[q].pc = "fetching"
    /\ req' = [req EXCEPT ![q] = [@ EXCEPT !.pc = "served", !.doc = published]]
    /\ Unchanged /\ UNCHANGED cache

\* The document is cached, whoever has cached one since, and used.  The first
\* of two fetches that lacks the key is followed by the second.
Store(q) ==
    LET r == req[q]
        fetched == [keys |-> r.doc, expires |-> clock + Ttl]
    IN  /\ r.pc = "served"
        /\ cache' = fetched
        /\ req' = [req EXCEPT ![q] =
                     IF r.token.kid \in r.doc THEN Answered(r, Gate(r.service, r.token))
                     ELSE IF r.last THEN Answered(r, 401)
                     ELSE Fetching([r EXCEPT !.doc = {}], TRUE)]
        /\ Unchanged

\* The fetch fails or brings no key list: not a JwtInvalidError, so the request
\* ends in a server error, and a document that is still cached is not used.
FetchFails(q) ==
    /\ req[q].pc = "fetching"
    /\ req' = [req EXCEPT ![q] = Answered(req[q], 500)]
    /\ Unchanged /\ UNCHANGED cache

Next ==
    \/ Tick \/ Demote
    \/ \E k \in Kids : Publish(k) \/ Withdraw(k)
    \/ \E q \in Requests :
         \/ \E service \in Services, t \in Tokens : Arrive(q, service, t)
         \/ ArriveWithout(q) \/ Serve(q) \/ Store(q) \/ FetchFails(q)

Spec == Init /\ [][Next]_vars

-----------------------------------------------------------------------------
(* Properties.                                                             *)

\* A key the auth service has withdrawn lets nobody in once the cached copy and
\* the fetch that may have brought an old one are over, although any thread may
\* overwrite the cache with an older document.
WithdrawnKeysExpire == \A q \in Requests : req[q].keyLag < Ttl + MaxFetch

\* A token is not refused for its key while that key is published all along
\* the request, whatever the cache held and whoever overwrote it meanwhile.
PublishedKeysAreFound == \A q \in Requests : ~req[q].keyMissed

\* An administrator who is demoted is out of the admin routes within the
\* lifetime of the last token, although no service asks the auth service.
DemotionTakesEffect == \A q \in Requests : req[q].roleLag < Life
=============================================================================
