-------------------------------- MODULE Gate --------------------------------
(***************************************************************************)
(* How a client gets in over WebSocket.  POST /issue-tmp-token passes the  *)
(* limiter of its IP address, has its access token inspected and is given  *)
(* a connection token, kept in the cache for TokenTTL; /gw consumes the    *)
(* token, upgrades and registers the connection.  Requests are served      *)
(* concurrently and time passes between any two steps.                     *)
(*                                                                         *)
(* An anonymous session has an id that the server mints and signs; here a  *)
(* header carries such an id, or none that verifies.                       *)
(***************************************************************************)
EXTENDS Cache, FiniteSets

CONSTANTS Ips,              \* client addresses
          GateUsers,        \* sessions of users
          AnonymousIds,     \* ids that can be minted
          NoId,             \* no session
          Tokens,           \* connection tokens
          NoToken,          \* no token
          Requests,         \* calls of /issue-tmp-token
          Upgrades,         \* calls of /gw
          TokenTTL,         \* how long a token is kept (10 s)
          InstanceMaxAge,   \* how long an anonymous id verifies (6 h)
          LimiterTTL,       \* how long an idle limiter is kept (10 min)
          RefillRate,       \* tokens a limiter gains per unit of time
          Burst,            \* tokens a limiter holds
          PruneEvery,       \* the map is pruned when its size is a multiple of it (256)
          MaxTime           \* bound on the clock

ASSUME GateAssumption ==
    /\ {TokenTTL, InstanceMaxAge, LimiterTTL, RefillRate, Burst, PruneEvery, MaxTime} \subseteq Nat \ {0}
    /\ Burst <= RefillRate * LimiterTTL      \* an idle limiter is full when it is forgotten
    /\ NoId \notin GateUsers \union AnonymousIds

VARIABLES time,         \* the clock
          limiters,     \* the limiter of each address that has one
          ledger,       \* the same limiters if none was ever forgotten (history)
          request,      \* the calls of /issue-tmp-token
          minted,       \* when each anonymous id was minted
          cached,       \* the entry of each token in the cache
          issued,       \* the session each token was issued for, and when (history)
          upgrade       \* the calls of /gw

gateVars == <<time, limiters, ledger, request, minted, cached, issued, upgrade>>

GateSessions == GateUsers \union AnonymousIds

NotCached == [until |-> 0, text |-> Text("nil", "")]

NeverIssued == [session |-> NoId, at |-> 0]

GateTypeOK ==
    /\ time \in 0..MaxTime
    /\ DOMAIN limiters \subseteq Ips
    /\ \A i \in DOMAIN limiters : limiters[i] \in [tokens : 0..Burst, filled : 0..MaxTime, seen : 0..MaxTime]
    /\ ledger \in [Ips -> [tokens : 0..Burst, filled : 0..MaxTime]]
    /\ request \in [Requests -> [at : {"allow", "inspect", "exchange", "done"}, session : GateSessions \union {NoId}]]
    /\ minted \in [AnonymousIds -> -1..MaxTime]
    /\ issued \in [Tokens -> [session : GateSessions \union {NoId}, at : 0..MaxTime]]
    /\ upgrade \in [Upgrades -> [at : {"scan", "upgrade", "register", "onNew", "open", "rejected"},
                                 token : Tokens \union {NoToken},
                                 session : GateSessions \union {NoId}, when : 0..MaxTime]]

GateInit ==
    /\ time = 0
    /\ limiters = [i \in {} |-> 0]
    /\ ledger = [i \in Ips |-> [tokens |-> Burst, filled |-> 0]]
    /\ request = [r \in Requests |-> [at |-> "allow", session |-> NoId]]
    /\ minted = [a \in AnonymousIds |-> -1]
    /\ cached = [t \in Tokens |-> NotCached]
    /\ issued = [t \in Tokens |-> NeverIssued]
    /\ upgrade = [u \in Upgrades |-> [at |-> "scan", token |-> NoToken, session |-> NoId, when |-> 0]]

---------------------------------------------------------------------------
(***************************************************************************)
(* POST /issue-tmp-token.                                                  *)
(***************************************************************************)

\* The token bucket: what a limiter holds now, and after an Allow.
Level(l) == LET level == l.tokens + RefillRate * (time - l.filled)
            IN  IF level > Burst THEN Burst ELSE level

Taken(l) == [tokens |-> IF Level(l) > 0 THEN Level(l) - 1 ELSE 0, filled |-> time]

\* The entry of the address, made if there is none.
Entry(ip) == IF ip \in DOMAIN limiters THEN limiters[ip]
             ELSE [tokens |-> Burst, filled |-> time, seen |-> time]

\* A mutant: the entries that would be full are not told from the others.
PrunedYoung(known, ip) ==
    IF Cardinality(known) % PruneEvery = 0 THEN known \ {ip} ELSE {}

\* Entries idle for longer than the TTL, looked for when the size of the map is a
\* multiple of PruneEvery.
Pruned(known, ip) ==
    IF Cardinality(known) % PruneEvery = 0
      THEN {i \in known \ {ip} : time - limiters[i].seen > LimiterTTL}
      ELSE {}

\* Allow, under the limiter's mutex.  A call without an Authorization header ends
\* before it, and one that is not allowed ends here.
Allow(r, ip) ==
    LET known == DOMAIN limiters \union {ip} IN
    /\ request[r].at = "allow"
    /\ limiters' = [i \in known \ Pruned(known, ip) |->
                        IF i = ip THEN [tokens |-> Taken(Entry(ip)).tokens, filled |-> time, seen |-> time]
                                  ELSE limiters[i]]
    /\ ledger' = [ledger EXCEPT ![ip] = Taken(@)]
    /\ request' = [request EXCEPT ![r].at = IF Level(Entry(ip)) > 0 THEN "inspect" ELSE "done"]
    /\ UNCHANGED <<time, minted, cached, issued, upgrade>>

\* readAnonymousInstanceID: the id of the header verifies.
Verifies(id) == id # NoId /\ minted[id] >= 0 /\ time - minted[id] <= InstanceMaxAge

\* mintOrReadAnonymousInstanceID, and what becomes of minted.
MintOrRead(header, id) ==
    IF Verifies(header) THEN id = header /\ minted' = minted
    ELSE minted[id] = -1 /\ minted' = [minted EXCEPT ![id] = time]

\* InspectToken has answered: an error, an anonymous client, or a user, who must
\* name an instance.
InspectToken(r) ==
    /\ request[r].at = "inspect"
    /\ \/ request' = [request EXCEPT ![r].at = "done"] /\ UNCHANGED minted
       \/ \E header \in AnonymousIds \union {NoId}, id \in AnonymousIds :
              /\ MintOrRead(header, id)
              /\ request' = [request EXCEPT ![r] = [at |-> "exchange", session |-> id]]
       \/ \E s \in GateUsers : /\ request' = [request EXCEPT ![r] = [at |-> "exchange", session |-> s]]
                               /\ UNCHANGED minted
    /\ UNCHANGED <<time, limiters, ledger, cached, issued, upgrade>>

\* Exchange: a new token for the session, set in the cache; the call fails if the
\* cache cannot be written.
Exchange(r) ==
    /\ request[r].at = "exchange"
    /\ request' = [request EXCEPT ![r].at = "done"]
    /\ \/ \E t \in {x \in Tokens : issued[x] = NeverIssued} :
              /\ cached' = [cached EXCEPT ![t] = [until |-> time + TokenTTL,
                                                  text |-> Text("bytes", request[r].session)]]
              /\ issued' = [issued EXCEPT ![t] = [session |-> request[r].session, at |-> time]]
       \/ UNCHANGED <<cached, issued>>
    /\ UNCHANGED <<time, limiters, ledger, minted, upgrade>>

---------------------------------------------------------------------------
(***************************************************************************)
(* /gw.                                                                    *)
(***************************************************************************)

\* A mutant: the token is read and not deleted.
LeftByGet(t) == cached[t]

\* GETDEL on the primary: what it leaves of the token's entry.
LeftByGetDel(t) == NotCached

Found(t) == time < cached[t].until

\* ScanConnToken: the token is consumed, and the session it stands for decoded.  The
\* call is rejected if there is no token, if the token is not in the cache, or if
\* the answer to GETDEL is lost after the token has been consumed.
ScanConnToken(u, t) ==
    /\ upgrade[u].at = "scan"
    /\ t # NoToken => issued[t] # NeverIssued
    /\ cached' = IF t = NoToken \/ ~Found(t) THEN cached ELSE [cached EXCEPT ![t] = LeftByGetDel(t)]
    /\ \/ /\ t # NoToken /\ Found(t)
          /\ \E s \in unmarshalCachedValue("string", cached[t].text) :
                 upgrade' = [upgrade EXCEPT ![u] = [at |-> "upgrade", token |-> t, session |-> s, when |-> time]]
       \/ upgrade' = [upgrade EXCEPT ![u].at = "rejected"]
    /\ UNCHANGED <<time, limiters, ledger, request, minted, issued>>

\* UpgradeHTTP, NewConnection and the onNew callbacks, each of which may fail; the
\* connection of a failed onNew is closed.
Proceed(u) ==
    \E step \in {<<"upgrade", "register">>, <<"register", "onNew">>, <<"onNew", "open">>} :
        /\ upgrade[u].at = step[1]
        /\ upgrade' = [upgrade EXCEPT ![u].at = step[2]]
        /\ UNCHANGED <<time, limiters, ledger, request, minted, cached, issued>>

Reject(u) ==
    /\ upgrade[u].at \in {"upgrade", "register", "onNew"}
    /\ upgrade' = [upgrade EXCEPT ![u].at = "rejected"]
    /\ UNCHANGED <<time, limiters, ledger, request, minted, cached, issued>>

Tick == /\ time < MaxTime
        /\ time' = time + 1
        /\ UNCHANGED <<limiters, ledger, request, minted, cached, issued, upgrade>>

GateNext ==
    \/ \E r \in Requests : (\E ip \in Ips : Allow(r, ip)) \/ InspectToken(r) \/ Exchange(r)
    \/ \E u \in Upgrades : (\E t \in Tokens \union {NoToken} : ScanConnToken(u, t)) \/ Proceed(u) \/ Reject(u)
    \/ Tick

GateSpec == GateInit /\ [][GateNext]_gateVars

---------------------------------------------------------------------------
(***************************************************************************)
(* Properties.                                                             *)
(***************************************************************************)

\* A connection token lets one call of /gw past ScanConnToken, for the session it
\* was issued for and within its TTL, however calls overlap and whatever fails later.
TokenOpensOnce ==
    /\ GateTypeOK
    /\ \A u \in Upgrades : upgrade[u].token # NoToken =>
          LET t == upgrade[u].token IN
          /\ upgrade[u].session = issued[t].session
          /\ upgrade[u].when < issued[t].at + TokenTTL
          /\ \A v \in Upgrades \ {u} : upgrade[v].token # t

\* Forgetting idle limiters changes nothing: every address has what it would have
\* had if its limiter had been kept.
ForgettingGivesNothing ==
    \A ip \in Ips : Level(ledger[ip]) = IF ip \in DOMAIN limiters THEN Level(limiters[ip]) ELSE Burst
===========================================================================
