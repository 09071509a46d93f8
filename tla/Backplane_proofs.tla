-------------------------- MODULE Backplane_proofs --------------------------
(***************************************************************************)
(* Proofs about what containers share: the tokens and the rate limiters in *)
(* front of a connection (Gate) and the cache they are kept in (Cache), the*)
(* schema the containers migrate at boot (Migrations), and the channels of *)
(* the pub/sub (Subscriber).                                               *)
(***************************************************************************)
EXTENDS Migrations, Gate, Subscriber, TLAPS

\* A leaf that names no prover is tried with these, in this order.
USE SMTT(20), ZenonT(30), Z3T(30)

-----------------------------------------------------------------------------
(***************************************************************************)
(* Gate: the rate limiters.  A limiter that was forgotten would be full    *)
(* had it been kept.                                                       *)
(***************************************************************************)

\* What GateAssumption says of the numbers.
LEMMA NatFacts ==
    /\ TokenTTL \in Nat /\ LimiterTTL \in Nat /\ RefillRate \in Nat /\ Burst \in Nat /\ MaxTime \in Nat
    /\ TokenTTL > 0 /\ Burst > 0 /\ Burst <= RefillRate * LimiterTTL
    /\ NoId \notin GateSessions
BY GateAssumption DEF GateSessions

\* What Exchange writes is what ScanConnToken reads.
LEMMA TextOfBytes == ASSUME NEW x PROVE Text("bytes", x).of = x
BY Zenon DEF Text, Whole, Signed, Unsigned

\* What ScanConnToken reads is the text in the cache.
LEMMA StringOfText == ASSUME NEW x PROVE unmarshalCachedValue("string", x) = {x.of}
BY Zenon DEF unmarshalCachedValue, Whole, Signed, Unsigned

\* The token bucket stays within its bounds.
LEMMA TakenType ==
    ASSUME time \in 0 .. MaxTime, NEW l, l.tokens \in 0 .. Burst, l.filled \in 0 .. time
    PROVE  /\ Level(l) \in 0 .. Burst
           /\ Taken(l) \in [tokens : 0 .. Burst, filled : 0 .. MaxTime]
           /\ Taken(l).filled = time
<1>1. time - l.filled \in Nat
  BY NatFacts
<1>2. RefillRate * (time - l.filled) \in Nat
  BY <1>1, NatFacts
<1>3. Level(l) \in 0 .. Burst
  BY <1>2, NatFacts DEF Level
<1> HIDE DEF Level
<1> QED
  BY <1>3, NatFacts DEF Taken

-----------------------------------------------------------------------------
(* Gate: the limiters *)

\* A limiter that is kept is the ledger's; one that was forgotten, or was never
\* made, would be full.
LimiterInv ==
    /\ \A ip \in Ips : ledger[ip].filled <= time
    /\ \A ip \in DOMAIN limiters : /\ limiters[ip].tokens = ledger[ip].tokens
                                   /\ limiters[ip].filled = ledger[ip].filled
                                   /\ limiters[ip].seen = ledger[ip].filled
    /\ \A ip \in Ips \ DOMAIN limiters : Level(ledger[ip]) = Burst

LimiterTypeOK ==
    /\ time \in 0 .. MaxTime
    /\ DOMAIN limiters \subseteq Ips
    /\ \A i \in DOMAIN limiters : limiters[i] \in [tokens : 0 .. Burst, filled : 0 .. MaxTime, seen : 0 .. MaxTime]
    /\ ledger \in [Ips -> [tokens : 0 .. Burst, filled : 0 .. MaxTime]]

\* A full bucket stays full.
LEMMA StaysFull ==
    ASSUME NEW tokens \in 0 .. Burst, NEW filled \in Nat, NEW now \in Nat, NEW later \in Nat,
           filled <= now, now <= later, tokens + RefillRate * (now - filled) >= Burst
    PROVE  tokens + RefillRate * (later - filled) >= Burst
<1>1. RefillRate * (later - filled) = RefillRate * (now - filled) + RefillRate * (later - now)
  BY NatFacts
<1>2. RefillRate * (later - now) \in Nat /\ RefillRate * (now - filled) \in Nat
  BY NatFacts
<1> QED
  BY <1>1, <1>2, NatFacts

\* A bucket nobody took from for the TTL is full.
LEMMA IdleIsFull ==
    ASSUME LimiterTypeOK, NEW l \in [tokens : 0 .. Burst, filled : 0 .. MaxTime], time - l.filled > LimiterTTL
    PROVE  Level(l) = Burst
<1>1. time \in Nat /\ l.filled \in Nat /\ l.tokens \in Nat /\ l.tokens <= Burst
  BY NatFacts DEF LimiterTypeOK
<1>2. time - l.filled - LimiterTTL \in Nat
  BY <1>1, NatFacts
<1>3. RefillRate * (time - l.filled) = RefillRate * LimiterTTL + RefillRate * (time - l.filled - LimiterTTL)
  BY <1>1, NatFacts
<1>4. RefillRate * (time - l.filled - LimiterTTL) \in Nat /\ RefillRate * LimiterTTL \in Nat
  BY <1>2, NatFacts
<1> QED
  BY <1>1, <1>3, <1>4, NatFacts DEF Level

\* Allow, with the entries it prunes.
LEMMA AllowKeepsLimiters ==
    ASSUME LimiterTypeOK, LimiterInv, NEW r \in Requests, NEW ip \in Ips, Allow(r, ip)
    PROVE  LimiterTypeOK' /\ LimiterInv'
<1> DEFINE known == DOMAIN limiters \union {ip}
           gone == Pruned(known, ip)
<1>1. /\ time' = time
      /\ limiters' = [i \in known \ gone |->
                        IF i = ip THEN [tokens |-> Taken(Entry(ip)).tokens, filled |-> time, seen |-> time]
                                  ELSE limiters[i]]
      /\ ledger' = [ledger EXCEPT ![ip] = Taken(@)]
  BY Zenon DEF Allow
<1>2. ip \notin gone /\ \A i \in gone : i \in DOMAIN limiters /\ time - limiters[i].seen > LimiterTTL
  BY Zenon DEF Pruned
<1> HIDE DEF gone
<1>3. /\ DOMAIN limiters' = known \ gone /\ ip \in DOMAIN limiters'
      /\ DOMAIN limiters' \subseteq Ips
      /\ \A i \in DOMAIN limiters' : i # ip => i \in DOMAIN limiters /\ limiters'[i] = limiters[i]
      /\ limiters'[ip] = [tokens |-> Taken(Entry(ip)).tokens, filled |-> time, seen |-> time]
  BY <1>1, <1>2, Zenon DEF LimiterTypeOK
<1>4. ledger[ip].tokens \in 0 .. Burst /\ ledger[ip].filled \in 0 .. time /\ time \in 0 .. MaxTime
  BY NatFacts DEF LimiterTypeOK, LimiterInv
<1>5. Level(ledger[ip]) \in 0 .. Burst /\ Taken(ledger[ip]) \in [tokens : 0 .. Burst, filled : 0 .. MaxTime]
      /\ Taken(ledger[ip]).filled = time
  BY <1>4, TakenType, Zenon
<1>6. ledger' \in [Ips -> [tokens : 0 .. Burst, filled : 0 .. MaxTime]]
      /\ ledger'[ip] = Taken(ledger[ip]) /\ \A i \in Ips \ {ip} : ledger'[i] = ledger[i]
  BY <1>1, <1>5, Zenon DEF LimiterTypeOK
<1>7. Level(Entry(ip)) = Level(ledger[ip])
  <2>1. CASE ip \in DOMAIN limiters
    BY <2>1, Zenon DEF LimiterInv, Entry, Level
  <2>2. CASE ip \notin DOMAIN limiters
    <3>1. Entry(ip).tokens = Burst /\ Entry(ip).filled = time
      BY <2>2, Zenon DEF Entry
    <3>2. RefillRate * (time - time) = 0
      BY <1>4, NatFacts
    <3>3. Level(Entry(ip)) = Burst
      BY <3>1, <3>2, NatFacts DEF Level
    <3> QED
      BY <2>2, <3>3, Zenon DEF LimiterInv
  <2> QED
    BY <2>1, <2>2, Zenon
<1>8. Taken(Entry(ip)).tokens = Taken(ledger[ip]).tokens
  BY <1>7, Zenon DEF Taken
<1>9. limiters'[ip] \in [tokens : 0 .. Burst, filled : 0 .. MaxTime, seen : 0 .. MaxTime]
  BY <1>3, <1>4, <1>5, <1>8
<1>10. LimiterTypeOK'
  <2>1. \A i \in DOMAIN limiters' : limiters'[i] \in [tokens : 0 .. Burst, filled : 0 .. MaxTime, seen : 0 .. MaxTime]
    BY <1>3, <1>9, Zenon DEF LimiterTypeOK
  <2> QED
    BY <1>1, <1>3, <1>4, <1>6, <2>1, Zenon DEF LimiterTypeOK
<1>11. \A i \in Ips : ledger'[i].filled <= time'
  BY <1>1, <1>4, <1>5, <1>6 DEF LimiterInv
<1>12. ASSUME NEW i \in DOMAIN limiters'
       PROVE  /\ limiters'[i].tokens = ledger'[i].tokens
              /\ limiters'[i].filled = ledger'[i].filled
              /\ limiters'[i].seen = ledger'[i].filled
  <2>1. CASE i = ip
    BY <2>1, <1>3, <1>5, <1>6, <1>8
  <2>2. CASE i # ip
    BY <2>2, <1>3, <1>6, ZenonT(40), SMTT(30) DEF LimiterInv
  <2> QED
    BY <2>1, <2>2, Zenon
<1>13. ASSUME NEW i \in Ips \ DOMAIN limiters'
       PROVE  Level(ledger[i])' = Burst
  <2>1. i # ip /\ ledger'[i] = ledger[i]
    BY <1>3, <1>6, Zenon
  <2>2. Level(ledger[i]) = Burst
    <3>1. CASE i \in DOMAIN limiters
      <4>1. i \in gone
        BY <3>1, <1>3, Zenon
      <4>2. time - ledger[i].filled > LimiterTTL
        BY <4>1, <1>2, Zenon DEF LimiterInv
      <4> QED
        BY <4>2, IdleIsFull, Zenon DEF LimiterTypeOK
    <3>2. CASE i \notin DOMAIN limiters
      BY <3>2, Zenon DEF LimiterInv
    <3> QED
      BY <3>1, <3>2, Zenon
  <2> QED
    BY <1>1, <2>1, <2>2, Zenon DEF Level
<1> QED
  BY <1>10, <1>11, <1>12, <1>13, Zenon DEF LimiterInv

\* Buckets fill alike whether or not they are remembered.
LEMMA TickKeepsLimiters ==
    ASSUME LimiterTypeOK, LimiterInv, Tick
    PROVE  LimiterTypeOK' /\ LimiterInv'
<1>1. time' = time + 1 /\ time < MaxTime /\ limiters' = limiters /\ ledger' = ledger /\ time \in 0 .. MaxTime
  BY Zenon DEF Tick, LimiterTypeOK
<1>2. LimiterTypeOK'
  BY <1>1, NatFacts DEF LimiterTypeOK
<1>3. \A ip \in Ips : ledger'[ip].filled <= time'
  BY <1>1, NatFacts DEF LimiterTypeOK, LimiterInv
<1>4. ASSUME NEW ip \in Ips \ DOMAIN limiters'
      PROVE  Level(ledger[ip])' = Burst
  <2>1. Level(ledger[ip]) = Burst
    BY <1>1, <1>4, Zenon DEF LimiterInv
  <2>2. ledger[ip].tokens \in 0 .. Burst /\ ledger[ip].filled \in Nat /\ ledger[ip].filled <= time
    BY NatFacts DEF LimiterTypeOK, LimiterInv
  <2>3. time \in Nat /\ time' \in Nat /\ time <= time'
    BY <1>1, NatFacts
  <2>4. RefillRate * (time - ledger[ip].filled) \in Int /\ RefillRate * (time' - ledger[ip].filled) \in Int
    BY <2>2, <2>3, NatFacts
  <2>5. ledger[ip].tokens + RefillRate * (time - ledger[ip].filled) >= Burst
    BY <2>1, <2>2, <2>4, NatFacts DEF Level
  <2>6. ledger[ip].tokens + RefillRate * (time' - ledger[ip].filled) >= Burst
    BY <2>2, <2>3, <2>5, StaysFull, ZenonT(40), SMTT(30)
  <2> QED
    BY <1>1, <2>2, <2>4, <2>6, NatFacts DEF Level
<1> QED
  BY <1>1, <1>2, <1>3, <1>4, Zenon DEF LimiterInv

\* No address has a limiter at first, and all may take a full burst.
LEMMA LimiterInit == GateInit => LimiterTypeOK /\ LimiterInv
<1> SUFFICES ASSUME GateInit
             PROVE  LimiterTypeOK /\ LimiterInv
  BY Zenon
<1>1. time = 0 /\ DOMAIN limiters = {} /\ ledger = [i \in Ips |-> [tokens |-> Burst, filled |-> 0]]
  BY Zenon DEF GateInit
<1>2. RefillRate * (0 - 0) = 0
  BY NatFacts
<1>3. \A ip \in Ips : ledger[ip].tokens = Burst /\ ledger[ip].filled = 0
  BY <1>1, Zenon
<1>4. \A ip \in Ips : Level(ledger[ip]) = Burst
  BY <1>1, <1>2, <1>3, NatFacts DEF Level
<1>5. LimiterTypeOK
  BY <1>1, NatFacts DEF LimiterTypeOK
<1> QED
  BY <1>1, <1>3, <1>4, <1>5 DEF LimiterInv

\* Only Allow and the clock change a bucket.
LEMMA LimiterStep == LimiterTypeOK /\ LimiterInv /\ [GateNext]_gateVars => LimiterTypeOK' /\ LimiterInv'
<1> SUFFICES ASSUME LimiterTypeOK, LimiterInv, [GateNext]_gateVars
             PROVE  LimiterTypeOK' /\ LimiterInv'
  BY Zenon
<1>1. CASE UNCHANGED <<time, limiters, ledger>>
  BY <1>1, Zenon DEF LimiterTypeOK, LimiterInv, Level
<1>2. CASE \E r \in Requests, ip \in Ips : Allow(r, ip)
  BY <1>2, AllowKeepsLimiters, Zenon
<1>3. CASE Tick
  BY <1>3, TickKeepsLimiters, Zenon
<1> QED
  BY <1>1, <1>2, <1>3, Zenon
     DEF GateNext, gateVars, InspectToken, Exchange, ScanConnToken, Proceed, Reject

\* Forgetting a limiter gives its address nothing (Allow's pruning of idle entries),
\* for every rate, burst, TTL and number of addresses.
THEOREM ForgettingGivesNothingThm == GateSpec => []ForgettingGivesNothing
<1>1. LimiterTypeOK /\ LimiterInv => ForgettingGivesNothing
  <2> SUFFICES ASSUME LimiterTypeOK, LimiterInv, NEW ip \in Ips
               PROVE  Level(ledger[ip]) = IF ip \in DOMAIN limiters THEN Level(limiters[ip]) ELSE Burst
    BY Zenon DEF ForgettingGivesNothing
  <2> QED
    BY Zenon DEF LimiterInv, Level
<1> QED
  BY <1>1, LimiterInit, LimiterStep, PTL DEF GateSpec

-----------------------------------------------------------------------------
(***************************************************************************)
(* Gate: the connection tokens.  A token is in the cache until the call    *)
(* that opens a connection with it takes it out.                           *)
(***************************************************************************)

RequestT == [at : {"allow", "inspect", "exchange", "done"}, session : GateSessions \union {NoId}]
UpgradeT == [at : {"scan", "upgrade", "register", "onNew", "open", "rejected"},
             token : Tokens \union {NoToken}, session : GateSessions \union {NoId}, when : 0 .. MaxTime]
IssuedT == [session : GateSessions \union {NoId}, at : 0 .. MaxTime]

RequestTypeOK ==
    /\ request \in [Requests -> RequestT]
    /\ minted \in [AnonymousIds -> -1 .. MaxTime]
    /\ \A r \in Requests : request[r].at = "exchange" => request[r].session \in GateSessions

\* A request that reaches Exchange has a session.
LEMMA RequestStep ==
    ASSUME RequestTypeOK, time \in 0 .. MaxTime, [GateNext]_gateVars
    PROVE  RequestTypeOK'
<1>1. CASE UNCHANGED <<request, minted>>
  BY <1>1, Zenon DEF RequestTypeOK
<1>2. ASSUME NEW r \in Requests, NEW ip \in Ips, Allow(r, ip)
      PROVE  RequestTypeOK'
  <2> DEFINE where == IF Level(Entry(ip)) > 0 THEN "inspect" ELSE "done"
  <2>1. request' = [request EXCEPT ![r].at = where] /\ minted' = minted
    BY <1>2, Zenon DEF Allow
  <2>2. where \in {"inspect", "done"}
    BY Zenon
  <2> HIDE DEF where
  <2> QED
    BY <2>1, <2>2, ZenonT(40), SMTT(30) DEF RequestTypeOK, RequestT
<1>3. ASSUME NEW r \in Requests, InspectToken(r)
      PROVE  RequestTypeOK'
  <2>1. CASE request' = [request EXCEPT ![r].at = "done"] /\ UNCHANGED minted
    BY <2>1, ZenonT(40), SMTT(30) DEF RequestTypeOK, RequestT
  <2>2. ASSUME NEW header \in AnonymousIds \union {NoId}, NEW id \in AnonymousIds, MintOrRead(header, id),
               request' = [request EXCEPT ![r] = [at |-> "exchange", session |-> id]]
        PROVE  RequestTypeOK'
    <3>1. minted' \in [AnonymousIds -> -1 .. MaxTime]
      <4>1. time \in -1 .. MaxTime
        BY NatFacts
      <4> QED
        BY <2>2, <4>1, Zenon DEF MintOrRead, RequestTypeOK
    <3>2. id \in GateSessions
      BY Zenon DEF GateSessions
    <3> QED
      BY <2>2, <3>1, <3>2, Zenon DEF RequestTypeOK, RequestT
  <2>3. ASSUME NEW s \in GateUsers, request' = [request EXCEPT ![r] = [at |-> "exchange", session |-> s]],
               UNCHANGED minted
        PROVE  RequestTypeOK'
    <3>1. s \in GateSessions
      BY Zenon DEF GateSessions
    <3> QED
      BY <2>3, <3>1, Zenon DEF RequestTypeOK, RequestT
  <2> QED
    BY <1>3, <2>1, <2>2, <2>3, Zenon DEF InspectToken
<1>4. ASSUME NEW r \in Requests, Exchange(r)
      PROVE  RequestTypeOK'
  BY <1>4, ZenonT(40), SMTT(30) DEF Exchange, RequestTypeOK, RequestT
<1> QED
  BY <1>1, <1>2, <1>3, <1>4, Zenon DEF GateNext, gateVars, ScanConnToken, Proceed, Reject, Tick

\* A token that was never issued is unknown; one that was is in the cache, if at
\* all, as Exchange set it, and then no call of /gw has it.
TokenInv ==
    /\ issued \in [Tokens -> IssuedT]
    /\ upgrade \in [Upgrades -> UpgradeT]
    /\ DOMAIN cached = Tokens
    /\ \A t \in Tokens : cached[t] # NotCached =>
          /\ issued[t] # NeverIssued
          /\ cached[t].until = issued[t].at + TokenTTL
          /\ cached[t].text.of = issued[t].session
          /\ \A u \in Upgrades : upgrade[u].token = t => t = NoToken
    /\ \A u \in Upgrades : upgrade[u].token # NoToken => issued[upgrade[u].token] # NeverIssued
    /\ \A u \in Upgrades : upgrade[u].token # NoToken =>
          LET t == upgrade[u].token IN
          /\ upgrade[u].session = issued[t].session
          /\ upgrade[u].when < issued[t].at + TokenTTL
          /\ \A v \in Upgrades \ {u} : upgrade[v].token # t

\* Exchange writes a token nobody has seen.
LEMMA ExchangeKeepsTokens ==
    ASSUME RequestTypeOK, TokenInv, time \in 0 .. MaxTime, NEW r \in Requests, Exchange(r)
    PROVE  TokenInv'
<1>1. upgrade' = upgrade /\ time' = time
  BY Zenon DEF Exchange
<1>2. CASE UNCHANGED <<cached, issued>>
  BY <1>1, <1>2, ZenonT(40), SMTT(30) DEF TokenInv
<1>3. ASSUME NEW t \in {x \in Tokens : issued[x] = NeverIssued},
             cached' = [cached EXCEPT ![t] = [until |-> time + TokenTTL,
                                              text |-> Text("bytes", request[r].session)]],
             issued' = [issued EXCEPT ![t] = [session |-> request[r].session, at |-> time]]
      PROVE  TokenInv'
  <2>1. request[r].session \in GateSessions
    BY Zenon DEF Exchange, RequestTypeOK
  <2>2. /\ issued'[t] = [session |-> request[r].session, at |-> time]
        /\ issued'[t] # NeverIssued
        /\ \A x \in Tokens \ {t} : issued'[x] = issued[x]
        /\ issued' \in [Tokens -> IssuedT]
    BY <1>3, <2>1, NatFacts, Zenon DEF TokenInv, IssuedT, NeverIssued
  <2>3. /\ cached'[t].until = time + TokenTTL
        /\ cached'[t].text.of = request[r].session
        /\ \A x \in Tokens \ {t} : cached'[x] = cached[x]
        /\ DOMAIN cached' = Tokens
    <3> DEFINE entry == [until |-> time + TokenTTL, text |-> Text("bytes", request[r].session)]
    <3>1. entry.until = time + TokenTTL /\ entry.text.of = request[r].session
      BY TextOfBytes, ZenonT(40), SMTT(30)
    <3> HIDE DEF entry
    <3> QED
      BY <1>3, <3>1, Zenon DEF TokenInv, entry
  <2>4. \A u \in Upgrades : upgrade[u].token # NoToken => upgrade[u].token # t /\ upgrade[u].token \in Tokens
    BY DEF TokenInv, UpgradeT
  <2>5. ASSUME NEW x \in Tokens, cached'[x] # NotCached
        PROVE  /\ issued'[x] # NeverIssued
               /\ cached'[x].until = issued'[x].at + TokenTTL
               /\ cached'[x].text.of = issued'[x].session
               /\ \A u \in Upgrades : upgrade'[u].token = x => x = NoToken
    <3>1. CASE x = t
      BY <3>1, <1>1, <2>2, <2>3, <2>4
    <3>2. CASE x # t
      BY <3>2, <1>1, <2>2, <2>3, <2>5 DEF TokenInv
    <3> QED
      BY <3>1, <3>2, ZenonT(40), SMTT(30)
  <2>6. \A u \in Upgrades : upgrade'[u].token # NoToken => issued'[upgrade'[u].token] = issued[upgrade[u].token]
    BY <1>1, <2>2, <2>4, Zenon
  <2> HIDE DEF TokenInv
  <2>7. /\ upgrade' \in [Upgrades -> UpgradeT]
        /\ \A u \in Upgrades : upgrade'[u].token # NoToken => issued'[upgrade'[u].token] # NeverIssued
        /\ \A u \in Upgrades : upgrade'[u].token # NoToken =>
              LET k == upgrade'[u].token IN
              /\ upgrade'[u].session = issued'[k].session
              /\ upgrade'[u].when < issued'[k].at + TokenTTL
              /\ \A v \in Upgrades \ {u} : upgrade'[v].token # k
    BY <1>1, <2>6, ZenonT(40), SMTT(30) DEF TokenInv
  <2> QED
    BY <2>2, <2>3, <2>5, <2>7, Zenon DEF TokenInv
<1> QED
  BY <1>2, <1>3, Zenon DEF Exchange

\* ScanConnToken takes the token out of the cache as it reads it (GETDEL).
LEMMA ScanKeepsTokens ==
    ASSUME TokenInv, time \in 0 .. MaxTime, NEW u \in Upgrades, NEW t \in Tokens \union {NoToken},
           ScanConnToken(u, t)
    PROVE  TokenInv'
<1>1. issued' = issued /\ time' = time
  BY Zenon DEF ScanConnToken
<1>2. /\ DOMAIN cached' = Tokens
      /\ \A x \in Tokens : cached'[x] # NotCached => cached'[x] = cached[x]
  BY Zenon DEF ScanConnToken, LeftByGetDel, TokenInv
<1>3. CASE upgrade' = [upgrade EXCEPT ![u].at = "rejected"]
  <2>1. /\ upgrade' \in [Upgrades -> UpgradeT]
        /\ \A v \in Upgrades : /\ upgrade'[v].token = upgrade[v].token
                               /\ upgrade'[v].session = upgrade[v].session
                               /\ upgrade'[v].when = upgrade[v].when
    BY <1>3 DEF TokenInv, UpgradeT
  <2> QED
    BY <1>1, <1>2, <2>1 DEF TokenInv
<1>4. ASSUME t # NoToken, Found(t), NEW s \in unmarshalCachedValue("string", cached[t].text),
             upgrade' = [upgrade EXCEPT ![u] = [at |-> "upgrade", token |-> t, session |-> s, when |-> time]]
      PROVE  TokenInv'
  <2>1. t \in Tokens /\ cached[t] # NotCached
    <3>1. NotCached.until = 0
      BY ZenonT(40), SMTT(30) DEF NotCached
    <3>2. cached[t].until # 0
      BY <1>4 DEF Found
    <3> QED
      BY <1>4, <3>1, <3>2, Zenon
  <2>2. /\ issued[t] # NeverIssued
        /\ cached[t].until = issued[t].at + TokenTTL
        /\ s = issued[t].session
        /\ \A v \in Upgrades : upgrade[v].token # t
    <3>1. s = cached[t].text.of
      BY <1>4, StringOfText, Zenon
    <3> QED
      BY <1>4, <2>1, <3>1, Zenon DEF TokenInv
  <2>3. time < issued[t].at + TokenTTL
    BY <1>4, <2>2, Zenon DEF Found
  <2>4. cached'[t] = NotCached
    BY <1>4, <2>1, Zenon DEF ScanConnToken, LeftByGetDel, TokenInv
  <2>5. s \in GateSessions \union {NoId}
    BY <2>1, <2>2, Zenon DEF TokenInv, IssuedT
  <2>6. /\ upgrade' \in [Upgrades -> UpgradeT]
        /\ upgrade'[u].token = t /\ upgrade'[u].session = s /\ upgrade'[u].when = time
        /\ \A v \in Upgrades \ {u} : upgrade'[v] = upgrade[v]
    BY <1>4, <2>1, <2>5, ZenonT(40), SMTT(30) DEF TokenInv, UpgradeT
  <2>7. ASSUME NEW x \in Tokens, cached'[x] # NotCached
        PROVE  /\ issued'[x] # NeverIssued
               /\ cached'[x].until = issued'[x].at + TokenTTL
               /\ cached'[x].text.of = issued'[x].session
               /\ \A v \in Upgrades : upgrade'[v].token = x => x = NoToken
    BY <1>1, <1>2, <2>4, <2>6, <2>7 DEF TokenInv
  <2>8. \A v \in Upgrades : upgrade'[v].token # NoToken => issued'[upgrade'[v].token] # NeverIssued
    BY <1>1, <2>2, <2>6 DEF TokenInv
  <2>9. ASSUME NEW v \in Upgrades, upgrade'[v].token # NoToken
        PROVE  /\ upgrade'[v].session = issued'[upgrade'[v].token].session
               /\ upgrade'[v].when < issued'[upgrade'[v].token].at + TokenTTL
               /\ \A w \in Upgrades \ {v} : upgrade'[w].token # upgrade'[v].token
    <3>1. CASE v = u
      BY <3>1, <1>1, <2>2, <2>3, <2>6, ZenonT(40), SMTT(30)
    <3>2. CASE v # u
      BY <3>2, <2>9, <1>1, <2>2, <2>6 DEF TokenInv
    <3> QED
      BY <3>1, <3>2, Zenon
  <2> QED
    BY <1>1, <1>2, <2>6, <2>7, <2>8, <2>9, Zenon DEF TokenInv
<1> QED
  BY <1>3, <1>4, Zenon DEF ScanConnToken

\* A connection token opens one connection (ScanConnToken's GETDEL): for the session
\* and within the TTL of Exchange, for any number of tokens and concurrent calls.
THEOREM TokenOpensOnceThm == GateSpec => []TokenOpensOnce
<1> DEFINE Inv == LimiterTypeOK /\ LimiterInv /\ RequestTypeOK /\ TokenInv
<1>1. GateInit => Inv
  <2> SUFFICES ASSUME GateInit
               PROVE  RequestTypeOK /\ TokenInv
    BY LimiterInit, Zenon
  <2>1. RequestTypeOK
    BY NatFacts DEF GateInit, RequestTypeOK, RequestT
  <2>2. issued \in [Tokens -> IssuedT] /\ upgrade \in [Upgrades -> UpgradeT]
    BY NatFacts DEF GateInit, NeverIssued, IssuedT, UpgradeT
  <2>3. DOMAIN cached = Tokens /\ (\A t \in Tokens : cached[t] = NotCached)
        /\ \A u \in Upgrades : upgrade[u].token = NoToken
    BY Zenon DEF GateInit
  <2> QED
    BY <2>1, <2>2, <2>3, Zenon DEF TokenInv
<1>2. Inv /\ [GateNext]_gateVars => Inv'
  <2> SUFFICES ASSUME Inv, [GateNext]_gateVars
               PROVE  TokenInv'
    BY LimiterStep, RequestStep, Zenon DEF LimiterTypeOK
  <2>t. time \in 0 .. MaxTime
    BY Zenon DEF LimiterTypeOK
  <2>1. CASE UNCHANGED <<cached, issued, upgrade>>
    BY <2>1, ZenonT(40), SMTT(30) DEF TokenInv
  <2>2. ASSUME NEW r \in Requests, Exchange(r)
        PROVE  TokenInv'
    BY <2>2, <2>t, ExchangeKeepsTokens, Zenon
  <2>3. ASSUME NEW u \in Upgrades, NEW t \in Tokens \union {NoToken}, ScanConnToken(u, t)
        PROVE  TokenInv'
    BY <2>3, <2>t, ScanKeepsTokens, Zenon
  <2>4. ASSUME NEW u \in Upgrades, Proceed(u) \/ Reject(u)
        PROVE  TokenInv'
    <3>1. /\ upgrade' \in [Upgrades -> UpgradeT]
          /\ \A v \in Upgrades : /\ upgrade'[v].token = upgrade[v].token
                                 /\ upgrade'[v].session = upgrade[v].session
                                 /\ upgrade'[v].when = upgrade[v].when
      BY <2>4 DEF Proceed, Reject, TokenInv, UpgradeT
    <3>2. cached' = cached /\ issued' = issued
      BY <2>4, Zenon DEF Proceed, Reject
    <3> QED
      BY <3>1, <3>2 DEF TokenInv
  <2> QED
    BY <2>1, <2>2, <2>3, <2>4, Zenon DEF GateNext, gateVars, Allow, InspectToken, Tick
<1>3. Inv => TokenOpensOnce
  BY Zenon DEF TokenOpensOnce, GateTypeOK, LimiterTypeOK, RequestTypeOK, TokenInv, RequestT,
     UpgradeT, IssuedT
<1> QED
  BY <1>1, <1>2, <1>3, PTL DEF GateSpec

-----------------------------------------------------------------------------
(***************************************************************************)
(* What the cache's conversions promise, for every width of the types.     *)
(***************************************************************************)

Numeric == Whole \union {"float"}

\* A number that was written comes back unchanged into the type it had.
THEOREM SameTypeRoundTrip ==
    ASSUME NEW kind \in Numeric, NEW half \in Int, CanHold(kind, half)
    PROVE  unmarshalCachedValue(kind, Text(kind, half)) = {half}
  <1>1. Text(kind, half) = [form |-> "decimal", of |-> half]
    BY Zenon DEF Text, convertNumberToStr, Numeric, Whole, Signed, Unsigned
  <1>2. Spells(Text(kind, half)) = {half}
    BY <1>1 DEF Spells
  <1> QED
    BY <1>2, Zenon DEF unmarshalCachedValue, convertStrToNumber, Numeric

\* Read into any other numeric type, it is the same number or it is reported as not
\* found: convertStrToNumber refuses what does not fit and never truncates.
THEOREM OtherTypeNeverTruncates ==
    ASSUME NEW writer \in Numeric, NEW reader \in Numeric, NEW half \in Int,
           NEW read \in unmarshalCachedValue(reader, Text(writer, half))
    PROVE  read = half /\ CanHold(reader, read)
  <1>1. Text(writer, half) = [form |-> "decimal", of |-> half]
    BY Zenon DEF Text, convertNumberToStr, Numeric, Whole, Signed, Unsigned
  <1>2. Spells(Text(writer, half)) = {half}
    BY <1>1 DEF Spells
  <1> QED
    BY <1>2, Zenon DEF unmarshalCachedValue, convertStrToNumber, Numeric

\* A number written through a pointer, as CacheThis writes an int, is never read back
\* as itself: it is not found, or it is a different number if its byte is a digit.
THEOREM PointerNeverReadsBack ==
    ASSUME NEW reader \in Numeric, NEW half \in Int,
           NEW read \in unmarshalCachedValue(reader, Text("pointer", half))
    PROVE  read # half
  <1>1. Text("pointer", half) = [form |-> "msgpack", of |-> half]
    BY Zenon DEF Text, Whole, Signed, Unsigned
  <1>2. Spells(Text("pointer", half)) \subseteq {half - 96}
    BY <1>1 DEF Spells
  <1>3. read = half - 96
    BY <1>2, Zenon DEF unmarshalCachedValue, convertStrToNumber, Numeric
  <1> QED
    BY <1>3

-----------------------------------------------------------------------------
(***************************************************************************)
(* Migrations, for any number of replicas, releases, tables and restarts.  *)
(* The argument for PostgreSQL: whoever runs migrations holds the lock of  *)
(* the version row, so that the version it started from is still the       *)
(* committed one when it commits.  For DynamoDB: a table that was found    *)
(* right stays right.                                                      *)
(***************************************************************************)

\* The transaction that runs migrations is the one that has written the row.
RunHoldsRow == \A r \in Replicas : step[r] = "run" <=> rowLock = r

\* It started from the committed version, and has not run past its release.
RunStartsAtRow ==
    \A r \in Replicas : step[r] = "run" =>
        /\ from[r] = (IF row = -1 THEN 0 ELSE row)
        /\ from[r] <= at[r] /\ at[r] <= release[r]

\* A replica that has met the row in a conflict finds it when it reads.
ReadFindsRow == \A r \in Replicas : step[r] = "read" => row # -1

\* The steps of PostgreSQL are taken with PostgreSQL.
PostgresSteps ==
    \A r \in Replicas :
        step[r] \in {"creating", "verify", "begin", "read", "run"} => database = "postgres"

\* The tables a replica has been through are right.
CheckedIsRight ==
    database = "dynamodb" =>
        \A r \in Replicas, t \in Tables : t <= checked[r] => VerifyTable(shape[t])

IInv == /\ MigrationTypeOK /\ RunHoldsRow /\ RunStartsAtRow /\ ReadFindsRow
        /\ PostgresSteps /\ CheckedIsRight /\ SchemaIsExact /\ ServingMeansMigrated

-----------------------------------------------------------------------------
(* The two databases *)

\* A missing table is not taken for a right one, and a created one is right.
LEMMA ShapesVerify == VerifyTable(tablesSchema) /\ ~VerifyTable(Missing)
BY Zenon DEF VerifyTable, IsKeySchemaMatched, tablesSchema, Missing

\* A commit leaves the migrations up to the new version applied once, and takes
\* no version back.
LEMMA CommitIsExact ==
    ASSUME IInv, NEW r \in Replicas, CommitMigration(r)
    PROVE  /\ row' = release[r] /\ row' \in 1..MaxVersion /\ row' >= row
           /\ applied' \in [Versions -> Nat]
           /\ SchemaIsExact'
<1>1. /\ row \in -1..MaxVersion /\ release[r] \in 1..MaxVersion /\ row' = release[r]
      /\ applied \in [Versions -> Nat] /\ MaxVersion \in Nat
  BY MigrationAssumption, Zenon DEF IInv, MigrationTypeOK, CommitMigration, Versions
<1>2. /\ at[r] = release[r] /\ from[r] = (IF row = -1 THEN 0 ELSE row) /\ from[r] <= at[r]
  BY Zenon DEF IInv, RunStartsAtRow, CommitMigration
<1>3. row' >= row
  BY <1>1, <1>2
<1>4. ASSUME NEW v \in Versions
      PROVE  /\ applied[v] = (IF v <= row THEN 1 ELSE 0)
             /\ applied'[v] = applied[v] + (IF from[r] < v /\ v <= at[r] THEN 1 ELSE 0)
  BY ZenonT(40), SMTT(30) DEF IInv, SchemaIsExact, CommitMigration, SelectPostgresMigrations
<1>5. ASSUME NEW v \in Versions
      PROVE  applied'[v] = IF v <= row' THEN 1 ELSE 0
  <2>1. v \in Int /\ v >= 1
    BY <1>1 DEF Versions
  <2> QED
    BY <1>1, <1>2, <1>4, <2>1
<1>6. applied' \in [Versions -> Nat]
  BY <1>1 DEF CommitMigration
<1> QED
  BY <1>1, <1>3, <1>5, <1>6, Zenon DEF SchemaIsExact

-----------------------------------------------------------------------------
(* The invariant is inductive *)

\* A database as the deployment finds it satisfies the invariant.
LEMMA InitIInv == MigrationInit => IInv
<1> SUFFICES ASSUME MigrationInit PROVE IInv
  BY Zenon
<1> USE MigrationAssumption DEF MigrationInit
<1>1. shape \in [Tables -> Shapes]
  <2>1. CASE database = "postgres"
    BY <2>1, Zenon DEF Shapes
  <2>2. CASE database # "postgres"
    BY <2>2, Zenon
  <2> QED
    BY <2>1, <2>2, Zenon
<1>2. MigrationTypeOK
  <2>1. MaxVersion \in Nat /\ row \in -1..MaxVersion
    OBVIOUS
  <2>2. at \in [Replicas -> 0..MaxVersion] /\ from \in [Replicas -> 0..MaxVersion]
    BY <2>1
  <2>3. applied \in [Versions -> Nat] /\ checked \in [Replicas -> Nat]
    BY Zenon
  <2>4. step \in [Replicas -> Steps] /\ pass \in [Replicas -> {1, 2}]
    BY Zenon DEF Steps
  <2> QED
    BY <1>1, <2>1, <2>2, <2>3, <2>4, Zenon DEF MigrationTypeOK
<1>3. RunHoldsRow /\ RunStartsAtRow /\ ReadFindsRow /\ PostgresSteps
  BY Zenon DEF RunHoldsRow, RunStartsAtRow, ReadFindsRow, PostgresSteps
<1>4. CheckedIsRight
  BY DEF CheckedIsRight, Tables
<1>5. SchemaIsExact
  BY DEF SchemaIsExact, Versions
<1>6. ServingMeansMigrated
  BY Zenon DEF ServingMeansMigrated
<1> QED
  BY <1>2, <1>3, <1>4, <1>5, <1>6, Zenon DEF IInv

\* A replica at step s: what a move of it to s must show.
MayMoveTo(r, s) ==
    /\ s = "read" => row # -1
    /\ s \in {"creating", "verify", "begin", "read", "run"} => database = "postgres"
    /\ s = "serving" => IF database = "postgres" THEN row >= release[r]
                        ELSE \A t \in Tables : VerifyTable(shape[t])

\* A replica that moves outside a transaction and writes nothing.
LEMMA Moves ==
    ASSUME IInv, NEW r \in Replicas, NEW s \in Steps \ {"run"},
           step[r] # "run", Goto(r, s), MayMoveTo(r, s),
           pass' \in [Replicas -> {1, 2}], hasTable' \in BOOLEAN,
           UNCHANGED <<deployment, committed, rowLock, pgTx, ddb>>
    PROVE  IInv'
<1> USE DEF IInv, MigrationTypeOK, Goto, deployment, committed, pgTx, ddb
<1>1. MigrationTypeOK'
  BY Zenon
<1>2. /\ step' = [step EXCEPT ![r] = s] /\ s # "run" /\ step \in [Replicas -> Steps]
      /\ UNCHANGED <<release, database, row, applied, rowLock, at, from, shape, checked>>
  BY Zenon
<1>3. RunHoldsRow'
  BY <1>2, Zenon DEF RunHoldsRow
<1>4. RunStartsAtRow'
  BY <1>2, Zenon DEF RunStartsAtRow
<1>5. ReadFindsRow' /\ PostgresSteps'
  BY <1>2, ZenonT(40), SMTT(30) DEF ReadFindsRow, PostgresSteps, MayMoveTo
<1>6. CheckedIsRight' /\ SchemaIsExact'
  BY <1>2 DEF CheckedIsRight, SchemaIsExact, VerifyTable, IsKeySchemaMatched
<1>7. ServingMeansMigrated'
  BY <1>2 DEF ServingMeansMigrated, MayMoveTo, VerifyTable, IsKeySchemaMatched
<1> QED
  BY <1>1, <1>3, <1>4, <1>5, <1>6, <1>7, Zenon

\* A transaction that takes the lock of the row.
LEMMA Begins ==
    ASSUME IInv, NEW r \in Replicas, step[r] # "run", Locks(r), database = "postgres",
           rowLock' = r, Goto(r, "run"), NEW v \in 0..MaxVersion,
           v = (IF row = -1 THEN 0 ELSE row), v <= release[r],
           from' = [from EXCEPT ![r] = v], at' = [at EXCEPT ![r] = v],
           UNCHANGED <<deployment, hasTable, committed, pass, ddb>>
    PROVE  IInv'
<1> USE DEF IInv, MigrationTypeOK, Goto, deployment, committed, ddb
<1>1. MigrationTypeOK'
  BY Zenon DEF Steps
<1>2. /\ step' = [step EXCEPT ![r] = "run"] /\ step \in [Replicas -> Steps]
      /\ UNCHANGED <<release, database, row, applied, shape, checked>>
      /\ rowLock = NoReplica /\ NoReplica \notin Replicas
  BY MigrationAssumption, Zenon DEF Locks, RunHoldsRow
<1>3. RunHoldsRow'
  BY <1>2, ZenonT(40), SMTT(30) DEF RunHoldsRow
<1>4. RunStartsAtRow'
  <2> SUFFICES ASSUME NEW q \in Replicas, step'[q] = "run"
               PROVE  /\ from'[q] = (IF row = -1 THEN 0 ELSE row)
                      /\ from'[q] <= at'[q] /\ at'[q] <= release[q]
    BY <1>2, Zenon DEF RunStartsAtRow
  <2>1. q = r
    BY <1>2, Zenon DEF RunHoldsRow
  <2> QED
    BY <2>1, <1>2
<1>5. ReadFindsRow' /\ PostgresSteps'
  BY <1>2, ZenonT(40), SMTT(30) DEF ReadFindsRow, PostgresSteps
<1>6. CheckedIsRight' /\ SchemaIsExact'
  BY <1>2 DEF CheckedIsRight, SchemaIsExact, VerifyTable, IsKeySchemaMatched
<1>7. ServingMeansMigrated'
  BY <1>2, ZenonT(40), SMTT(30) DEF ServingMeansMigrated, VerifyTable, IsKeySchemaMatched
<1> QED
  BY <1>1, <1>3, <1>4, <1>5, <1>6, <1>7, Zenon

\* A transaction that ends, committed or not; s is what the replica does next.
LEMMA Commits ==
    ASSUME IInv, NEW r \in Replicas, CommitMigration(r),
           NEW s \in {"start", "serving", "failed"}, Goto(r, s),
           pass' \in [Replicas -> {1, 2}],
           UNCHANGED <<deployment, hasTable, pgTx, ddb>>
    PROVE  IInv'
<1> USE DEF IInv, MigrationTypeOK, Goto, deployment, pgTx, ddb
<1>1. /\ row' = release[r] /\ row' \in 1..MaxVersion /\ row' >= row
      /\ applied' \in [Versions -> Nat] /\ SchemaIsExact'
  BY CommitIsExact, Zenon
<1>2. /\ step' = [step EXCEPT ![r] = s] /\ s # "run" /\ s # "read"
      /\ step \in [Replicas -> Steps] /\ step[r] = "run"
      /\ rowLock = r /\ rowLock' = NoReplica /\ NoReplica \notin Replicas
      /\ UNCHANGED <<release, database, shape, checked, at, from>>
  BY MigrationAssumption, ZenonT(40), SMTT(30) DEF CommitMigration, RunHoldsRow
<1>3. MigrationTypeOK'
  BY <1>1, <1>2, MigrationAssumption DEF Steps
<1>4. ASSUME NEW q \in Replicas PROVE step'[q] # "run"
  BY <1>2, Zenon DEF RunHoldsRow
<1>5. RunHoldsRow' /\ RunStartsAtRow'
  BY <1>2, <1>4, ZenonT(40), SMTT(30) DEF RunHoldsRow, RunStartsAtRow
<1>6. ReadFindsRow' /\ PostgresSteps'
  BY <1>1, <1>2 DEF ReadFindsRow, PostgresSteps
<1>7. CheckedIsRight'
  BY <1>2, Zenon DEF CheckedIsRight, VerifyTable, IsKeySchemaMatched
<1>8. ServingMeansMigrated'
  <2>1. database = "postgres" /\ database' = "postgres"
    BY <1>2, Zenon DEF PostgresSteps
  <2>2. ASSUME NEW q \in Replicas, step'[q] = "serving" PROVE row' >= release[q]
    <3>1. CASE q = r
      BY <3>1, <1>1
    <3>2. CASE q # r
      <4>1. row >= release[q]
        BY <3>2, <2>1, <2>2, <1>2, ZenonT(40), SMTT(30) DEF ServingMeansMigrated
      <4>2. row \in Int /\ row' \in Int /\ release[q] \in Int
        BY <1>1, MigrationAssumption DEF Versions
      <4> QED
        BY <4>1, <4>2, <1>1
    <3> QED
      BY <3>1, <3>2, Zenon
  <2> QED
    BY <2>1, <2>2, <1>2, Zenon DEF ServingMeansMigrated
<1> QED
  BY <1>1, <1>3, <1>5, <1>6, <1>7, <1>8, Zenon

\* A replica of DynamoDB that goes on to the next table, which is right now.
LEMMA ChecksOn ==
    ASSUME IInv, NEW r \in Replicas, step[r] \in {"start", "create"}, Goto(r, "start"),
           checked' = [checked EXCEPT ![r] = @ + 1],
           shape' \in [Tables -> Shapes],
           \A t \in Tables : VerifyTable(shape[t]) => VerifyTable(shape'[t]),
           Current(r) \in Tables => VerifyTable(shape'[Current(r)]),
           UNCHANGED <<deployment, hasTable, committed, rowLock, pass, pgTx>>
    PROVE  IInv'
<1> USE DEF IInv, MigrationTypeOK, Goto, deployment, committed, pgTx
<1>1. MigrationTypeOK'
  BY DEF Steps
<1>2. /\ step' = [step EXCEPT ![r] = "start"] /\ step[r] # "run" /\ step \in [Replicas -> Steps]
      /\ UNCHANGED <<release, database, row, applied, rowLock, at, from>>
  BY Zenon
<1>3. RunHoldsRow' /\ RunStartsAtRow'
  BY <1>2, ZenonT(40), SMTT(30) DEF RunHoldsRow, RunStartsAtRow
<1>4. ReadFindsRow' /\ PostgresSteps' /\ SchemaIsExact'
  BY <1>2 DEF ReadFindsRow, PostgresSteps, SchemaIsExact
<1>5. CheckedIsRight'
  <2> SUFFICES ASSUME database = "dynamodb", NEW q \in Replicas, NEW t \in Tables, t <= checked'[q]
               PROVE  VerifyTable(shape'[t])
    BY <1>2, ZenonT(40), SMTT(30) DEF CheckedIsRight, VerifyTable, IsKeySchemaMatched
  <2>1. checked \in [Replicas -> Nat] /\ t \in Int
    BY DEF Tables
  <2>2. CASE t <= checked[q]
    BY <2>2, Zenon DEF CheckedIsRight
  <2>3. CASE ~(t <= checked[q])
    <3>1. q = r /\ t = Current(r)
      BY <2>1, <2>3 DEF Current
    <3> QED
      BY <3>1, ZenonT(40), SMTT(30)
  <2> QED
    BY <2>2, <2>3, Zenon
<1>6. ServingMeansMigrated'
  BY <1>2, ZenonT(40), SMTT(30) DEF ServingMeansMigrated, VerifyTable, IsKeySchemaMatched
<1> QED
  BY <1>1, <1>3, <1>4, <1>5, <1>6, ZenonT(40), SMTT(30)

\* Every step of a starting, migrating or restarting replica keeps it.
LEMMA NextIInv == IInv /\ [MigrationNext]_migrationVars => IInv'
<1> SUFFICES ASSUME IInv, [MigrationNext]_migrationVars PROVE IInv'
  BY Zenon
<1>1. CASE UNCHANGED migrationVars
  BY <1>1, Zenon DEF migrationVars, IInv, MigrationTypeOK, RunHoldsRow, RunStartsAtRow, ReadFindsRow,
              PostgresSteps, CheckedIsRight, SchemaIsExact, ServingMeansMigrated,
              VerifyTable, IsKeySchemaMatched
<1> SUFFICES ASSUME NEW r \in Replicas,
                    \/ WaitForReady(r)
                    \/ EnsureSchemaVersionTable(r) \/ CreateSchemaVersionTable(r)
                    \/ VerifyMigration(r)
                    \/ BootstrapSchemaVersion(r) \/ BootstrapConflicts(r)
                    \/ GetSchemaVersionForUpdate(r)
                    \/ RunPostgresMigration(r) \/ Commit(r) \/ CommitUnanswered(r) \/ Rollback(r)
                    \/ CheckTable(r) \/ CreateTable(r) \/ AllTablesChecked(r)
                    \/ Restart(r)
             PROVE  IInv'
  BY <1>1, Zenon DEF MigrationNext
<1>t. /\ step[r] \in Steps /\ step \in [Replicas -> Steps] /\ pass \in [Replicas -> {1, 2}]
      /\ row \in -1..MaxVersion /\ release[r] \in 1..MaxVersion /\ MaxVersion \in Nat
      /\ hasTable \in BOOLEAN /\ database \in {"postgres", "dynamodb"}
  BY MigrationAssumption, Zenon DEF IInv, MigrationTypeOK, Versions
<1>2. CASE WaitForReady(r)
  <2>1. PICK s \in {"start", "failed"} : Goto(r, s)
    BY <1>2, Zenon DEF WaitForReady
  <2>2. MayMoveTo(r, s) /\ s \in Steps \ {"run"}
    BY <2>1, Zenon DEF MayMoveTo, Steps
  <2> QED
    BY <1>2, <1>t, <2>1, <2>2, Moves, ZenonT(40), SMTT(30) DEF WaitForReady
<1>3. CASE EnsureSchemaVersionTable(r)
  <2>1. PICK s \in {"creating", "verify", "begin"} : Goto(r, s)
    BY <1>3, Zenon DEF EnsureSchemaVersionTable
  <2>2. MayMoveTo(r, s) /\ s \in Steps \ {"run"}
    BY <1>3, <2>1, Zenon DEF MayMoveTo, Steps, EnsureSchemaVersionTable
  <2> QED
    BY <1>3, <1>t, <2>1, <2>2, Moves, ZenonT(40), SMTT(30) DEF EnsureSchemaVersionTable
<1>4. CASE CreateSchemaVersionTable(r)
  <2>1. PICK s \in {"start", "failed"} : Goto(r, s)
    BY <1>4, Zenon DEF CreateSchemaVersionTable
  <2>2. MayMoveTo(r, s) /\ s \in Steps \ {"run"}
    BY <2>1, Zenon DEF MayMoveTo, Steps
  <2>3. pass' \in [Replicas -> {1, 2}] /\ hasTable' \in BOOLEAN /\ step[r] # "run"
    BY <1>4, <1>t, Zenon DEF CreateSchemaVersionTable
  <2> QED
    BY <1>4, <2>1, <2>2, <2>3, Moves, Zenon DEF CreateSchemaVersionTable
<1>5. CASE VerifyMigration(r)
  <2>1. PICK s \in {"start", "serving", "failed"} : Goto(r, s) /\ (s = "failed" \/ row = release[r])
    BY <1>5, Zenon DEF VerifyMigration, Passed
  <2>2. pass' \in [Replicas -> {1, 2}] /\ step[r] = "verify" /\ database = "postgres"
    BY <1>5, <1>t, ZenonT(40), SMTT(30) DEF VerifyMigration, Passed, IInv, PostgresSteps
  <2>3. MayMoveTo(r, s) /\ s \in Steps \ {"run"}
    BY <1>t, <2>1, <2>2 DEF MayMoveTo, Steps
  <2>4. hasTable' \in BOOLEAN /\ UNCHANGED <<deployment, committed, rowLock, pgTx, ddb>>
    BY <1>5, <1>t, Zenon DEF VerifyMigration
  <2> QED
    BY <2>1, <2>2, <2>3, <2>4, Moves, Zenon
<1>6. CASE BootstrapSchemaVersion(r)
  <2>1. database = "postgres" /\ step[r] # "run"
    BY <1>6, ZenonT(40), SMTT(30) DEF BootstrapSchemaVersion, IInv, PostgresSteps
  <2>2. 0 \in 0..MaxVersion /\ 0 <= release[r] /\ 0 = (IF row = -1 THEN 0 ELSE row)
    BY <1>6, <1>t DEF BootstrapSchemaVersion
  <2> QED
    BY <1>6, <2>1, <2>2, Begins, ZenonT(40), SMTT(30) DEF BootstrapSchemaVersion
<1>7. CASE BootstrapConflicts(r)
  <2>1. MayMoveTo(r, "read") /\ "read" \in Steps \ {"run"} /\ step[r] # "run"
    BY <1>7, Zenon DEF BootstrapConflicts, MayMoveTo, Steps, IInv, PostgresSteps
  <2> QED
    BY <1>7, <1>t, <2>1, Moves, Zenon DEF BootstrapConflicts
<1>8. CASE GetSchemaVersionForUpdate(r)
  <2>1. database = "postgres" /\ step[r] = "read" /\ row # -1
    BY <1>8, Zenon DEF GetSchemaVersionForUpdate, IInv, PostgresSteps, ReadFindsRow
  <2>2. hasTable' \in BOOLEAN /\ UNCHANGED <<deployment, hasTable, committed, ddb>>
    BY <1>8, <1>t, Zenon DEF GetSchemaVersionForUpdate
  <2>3. CASE row > release[r] /\ Goto(r, "failed") /\ UNCHANGED <<rowLock, pass, pgTx>>
    <3>1. MayMoveTo(r, "failed") /\ "failed" \in Steps \ {"run"}
      BY Zenon DEF MayMoveTo, Steps
    <3> QED
      BY <1>t, <2>1, <2>2, <2>3, <3>1, Moves, Zenon
  <2>4. CASE row = release[r] /\ Passed(r) /\ UNCHANGED <<rowLock, pgTx>>
    <3>1. PICK s \in {"start", "serving"} : Goto(r, s)
      BY <2>4, ZenonT(40), SMTT(30) DEF Passed
    <3>2. MayMoveTo(r, s) /\ s \in Steps \ {"run"}
      BY <1>t, <2>1, <2>4 DEF MayMoveTo, Steps
    <3>3. pass' \in [Replicas -> {1, 2}]
      BY <1>t, <2>4, Zenon DEF Passed
    <3> QED
      BY <2>1, <2>2, <2>4, <3>1, <3>2, <3>3, Moves, ZenonT(40), SMTT(30)
  <2>5. CASE /\ row < release[r] /\ rowLock' = r
             /\ from' = [from EXCEPT ![r] = row] /\ at' = [at EXCEPT ![r] = row]
             /\ Goto(r, "run") /\ UNCHANGED pass
    <3>1. row \in 0..MaxVersion /\ row <= release[r] /\ row = (IF row = -1 THEN 0 ELSE row)
      BY <1>t, <2>1, <2>5
    <3>2. Locks(r)
      BY <1>8, Zenon DEF GetSchemaVersionForUpdate
    <3> QED
      BY <2>1, <2>2, <2>5, <3>1, <3>2, Begins, ZenonT(40), SMTT(30)
  <2> QED
    BY <1>8, <2>3, <2>4, <2>5, Zenon DEF GetSchemaVersionForUpdate
<1>9. CASE RunPostgresMigration(r)
  <2>1. /\ at' = [at EXCEPT ![r] = @ + 1] /\ at[r] < release[r] /\ step[r] = "run"
        /\ UNCHANGED <<release, auto, database, hasTable, row, applied, rowLock, step, pass, from,
                       shape, checked>>
    BY <1>9, Zenon DEF RunPostgresMigration, deployment, committed, ddb
  <2>2. at \in [Replicas -> 0..MaxVersion] /\ release \in [Replicas -> 1..MaxVersion]
    BY ZenonT(40), SMTT(30) DEF IInv, MigrationTypeOK, Versions
  <2>3. at' \in [Replicas -> 0..MaxVersion]
    BY <1>t, <2>1, <2>2
  <2>4. MigrationTypeOK'
    BY <2>1, <2>3, Zenon DEF IInv, MigrationTypeOK
  <2>5. RunHoldsRow' /\ ReadFindsRow' /\ PostgresSteps'
    BY <2>1, Zenon DEF IInv, RunHoldsRow, ReadFindsRow, PostgresSteps
  <2>6. RunStartsAtRow'
    <3> SUFFICES ASSUME NEW q \in Replicas, step[q] = "run"
                 PROVE  /\ from[q] = (IF row = -1 THEN 0 ELSE row)
                        /\ from[q] <= at'[q] /\ at'[q] <= release[q]
      BY <2>1, Zenon DEF RunStartsAtRow
    <3>1. from[q] = (IF row = -1 THEN 0 ELSE row) /\ from[q] <= at[q] /\ at[q] <= release[q]
      BY ZenonT(40), SMTT(30) DEF IInv, RunStartsAtRow
    <3>2. at[q] \in Int /\ release[q] \in Int
      BY <1>t, <2>2
    <3>3. CASE q = r
      <4>1. at'[q] = at[q] + 1 /\ at[q] < release[q]
        BY <2>1, <2>2, <3>3, ZenonT(40), SMTT(30)
      <4>2. from[q] \in Int
        BY <1>t, <3>1
      <4>3. from[q] <= at'[q] /\ at'[q] <= release[q]
        BY <3>1, <3>2, <4>1, <4>2
      <4> QED
        BY <3>1, <4>3, Zenon
    <3>4. CASE q # r
      <4>1. at'[q] = at[q]
        BY <2>1, <2>2, <3>4, Zenon
      <4> QED
        BY <3>1, <4>1, Zenon
    <3> QED
      BY <3>3, <3>4, Zenon
  <2>7. CheckedIsRight' /\ SchemaIsExact' /\ ServingMeansMigrated'
    BY <2>1, Zenon DEF IInv, CheckedIsRight, SchemaIsExact, ServingMeansMigrated, VerifyTable,
                IsKeySchemaMatched
  <2> QED
    BY <2>4, <2>5, <2>6, <2>7, Zenon DEF IInv
<1>10. CASE Commit(r)
  <2>1. PICK s \in {"start", "serving", "failed"} : Goto(r, s)
    BY <1>10, Zenon DEF Commit, Passed
  <2>2. pass' \in [Replicas -> {1, 2}]
    BY <1>10, <1>t, Zenon DEF Commit, Passed
  <2> QED
    BY <1>10, <2>1, <2>2, Commits, Zenon DEF Commit
<1>11. CASE CommitUnanswered(r)
  BY <1>11, <1>t, Commits, Zenon DEF CommitUnanswered
<1>12. CASE Rollback(r)
  <2>1. /\ step' = [step EXCEPT ![r] = "failed"]
        /\ rowLock' = (IF rowLock = r THEN NoReplica ELSE rowLock)
        /\ UNCHANGED <<release, auto, database, hasTable, row, applied, pass, at, from, shape, checked>>
    BY <1>12, Zenon DEF Rollback, Goto, deployment, committed, pgTx, ddb
  <2>2. MigrationTypeOK'
    BY <2>1, Zenon DEF IInv, MigrationTypeOK, Steps
  <2>3. RunHoldsRow'
    BY <1>t, <2>1, MigrationAssumption, Zenon DEF IInv, RunHoldsRow
  <2>4. RunStartsAtRow' /\ ReadFindsRow' /\ PostgresSteps'
    BY <1>t, <2>1, Zenon DEF IInv, RunStartsAtRow, ReadFindsRow, PostgresSteps
  <2>5. CheckedIsRight' /\ SchemaIsExact'
    BY <2>1, Zenon DEF IInv, CheckedIsRight, SchemaIsExact, VerifyTable, IsKeySchemaMatched
  <2>6. ServingMeansMigrated'
    BY <1>t, <2>1, Zenon DEF IInv, ServingMeansMigrated, VerifyTable, IsKeySchemaMatched
  <2> QED
    BY <2>2, <2>3, <2>4, <2>5, <2>6, Zenon DEF IInv
<1>13. CASE CheckTable(r)
  <2>1. /\ step[r] = "start" /\ database = "dynamodb" /\ Current(r) \in Tables
        /\ UNCHANGED <<deployment, hasTable, committed, rowLock, pass, pgTx, shape>>
    BY <1>13, Zenon DEF CheckTable
  <2>2. CASE /\ VerifyTable(shape[Current(r)])
             /\ checked' = [checked EXCEPT ![r] = @ + 1] /\ UNCHANGED step
    <3>1. Goto(r, "start")
      BY <1>t, <2>1, <2>2, Zenon DEF Goto
    <3>2. shape' = shape /\ shape' \in [Tables -> Shapes]
      BY <2>1, Zenon DEF IInv, MigrationTypeOK
    <3> QED
      BY <2>1, <2>2, <3>1, <3>2, ChecksOn, Zenon
  <2>3. CASE (\E s \in {"create", "failed"} : Goto(r, s)) /\ UNCHANGED checked
    <3>1. PICK s \in {"create", "failed"} : Goto(r, s)
      BY <2>3, Zenon
    <3>2. MayMoveTo(r, s) /\ s \in Steps \ {"run"} /\ UNCHANGED ddb
      BY <2>1, <2>3, Zenon DEF MayMoveTo, Steps, ddb
    <3> QED
      BY <1>t, <2>1, <3>1, <3>2, Moves, Zenon
  <2> QED
    BY <1>13, <2>2, <2>3, Zenon DEF CheckTable
<1>14. CASE CreateTable(r)
  <2>1. /\ step[r] = "create"
        /\ UNCHANGED <<deployment, hasTable, committed, rowLock, pass, pgTx>>
    BY <1>14, Zenon DEF CreateTable
  <2>2. CASE /\ shape[Current(r)] = Missing
             /\ shape' = [shape EXCEPT ![Current(r)] = tablesSchema]
             /\ checked' = [checked EXCEPT ![r] = @ + 1] /\ Goto(r, "start")
    <3>1. shape \in [Tables -> Shapes] /\ tablesSchema \in Shapes
      BY Zenon DEF IInv, MigrationTypeOK, Shapes
    <3>2. shape' \in [Tables -> Shapes]
      BY <2>2, <3>1, Zenon
    <3>3. ASSUME NEW t \in Tables, VerifyTable(shape[t]) PROVE VerifyTable(shape'[t])
      BY <2>2, <3>1, <3>3, ShapesVerify, Zenon
    <3>4. Current(r) \in Tables => VerifyTable(shape'[Current(r)])
      BY <2>2, <3>1, ShapesVerify, Zenon
    <3> QED
      BY <2>1, <2>2, <3>2, <3>3, <3>4, ChecksOn, Zenon
  <2>3. CASE Goto(r, "failed") /\ UNCHANGED <<shape, checked>>
    <3>1. MayMoveTo(r, "failed") /\ "failed" \in Steps \ {"run"} /\ UNCHANGED ddb
      BY <2>3, Zenon DEF MayMoveTo, Steps, ddb
    <3> QED
      BY <1>t, <2>1, <2>3, <3>1, Moves, Zenon
  <2> QED
    BY <1>14, <2>2, <2>3, Zenon DEF CreateTable
<1>15. CASE AllTablesChecked(r) \/ Restart(r)
  <2>1. /\ step[r] # "run" /\ checked' = [checked EXCEPT ![r] = 0]
        /\ UNCHANGED <<release, auto, database, hasTable, row, applied, rowLock, at, from, shape>>
    BY <1>15, Zenon DEF AllTablesChecked, Restart, deployment, committed, pgTx
  <2>2. PICK s \in {"start", "serving", "dial"} :
           /\ step' = [step EXCEPT ![r] = s]
           /\ s = "serving" => database = "dynamodb" /\ checked[r] = TableCount
    BY <1>15, Zenon DEF AllTablesChecked, Restart, Passed, Goto
  <2>3. pass' \in [Replicas -> {1, 2}]
    BY <1>15, <1>t, Zenon DEF AllTablesChecked, Restart, Passed
  <2>4. MigrationTypeOK'
    BY <2>1, <2>2, <2>3, Zenon DEF IInv, MigrationTypeOK, Steps
  <2>5. RunHoldsRow' /\ RunStartsAtRow' /\ ReadFindsRow' /\ PostgresSteps'
    BY <1>t, <2>1, <2>2, Zenon DEF IInv, RunHoldsRow, RunStartsAtRow, ReadFindsRow, PostgresSteps
  <2>6. SchemaIsExact'
    BY <2>1, Zenon DEF IInv, SchemaIsExact
  <2>7. CheckedIsRight'
    <3> SUFFICES ASSUME database = "dynamodb", NEW q \in Replicas, NEW t \in Tables, t <= checked'[q]
                 PROVE  VerifyTable(shape[t])
      BY <2>1, Zenon DEF CheckedIsRight, VerifyTable, IsKeySchemaMatched
    <3>1. checked \in [Replicas -> Nat] /\ t \in Int /\ t >= 1
      <4>1. checked \in [Replicas -> Nat]
        BY Zenon DEF IInv, MigrationTypeOK
      <4>2. t \in Int /\ t >= 1
        BY MigrationAssumption DEF Tables
      <4> QED
        BY <4>1, <4>2, Zenon
    <3>2. CASE q = r
      <4>1. checked'[q] = 0
        BY <2>1, <3>1, <3>2, Zenon
      <4> QED
        BY <3>1, <4>1
    <3>3. CASE q # r
      <4>1. t <= checked[q]
        BY <2>1, <3>1, <3>3, Zenon
      <4> QED
        BY <4>1, Zenon DEF IInv, CheckedIsRight
    <3> QED
      BY <3>2, <3>3, Zenon
  <2>8. ServingMeansMigrated'
    <3>1. s = "serving" => \A t \in Tables : VerifyTable(shape[t])
      BY <2>2, MigrationAssumption DEF IInv, CheckedIsRight, Tables
    <3> QED
      BY <1>t, <2>1, <2>2, <3>1, ZenonT(40), SMTT(30) DEF IInv, ServingMeansMigrated, VerifyTable,
         IsKeySchemaMatched
  <2> QED
    BY <2>4, <2>5, <2>6, <2>7, <2>8, ZenonT(40), SMTT(30) DEF IInv
<1> QED
  BY <1>2, <1>3, <1>4, <1>5, <1>6, <1>7, <1>8, <1>9, <1>10, <1>11, <1>12, <1>13, <1>14, <1>15, Zenon

-----------------------------------------------------------------------------
(* Theorems *)

\* Whichever replicas start when, and wherever they fail, the version row tells
\* the truth and a replica serves only on a schema it can use: RunMigration and
\* migrateTable for any number of replicas, releases and tables.
THEOREM StartsAreSafe == MigrationSpec => []StartsOnItsSchema
<1>1. IInv => StartsOnItsSchema
  BY Zenon DEF IInv, StartsOnItsSchema
<1> QED
  BY <1>1, InitIInv, NextIInv, PTL DEF MigrationSpec

-----------------------------------------------------------------------------
(***************************************************************************)
(* Subscriber: a subscription that is lost.                                *)
(***************************************************************************)

\* A loop that has not ended has an attempt left.
AttemptsLeft == \A ch \in Channels : loopAt[ch] # "ended" => attempt[ch] < MaxRetries

\* A subscription that is gone has asked for the restart (the retry loop's
\* CallbackFn), for any number of channels, attempts and dropped connections.
THEOREM LostSubscriptionIsReportedThm == SubSpec => []LostSubscriptionIsReported
<1> USE SubscriberAssumption
<1>1. SubInit => LostSubscriptionIsReported /\ AttemptsLeft
  BY DEF SubInit, LostSubscriptionIsReported, SubTypeOK, AttemptsLeft
<1>2. LostSubscriptionIsReported /\ AttemptsLeft /\ [SubNext]_subVars
          => (LostSubscriptionIsReported /\ AttemptsLeft)'
  <2> SUFFICES ASSUME LostSubscriptionIsReported, AttemptsLeft, [SubNext]_subVars
               PROVE  (LostSubscriptionIsReported /\ AttemptsLeft)'
    BY Zenon
  <2> USE DEF LostSubscriptionIsReported, SubTypeOK, AttemptsLeft, Goes
  <2>1. CASE UNCHANGED subVars
    BY <2>1, Zenon DEF subVars
  <2>2. ASSUME NEW ch \in Channels, Subscribe(ch) \/ Confirmed(ch) \/ Retries(ch)
        PROVE  (LostSubscriptionIsReported /\ AttemptsLeft)'
    BY <2>2, ZenonT(40), SMTT(30) DEF Subscribe, Confirmed, Retries
  <2>3. ASSUME NEW ch \in Channels, HandlerPanics(ch)
        PROVE  (LostSubscriptionIsReported /\ AttemptsLeft)'
    BY <2>3 DEF HandlerPanics
  <2>4. ASSUME NEW ch \in Channels, Dropped(ch)
        PROVE  (LostSubscriptionIsReported /\ AttemptsLeft)'
    <3>1. attempt[ch] < MaxRetries /\ attempt'[ch] = attempt[ch] + 1 /\ attempt' \in [Channels -> 0 .. MaxRetries]
          /\ \A c \in Channels \ {ch} : attempt'[c] = attempt[c]
      BY <2>4 DEF Dropped
    <3>2. CASE attempt'[ch] >= MaxRetries
      BY <2>4, <3>1, <3>2 DEF Dropped, GivesUp
    <3>3. CASE ~(attempt'[ch] >= MaxRetries)
      BY <2>4, <3>1, <3>3 DEF Dropped
    <3> QED
      BY <3>2, <3>3, ZenonT(40), SMTT(30)
  <2>5. ASSUME NEW ch \in Channels, SeesCancelled(ch)
        PROVE  (LostSubscriptionIsReported /\ AttemptsLeft)'
    BY <2>5, Zenon DEF SeesCancelled
  <2>6. CASE Terminate
    BY <2>6, Zenon DEF Terminate
  <2>7. CASE Unsubscribe
    BY <2>7, Zenon DEF Unsubscribe
  <2> HIDE DEF LostSubscriptionIsReported, AttemptsLeft
  <2> QED
    BY <2>1, <2>2, <2>3, <2>4, <2>5, <2>6, <2>7, Zenon DEF SubNext
<1> QED
  BY <1>1, <1>2, PTL DEF SubSpec, LostSubscriptionIsReported
=============================================================================
