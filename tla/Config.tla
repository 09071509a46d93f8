------------------------------ MODULE Config ------------------------------
(***************************************************************************)
(* How a container settles on its configuration: the blocks of the YAML    *)
(* files are read, a missing block becomes one with nothing set            *)
(* (ensureNonNil), loadDefault fills in what is not set, and validate      *)
(* accepts the result or ends the process.  One block is followed at a     *)
(* time, since no default and no check looks at two blocks.                *)
(*                                                                         *)
(* A number that is not set is 0, as Go's zero value; a text is "" when it *)
(* is not set.  Durations are in seconds, and those of the server's        *)
(* callbacks below a second are 1.                                         *)
(***************************************************************************)
EXTENDS Integers

CONSTANTS Settings      \* the integers an operator may write

ASSUME SettingsAssumption == Settings \subseteq Int

VARIABLES block,        \* the block followed, "none" before the files are read
          raw,          \* the block as it was read
          loaded,       \* the block after loadDefault
          verdict       \* "none", "loaded", "accepted" or "refused"

configVars == <<block, raw, loaded, verdict>>

---------------------------------------------------------------------------
(***************************************************************************)
(* The numeric blocks of export/types.                                     *)
(***************************************************************************)

\* The value of a number, or its default where it is not set.
OrDefault(n, default) == IF n = 0 THEN default ELSE n

\* Go's division truncates towards zero.
Quotient(a, b) == IF a >= 0 THEN a \div b ELSE -((-a) \div b)

\* A mutant: the gap between the thresholds is not restored.
WorkerPoolDefaultUnordered(w) ==
    LET buffer == OrDefault(w.buffer, 4096)
        upper  == OrDefault(w.upper, Quotient(buffer * 3, 4))
        lower  == OrDefault(w.lower, Quotient(buffer, 4))
    IN  [workers |-> w.workers, buffer |-> buffer, upper |-> upper, lower |-> lower]

\* WorkerPoolT.loadDefault; a lower threshold that meets the upper one is moved.
WorkerPoolDefault(w) ==
    LET buffer == OrDefault(w.buffer, 4096)
        ratio  == Quotient(buffer * 3, 4)
        upper  == OrDefault(w.upper, IF ratio < 1 THEN 1 ELSE ratio)
        lower  == OrDefault(w.lower, Quotient(buffer, 4))
    IN  [workers |-> w.workers, buffer |-> buffer, upper |-> upper,
         lower |-> IF upper <= lower THEN upper - 1 ELSE lower]

WorkerPoolValid(w) ==
    w.workers >= 0 /\ w.buffer > 0 /\ w.upper > 0 /\ w.lower >= 0 /\ w.upper > w.lower

\* ActiveConnectionT: the time to keep pending messages follows the cutoff.
ActiveConnectionDefault(a) ==
    LET cutoff == OrDefault(a.cutoff, 60)
    IN  [cutoff |-> cutoff, pendingTTL |-> OrDefault(a.pendingTTL, 2 * cutoff), max |-> a.max]

ActiveConnectionValid(a) == a.cutoff > 0 /\ a.max >= 0 /\ a.pendingTTL >= a.cutoff

PingCheckerDefault(p) == [idle |-> OrDefault(p.idle, 20), timeout |-> OrDefault(p.timeout, 3)]

PingCheckerValid(p) == p.idle > 0 /\ p.timeout > 0

\* RateLimiterT: four limiters, each with its own rate and burst; every one is
\* filled in and tested like the others.
Limiters == {"user", "anonymous", "controlFrame", "issueTokenIP"}

DefaultRate(l) == CASE l = "user" -> 30 [] l = "anonymous" -> 5
                    [] l = "controlFrame" -> 5 [] l = "issueTokenIP" -> 5

DefaultBurst(l) == CASE l = "user" -> 60 [] l = "anonymous" -> 10
                     [] l = "controlFrame" -> 10 [] l = "issueTokenIP" -> 20

RateLimiterDefault(r) ==
    [l \in Limiters |-> [rate  |-> OrDefault(r[l].rate, DefaultRate(l)),
                         burst |-> OrDefault(r[l].burst, DefaultBurst(l))]]

RateLimiterValid(r) == \A l \in Limiters : r[l].rate > 0 /\ r[l].burst >= r[l].rate

---------------------------------------------------------------------------
(***************************************************************************)
(* The other blocks of export/types: a text is "" (not set), "ok" or       *)
(* something validate refuses.                                             *)
(***************************************************************************)

OrText(t, default) == IF t = "" THEN default ELSE t

InfoDefault(i) == [env |-> i.env, container |-> OrText(i.container, "generated")]

InfoValid(i) == i.env # "" /\ i.container # ""

\* A pattern that does not compile ends the process, only if CORS is enabled.
CorsValid(c) == c.enabled => (c.exact \/ c.regex # "") /\ c.regex # "bad"

AnonymousInstanceValid(a) == a.secret # ""

OtelDefault(o) == [enabled |-> o.enabled, exporter |-> OrText(o.exporter, "discard"),
                   file |-> o.file, endpoint |-> o.endpoint]

OtelValid(o) ==
    o.enabled => /\ o.exporter \in {"discard", "stdout", "file", "otlp-grpc", "otlp-http"}
                 /\ o.exporter = "file" => o.file
                 /\ o.exporter \in {"otlp-grpc", "otlp-http"} => o.endpoint

Ports == 1..65535

MetricsPort == 9090

MetricsDefault(m) == [enabled |-> m.enabled, port |-> OrDefault(m.port, MetricsPort),
                      path |-> OrText(m.path, "ok"), allowlist |-> m.allowlist]

\* An entry of the allowlist is empty, too long or not printable, or "ok".
MetricsValid(m) == m.enabled => /\ m.port \in Ports
                                /\ m.path = "ok"
                                /\ m.allowlist \subseteq {"ok"}

---------------------------------------------------------------------------
(***************************************************************************)
(* The SERVER section of pipewave-server (server/config): numbers at or    *)
(* below zero are replaced, not only those that are not set.               *)
(***************************************************************************)

OrPositive(n, default) == IF n <= 0 THEN default ELSE n

\* The ping settings are filled in only if the ping is enabled, and then the
\* boot check cannot be switched off; likewise the settings of pubsub.
ServerDefault(s) ==
    LET transport == OrText(s.transport, "webhook") IN
    [f \in DOMAIN s |->
        CASE f = "repository" -> OrText(s.repository, "postgres")
          [] f = "signature" -> OrText(s.signature, "enabled")
          [] f = "handleMessage" -> OrText(s.handleMessage, "sync")
          [] f = "timeout" -> OrPositive(s.timeout, 5)
          [] f = "retryMax" -> OrPositive(s.retryMax, 1)
          [] f = "pingInterval" -> IF s.ping THEN OrPositive(s.pingInterval, 30) ELSE s.pingInterval
          [] f = "bootCheck" -> s.ping \/ s.bootCheck
          [] f = "unhealthyAction" -> OrText(s.unhealthyAction, "log-only")
          [] f = "transport" -> transport
          [] f = "driver" -> IF transport = "pubsub" THEN OrText(s.driver, "natsjs") ELSE s.driver
          [] OTHER -> s[f]]

ServerValid(s) ==
    /\ s.apiKeys
    /\ s.auth \in {"webhook", "jwt"}
    /\ s.auth = "jwt" => s.jwks \/ s.pemFile
    /\ s.baseURL
    /\ s.transport \in {"webhook", "pubsub"}
    /\ s.transport = "pubsub" => s.pubsubURL /\ s.driver = "natsjs"
    /\ s.handleMessage \in {"sync", "forward", "disabled"}
    /\ s.signature \in {"enabled", "disabled"}
    /\ s.repository \in {"postgres", "dynamodb"}
    /\ s.unhealthyAction \in {"shutdown", "log-only"}
    /\ s.retryMax >= 1

---------------------------------------------------------------------------
(***************************************************************************)
(* Reading, filling in and testing a block.                                *)
(***************************************************************************)

Blocks == {"workerPool", "activeConnection", "pingChecker", "rateLimiter", "info", "cors",
           "anonymousInstance", "otel", "metrics", "server"}

\* A block with nothing set, as ensureNonNil allocates it for a missing one.
ensureNonNil == [
    workerPool |-> [workers |-> 0, buffer |-> 0, upper |-> 0, lower |-> 0],
    activeConnection |-> [cutoff |-> 0, pendingTTL |-> 0, max |-> 0],
    pingChecker |-> [idle |-> 0, timeout |-> 0],
    rateLimiter |-> [l \in Limiters |-> [rate |-> 0, burst |-> 0]],
    info |-> [env |-> "", container |-> ""],
    cors |-> [enabled |-> FALSE, exact |-> FALSE, regex |-> ""],
    anonymousInstance |-> [secret |-> ""],
    otel |-> [enabled |-> FALSE, exporter |-> "", file |-> FALSE, endpoint |-> FALSE],
    metrics |-> [enabled |-> FALSE, port |-> 0, path |-> "", allowlist |-> {}],
    server |-> [repository |-> "", signature |-> "", handleMessage |-> "", timeout |-> 0,
                retryMax |-> 0, ping |-> FALSE, pingInterval |-> 0, bootCheck |-> FALSE,
                unhealthyAction |-> "", transport |-> "", driver |-> "", apiKeys |-> FALSE,
                auth |-> "", jwks |-> FALSE, pemFile |-> FALSE, baseURL |-> FALSE,
                pubsubURL |-> FALSE]]

\* What an operator may write into a field of the SERVER section.
ServerWrites(f) ==
    CASE f \in {"ping", "bootCheck", "apiKeys", "jwks", "pemFile", "baseURL", "pubsubURL"} -> BOOLEAN
      [] f \in {"timeout", "retryMax", "pingInterval"} -> Settings
      [] f = "repository" -> {"", "postgres", "dynamodb", "other"}
      [] f = "signature" -> {"", "enabled", "disabled", "other"}
      [] f = "handleMessage" -> {"", "sync", "forward", "disabled", "other"}
      [] f = "unhealthyAction" -> {"", "shutdown", "log-only", "other"}
      [] f = "transport" -> {"", "webhook", "pubsub", "other"}
      [] f = "driver" -> {"", "natsjs", "other"}
      [] f = "auth" -> {"", "webhook", "jwt", "other"}

\* A minimal server section, over which an operator changes any two fields.
ServerBase(transport) ==
    [ensureNonNil.server EXCEPT !.apiKeys = TRUE, !.auth = "webhook", !.baseURL = TRUE,
                                !.transport = transport, !.pubsubURL = TRUE]

\* A section, and every section of S, with one more setting written.
ServerEdit(s, f) == {[s EXCEPT ![f] = x] : x \in ServerWrites(f)}

ServerEdits(S) == UNION {UNION {ServerEdit(s, f) : f \in DOMAIN s} : s \in S}

ServerSections == ServerEdits(ServerEdits({ServerBase(""), ServerBase("pubsub")}))

Texts == {"", "ok", "bad"}

Written(b) ==
    CASE b = "workerPool" -> [workers : Settings, buffer : Settings, upper : Settings, lower : Settings]
      [] b = "activeConnection" -> [cutoff : Settings, pendingTTL : Settings, max : Settings]
      [] b = "pingChecker" -> [idle : Settings, timeout : Settings]
      [] b = "rateLimiter" -> UNION {{[ensureNonNil.rateLimiter EXCEPT ![l] = r] :
                                          r \in [rate : Settings, burst : Settings]} : l \in Limiters}
      [] b = "info" -> [env : {"", "ok"}, container : {"", "ok"}]
      [] b = "cors" -> [enabled : BOOLEAN, exact : BOOLEAN, regex : Texts]
      [] b = "anonymousInstance" -> [secret : {"", "ok"}]
      [] b = "otel" -> [enabled : BOOLEAN, exporter : {"", "discard", "file", "otlp-grpc", "other"},
                        file : BOOLEAN, endpoint : BOOLEAN]
      [] b = "metrics" -> [enabled : BOOLEAN, port : Settings, path : Texts,
                           allowlist : SUBSET {"ok", "bad"}]
      [] b = "server" -> ServerSections

LoadDefault(b, x) ==
    CASE b = "workerPool" -> WorkerPoolDefault(x)
      [] b = "activeConnection" -> ActiveConnectionDefault(x)
      [] b = "pingChecker" -> PingCheckerDefault(x)
      [] b = "rateLimiter" -> RateLimiterDefault(x)
      [] b = "info" -> InfoDefault(x)
      [] b \in {"cors", "anonymousInstance"} -> x
      [] b = "otel" -> OtelDefault(x)
      [] b = "metrics" -> MetricsDefault(x)
      [] b = "server" -> ServerDefault(x)

Validate(b, x) ==
    CASE b = "workerPool" -> WorkerPoolValid(x)
      [] b = "activeConnection" -> ActiveConnectionValid(x)
      [] b = "pingChecker" -> PingCheckerValid(x)
      [] b = "rateLimiter" -> RateLimiterValid(x)
      [] b = "info" -> InfoValid(x)
      [] b = "cors" -> CorsValid(x)
      [] b = "anonymousInstance" -> AnonymousInstanceValid(x)
      [] b = "otel" -> OtelValid(x)
      [] b = "metrics" -> MetricsValid(x)
      [] b = "server" -> ServerValid(x)

---------------------------------------------------------------------------
ConfigInit == block = "none" /\ raw = 0 /\ loaded = 0 /\ verdict = "none"

\* FromYaml and serverconfig.Load up to loadDefault: the block is in the files,
\* or it is missing from them.
Unmarshal ==
    /\ verdict = "none"
    /\ block' \in Blocks
    /\ raw' \in Written(block') \union {ensureNonNil[block']}
    /\ loaded' = LoadDefault(block', raw')
    /\ verdict' = "loaded"

\* The process ends if a block is refused.
Accept ==
    /\ verdict = "loaded"
    /\ verdict' = IF Validate(block, loaded) THEN "accepted" ELSE "refused"
    /\ UNCHANGED <<block, raw, loaded>>

ConfigNext == Unmarshal \/ Accept

ConfigSpec == ConfigInit /\ [][ConfigNext]_configVars

---------------------------------------------------------------------------
(***************************************************************************)
(* Properties.                                                             *)
(***************************************************************************)

\* The blocks a container starts with although nobody wrote them.
Optional == Blocks \ {"info", "anonymousInstance", "server"}

\* loadDefault settles a block: it changes nothing more in a block that is
\* accepted, it spoils no block that validate would have accepted as written, and
\* what it makes of a missing optional block is accepted.  The derived thresholds,
\* times and bursts make this a question: a default may depend on other defaults.
\* (It is not idempotent for a negative Buffer, which is refused.)
DefaultsSettle ==
    verdict # "none" =>
        /\ Validate(block, loaded) => LoadDefault(block, loaded) = loaded
        /\ Validate(block, raw) => Validate(block, loaded)
        /\ raw = ensureNonNil[block] /\ block \in Optional => Validate(block, loaded)
===========================================================================
