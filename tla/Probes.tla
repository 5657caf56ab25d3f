------------------------------- MODULE Probes -------------------------------
(***************************************************************************)
(* The probe executor of a node (src/shared/probe, src/shared/checkconfig). *)
(* Tasks run concurrently, one goroutine each.  HTTP and download probes    *)
(* share keep-alive connections through a cache of transports, one per set  *)
(* of dial parameters; a transport made when the cache is full serves one   *)
(* probe and is emptied when the probe ends.  A connection is described by  *)
(* what it was dialled with; ports, headers and bytes are left out, a body  *)
(* is the keywords found in it.                                             *)
(***************************************************************************)
EXTENDS Integers, FiniteSetsExt, Bags

CONSTANTS Probes,        \* probe goroutines of the node
          Checks,        \* the check configurations its tasks carry
          Names,         \* host names, the places a redirect may lead to
          Literals,      \* hosts that are literal IP addresses
          Families,      \* address families (4, 6) a host has
          Within,        \* the pairs of texts of which the first occurs in the second
          None,          \* no value
          MaxCached,     \* maxCachedTransports
          MaxIdle,       \* MaxIdleConnsPerHost
          MaxRedirects   \* maxRedirects

VARIABLES cached,        \* transportCache: key -> parameters of its transport
          idle,          \* bag of idle connections
          run            \* what each goroutine is doing

probesVars == <<cached, idle, run>>

Statuses == {200, 404}                           \* final answers considered
Kinds == {"http", "download", "tcp", "ping"}     \* registered types
Idle == [stage |-> "over", check |-> None, owner |-> None, hop |-> None,
         redirects |-> 0, conn |-> None, reply |-> None, result |-> None]

(* ---- check configuration ---- *)
Allowed(version) == IF version = 0 THEN {4, 6} ELSE {version}

\* The families a dial or a look-up of host may use under the IP version.
Reachable(host, version) == Families[host] \cap Allowed(version)

\* resolveIP: auto prefers IPv4, a forced version takes only its own family.
ResolveIP(host, version) ==
  IF version = 0 /\ 4 \in Families[host] THEN {4} ELSE Reachable(host, version)

\* A specification is one code or a closed range; the list is expanded when
\* the monitor is saved.
ExpandStatusSpecs(specs) == UNION {spec.lo..spec.hi : spec \in specs}

\* The URL is a literal IP and a Host header is set: the request is addressed
\* to the virtual host and dialled to the IP.
Direct(c) == c.vhost # None /\ c.host \in Literals
VhostTarget(c) == IF Direct(c) THEN c.vhost ELSE c.host

Params(c) == [insecure |-> c.insecure, version |-> c.version,
              vhost    |-> IF Direct(c) THEN c.vhost ELSE None,
              dialAddr |-> IF Direct(c) THEN c.host ELSE None]

(* ---- verdicts ---- *)
HttpStatusOK(status, specs) ==
  IF specs = {} THEN status \in 200..299 ELSE status \in ExpandStatusSpecs(specs)

\* A keyword is looked for in the body as sent and with JSON escapes undone.
ContainsKeyword(reply, w) == w \in reply.raw \cup reply.decoded
Missing(c, reply) == {w \in c.contains \ {""} : ~ContainsKeyword(reply, w)}
Forbidden(c, reply) == {w \in c.bans \ {""} : ContainsKeyword(reply, w)}
KeywordOK(c, reply) == Missing(c, reply) \cup Forbidden(c, reply) = {}

\* compareJSONValue: [ok, err]; order needs numbers on both sides.
Compare(value, op, expected) ==
  LET ordered(holds) == IF value.number /\ expected.number
                        THEN [ok |-> holds, err |-> FALSE] ELSE [ok |-> FALSE, err |-> TRUE]
  IN CASE op = "=="       -> [ok |-> value = expected, err |-> FALSE]
       [] op = "!="       -> [ok |-> value # expected, err |-> FALSE]
       [] op = "contains" -> [ok |-> <<expected, value>> \in Within, err |-> FALSE]
       [] op = ">"        -> ordered(value.is > expected.is)
       [] op = ">="       -> ordered(value.is >= expected.is)
       [] op = "<"        -> ordered(value.is < expected.is)
       [] op = "<="       -> ordered(value.is <= expected.is)
       [] OTHER           -> [ok |-> FALSE, err |-> TRUE]

\* An expression that does not compile, finds nothing or finds a list fails.
EvalJSONAssert(assert, value) ==
  IF value = None THEN [ok |-> FALSE, err |-> TRUE]
  ELSE Compare(value, assert.op, assert.expected)

DescribeHTTPFail(c, reply) ==
  IF ~HttpStatusOK(reply.status, c.specs) THEN "status"
  ELSE IF Missing(c, reply) # {} THEN "missing"
  ELSE IF Forbidden(c, reply) # {} THEN "forbidden"
  ELSE IF c.assert # None THEN "assert" ELSE "failed"

HttpVerdict(c, reply) ==
  LET plain == HttpStatusOK(reply.status, c.specs) /\ KeywordOK(c, reply)
      ok == plain /\ (c.assert # None =>
                        LET res == EvalJSONAssert(c.assert, reply.value)
                        IN ~res.err /\ res.ok)
  IN [ok |-> ok, reason |-> IF ok THEN "" ELSE DescribeHTTPFail(c, reply), speed |-> FALSE]

Failed(reason) == [ok |-> FALSE, reason |-> reason, speed |-> FALSE]
Passed == [ok |-> TRUE, reason |-> "", speed |-> FALSE]

(* ---- the pool of connections ---- *)
KeyWithoutAddress(params) == [params EXCEPT !.dialAddr = None]
Key(params) == params

\* tryPutIdleConn of net/http: a transport keeps MaxIdle idle connections to a
\* host and closes the others.
PutIdle(bag, conn) ==
  LET same == {k \in BagToSet(bag) : k.owner = conn.owner /\ k.host = conn.host}
  IN IF MapThenSumSet(LAMBDA k : bag[k], same) < MaxIdle
     THEN bag (+) SetToBag({conn}) ELSE bag

\* The end of a probe: a transport that is not cached closes its idle ones.
End(p, reply, result, bag) ==
  /\ run' = [run EXCEPT ![p] = [Idle EXCEPT !.check = run[p].check, !.reply = reply,
                                            !.result = result]]
  /\ idle' = [k \in {k \in BagToSet(bag) : run[p].owner = None \/ k.owner.for # p} |-> bag[k]]
  /\ UNCHANGED cached

TransportFor(p, c) ==
  LET key == Key(Params(c))
  IN /\ cached' = IF key \in DOMAIN cached \/ Cardinality(DOMAIN cached) >= MaxCached
                  THEN cached
                  ELSE [k \in DOMAIN cached \cup {key} |->
                          IF k = key THEN Params(c) ELSE cached[k]]
     /\ run' = [run EXCEPT ![p] =
                  [Idle EXCEPT !.stage = "send", !.check = c, !.hop = VhostTarget(c),
                               !.owner = IF key \in DOMAIN cached'
                                         THEN [params |-> cached'[key], for |-> None]
                                         ELSE [params |-> Params(c), for |-> p]]]

\* Execute: the registered executor runs, any other type fails at once.
Execute(p) ==
  /\ run[p].stage = "over"
  /\ \E c \in Checks :
       \/ /\ c.kind \notin Kinds
          /\ run' = [run EXCEPT ![p] = [Idle EXCEPT !.check = c, !.result = Failed("unsupported")]]
          /\ UNCHANGED <<cached, idle>>
       \/ /\ c.kind \in {"http", "download"}
          /\ TransportFor(p, c)
          /\ UNCHANGED idle
       \/ /\ c.kind = "ping"
          /\ LET families == ResolveIP(c.host, c.version)
             IN IF families = {}
                THEN run' = [run EXCEPT ![p] = [Idle EXCEPT !.check = c, !.result = Failed("resolve")]]
                ELSE \E family \in families :
                       run' = [run EXCEPT ![p] = [Idle EXCEPT !.stage = "echo", !.check = c,
                                                    !.conn = [host |-> c.host, family |-> family]]]
          /\ UNCHANGED <<cached, idle>>
       \/ /\ c.kind = "tcp"
          /\ \/ run' = [run EXCEPT ![p] = [Idle EXCEPT !.check = c, !.result = Failed("dial")]]
             \/ \E family \in Reachable(c.host, c.version) :
                  run' = [run EXCEPT ![p] = [Idle EXCEPT !.check = c, !.result = Passed,
                                               !.conn = [host |-> c.host, family |-> family]]]
          /\ UNCHANGED <<cached, idle>>

\* The request leaves on an idle connection of its transport to the host, or on
\* a new one, dialled to the configured IP when the host is the virtual host.
Send(p) ==
  LET owner == run[p].owner
      hop == run[p].hop
      ready == {k \in BagToSet(idle) : k.owner = owner /\ k.host = hop}
      at == IF owner.params.dialAddr # None /\ hop = owner.params.vhost
            THEN owner.params.dialAddr ELSE hop
      go(conn) == run' = [run EXCEPT ![p].stage = "sent", ![p].conn = conn]
  IN /\ run[p].stage = "send"
     /\ \/ \E k \in ready : go(k) /\ idle' = idle (-) SetToBag({k}) /\ UNCHANGED cached
        \/ /\ ready = {}
           /\ \E family \in Reachable(at, owner.params.version) :
                go([owner |-> owner, host |-> hop, at |-> at, family |-> family])
           /\ UNCHANGED <<cached, idle>>
        \/ ready = {} /\ End(p, None, Failed("dial"), idle)

\* Bodies a response can have, as far as the rules of the check tell them
\* apart: keywords found in either view, the value its expression yields.
Replies(c) ==
  LET words == SUBSET ((c.contains \cup c.bans) \ {""})
  IN [status : Statuses, raw : words, decoded : words,
      value : IF c.assert = None THEN {None}
              ELSE {None} \cup [number : BOOLEAN, is : 0..1]]

\* The connection goes back to the pool when the body was read to its end, and
\* is closed otherwise (cut short, longer than the limit, or not read). A
\* redirect is refused once MaxRedirects requests were made, the first included.
Receive(p) ==
  LET c == run[p].check
      back == {idle, PutIdle(idle, run[p].conn)}
  IN /\ run[p].stage = "sent"
     /\ \/ End(p, None, Failed("request"), idle)
        \/ \E bag \in back, h \in Names :
             IF run[p].redirects + 1 >= MaxRedirects
             THEN End(p, None, Failed("redirects"), bag)
             ELSE /\ run' = [run EXCEPT ![p].stage = "send", ![p].hop = h, ![p].conn = None,
                                        ![p].redirects = @ + 1]
                  /\ idle' = bag
                  /\ UNCHANGED cached
        \/ /\ c.kind = "http"
           /\ \E reply \in Replies(c), bag \in back :
                End(p, reply, HttpVerdict(c, reply), bag)
        \/ /\ c.kind = "download"
           /\ \E status \in Statuses :
                IF HttpStatusOK(status, {})
                THEN /\ run' = [run EXCEPT ![p].stage = "drain", ![p].reply = status]
                     /\ UNCHANGED <<cached, idle>>
                ELSE End(p, status, Failed("status"), idle)

\* runDownload reads the body to its end, or is cut off and reports no speed.
Drain(p) ==
  /\ run[p].stage = "drain"
  /\ \/ End(p, run[p].reply, Failed("cut"), idle)
     \/ \E speed \in BOOLEAN, bag \in {idle, PutIdle(idle, run[p].conn)} :
          End(p, run[p].reply, [Passed EXCEPT !.speed = speed], bag)

Packets == [type : {"request", "reply", "unreachable"}, own : BOOLEAN]
Answers(packet) == packet.own /\ packet.type = "reply"

\* A packet ends the wait when it is an echo reply with the probe's own id; the
\* branch for "unreachable" never runs, for such a packet has no echo in it.
Echo(p) ==
  /\ run[p].stage = "echo"
  /\ \/ End(p, None, Failed("timeout"), idle)
     \/ \E packet \in Packets : Answers(packet) /\ End(p, packet, Passed, idle)

\* IdleConnTimeout, or the peer closes an idle connection.
Expire ==
  \E k \in BagToSet(idle) : idle' = idle (-) SetToBag({k}) /\ UNCHANGED <<cached, run>>

Init ==
  /\ cached = [k \in {} |-> None]
  /\ idle = EmptyBag
  /\ run = [p \in Probes |-> Idle]

Probe(p) == Execute(p) \/ Send(p) \/ Receive(p) \/ Drain(p) \/ Echo(p)

Next == (\E p \in Probes : Probe(p)) \/ Expire

Spec == Init /\ [][Next]_probesVars

-----------------------------------------------------------------------------
(* Properties.                                                             *)

\* The type of every variable; a probe has a result only when it is over.
TypeOK ==
  /\ \A key \in DOMAIN cached : cached[key].insecure \in BOOLEAN
  /\ IsABag(idle)
  /\ \A p \in Probes :
       /\ run[p].stage \in {"over", "send", "sent", "drain", "echo"}
       /\ run[p].check \in Checks \cup {None}
       /\ run[p].redirects \in 0..MaxRedirects
       /\ run[p].stage # "over" => run[p].result = None

\* A request travels on a connection made as its own monitor asks: certificate
\* policy, IP family, and the configured IP while it is addressed to the
\* virtual host - whatever other monitors share the pool, and wherever
\* redirects have led (httpclient.go:11-16).
ConnectionFits ==
  \A p \in Probes :
    LET c == run[p].check
        k == run[p].conn
    IN run[p].stage \in {"sent", "drain"} =>
         /\ k.owner.params.insecure = c.insecure
         /\ k.family \in Families[k.at] \cap Allowed(c.version)
         /\ k.at = IF Direct(c) /\ run[p].hop = c.vhost THEN c.host ELSE run[p].hop

\* Idle connections never pile up with the number of probes made: each belongs
\* to a cached transport, or to a probe that is still running, and a transport
\* keeps at most MaxIdle of them to a host (httpclient.go:1-9, http.go:146).
NoIdlePileUp ==
  /\ Cardinality(DOMAIN cached) <= MaxCached
  /\ \A k \in BagToSet(idle) :
       /\ IF k.owner.for = None
          THEN \E key \in DOMAIN cached : cached[key] = k.owner.params
          ELSE run[k.owner.for].stage # "over"
       /\ MapThenSumSet(LAMBDA j : idle[j],
            {j \in BagToSet(idle) : j.owner = k.owner /\ j.host = k.host}) <= MaxIdle

\* An HTTP probe that got its answer passes exactly when every rule of the
\* monitor holds of it, the reason it gives names a rule that is broken, and a
\* download has a speed only when it came to its end (http.go:188-204,
\* describeHTTPFail, download.go:155-162).
VerdictIsExplained ==
  \A p \in Probes :
    LET c == run[p].check
        reply == run[p].reply
        result == run[p].result
        status == IF c.specs = {} THEN reply.status \in 200..299
                  ELSE \E s \in c.specs : s.lo <= reply.status /\ reply.status <= s.hi
        seen == reply.raw \cup reply.decoded
        wanted == c.contains \ {""} \subseteq seen
        banned == (c.bans \ {""}) \cap seen # {}
        met == c.assert # None =>
                 reply.value # None /\ Compare(reply.value, c.assert.op, c.assert.expected).ok
    IN result # None =>
         /\ result.ok = (result.reason = "")
         /\ result.speed => c.kind = "download" /\ result.ok /\ reply \in 200..299
         /\ c.kind = "http" /\ reply # None =>
              /\ result.ok = (status /\ wanted /\ ~banned /\ met)
              /\ CASE result.reason = ""          -> TRUE
                   [] result.reason = "status"    -> ~status
                   [] result.reason = "missing"   -> status /\ ~wanted
                   [] result.reason = "forbidden" -> status /\ banned
                   [] result.reason = "assert"    -> status /\ ~met
                   [] OTHER                       -> FALSE

\* Probes that run at once share connections and neither spoil each other's
\* requests nor hoard, and what each reports follows from its answer.
ProbesAreSound == ConnectionFits /\ NoIdlePileUp /\ VerdictIsExplained
=============================================================================
