----------------------------- MODULE MCServices -----------------------------
(***************************************************************************)
(* The services around the round engine, each with a small instance: push   *)
(* monitors, notifier, enrollment of nodes, administration of monitors and  *)
(* channels, transfer of configurations, reading an Uptime Kuma, probes of  *)
(* a node and the browser's feed.  Each module models its neighbours as far *)
(* as it depends on them, so the parts need no common steps: Init picks the *)
(* part that moves, and the others stay in one initial state.               *)
(***************************************************************************)
EXTENDS Integers, Sequences, FiniteSets, TLC

CONSTANTS
  Reject, None,                                                     \* verdicts of Probes
  Reports, Watchdog, Period, Consecutive, InvertMode, MaxUpsets,    \* of PushMonitor
  Channels, Alerts, MaxAttempts, MaxToggles, MaxFaults,             \* of Notifier
  Sessions, NoSession, Requests, MaxRows, MaxIssued, MaxMishaps,    \* of Enrollment
  Items, NoItem, MaxLosses,                                         \* of KumaFetch
  Probes, Checks, Names, Literals, Families, Within,                \* of Probes
  MaxCached, MaxIdle, MaxRedirects,
  MonitorIds, ChannelIds, Approved, Others, Forms, Submissions, Installations, \* of MonitorAdmin
  Uploads, HomeStates, Edited, KumaLists,                           \* of ConfigTransfer
  Configs, Values, Limit, QueueCap, MaxRounds, MaxExtras            \* of BrowserFeed

ASSUME PushAssumption ==
  /\ Watchdog \notin Reports /\ InvertMode \in BOOLEAN /\ MaxUpsets \in Nat
  /\ Period \in Nat \ {0} /\ Consecutive \in Nat \ {0}
ASSUME NotifyAssumption == MaxAttempts \in Nat \ {0} /\ MaxToggles \in Nat /\ MaxFaults \in Nat
ASSUME EnrollAssumption == MaxRows \in Nat \ {0} /\ MaxIssued \in Nat /\ MaxMishaps \in Nat
ASSUME KumaAssumption == IsFiniteSet(Items) /\ MaxLosses \in Nat
ASSUME FeedAssumption ==
  /\ Configs \subseteq [consecutive : Nat \ {0}, threshold : Nat] /\ Configs # {} /\ Values \subseteq Nat
  /\ Limit \in Nat \ {0} /\ QueueCap \in Nat /\ MaxRounds \in Nat /\ MaxExtras \in Nat

VARIABLES part,
          enabled, state, quiet, slot, pc, on, base, todo, flight, pausing, calm, excuses, upsets,
          channel, routes, alert, delivery, toggles, faults,
          agent, node, session, entry, request, issued, mishaps,
          monitors, channels, submission, broken,
          storedChannels, storedMonitors, settings, counting, minted, upload, mishap,
          server, login, client, socket, held, candidates, submitted, losses,
          cached, idle, run,
          rounds, config, alertState, closing, link, reads, page, left

(* ---- the instances ---- *)
Push == INSTANCE PushMonitor
Notify == INSTANCE Notifier
Enroll == INSTANCE Enrollment

Form(type, mode, assigned, excluded, to, token, invert, sane) ==
  [type |-> type, mode |-> mode, assigned |-> assigned, excluded |-> excluded, routes |-> to,
   token |-> token, invert |-> invert, enabled |-> token = "none", sane |-> sane]
SomeForms ==
  {Form("http", "selected", {"a1"}, {}, {"c1"}, "none", TRUE, TRUE),
   Form("http", "selected", {"a2"}, {}, {"c1"}, "none", TRUE, TRUE),
   Form("download", "exclude", {}, {"a2"}, {"c2"}, "none", TRUE, TRUE),
   Form("push", "", {}, {}, {"c1"}, "none", FALSE, TRUE),
   Form("push", "", {}, {}, {"c2"}, "old", FALSE, TRUE),
   Form("http", "all", {}, {}, {"c2"}, "none", FALSE, FALSE)}
Stored(type, to) ==
  [exists |-> TRUE, type |-> type, mode |-> "all", nodes |-> {}, invert |-> FALSE, enabled |-> TRUE,
   token |-> IF type = "push" THEN "old" ELSE "none", routes |-> to, count |-> "none", data |-> FALSE]
Free == [Stored("http", {}) EXCEPT !.exists = FALSE, !.enabled = FALSE]
Switched(on_) == [exists |-> on_, text |-> "first", enabled |-> on_, agentNotify |-> FALSE]
Installed == <<[m1 |-> Stored("http", {"c1"}), m2 |-> Stored("push", {"c2"})],
               [c \in ChannelIds |-> Switched(TRUE)]>>
SomeInstallations == {Installed, <<[m1 |-> Stored("http", {"c2"}), m2 |-> Free],
                                   [c1 |-> Switched(TRUE), c2 |-> Switched(FALSE)]>>}
Admin == INSTANCE MonitorAdmin

\* Forms, monitors and channels have the types of their fields; a row that is free names
\* no channels.
ASSUME AdminAssumption ==
  /\ Forms \subseteq [type : Admin!Types, mode : {""} \cup Admin!Modes, token : {"none", "old", "new"},
                     assigned : SUBSET (Approved \cup Others), excluded : SUBSET (Approved \cup Others),
                     routes : SUBSET ChannelIds, invert : BOOLEAN, enabled : BOOLEAN, sane : BOOLEAN]
  /\ \A first \in Installations :
       /\ first[1] \in [MonitorIds -> Admin!Row]
       /\ first[2] \in [ChannelIds -> [exists : BOOLEAN, text : {"first", "second"}, enabled : BOOLEAN,
                                       agentNotify : BOOLEAN]]
       /\ \A m \in MonitorIds : ~first[1][m].exists => first[1][m].routes = {}

\* Two channels of one name and a push monitor that uses both; its own export, an
\* export from elsewhere, and a file written by hand with a broken channel, a doubled
\* token and a doubled target; a list of a doubled target and an invalid entry.
Settings(value) == [i \in {"days", "rounds", "templates"} |-> value]
Listed(type, target, text, token, names, on_, fit) ==
  [type |-> type, target |-> target, text |-> text, token |-> token, names |-> names,
   enabled |-> on_, fit |-> fit]
Kept == [type |-> "push", target |-> "p", text |-> "x", token |-> 1, routes |-> {1, 2}, enabled |-> TRUE]
SomeHomeStates ==
  {[channels |-> <<[name |-> "mail", text |-> "x"], [name |-> "mail", text |-> "y"]>>,
    settings |-> Settings("first"), monitors |-> <<Kept>>]}
Elsewhere ==
  [channels |-> <<[name |-> "chat", text |-> "z", fit |-> TRUE], [name |-> "mail", text |-> "z", fit |-> TRUE]>>,
   settings |-> Settings("second"),
   monitors |-> <<Listed("download", "d", "z", 0, {"chat"}, TRUE, "ok"),
                  Listed("push", "p", "z", 3, {"mail"}, FALSE, "ok")>>]
Written ==
  [channels |-> <<[name |-> "chat", text |-> "h", fit |-> TRUE], [name |-> "bad", text |-> "h", fit |-> FALSE]>>,
   settings |-> [Settings("none") EXCEPT !["days"] = "third", !["rounds"] = "bad"],
   monitors |-> <<Listed("push", "q", "h", 5, {"mail", "bad", "chat"}, FALSE, "ok"),
                  Listed("push", "s", "h", 5, {}, TRUE, "ok"),
                  Listed("http", "a", "h2", 0, {}, TRUE, "ok"),
                  Listed("http", "a", "h", 0, {}, TRUE, "ok")>>]
SomeEdited == {Elsewhere, Written}
SomeKumaLists ==
  {<<Listed("http", "a", "k", 0, {}, FALSE, "ok"), Listed("http", "a", "k2", 0, {}, TRUE, "ok"),
     Listed("http", "c", "k", 0, {}, FALSE, "invalid")>>}
Transfer == INSTANCE ConfigTransfer WITH channels <- storedChannels, monitors <- storedMonitors

\* A row has its columns and its channels, only push monitors have tokens, and the
\* tokens up to 10 are those that no dashboard is going to generate.
ASSUME TransferAssumption ==
  /\ \A h \in HomeStates :
       /\ h.channels \in Seq({h.channels[c] : c \in DOMAIN h.channels})
       /\ h.monitors \in Seq({h.monitors[i] : i \in DOMAIN h.monitors})
       /\ \A i \in DOMAIN h.monitors : LET m == h.monitors[i] IN
            /\ m = Transfer!Row(m, m.token, m.routes, m.enabled)
            /\ m.token \in 0..10 /\ (m.type # "push" => m.token = 0)
            /\ m.routes \subseteq DOMAIN h.channels /\ m.enabled \in BOOLEAN
  /\ \A f \in Edited :
       /\ f.channels \in Seq({f.channels[c] : c \in DOMAIN f.channels})
       /\ f.monitors \in Seq({f.monitors[e] : e \in DOMAIN f.monitors})
       /\ \A e \in DOMAIN f.monitors : LET m == f.monitors[e] IN
            m.token \in 0..10 /\ (m.type # "push" => m.token = 0) /\ m.enabled \in BOOLEAN
  /\ \A list \in KumaLists :
       /\ list \in Seq({list[e] : e \in DOMAIN list})
       /\ \A e \in DOMAIN list : list[e].enabled \in BOOLEAN

Kuma == INSTANCE KumaFetch

\* Two monitors of one virtual host on different addresses, one by name.
SomeFamilies == [site |-> {4, 6}, other |-> {4}, ip1 |-> {4}, ip2 |-> {4}]
Plain == [kind |-> "http", host |-> "site", vhost |-> None, insecure |-> FALSE, version |-> 0,
          specs |-> {}, contains |-> {}, bans |-> {}, assert |-> None]
SomeChecks ==
  {[Plain EXCEPT !.specs = {[lo |-> 200, hi |-> 200], [lo |-> 500, hi |-> 599]},
                 !.contains = {"", "word"}],
   [Plain EXCEPT !.host = "ip1", !.vhost = "site", !.insecure = TRUE, !.version = 4,
                 !.bans = {"word"}],
   [Plain EXCEPT !.host = "ip2", !.vhost = "site", !.insecure = TRUE, !.version = 4,
                 !.assert = [op |-> ">=", expected |-> [number |-> TRUE, is |-> 1]]],
   [Plain EXCEPT !.kind = "download", !.version = 6],
   [Plain EXCEPT !.kind = "ping", !.host = "other", !.version = 6],
   [Plain EXCEPT !.kind = "tcp", !.host = "ip1"],
   [Plain EXCEPT !.host = "other", !.assert = [op |-> "contains", expected |-> [number |-> TRUE, is |-> 1]]],
   [Plain EXCEPT !.kind = "push"]}
\* Of "0", "1", "a" and "1a", the texts that occur in each other.
SomeTexts ==
  {<<v, v>> : v \in [number : BOOLEAN, is : 0..1]}
    \cup {<<[number |-> TRUE, is |-> 1], [number |-> FALSE, is |-> 1]>>,
          <<[number |-> FALSE, is |-> 0], [number |-> FALSE, is |-> 1]>>}
Probing == INSTANCE Probes

\* The codes and numbers of a check are integers and its TLS switch is a Boolean, and
\* "None" is neither a probe nor an address nor a transport.
ASSUME ProbesAssumption ==
  /\ MaxCached \in Nat /\ MaxIdle \in Nat /\ MaxRedirects \in Nat /\ None \notin Probes \cup Literals
  /\ \A c \in Checks : /\ c.specs \subseteq [lo : Int, hi : Int] /\ c.insecure \in BOOLEAN
                       /\ c.assert # None => c.assert.expected.is \in Int
  /\ \A c \in Checks, p \in Probes \cup {None} : [params |-> Probing!Params(c), for |-> p] # None

\* Two bad rounds below 2, or one below 1.
SomeConfigs == {[consecutive |-> 2, threshold |-> 2], [consecutive |-> 1, threshold |-> 1]}
Feed == INSTANCE BrowserFeed WITH state <- alertState

(* ---- one part moves ---- *)
Parts == {"push", "notify", "enroll", "admin", "transfer", "kuma", "probes", "feed"}

pushVars == <<enabled, state, quiet, slot, pc, on, base, todo, flight, pausing, calm, excuses, upsets>>
notifierVars == <<channel, routes, alert, delivery, toggles, faults>>
enrollmentVars == <<agent, node, session, entry, request, issued, mishaps>>
adminVars == <<monitors, channels, submission, broken>>
transferVars == <<storedChannels, storedMonitors, settings, counting, minted, upload, mishap>>
kumaVars == <<server, login, client, socket, held, candidates, submitted, losses>>
probesVars == <<cached, idle, run>>
feedVars == <<rounds, config, alertState, closing, link, reads, page, left>>
vars == <<pushVars, notifierVars, enrollmentVars, adminVars, transferVars, kumaVars, probesVars, feedVars>>

\* A part that stays has the first of its initial states.
Resting ==
  /\ part # "notify" => (\A c \in Channels : channel[c].enabled) /\ routes = Channels
  /\ part # "admin" => <<monitors, channels>> = CHOOSE first \in Installations : TRUE
  /\ config.row = CHOOSE c \in Configs : c.consecutive > 1
  /\ part # "kuma" => /\ server = [kind |-> "event", twoFactor |-> FALSE, empty |-> FALSE, limits |-> FALSE]
                      /\ login = [password |-> TRUE, code |-> "none"]

Init ==
  /\ part \in Parts
  /\ Push!Init /\ Notify!Init /\ Enroll!Init /\ Admin!Init
  /\ Transfer!Init /\ Kuma!Init /\ Probing!Init /\ Feed!Init
  /\ Resting

Others4 == <<transferVars, kumaVars, probesVars, feedVars>>
Others8 == <<pushVars, notifierVars, enrollmentVars, adminVars>>

PushStep == /\ part = "push" /\ Push!Next
            /\ UNCHANGED <<part, notifierVars, enrollmentVars, adminVars, Others4>>
NotifyStep == /\ part = "notify" /\ Notify!Next
              /\ UNCHANGED <<part, pushVars, enrollmentVars, adminVars, Others4>>
EnrollStep == /\ part = "enroll" /\ Enroll!Next
              /\ UNCHANGED <<part, pushVars, notifierVars, adminVars, Others4>>
AdminStep == /\ part = "admin" /\ Admin!Next
             /\ UNCHANGED <<part, pushVars, notifierVars, enrollmentVars, Others4>>
TransferStep == /\ part = "transfer" /\ Transfer!Next
                /\ UNCHANGED <<part, Others8, kumaVars, probesVars, feedVars>>
KumaStep == /\ part = "kuma" /\ Kuma!Next
            /\ UNCHANGED <<part, Others8, transferVars, probesVars, feedVars>>
ProbesStep == /\ part = "probes" /\ Probing!Next
              /\ UNCHANGED <<part, Others8, transferVars, kumaVars, feedVars>>
FeedStep == /\ part = "feed" /\ Feed!Next
            /\ UNCHANGED <<part, Others8, transferVars, kumaVars, probesVars>>

Next == PushStep \/ NotifyStep \/ EnrollStep \/ AdminStep \/ TransferStep \/ KumaStep
        \/ ProbesStep \/ FeedStep

\* The fairness of the push monitors (PushMonitor's) while they move.
Fairness ==
  /\ WF_pushVars(part = "push" /\ Push!Cycle) /\ SF_pushVars(part = "push" /\ Push!Second)
  /\ \A p \in Reports : WF_pushVars(part = "push" /\ Push!Request(p))

Spec == Init /\ [][Next]_<<part, vars>> /\ Fairness
-----------------------------------------------------------------------------
(* The properties of the parts, each stated where it is from.              *)

\* The types of the part that moves.
TypeOK ==
  CASE part = "push" -> Push!TypeOK         [] part = "notify" -> Notify!TypeOK
    [] part = "enroll" -> Enroll!TypeOK     [] part = "admin" -> Admin!TypeOK
    [] part = "transfer" -> Transfer!TypeOK [] part = "kuma" -> Kuma!TypeOK
    [] part = "probes" -> Probing!TypeOK    [] part = "feed" -> Feed!TypeOK

\* A push monitor goes DOWN only after its silence (PushMonitor).
SilenceTakesItsTime == part = "push" => Push!SilenceTakesItsTime

\* The silence of an enabled push monitor is told in the end (PushMonitor).
SilenceIsTold == part = "push" => Push!SilenceIsTold

\* What a delivery record says is what happened to the delivery (Notifier).
DeliveryIsAccounted == part = "notify" => Notify!DeliveryIsAccounted

\* An approved node has, or is owed, the credential that lets it in (Enrollment).
OneApprovalIsEnough == part = "enroll" => Enroll!OneApprovalIsEnough

\* A request that nothing disturbs is applied whole or not at all (MonitorAdmin).
RequestsAreTransactions == part = "admin" => Admin!RequestsAreTransactions

\* An import that nothing disturbs does what its preview says (ConfigTransfer).
ImportsAreFaithful == part = "transfer" => Transfer!ImportsAreFaithful

\* A read of an Uptime Kuma tells its account and its groups truly (KumaFetch).
KumaIsReadRight == part = "kuma" => Kuma!KumaIsReadRight

\* A probe's connection, its verdict and the cache of transports fit (Probes).
ProbesAreSound == part = "probes" => Probing!ProbesAreSound

\* The strip of an open page shows the rounds and colours of the store (BrowserFeed).
StripIsFaithful == part = "feed" => Feed!StripIsFaithful
=============================================================================
