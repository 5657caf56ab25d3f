------------------------------ MODULE KumaFetch ------------------------------
(***************************************************************************)
(* Reading an Uptime Kuma with a user's name and password (kuma/socket.go, *)
(* kuma/betterauth.go), and what is made of its list (MapFullAll).         *)
(*                                                                         *)
(* There are two ways to log in: the login event of the socket, and a      *)
(* session from the HTTP interface that newer servers have instead. The    *)
(* client looks which one there is, and changes over when it has guessed   *)
(* wrong. What the server sends races with the timers, with a loss of the  *)
(* connection, and with itself: the first error that is reported counts.   *)
(***************************************************************************)
EXTENDS Integers, Sequences, FiniteSets

CONSTANTS
  Items,         \* ids of an Uptime Kuma's monitors and groups
  NoItem,
  MaxLosses      \* bound: connections lost, timers that run out early, guesses that fail

VARIABLES
  server,        \* external: how it logs in, what the account needs, what it holds, whether it limits logins
  login,         \* are the password and the code right
  client,        \* where the call is
  socket,        \* the connection: what the server has yet to send, what has come
  held, candidates,   \* the list that came, and what is made of it
  submitted,     \* history: logins sent since the server refused one
  losses

kumaVars == <<server, login, client, socket, held, candidates, submitted, losses>>

Accepts == login.password /\ (server.twoFactor => login.code = "right")

\* Errors that are an answer; the others are worth another try while the port is open.
Definite == {"failed", "codeRequired", "codeInvalid", "rejected", "noList", "loginTimeout", "noBetterAuth",
             "useBetterAuth"}
\* "network" while the port is open, else "unreachable".
Broken == {"network", "unreachable"}

NoSocket == [open |-> FALSE, coming |-> {}, attempt |-> "none", required |-> FALSE, loggedIn |-> FALSE,
             list |-> FALSE, error |-> "none"]
Opening == [NoSocket EXCEPT !.open = TRUE, !.coming = {"connect"}]

Lose == losses < MaxLosses /\ losses' = losses + 1

-----------------------------------------------------------------------------
(* The routes.                                                             *)

\* What becomes of an error of fetchFullByEventOrSession.
EndOuter(error) ==
  IF error = "network" /\ client.outer = 1
    THEN [client EXCEPT !.phase = "probe", !.outer = 2, !.fallback = FALSE]
    ELSE [client EXCEPT !.phase = "done", !.result = error]

\* ... of fetchFullViaSession.
EndSession(error) ==
  IF error # "noBetterAuth" THEN EndOuter(error)
  ELSE IF client.fallback THEN EndOuter("loginTimeout")
  ELSE [client EXCEPT !.phase = "connect", !.session = FALSE]

\* ... of one connection.
EndSocket(error) ==
  IF client.session
    THEN IF error = "network" /\ client.inner = 1 THEN [client EXCEPT !.phase = "connect", !.inner = 2]
                                                  ELSE EndSession(error)
    ELSE IF error = "useBetterAuth" THEN [client EXCEPT !.phase = "signIn", !.fallback = TRUE]
                                    ELSE EndOuter(error)

\* BetterAuthAvailable; a request that fails says no.
Probe ==
  /\ client.phase = "probe"
  /\ UNCHANGED <<server, login, socket, held, candidates, submitted>>
  /\ \/ /\ client' = IF server.kind = "session" THEN [client EXCEPT !.phase = "signIn"]
                     ELSE [client EXCEPT !.phase = "connect", !.session = FALSE]
        /\ UNCHANGED losses
     \/ Lose /\ client' = [client EXCEPT !.phase = "connect", !.session = FALSE]

\* What a server with the HTTP interface says to the login: nothing, the code is
\* asked for, or no. One that limits logins, or fails, may say no to any name and
\* password (400, 429) and to any code (all but 200), and it counts as wrong.
Verdicts ==
  {IF ~login.password THEN "failed" ELSE IF Accepts THEN "none"
   ELSE IF login.code = "none" THEN "codeRequired" ELSE "codeInvalid"}
LimitedVerdicts ==
  {verdict \in {"failed", "codeInvalid"} :
     server.limits /\ (verdict = "codeInvalid" => login.password /\ server.twoFactor /\ login.code # "none")}

\* LoginViaBetterAuth; a proxy may not let it through (404).
SignIn ==
  /\ client.phase = "signIn"
  /\ UNCHANGED <<server, login, socket, held, candidates>>
  /\ \/ /\ server.kind # "session" /\ UNCHANGED losses
        /\ submitted' = IF submitted > 0 THEN submitted + 1 ELSE 0
        /\ client' = EndSession("noBetterAuth")
     \/ /\ server.kind = "session" /\ UNCHANGED losses
        /\ \E verdict \in Verdicts \cup LimitedVerdicts :
             /\ submitted' = IF submitted > 0 \/ verdict # "none" THEN submitted + 1 ELSE 0
             /\ client' = IF verdict = "none" THEN [client EXCEPT !.phase = "connect", !.session = TRUE, !.inner = 1]
                          ELSE EndSession(verdict)
     \/ Lose /\ UNCHANGED submitted /\ \E error \in Broken \cup {"noBetterAuth"} : client' = EndSession(error)

\* fetchFullSession: the listeners are there before the connection is made.
Connect ==
  /\ client.phase = "connect"
  /\ client' = [client EXCEPT !.phase = "socket"]
  /\ socket' = Opening
  /\ UNCHANGED <<server, login, held, candidates, submitted, losses>>

-----------------------------------------------------------------------------
(* One connection.                                                         *)

Live == client.phase = "socket" /\ socket.open
Report(s, error) == IF s.error = "none" THEN [s EXCEPT !.error = error] ELSE s
Hears(event) == Live /\ event \in socket.coming
Rest == UNCHANGED <<server, login, client, held, candidates, losses>>

\* The server says hello: it asks for a login, or greets the session, unless the
\* cookie gets lost on the way.
OnConnect ==
  /\ Hears("connect")
  /\ UNCHANGED <<server, login, client, held, candidates, submitted>>
  /\ LET s == [socket EXCEPT !.coming = @ \ {"connect"}]
     IN \/ client.session /\ socket' = [s EXCEPT !.coming = @ \cup {"session", "list"}] /\ UNCHANGED losses
        \/ client.session /\ socket' = [s EXCEPT !.coming = @ \cup {"loginRequired"}] /\ Lose
        \/ /\ ~client.session /\ UNCHANGED losses
           /\ socket' = [s EXCEPT !.coming = @ \cup {"loginRequired"}, !.attempt = "send"]

OnSession == Hears("session") /\ socket' = [socket EXCEPT !.coming = @ \ {"session"}, !.loggedIn = TRUE]
             /\ Rest /\ UNCHANGED submitted

OnLoginRequired ==
  /\ Hears("loginRequired")
  /\ LET s == [socket EXCEPT !.coming = @ \ {"loginRequired"}]
     IN socket' = IF client.session THEN Report(s, "rejected") ELSE [s EXCEPT !.required = TRUE]
  /\ Rest /\ UNCHANGED submitted

\* loginAttempt: the event is sent. A server without it is silent, and one that limits
\* logins may refuse any; the list follows a login that is accepted.
EmitLogin ==
  /\ Live /\ socket.attempt \in {"send", "sendCode"}
  /\ LET code == socket.attempt = "sendCode"
         says == IF login.password /\ server.twoFactor /\ ~code THEN "codeAsked"
                 ELSE IF Accepts THEN "accepted" ELSE "refused"
     IN \E answer \in {says} \cup {no \in {"refused"} : server.limits} :
          LET sends == IF server.kind = "session" THEN {}
                       ELSE {answer} \cup IF answer = "accepted" THEN {"list"} ELSE {}
          IN /\ socket' = [socket EXCEPT !.attempt = IF code THEN "codeSent" ELSE "sent", !.coming = @ \cup sends]
             /\ submitted' = IF submitted > 0 \/ "refused" \in sends THEN submitted + 1 ELSE 0
  /\ Rest

\* Mutant: a refusal is one more failure of the connection.
EndLoginVague(s, answer) ==
  LET over == [s EXCEPT !.attempt = "over"]
  IN IF answer = "accepted" THEN [over EXCEPT !.loggedIn = TRUE]
     ELSE IF answer = "refused" THEN Report(over, "network")
     ELSE IF s.attempt = "codeSent" THEN Report(over, "codeInvalid")
     ELSE IF login.code = "none" THEN Report(over, "codeRequired")
     ELSE [s EXCEPT !.attempt = "sendCode"]

\* performLogin takes the answer.
EndLogin(s, answer) ==
  LET over == [s EXCEPT !.attempt = "over"]
  IN IF answer = "accepted" THEN [over EXCEPT !.loggedIn = TRUE]
     ELSE IF answer = "refused" THEN Report(over, "failed")
     ELSE IF s.attempt = "codeSent" THEN Report(over, "codeInvalid")
     ELSE IF login.code = "none" THEN Report(over, "codeRequired")
     ELSE [s EXCEPT !.attempt = "sendCode"]

OnAnswer ==
  /\ Live /\ socket.attempt \in {"sent", "codeSent"}
  /\ \E answer \in {"accepted", "refused", "codeAsked"} \cap socket.coming :
       socket' = EndLogin([socket EXCEPT !.coming = @ \ {answer}], answer)
  /\ Rest /\ UNCHANGED submitted

\* The answer does not come in time; without a sign that a login is wanted at all
\* that is the error, with it the server has another way.
LoginTimeout ==
  /\ Live /\ socket.attempt \in {"sent", "codeSent"}
  /\ socket' = Report([socket EXCEPT !.attempt = "over"], IF socket.required THEN "useBetterAuth" ELSE "loginTimeout")
  /\ UNCHANGED <<server, login, client, held, candidates, submitted>>
  /\ IF server.kind = "session" THEN "loginRequired" \notin socket.coming /\ UNCHANGED losses ELSE Lose

\* DecodeMonitorList: an empty list is an error.
OnMonitorList ==
  /\ Hears("list")
  /\ LET s == [socket EXCEPT !.coming = @ \ {"list"}]
     IN socket' = IF server.empty THEN Report(s, "noList") ELSE [s EXCEPT !.list = TRUE]
  /\ Rest /\ UNCHANGED submitted

OnDisconnect ==
  /\ Live /\ Lose
  /\ \E error \in Broken : socket' = Report([socket EXCEPT !.open = FALSE, !.coming = {}], error)
  /\ UNCHANGED <<server, login, client, held, candidates, submitted>>

\* The list goes before the error, which gives way to that of the port when it does not
\* answer any more (connectHint); the timer of the whole comes when nothing else does.
Leave ==
  /\ client.phase = "socket"
  /\ UNCHANGED <<server, login, candidates, submitted>>
  /\ \/ /\ socket.list /\ client' = [client EXCEPT !.phase = "map", !.result = "list"] /\ UNCHANGED <<held, losses>>
     \/ /\ ~socket.list /\ socket.error # "none" /\ client' = EndSocket(socket.error) /\ UNCHANGED <<held, losses>>
     \/ /\ ~socket.list /\ socket.error # "none" /\ Lose /\ UNCHANGED held
        /\ \E error \in Broken : client' = EndSocket(error)
     \/ /\ Lose /\ UNCHANGED held
        /\ \E error \in Broken : client' = EndSocket(IF socket.loggedIn THEN "noList" ELSE error)
  /\ socket' = NoSocket

-----------------------------------------------------------------------------
(* MapFullAll: groups become labels, what is not supported gets a reason.  *)

Kinds == {"http", "keyword", "dns", "group"}

IsGroup(list, i) == i \in DOMAIN list /\ list[i].kind = "group"

\* groupLabelOf climbs while it finds groups it has not seen, and turns the path round.
GroupLabel(list, i) ==
  LET n == Cardinality(Items)
      climb[k \in 0..n] ==
        IF k = 0 THEN [path |-> <<>>, at |-> list[i].parent]
        ELSE LET c == climb[k - 1]
             IN IF ~IsGroup(list, c.at) \/ \E j \in DOMAIN c.path : c.path[j] = c.at THEN c
                ELSE [path |-> <<c.at>> \o c.path, at |-> list[c.at].parent]
  IN climb[n].path

\* A field that is left over from another kind of monitor is not looked at.
MapFull(list, i) ==
  [fits |-> list[i].kind # "dns", group |-> GroupLabel(list, i), keyword |-> list[i].kind = "keyword"]

MapFullAll ==
  /\ client.phase = "map"
  /\ \E list \in [Items -> [kind : Kinds, parent : Items \cup {NoItem}]] :
       /\ held' = list
       /\ candidates' = [i \in {i \in DOMAIN list : ~IsGroup(list, i)} |-> MapFull(list, i)]
  /\ client' = [client EXCEPT !.phase = "done"]
  /\ UNCHANGED <<server, login, socket, submitted, losses>>

-----------------------------------------------------------------------------
Init ==
  /\ server \in [kind : {"event", "session"}, twoFactor : BOOLEAN, empty : BOOLEAN, limits : BOOLEAN]
  /\ login \in [password : BOOLEAN, code : {"none", "wrong", "right"}]
  /\ client = [phase |-> "probe", outer |-> 1, inner |-> 1, session |-> TRUE, fallback |-> FALSE, result |-> "none"]
  /\ socket = NoSocket
  /\ held = <<>> /\ candidates = <<>>
  /\ submitted = 0 /\ losses = 0

Next ==
  \/ Probe \/ SignIn \/ Connect
  \/ OnConnect \/ OnSession \/ OnLoginRequired \/ EmitLogin \/ OnAnswer \/ LoginTimeout
  \/ OnMonitorList \/ OnDisconnect \/ Leave
  \/ MapFullAll

Spec == Init /\ [][Next]_kumaVars
-----------------------------------------------------------------------------
(* Properties.                                                             *)

\* The type of every variable.
TypeOK ==
  /\ client.phase \in {"probe", "signIn", "connect", "socket", "map", "done"}
  /\ client.outer \in 1..2 /\ client.inner \in 1..2
  /\ client.result \in (Definite \cup Broken \cup {"none", "list"}) \ {"noBetterAuth", "useBetterAuth"}
  /\ socket.error \in Definite \cup Broken \cup {"none"}
  /\ losses \in 0..MaxLosses

\* What the call says at the end is so, on whichever way it came to it: it has a list
\* if the login is right; wrong, or without the code, only if the account says so (or
\* the server limits logins, which the code cannot tell from a wrong one); and a sound
\* server with a list is always read. The server's no is not asked for twice.
VerdictIsTrue ==
  /\ losses = 0 => submitted <= 1
  /\ client.phase = "done" =>
       CASE client.result = "list" -> Accepts /\ ~server.empty
         [] client.result = "failed" -> ~Accepts \/ server.limits
         [] client.result = "codeRequired" -> login.password /\ server.twoFactor /\ login.code = "none"
         [] client.result = "codeInvalid" ->
              /\ login.password /\ server.twoFactor /\ login.code # "none"
              /\ login.code = "wrong" \/ server.limits
         [] client.result = "noList" -> Accepts /\ (server.empty \/ losses > 0)
         [] OTHER -> losses > 0

\* A label is the path of the groups above a monitor, the outermost first, up to where
\* the groups end or begin again; no group is a candidate.
LabelsFollowTheGroups ==
  \A i \in DOMAIN candidates :
    LET path == candidates[i].group
        top == IF path = <<>> THEN held[i].parent ELSE held[path[1]].parent
    IN /\ \A j \in DOMAIN path : IsGroup(held, path[j])
       /\ path # <<>> => path[Len(path)] = held[i].parent
       /\ \A j \in 2..Len(path) : held[path[j]].parent = path[j - 1]
       /\ IsGroup(held, top) => \E j \in DOMAIN path : path[j] = top

\* What a read of an Uptime Kuma comes to is right: its verdict on the login, and the
\* groups it labels the candidates with.
KumaIsReadRight == VerdictIsTrue /\ LabelsFollowTheGroups
=============================================================================
