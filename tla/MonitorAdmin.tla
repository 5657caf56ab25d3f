---------------------------- MODULE MonitorAdmin ----------------------------
(***************************************************************************)
(* The monitors and channels pages (api/monitors.go, api/channels.go) and  *)
(* the statements behind them (store/monitors.go, store/channels.go).      *)
(*                                                                         *)
(* A request is a sequence of statements, each of which can fail; only the *)
(* cascades and the rewriting of the routes are transactions. Requests     *)
(* overlap, and rounds come in between.                                    *)
(*                                                                         *)
(* Of a monitor's row there remain what the requests treat differently:    *)
(* the type, the assignment, the switch, the token of a push monitor and   *)
(* the channels it tells; of its results, whether there are any and        *)
(* whether it has a breach count. Names, targets, conditions and numbers   *)
(* are one thing a form has or has not got right (sane).                   *)
(***************************************************************************)
EXTENDS FiniteSets

CONSTANTS
  MonitorIds, ChannelIds,   \* ids that are in use or will be
  Approved, Others,         \* nodes, by what the assignment asks of them
  Forms,                    \* the monitor forms that are submitted
  Submissions,              \* bound: the requests there will be
  Installations,            \* the monitors and channels there are at first
  Reject                    \* what validate returns for a form it refuses

VARIABLES monitors, channels, submission, broken

adminVars == <<monitors, channels, submission, broken>>
rows == <<monitors, channels>>

Types == {"http", "download", "push"}
Modes == {"selected", "all", "exclude"}
Counts == {"none", "zero", "some"}

Row == [exists : BOOLEAN, type : Types, mode : Modes, nodes : SUBSET (Approved \cup Others),
        invert : BOOLEAN, enabled : BOOLEAN, token : {"none", "old", "new"},
        routes : SUBSET ChannelIds, count : Counts, data : BOOLEAN]
NoMonitor == [exists |-> FALSE, type |-> "http", mode |-> "all", nodes |-> {}, invert |-> FALSE,
              enabled |-> FALSE, token |-> "none", routes |-> {}, count |-> "none", data |-> FALSE]
NoChannel == [exists |-> FALSE, text |-> "first", enabled |-> FALSE, agentNotify |-> FALSE]

-----------------------------------------------------------------------------
(* validate: the row a form stands for, or Reject.                         *)

\* The lists of the assignment modes. An excluded node may be any.
Nodes(form) ==
  IF form.type = "push" \/ form.mode = "all" THEN {}
  ELSE IF form.mode = "exclude" THEN form.excluded ELSE form.assigned

Valid(form) ==
  /\ form.sane
  /\ form.type # "push" /\ form.mode \in {"", "selected"} =>
       form.assigned # {} /\ form.assigned \subseteq Approved

\* A push monitor is assigned to all nodes; a download is never inverted; a push
\* form without a token gets a new one.
Validate(form) ==
  IF ~Valid(form) THEN Reject
  ELSE [NoMonitor EXCEPT
          !.exists = TRUE, !.type = form.type, !.nodes = Nodes(form), !.routes = form.routes,
          !.mode = IF form.type = "push" THEN "all" ELSE IF form.mode = "" THEN "selected" ELSE form.mode,
          !.invert = form.invert /\ form.type # "download",
          !.enabled = form.enabled,
          !.token = IF form.type # "push" THEN "none" ELSE IF form.token = "none" THEN "new" ELSE form.token]

-----------------------------------------------------------------------------
(* A request: the statement it is at, what it has read, what it answers;   *)
(* and, as history, the rows when it came, until somebody else changes them. *)

MonitorOps == {"create", "update", "pause", "resume", "delete"}
SwitchOps == {"enableChannel", "disableChannel", "notifyOn", "notifyOff"}
ChannelOps == {"addChannel", "editChannel", "deleteChannel", "applyAll"} \cup SwitchOps
BatchOps == {"batchPause", "batchResume", "batchDelete"}
Unsent == [op |-> "none", stage |-> "new", ids |-> {}, form |-> Reject, channel |-> NoChannel,
           seen |-> [m \in {} |-> {}], reply |-> "none", before |-> <<>>]

Fails == ~broken /\ broken' = TRUE
Works == UNCHANGED broken

Disturbed(q) == IF rows' = rows THEN submission[q] ELSE [submission[q] EXCEPT !.before = <<>>]

\* r goes on; what it changed disturbs the others.
Proceed(r, new) ==
  submission' = [q \in Submissions |->
    IF q = r THEN new
    ELSE Disturbed(q)]
At(r, stage) == submission[r].stage = stage
Then(r, stage) == Proceed(r, [submission[r] EXCEPT !.stage = stage])
Answer(r, reply) == Proceed(r, [submission[r] EXCEPT !.stage = "done", !.reply = reply])
\* A statement of r fails: it has no effect, and the request ends there.
Fail(r) == Fails /\ UNCHANGED rows /\ Answer(r, "error")

Submit(r, op, ids, form, channel, stage) ==
  /\ submission[r] = Unsent
  /\ UNCHANGED <<monitors, channels, broken>>
  /\ Proceed(r, [Unsent EXCEPT !.op = op, !.stage = stage, !.ids = ids, !.form = form,
                               !.channel = channel, !.before = <<monitors, channels>>])

Existing == {m \in MonitorIds : monitors[m].exists}
Updated(ms, new(_)) == monitors' = [m \in MonitorIds |-> IF m \in ms \cap Existing THEN new(m) ELSE monitors[m]]

-----------------------------------------------------------------------------
(* Monitors.                                                               *)

SubmitMonitor(r) ==
  \/ \E m \in MonitorIds \ Existing, f \in Forms :
       Validate(f) # Reject /\ Submit(r, "create", {m}, Validate(f), NoChannel, "insert")
  \/ \E m \in Existing, f \in Forms :
       /\ Validate(f) # Reject
       /\ f.token \in {"none", monitors[m].token}
       /\ Submit(r, "update", {m}, Validate(f), NoChannel, "update")
  \/ \E m \in Existing, op \in {"pause", "resume", "delete"} : Submit(r, op, {m}, Reject, NoChannel, op)
  \/ \E ms \in SUBSET Existing \ {{}}, op \in BatchOps : Submit(r, op, ms, Reject, NoChannel, op)

InsertMonitor(r) ==
  /\ At(r, "insert")
  /\ \/ /\ Works
        /\ monitors' = [m \in MonitorIds |-> IF m \in submission[r].ids THEN submission[r].form ELSE monitors[m]]
        /\ UNCHANGED channels
        /\ Answer(r, "ok")
     \/ Fail(r)

\* UpdateMonitor: the whole row but the token and what belongs to reports; a
\* monitor that is gone is not found. The push to the browsers and Kick follow.
UpdateMonitor(r) ==
  /\ At(r, "update")
  /\ \/ /\ Works
        /\ Updated(submission[r].ids, LAMBDA m : [submission[r].form EXCEPT
             !.token = monitors[m].token, !.count = monitors[m].count, !.data = monitors[m].data])
        /\ UNCHANGED channels
        /\ Answer(r, IF submission[r].ids \subseteq Existing THEN "ok" ELSE "missing")
     \/ Fail(r)

\* DeleteMonitorCascade, DeleteMonitorsCascade: one transaction.
DeleteMonitors(r) ==
  /\ At(r, "delete") \/ At(r, "batchDelete")
  /\ \/ /\ Works
        /\ IF At(r, "delete") /\ ~(submission[r].ids \subseteq Existing)
             THEN UNCHANGED rows /\ Answer(r, "missing")
             ELSE /\ monitors' = [m \in MonitorIds |-> IF m \in submission[r].ids THEN NoMonitor ELSE monitors[m]]
                  /\ UNCHANGED channels
                  /\ Answer(r, "ok")
     \/ Fail(r)

\* SetMonitorEnabled, SetMonitorsEnabled; resuming goes on to Kick.
SetMonitorsEnabled(r) ==
  LET on == submission[r].op \in {"resume", "batchResume"}
      batch == submission[r].op \in BatchOps
  IN /\ \E op \in {"pause", "resume", "batchPause", "batchResume"} : At(r, op)
     /\ \/ /\ Works
           /\ Updated(submission[r].ids, LAMBDA m : [monitors[m] EXCEPT !.enabled = on])
           /\ UNCHANGED channels
           /\ IF ~batch /\ ~(submission[r].ids \subseteq Existing) THEN Answer(r, "missing")
              ELSE IF on THEN Answer(r, "ok")
              ELSE Then(r, IF batch THEN "resetCounts" ELSE "getState")
        \/ Fail(r)

\* ResetMonitorsConsecutive: of the monitors that have a state. A failure is not told.
ResetMonitorsConsecutive(r) ==
  /\ At(r, "resetCounts")
  /\ \/ /\ Works /\ UNCHANGED channels
        /\ monitors' = [m \in MonitorIds |->
             IF m \in submission[r].ids /\ monitors[m].count # "none" THEN [monitors[m] EXCEPT !.count = "zero"]
             ELSE monitors[m]]
        /\ Answer(r, "ok")
     \/ Fails /\ UNCHANGED rows /\ Answer(r, "okay")

\* GetMonitorState: without one there is no count to clear. A failure is not told.
GetMonitorState(r) ==
  /\ At(r, "getState")
  /\ UNCHANGED rows
  /\ \/ Works /\ IF \E m \in submission[r].ids : monitors[m].count = "none" THEN Answer(r, "ok") ELSE Then(r, "putState")
     \/ Fails /\ Answer(r, "okay")

\* PutMonitorState writes the state back, of a monitor that may be gone by now.
PutMonitorState(r) ==
  /\ At(r, "putState")
  /\ \/ /\ Works /\ UNCHANGED channels
        /\ monitors' = [m \in MonitorIds |->
             IF m \in submission[r].ids THEN [monitors[m] EXCEPT !.count = "zero"] ELSE monitors[m]]
        /\ Answer(r, "ok")
     \/ Fails /\ UNCHANGED rows /\ Answer(r, "okay")

\* A round of an enabled monitor is finalized; its breach count may start.
RoundFinalized ==
  \E m \in Existing :
    /\ monitors[m].enabled
    /\ monitors' = [monitors EXCEPT ![m].data = TRUE, ![m].count = "some"]
    /\ UNCHANGED <<channels, broken>>
    /\ submission' = [q \in Submissions |-> Disturbed(q)]

-----------------------------------------------------------------------------
(* Channels.                                                               *)

\* The row a channel form stands for; a switch it leaves out keeps its value (an
\* edit, which begins with reading the row) or is on (a new one).
SubmitChannel(r) ==
  \/ \E c \in ChannelIds, on, notify \in BOOLEAN :
       /\ ~channels[c].exists
       /\ Submit(r, "addChannel", {c}, Reject,
                 [exists |-> TRUE, text |-> "first", enabled |-> on, agentNotify |-> notify], "write")
  \/ \E c \in ChannelIds, on, notify \in BOOLEAN :
       /\ channels[c].exists
       /\ Submit(r, "editChannel", {c}, Reject,
                 [exists |-> TRUE, text |-> "second", enabled |-> on, agentNotify |-> notify], "write")
  \/ \E c \in ChannelIds, op \in ChannelOps \ {"addChannel", "editChannel"} :
       channels[c].exists /\ Submit(r, op, {c}, Reject, NoChannel, op)

PutChannel(r, new) == channels' = [c \in ChannelIds |-> IF c \in submission[r].ids THEN new ELSE channels[c]]
Present(r) == \A c \in submission[r].ids : channels[c].exists

\* InsertChannel; UpdateChannel, which writes the whole row.
WriteChannel(r) ==
  /\ At(r, "write")
  /\ \/ /\ Works /\ UNCHANGED monitors
        /\ IF submission[r].op = "editChannel" /\ ~Present(r)
             THEN UNCHANGED channels /\ Answer(r, "error")
             ELSE PutChannel(r, submission[r].channel) /\ Answer(r, "ok")
     \/ Fail(r)

\* One column of a channel's row.
Switch(op, row) ==
  IF op \in {"notifyOn", "notifyOff"} THEN [row EXCEPT !.agentNotify = op = "notifyOn"]
  ELSE [row EXCEPT !.enabled = op = "enableChannel"]

\* SetChannelEnabled, SetChannelAgentNotify.
SetSwitch(r) ==
  /\ \E op \in SwitchOps : At(r, op)
  /\ \/ /\ Works /\ UNCHANGED monitors
        /\ IF ~Present(r) THEN UNCHANGED channels /\ Answer(r, "missing")
           ELSE /\ channels' = [c \in ChannelIds |-> IF c \in submission[r].ids
                                 THEN Switch(submission[r].op, channels[c]) ELSE channels[c]]
                /\ Answer(r, "ok")
     \/ Fail(r)

\* DeleteChannelDetach begins with the row.
DeleteChannel(r) ==
  /\ At(r, "deleteChannel")
  /\ \/ /\ Works /\ UNCHANGED monitors
        /\ IF Present(r) THEN PutChannel(r, NoChannel) /\ Then(r, "list") ELSE UNCHANGED channels /\ Answer(r, "missing")
     \/ Fail(r)

\* applyChannelToAllMonitors begins with a look at the channel.
FindChannel(r) ==
  /\ At(r, "applyAll")
  /\ UNCHANGED rows
  /\ \/ Works /\ IF Present(r) THEN Then(r, "list") ELSE Answer(r, "missing")
     \/ Fails /\ Answer(r, "missing")

\* The routes of all monitors are read, outside of the transaction that follows.
ListRoutes(r) ==
  /\ At(r, "list")
  /\ UNCHANGED rows
  /\ LET has(m) == submission[r].ids \subseteq monitors[m].routes
         todo == {m \in Existing : IF submission[r].op = "applyAll" THEN ~has(m) ELSE has(m)}
     IN \/ /\ Works
           /\ IF todo = {} THEN Answer(r, "ok")
              ELSE Proceed(r, [submission[r] EXCEPT !.stage = "rewrite", !.seen = [m \in todo |-> monitors[m].routes]])
        \/ Fails /\ Answer(r, "error")

\* Mutant: the channel replaces the routes.
OnlyRoute(q, old) == IF q.op = "applyAll" THEN q.ids ELSE old \ q.ids
\* The routes with the channel, or without it.
Routes(q, old) == IF q.op = "applyAll" THEN old \cup q.ids ELSE old \ q.ids

\* AttachChannelToMonitors, DetachChannelFromMonitors: what was read, with the
\* channel or without it, is written over what is there.
RewriteRoutes(r) ==
  /\ At(r, "rewrite")
  /\ \/ /\ Works /\ UNCHANGED channels
        /\ Updated(DOMAIN submission[r].seen,
                   LAMBDA m : [monitors[m] EXCEPT !.routes = Routes(submission[r], submission[r].seen[m])])
        /\ IF submission[r].op = "applyAll" THEN Then(r, "reread") ELSE Answer(r, "ok")
     \/ Fail(r)

\* AttachChannelToMonitors ends with a look at what it wrote, for the browsers.
RereadMonitors(r) ==
  /\ At(r, "reread")
  /\ \/ Works /\ UNCHANGED rows /\ Answer(r, "ok")
     \/ Fail(r)

-----------------------------------------------------------------------------
Init ==
  /\ \E first \in Installations : monitors = first[1] /\ channels = first[2]
  /\ submission = [r \in Submissions |-> Unsent]
  /\ broken = FALSE

Statement(r) ==
  \/ InsertMonitor(r) \/ UpdateMonitor(r) \/ DeleteMonitors(r) \/ SetMonitorsEnabled(r)
  \/ ResetMonitorsConsecutive(r) \/ GetMonitorState(r) \/ PutMonitorState(r)
  \/ WriteChannel(r) \/ SetSwitch(r) \/ DeleteChannel(r) \/ FindChannel(r)
  \/ ListRoutes(r) \/ RewriteRoutes(r) \/ RereadMonitors(r)

Next ==
  \/ \E r \in Submissions : SubmitMonitor(r) \/ SubmitChannel(r) \/ Statement(r)
  \/ RoundFinalized

Spec == Init /\ [][Next]_adminVars
-----------------------------------------------------------------------------
(* Properties.                                                             *)

\* The type of every variable.
TypeOK ==
  /\ monitors \in [MonitorIds -> Row]
  /\ \A c \in ChannelIds :
       channels[c] \in [exists : BOOLEAN, text : {"first", "second"}, enabled : BOOLEAN, agentNotify : BOOLEAN]
  /\ \A r \in Submissions :
       /\ submission[r].op \in MonitorOps \cup ChannelOps \cup BatchOps \cup {"none"}
       /\ submission[r].reply \in {"none", "ok", "okay", "missing", "error"}
       /\ DOMAIN submission[r].seen \subseteq MonitorIds
  /\ broken \in BOOLEAN

\* What a request that answers "ok" has promised of monitor m, which was b.
Promised(q, m, b) ==
  LET kept == [q.form EXCEPT !.token = b.token, !.count = b.count, !.data = b.data]
      own == m \in q.ids
  IN CASE q.op = "create" /\ own -> q.form
       [] q.op = "update" /\ own -> kept
       [] q.op \in {"delete", "batchDelete"} /\ own -> NoMonitor
       [] q.op \in {"resume", "batchResume"} /\ own -> [b EXCEPT !.enabled = TRUE]
       [] q.op \in {"pause", "batchPause"} /\ own ->
            [b EXCEPT !.enabled = FALSE, !.count = IF q.reply = "ok" /\ @ = "some" THEN "zero" ELSE @]
       [] q.op = "applyAll" /\ b.exists -> [b EXCEPT !.routes = @ \cup q.ids]
       [] q.op = "deleteChannel" -> [b EXCEPT !.routes = @ \ q.ids]
       [] OTHER -> b

\* And of channel c, which was b.
PromisedChannel(q, c, b) ==
  LET own == c \in q.ids
  IN CASE q.op \in {"addChannel", "editChannel"} /\ own -> q.channel
       [] q.op \in SwitchOps /\ own -> Switch(q.op, b)
       [] q.op = "deleteChannel" /\ own -> NoChannel
       [] OTHER -> b

MonitorsDone(q) == \A m \in MonitorIds : monitors[m] = Promised(q, m, q.before[1][m])
ChannelsDone(q) == \A c \in ChannelIds : channels[c] = PromisedChannel(q, c, q.before[2][c])

\* A request is a transaction as long as nothing else changes the rows: when it is
\* done, everything it says it did is done, to all the rows it is about and to no
\* other, and a request that answers with an error did nothing. The exceptions are
\* a pause whose count could not be cleared (it answers as if it had), an "apply to
\* all" whose look at the result failed (it answers with an error, with everything
\* done) and a deleted channel whose routes could not be rewritten (it answers with
\* an error, with the channel gone and every route as it was).
RequestsAreTransactions ==
  \A r \in Submissions :
    LET q == submission[r]
    IN q.stage = "done" /\ q.before # <<>> =>
         \/ /\ MonitorsDone(q) /\ ChannelsDone(q)
            /\ q.reply \in {"ok", "okay"} \/ (q.op = "applyAll" /\ q.reply = "error")
         \/ q.reply \in {"missing", "error"} /\ monitors = q.before[1] /\ channels = q.before[2]
         \/ q.reply = "error" /\ q.op = "deleteChannel" /\ monitors = q.before[1] /\ ChannelsDone(q)
=============================================================================
