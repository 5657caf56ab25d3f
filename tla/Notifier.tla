------------------------------ MODULE Notifier ------------------------------
(***************************************************************************)
(* The delivery of notifications (notifier/notifier.go) to the channels of *)
(* an installation (store/channels.go), and the record each leaves in      *)
(* notification_logs.                                                      *)
(*                                                                         *)
(* An alert is dispatched to the channels that are selected and enabled at *)
(* that moment, one goroutine each, which posts, waits, posts again, and   *)
(* at last writes a record. All of it runs under the context of whoever    *)
(* raised the alert: the scheduler's never ends; the context of an HTTP    *)
(* request (a push report, a test from the channel page) ends with the     *)
(* request. What the message says is left out.                             *)
(***************************************************************************)
EXTENDS Naturals

CONSTANTS
  Channels,     \* the channels that exist at first
  Alerts,       \* the alerts that are raised
  MaxAttempts,  \* 1 + len(RetryDelays)
  MaxToggles,   \* bound: changes of the channels
  MaxFaults     \* bound: answers lost, failing queries, the end of the process

VARIABLES
  channel,      \* the row of each channel; enabled and agentNotify of a deleted one are FALSE
  routes,       \* Monitor.ChannelIds
  alert,        \* each alert: its kind, whose context it has, and whether that has ended
  delivery,     \* the goroutine and the record of each alert and channel
  toggles, faults

deliveryVars == <<alert, delivery>>
notifierVars == <<channel, routes, alert, delivery, toggles, faults>>

Kinds == {"unraised", "monitor", "agent", "test"}
Stages == {"none", "posting", "waiting", "recording", "over"}
Rows == {"none", "success", "failed"}

Idle == [stage |-> "none", attempts |-> 0, received |-> 0, delivered |-> FALSE, lost |-> FALSE, row |-> "none"]

\* Test messages are tried once.
Tries(a) == IF alert[a].kind = "test" THEN 1 ELSE MaxAttempts
Alive(a) == ~alert[a].ended

Fault == faults < MaxFaults /\ faults' = faults + 1
Works == UNCHANGED faults

-----------------------------------------------------------------------------
(* Raising an alert.                                                       *)

\* enabledChannels(FindChannelsByIDs) and enabledChannels(agentChannels).
Active(kind) ==
  {c \in Channels : channel[c].enabled /\ (IF kind = "monitor" THEN c \in routes ELSE channel[c].agentNotify)}

\* dispatch: a goroutine for each of these channels.
Dispatch(a, chosen) ==
  delivery' = [delivery EXCEPT ![a] = [c \in Channels |-> IF c \in chosen THEN [Idle EXCEPT !.stage = "posting"] ELSE Idle]]

Raise(a, kind, byRequest) ==
  /\ alert[a].kind = "unraised"
  /\ alert' = [alert EXCEPT ![a] = [kind |-> kind, byRequest |-> byRequest, ended |-> FALSE]]

\* EmitMonitorEvent (by the scheduler or by a push report) and EmitAgentEvent (by a
\* timer or a connection, without a request). Channels that cannot be read get nothing.
Emit(a) ==
  /\ \/ \E byRequest \in BOOLEAN : Raise(a, "monitor", byRequest)
     \/ Raise(a, "agent", FALSE)
  /\ \/ Works /\ Dispatch(a, Active(alert'[a].kind))
     \/ Fault /\ Dispatch(a, {})
  /\ UNCHANGED <<channel, routes, toggles>>

\* testChannel and EmitTest: one channel, enabled or not.
EmitTest(a) ==
  /\ Raise(a, "test", TRUE)
  /\ \E c \in Channels : channel[c].exists /\ Dispatch(a, {c})
  /\ Works
  /\ UNCHANGED <<channel, routes, toggles>>

\* The request is over: its handler has returned, or its client has gone. The
\* handler of a test waits for the delivery.
EndRequest(a) ==
  /\ alert[a].byRequest /\ Alive(a)
  /\ alert' = [alert EXCEPT ![a].ended = TRUE]
  /\ UNCHANGED <<channel, routes, delivery, toggles, faults>>

-----------------------------------------------------------------------------
(* The goroutine of alert a and channel c.                                 *)

Step(a, c, new) == delivery' = [delivery EXCEPT ![a][c] = new]

\* postOnce: the receiver accepts, refuses, or its answer is lost.
Post(a, c) ==
  LET d == delivery[a][c]
      tried == [d EXCEPT !.attempts = @ + 1]
      failed == [tried EXCEPT !.stage = IF tried.attempts >= Tries(a) THEN "recording" ELSE "waiting"]
  IN /\ d.stage = "posting"
     /\ \/ /\ Alive(a) /\ Works
           /\ Step(a, c, [tried EXCEPT !.received = @ + 1, !.delivered = TRUE, !.stage = "recording"])
        \/ Works /\ Step(a, c, failed)
        \/ Alive(a) /\ Fault /\ Step(a, c, [failed EXCEPT !.received = @ + 1])
     /\ UNCHANGED <<channel, routes, alert, toggles>>

\* The wait before the next attempt; the end of the context ends it.
Wait(a, c) ==
  /\ delivery[a][c].stage = "waiting"
  /\ \/ Step(a, c, [delivery[a][c] EXCEPT !.stage = "posting"])
     \/ ~Alive(a) /\ Step(a, c, [delivery[a][c] EXCEPT !.stage = "recording"])
  /\ UNCHANGED <<channel, routes, alert, toggles, faults>>

\* Mutant: only what was delivered is recorded.
RecordSuccess(a, c) ==
  LET d == delivery[a][c]
      row == IF d.delivered THEN "success" ELSE "none"
  IN /\ d.stage = "recording"
     /\ \/ Alive(a) /\ Works /\ Step(a, c, [d EXCEPT !.stage = "over", !.row = row])
        \/ ~Alive(a) /\ Works /\ Step(a, c, [d EXCEPT !.stage = "over"])
        \/ Fault /\ Step(a, c, [d EXCEPT !.stage = "over", !.lost = TRUE])
     /\ UNCHANGED <<channel, routes, alert, toggles>>

\* recordDelivery: one record, whatever came of it; a failure to write is logged,
\* and nothing is written under a context that has ended.
RecordDelivery(a, c) ==
  LET d == delivery[a][c]
      row == IF d.delivered THEN "success" ELSE "failed"
  IN /\ d.stage = "recording"
     /\ \/ Alive(a) /\ Works /\ Step(a, c, [d EXCEPT !.stage = "over", !.row = row])
        \/ ~Alive(a) /\ Works /\ Step(a, c, [d EXCEPT !.stage = "over"])
        \/ Fault /\ Step(a, c, [d EXCEPT !.stage = "over", !.lost = TRUE])
     /\ UNCHANGED <<channel, routes, alert, toggles>>

\* The process ends without waiting for anyone (main never calls Wait).
Exit ==
  /\ Fault
  /\ delivery' = [a \in Alerts |-> [c \in Channels |->
       LET d == delivery[a][c]
       IN IF d.stage \in {"none", "over"} THEN d ELSE [d EXCEPT !.stage = "over", !.lost = TRUE]]]
  /\ alert' = [a \in Alerts |-> [alert[a] EXCEPT !.ended = alert[a].byRequest]]
  /\ UNCHANGED <<channel, routes, toggles>>

-----------------------------------------------------------------------------
(* The channel page.                                                       *)

Toggled == toggles < MaxToggles /\ toggles' = toggles + 1

SetChannelEnabled(c) ==
  /\ Toggled /\ channel[c].exists
  /\ channel' = [channel EXCEPT ![c].enabled = ~@]
  /\ UNCHANGED <<routes, deliveryVars, faults>>

SetChannelAgentNotify(c) ==
  /\ Toggled /\ channel[c].exists
  /\ channel' = [channel EXCEPT ![c].agentNotify = ~@]
  /\ UNCHANGED <<routes, deliveryVars, faults>>

\* deleteChannel, from the notifier's side: the row goes before the routes do.
DeleteChannel(c) ==
  /\ Toggled /\ channel[c].exists
  /\ channel' = [channel EXCEPT ![c] = [exists |-> FALSE, enabled |-> FALSE, agentNotify |-> FALSE]]
  /\ routes' \in {routes, routes \ {c}}
  /\ UNCHANGED <<deliveryVars, faults>>

-----------------------------------------------------------------------------
Init ==
  /\ channel \in [Channels -> {[exists |-> TRUE, enabled |-> e, agentNotify |-> TRUE] : e \in BOOLEAN}]
  /\ routes \in SUBSET Channels
  /\ alert = [a \in Alerts |-> [kind |-> "unraised", byRequest |-> FALSE, ended |-> FALSE]]
  /\ delivery = [a \in Alerts |-> [c \in Channels |-> Idle]]
  /\ toggles = 0 /\ faults = 0

Delivering(a, c) == Post(a, c) \/ Wait(a, c) \/ RecordDelivery(a, c)

Next ==
  \/ \E a \in Alerts : Emit(a) \/ EmitTest(a) \/ EndRequest(a)
  \/ \E a \in Alerts, c \in Channels : Delivering(a, c)
  \/ \E c \in Channels : SetChannelEnabled(c) \/ SetChannelAgentNotify(c) \/ DeleteChannel(c)
  \/ Exit

Spec == Init /\ [][Next]_notifierVars
-----------------------------------------------------------------------------
(* Properties.                                                             *)

\* The type of every variable.
TypeOK ==
  /\ channel \in [Channels -> [exists : BOOLEAN, enabled : BOOLEAN, agentNotify : BOOLEAN]]
  /\ routes \subseteq Channels
  /\ alert \in [Alerts -> [kind : Kinds, byRequest : BOOLEAN, ended : BOOLEAN]]
  /\ delivery \in [Alerts -> [Channels -> [stage : Stages, attempts : 0..MaxAttempts,
                       received : 0..MaxAttempts, delivered : BOOLEAN, lost : BOOLEAN, row : Rows]]]
  /\ toggles \in 0..MaxToggles /\ faults \in 0..MaxFaults

\* A delivery that is over is accounted for: a "success" was received, a "failed"
\* one was tried as often as it may be or lost its context, and one without a
\* record lost its context, the process, or the write of the record. In particular
\* an alert of the scheduler never vanishes while the process and the database work.
DeliveryIsAccounted ==
  \A a \in Alerts, c \in Channels :
    LET d == delivery[a][c]
    IN d.stage = "over" =>
         \/ d.row = "success" /\ d.received >= 1
         \/ d.row = "failed" /\ (d.attempts = Tries(a) \/ alert[a].byRequest)
         \/ d.row = "none" /\ (alert[a].ended \/ d.lost)

=============================================================================
