---------------------------- MODULE AgentNotify ----------------------------
(***************************************************************************)
(* The push notifications about one node's outages (agentnotify.go) on top *)
(* of the connections that cause them (AgentHub).                          *)
(*                                                                         *)
(* A disconnect starts a timer; when it fires and the node is still away,  *)
(* AGENT_DOWN is sent. A connect removes the entry and, if AGENT_DOWN was  *)
(* sent, sends AGENT_UP. Service.mu protects the entry only: the database  *)
(* and Hub.IsOnline are read outside of it, both notifications are handed  *)
(* over after it is unlocked, and a timer that has fired cannot be stopped *)
(* any more.                                                               *)
(***************************************************************************)
EXTENDS AgentHub

CONSTANT MaxFaults  \* bound: failing reads of the agents table

ASSUME FaultBoundAssumption == MaxFaults \in Nat

VARIABLES
  offlineNotify,  \* agents.offline_notify
  pending,        \* the entry of the node: the connection whose end made it
  notified,       \* agentPending.notified of that entry
  timer,          \* the timer made for each connection's end
  downs, ups,     \* AGENT_DOWN and AGENT_UP handed to the notifier
  faults,
  overtaken,      \* history: a connect was reported after its connection was replaced
  outdated        \* history: a timer gave up on a node that had gone again

notifyVars == <<pending, notified, timer, downs, ups>>
vars == <<hubState, offlineNotify, notifyVars, faults, overtaken, outdated>>

\* A timer is armed, has read the node's row, has decided what to do, has marked
\* the entry and has AGENT_DOWN left to send, or is over.
Timers == {"unset", "armed", "asked", "notify", "clear", "emit", "over"}
Firing == {"asked", "notify", "clear"}

Fails == faults < MaxFaults /\ faults' = faults + 1
Works == UNCHANGED faults

\* The node is worth a notification.
Wanted == status = "approved" /\ offlineNotify

\* Remove the entry, if there is one, and stop its timer, unless it is firing.
DropEntry ==
  /\ pending' = NoConn /\ notified' = FALSE
  /\ timer' = [t \in Conns |-> IF t = pending /\ timer[t] = "armed" THEN "over" ELSE timer[t]]

-----------------------------------------------------------------------------
(* OnAgentChange, on the goroutine of connection c, after the browsers     *)
(* were told.                                                              *)

\* Mutant: a recovery is announced whether or not the outage was.
Answered == pending # NoConn
Announced == pending # NoConn /\ notified

\* onConnected, under the lock.
OnConnected(c) ==
  /\ stage[c] = "notifyUp"
  /\ Move(c, IF Announced THEN "recover" ELSE "ack")
  /\ DropEntry
  /\ overtaken' = (overtaken \/ conns # c)
  /\ UNCHANGED <<conns, closed, silent, adminVars, offlineNotify, downs, ups, faults, outdated>>

\* onConnected, after the unlock: AGENT_UP, if the node's row can be read.
Recover(c) ==
  /\ stage[c] = "recover"
  /\ Move(c, "ack")
  /\ \/ Works /\ ups' = ups + 1
     \/ Fails /\ UNCHANGED ups
  /\ UNCHANGED <<conns, closed, silent, adminVars, offlineNotify, pending, notified, timer, downs,
                 overtaken, outdated>>

\* onDisconnected, before the lock: is the node worth it?
OnDisconnected(c) ==
  /\ stage[c] = "notifyDown"
  /\ \/ Works /\ Move(c, IF Wanted THEN "arm" ELSE "gone")
     \/ Fails /\ Move(c, "gone")
  /\ UNCHANGED <<conns, closed, silent, adminVars, offlineNotify, notifyVars, overtaken, outdated>>

\* Mutant: the entry is made whether or not there is one.
ArmAnyway(c) ==
  /\ stage[c] = "arm"
  /\ Move(c, "gone")
  /\ pending' = c /\ notified' = FALSE
  /\ timer' = [timer EXCEPT ![c] = "armed"]
  /\ UNCHANGED <<conns, closed, silent, adminVars, offlineNotify, downs, ups, faults, overtaken, outdated>>

\* Mutant: the entry is made without a timer.
ArmNothing(c) ==
  /\ stage[c] = "arm"
  /\ Move(c, "gone")
  /\ IF pending = NoConn THEN pending' = c /\ notified' = FALSE ELSE UNCHANGED <<pending, notified>>
  /\ UNCHANGED <<conns, closed, silent, adminVars, offlineNotify, timer, downs, ups, faults, overtaken, outdated>>

\* onDisconnected, under the lock: an entry that exists is kept, with its timer.
Arm(c) ==
  /\ stage[c] = "arm"
  /\ Move(c, "gone")
  /\ IF pending = NoConn
       THEN /\ pending' = c /\ notified' = FALSE
            /\ timer' = [timer EXCEPT ![c] = "armed"]
       ELSE UNCHANGED <<pending, notified, timer>>
  /\ UNCHANGED <<conns, closed, silent, adminVars, offlineNotify, downs, ups, faults, overtaken, outdated>>

-----------------------------------------------------------------------------
(* confirmOffline, on the goroutine of timer t.                            *)

Step(t, to) == timer' = [timer EXCEPT ![t] = to]

\* The timer fires and reads the node's row.
Fire(t) ==
  /\ timer[t] = "armed"
  /\ \/ Works /\ Step(t, IF Wanted THEN "asked" ELSE "clear")
     \/ Fails /\ Step(t, "clear")
  /\ UNCHANGED <<hubState, offlineNotify, pending, notified, downs, ups, overtaken, outdated>>

\* It asks the hub.
Ask(t) ==
  /\ timer[t] = "asked"
  /\ Step(t, IF Online THEN "clear" ELSE "notify")
  /\ UNCHANGED <<hubState, offlineNotify, pending, notified, downs, ups, faults, overtaken, outdated>>

\* clear: it takes the entry the node has by now.
Clear(t) ==
  /\ timer[t] = "clear"
  /\ pending' = NoConn /\ notified' = FALSE
  /\ timer' = [u \in Conns |-> IF u = t \/ (u = pending /\ timer[u] = "armed")
                                 THEN "over" ELSE timer[u]]
  /\ outdated' = (outdated \/ conns = NoConn)
  /\ UNCHANGED <<hubState, offlineNotify, downs, ups, faults, overtaken>>

\* Mutant: the entry is given up once AGENT_DOWN is sent.
ConfirmAndForget(t) ==
  /\ timer[t] = "notify"
  /\ pending' = NoConn
  /\ IF pending = NoConn
       THEN Step(t, "over") /\ UNCHANGED notified
       ELSE Step(t, "emit") /\ notified' = TRUE
  /\ UNCHANGED <<hubState, offlineNotify, downs, ups, faults, overtaken, outdated>>

\* Under the lock: the outage is announced, if the node has an entry by now.
Confirm(t) ==
  /\ timer[t] = "notify"
  /\ IF pending = NoConn
       THEN Step(t, "over") /\ UNCHANGED notified
       ELSE Step(t, "emit") /\ notified' = TRUE
  /\ UNCHANGED <<hubState, offlineNotify, pending, downs, ups, faults, overtaken, outdated>>

\* AGENT_DOWN, after the unlock.
Emit(t) ==
  /\ timer[t] = "emit"
  /\ Step(t, "over")
  /\ downs' = downs + 1
  /\ UNCHANGED <<hubState, offlineNotify, pending, notified, ups, faults, overtaken, outdated>>

\* updateAgentOfflineNotify.
SetOfflineNotify ==
  /\ Edited /\ status = "approved"
  /\ offlineNotify' = ~offlineNotify
  /\ UNCHANGED <<hubVars, status, killer, notifyVars, faults, overtaken, outdated>>

-----------------------------------------------------------------------------
Init ==
  /\ HubInit
  /\ offlineNotify = TRUE
  /\ pending = NoConn /\ notified = FALSE
  /\ timer = [t \in Conns |-> "unset"]
  /\ downs = 0 /\ ups = 0 /\ faults = 0 /\ overtaken = FALSE /\ outdated = FALSE

Calling(c) == OnConnected(c) \/ Recover(c) \/ OnDisconnected(c) \/ Arm(c)
Confirming(t) == Fire(t) \/ Ask(t) \/ Clear(t) \/ Confirm(t) \/ Emit(t)

Next ==
  \/ HubNext /\ UNCHANGED <<offlineNotify, notifyVars, faults, overtaken, outdated>>
  \/ \E c \in Conns : Calling(c) \/ Confirming(c)
  \/ SetOfflineNotify

\* The callbacks return, and a timer that is not stopped fires and runs.
Fairness == HubFairness /\ \A c \in Conns : WF_vars(Calling(c)) /\ WF_vars(Confirming(c))

Spec == Init /\ [][Next]_vars /\ Fairness
-----------------------------------------------------------------------------
(* Properties.                                                             *)

\* The type of every variable.
TypeOK ==
  /\ HubTypeOK
  /\ offlineNotify \in BOOLEAN
  /\ pending \in Conns \cup {NoConn} /\ notified \in BOOLEAN
  /\ timer \in [Conns -> Timers]
  /\ downs \in Nat /\ ups \in Nat /\ faults \in Nat /\ overtaken \in BOOLEAN /\ outdated \in BOOLEAN

\* An entry that has not been announced has a timer that will decide it, and an
\* armed timer has its entry: no outage is stuck in the table, where it would
\* silence every later one, and no forgotten timer fires into a later outage.
TimerMatchesEntry ==
  /\ pending # NoConn /\ ~notified => timer[pending] \in {"armed"} \cup Firing
  /\ \A t \in Conns : timer[t] = "armed" => pending = t

\* The AGENT_DOWN and the AGENT_UP that are on their way: decided under the lock
\* and not handed over yet.
Leaving == {t \in Conns : timer[t] = "emit"}
Returning == {c \in Conns : stage[c] = "recover"}

\* Every AGENT_UP answers an AGENT_DOWN of its own: together with the outage that
\* waits to be answered, the recoveries sent or on their way are no more than the
\* alarms sent or on their way. So a blink is never announced as a recovery and no
\* outage is answered twice, whatever the database and the timers do; and since
\* both are sent after the unlock, AGENT_UP may be sent first, but only while its
\* AGENT_DOWN is on its way.
UpsAnswerDowns ==
  ups + Cardinality(Returning) + (IF notified THEN 1 ELSE 0) <= downs + Cardinality(Leaving)

\* The node was connected and is away, and every callback about it has run.
Away ==
  /\ conns = NoConn /\ \E c \in Conns : stage[c] = "gone"
  /\ \A c \in Conns : stage[c] \notin Departing

\* The node was to be watched all along, its row could always be read, and
\* nothing acted on what had ceased to hold: no callback of a replaced connection
\* and no timer that had seen the node online before it went.
Orderly == edits = 0 /\ faults = 0 /\ ~overtaken /\ ~outdated

\* A node that is away has an entry, announced or about to be.
OutageIsWatched == Orderly /\ Away => pending # NoConn

\* A node that stays away is announced, and AGENT_DOWN is sent.
OutageIsTold == Orderly /\ Away ~> (notified /\ Leaving = {}) \/ ~Orderly \/ ~Away

\* The comment in onDisconnected: an entry that exists is enough, because its
\* timer checks the latest state when it is due.
EntryIsEnough == edits = 0 /\ faults = 0 /\ ~overtaken /\ Away => pending # NoConn
=============================================================================
