------------------------------ MODULE AgentHub ------------------------------
(***************************************************************************)
(* The connections of one node to the dashboard: the registry entry        *)
(* Hub.conns[agent] (hub/hub.go), the goroutine ServeWS of each connection *)
(* (hub/session.go), the scan for silent nodes and the revocation that     *)
(* close connections (api/agents.go).                                      *)
(*                                                                         *)
(* The registry changes under Hub.mu; everything that follows from the     *)
(* change, in particular the callback OnAgentChange, runs after the unlock *)
(* on the connection's own goroutine (stages notifyUp, notifyDown, arm).   *)
(* The callback's steps are in AgentNotify, which composes the two.        *)
(***************************************************************************)
EXTENDS Naturals, FiniteSets

CONSTANTS Conns,    \* the successive connections of the node
          NoConn,
          MaxEdits  \* bound: administrative changes of the node

ASSUME ConnsAssumption == NoConn \notin Conns
ASSUME EditBoundAssumption == MaxEdits \in Nat

VARIABLES
  conns,   \* Hub.conns[agent], or NoConn
  stage,   \* where the goroutine of each connection is
  closed,  \* connections whose done channel is closed
  silent,  \* connections without a heartbeat for OfflineAfter
  status,  \* agents.status
  killer,  \* the threads whose call of ForceDisconnect is due
  edits

hubVars == <<conns, stage, closed, silent>>
adminVars == <<status, killer, edits>>
hubState == <<hubVars, adminVars>>

\* The goroutine is between register and unregister.
Registered == {"notifyUp", "recover", "ack", "reading", "closing"}
\* It is in the callback of unregister.
Departing == {"notifyDown", "arm"}
Stages == {"new", "dialed", "gone"} \cup Registered \cup Departing
Statuses == {"pending", "approved", "revoked", "deleted"}
Killers == {"scan", "api"}

\* IsOnline: registered, and a heartbeat not too long ago.
Online == conns # NoConn /\ conns \notin silent

\* Mutant: a goroutine that leaves is forgotten.
MoveOut(c, to) == stage' = [stage EXCEPT ![c] = IF to = "gone" THEN "left" ELSE to]
Move(c, to) == stage' = [stage EXCEPT ![c] = to]

-----------------------------------------------------------------------------
(* ServeWS.                                                                *)

\* readHello and authenticate: a revoked node is turned away, a deleted one is
\* pending again.
Dial(c) ==
  /\ stage[c] = "new" /\ status # "revoked"
  /\ Move(c, "dialed")
  /\ status' = IF status = "deleted" THEN "pending" ELSE status
  /\ UNCHANGED <<conns, closed, silent, killer, edits>>

\* Mutant: register does not close the connection it replaces.
RegisterBeside(c) ==
  /\ stage[c] = "dialed"
  /\ conns' = c
  /\ Move(c, "notifyUp")
  /\ UNCHANGED <<closed, silent, adminVars>>

\* register: a connection the node already has gives way.
Register(c) ==
  /\ stage[c] = "dialed"
  /\ closed' = closed \cup ({conns} \ {NoConn})
  /\ conns' = c
  /\ Move(c, "notifyUp")
  /\ UNCHANGED <<silent, adminVars>>

\* hello_ack, then the reader; a connection that was closed meanwhile is left.
SendAck(c) ==
  /\ stage[c] = "ack"
  /\ Move(c, IF c \in closed THEN "closing" ELSE "reading")
  /\ UNCHANGED <<conns, closed, silent, adminVars>>

Heartbeat(c) ==
  /\ stage[c] = "reading" /\ c \notin closed
  /\ silent' = silent \ {c}
  /\ UNCHANGED <<conns, stage, closed, adminVars>>

\* OfflineAfter passes without a heartbeat.
FallSilent(c) ==
  /\ stage[c] \in Registered
  /\ silent' = silent \cup {c}
  /\ UNCHANGED <<conns, stage, closed, adminVars>>

\* The read fails: the peer is gone, the deadline has passed, or the connection
\* was closed on this side.
Drop(c) ==
  /\ stage[c] = "reading"
  /\ Move(c, "closing")
  /\ UNCHANGED <<conns, closed, silent, adminVars>>

\* unregister: only the connection that holds the entry removes it and reports.
Unregister(c) ==
  /\ stage[c] = "closing"
  /\ IF conns = c
       THEN conns' = NoConn /\ Move(c, "notifyDown")
       ELSE UNCHANGED conns /\ Move(c, "gone")
  /\ closed' = closed \cup {c}
  /\ UNCHANGED <<silent, adminVars>>

-----------------------------------------------------------------------------
(* The threads that close connections from outside.                        *)

\* Mutant: the nodes that are heard are taken for the silent ones.
ScanHeard ==
  /\ "scan" \notin killer
  /\ conns # NoConn /\ conns \notin silent
  /\ killer' = killer \cup {"scan"}
  /\ UNCHANGED <<hubVars, status, edits>>

\* StartOfflineMonitor: a registered node is found silent.
ScanSilent ==
  /\ "scan" \notin killer
  /\ conns # NoConn /\ conns \in silent
  /\ killer' = killer \cup {"scan"}
  /\ UNCHANGED <<hubVars, status, edits>>

\* ForceDisconnect: whatever connection the node has by now.
ForceDisconnect(k) ==
  /\ k \in killer
  /\ killer' = killer \ {k}
  /\ closed' = closed \cup ({conns} \ {NoConn})
  /\ UNCHANGED <<conns, stage, silent, status, edits>>

Edited == edits < MaxEdits /\ edits' = edits + 1

\* approveAgent, reApproveAgent.
Approve ==
  /\ Edited /\ status \in {"pending", "revoked"}
  /\ status' = "approved"
  /\ UNCHANGED <<hubVars, killer>>

\* revokeAgent, deleteAgent: the row first, the connection afterwards.
Revoke ==
  /\ Edited /\ "api" \notin killer
  /\ \/ status = "approved" /\ status' = "revoked"
     \/ status = "revoked" /\ status' = "deleted"
  /\ killer' = killer \cup {"api"}
  /\ UNCHANGED hubVars

-----------------------------------------------------------------------------
HubInit ==
  /\ conns = NoConn
  /\ stage = [c \in Conns |-> "new"]
  /\ closed = {} /\ silent = {}
  /\ status = "approved" /\ killer = {} /\ edits = 0

Serving(c) ==
  \/ Dial(c) \/ Register(c) \/ SendAck(c)
  \/ Heartbeat(c) \/ FallSilent(c) \/ Drop(c) \/ Unregister(c)

Closing ==
  \/ ScanSilent
  \/ \E k \in Killers : ForceDisconnect(k)
  \/ Approve \/ Revoke

HubNext == (\E c \in Conns : Serving(c)) \/ Closing

\* The goroutines run on; a blocked read ends when its connection is closed; the
\* scan comes back every five seconds.
HubFairness ==
  /\ \A c \in Conns :
       /\ WF_hubState(Register(c) \/ SendAck(c) \/ Unregister(c))
       /\ WF_hubState(Drop(c) /\ c \in closed)
  /\ WF_hubState(ScanSilent)
  /\ \A k \in Killers : WF_hubState(ForceDisconnect(k))

HubTypeOK ==
  /\ conns \in Conns \cup {NoConn}
  /\ stage \in [Conns -> Stages]
  /\ closed \in SUBSET Conns /\ silent \in SUBSET Conns
  /\ status \in Statuses /\ killer \in SUBSET Killers /\ edits \in Nat

-----------------------------------------------------------------------------
(* Properties.                                                             *)

\* A node has one usable connection, and the registry names it: a session that
\* is registered and not closed is the one in the registry, and a registry entry
\* always has a session that will remove it. So no connection lives on unnoticed
\* after it was replaced, and none is forgotten in the registry.
EntryIsLive ==
  /\ \A c \in Conns : stage[c] \in Registered /\ c \notin closed => conns = c
  /\ conns # NoConn => stage[conns] \in Registered

\* A half-open connection does not stay registered: a connection that stays
\* silent is out of the registry in the end.
SilentIsCut == \A c \in Conns : conns = c /\ c \in silent ~> conns # c \/ c \notin silent
=============================================================================
