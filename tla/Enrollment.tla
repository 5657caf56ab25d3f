----------------------------- MODULE Enrollment -----------------------------
(***************************************************************************)
(* How a node gets in: the agent connects with the enrollment key, an      *)
(* administrator approves it, the dashboard issues a credential and sends  *)
(* it until the node proves that it has it, and from then on the node      *)
(* connects with the credential alone.                                     *)
(*                                                                         *)
(* The node's row (store/agents.go), its connections (hub/session.go), the *)
(* requests of the nodes page (api/agents.go) and the agent's process      *)
(* (agentclient/client.go). There is one node with one identity (name and  *)
(* source address) and the right key; what its hello says of version,      *)
(* system and networks is left out, and so are probes (ProbeRound), the    *)
(* callbacks and the scan for silent connections (AgentHub, AgentNotify).  *)
(***************************************************************************)
EXTENDS Naturals, Sequences

CONSTANTS
  Sessions, NoSession,  \* connections that exist at once
  Requests,             \* requests of administrators that are in progress at once
  MaxRows,              \* bound: rows the identity has had
  MaxIssued,            \* bound: credentials issued
  MaxMishaps            \* bound: links lost, restarts of either side, cut-off writes

VARIABLES
  agent,     \* the row of the identity; status "none" if there is none
  node,      \* the agent's process: the credential it holds, its connection
  session,   \* ServeWS of each connection
  entry,     \* Hub.conns of each row's id
  request,   \* what each administrator's request is doing
  issued, mishaps

enrollmentVars == <<agent, node, session, entry, request, issued, mishaps>>

\* Credentials are numbered as they are issued; 0 is none.
NoCred == 0
Ack == 0
Ids == 1..MaxRows
Creds == 0..MaxIssued
Statuses == {"none", "pending", "approved", "revoked", "deleted"}
SessionStages == {"free", "look", "clear", "insert", "update", "register", "ack", "deliver", "read", "leave", "gone"}
Ops == {"none", "approve", "reApprove", "reject", "revoke", "delete"}

\* cred: what hello said; id: the row it is; seen: that row's status when it was
\* looked up; frames: sent and not read by the agent yet.
Free == [stage |-> "free", cred |-> NoCred, id |-> 1, seen |-> "none", frames |-> <<>>, closed |-> FALSE]
NoRequest == [op |-> "none", stage |-> "check", id |-> 1, cred |-> NoCred]

Mishap == mishaps < MaxMishaps /\ mishaps' = mishaps + 1
Works == UNCHANGED mishaps

\* A statement with WHERE id=? changes the row that has it, or nothing.
UpdateAgent(id, new) == agent' = IF agent.id = id /\ agent.status # "none" THEN new ELSE agent
Exists(id) == agent.id = id /\ agent.status # "none"

-----------------------------------------------------------------------------
(* The agent's process.                                                    *)

\* session: the hello has the enrollment key only if the agent has no credential.
Connect(s) ==
  /\ node.link = NoSession /\ session[s].stage = "free"
  /\ node' = [node EXCEPT !.link = s]
  /\ session' = [session EXCEPT ![s] = [Free EXCEPT !.stage = "look", !.cred = node.cred]]
  /\ UNCHANGED <<agent, entry, request, issued, mishaps>>

\* readPump: the credential is written to its file, and then used. The write can
\* fail, and the process can stop within it: the file is truncated by then.
ReadFrame ==
  \E s \in Sessions :
    /\ node.link = s /\ session[s].frames # <<>>
    /\ LET frame == Head(session[s].frames)
       IN \/ /\ Works
             /\ node' = IF frame = Ack THEN node ELSE [node EXCEPT !.cred = frame]
             /\ session' = [session EXCEPT ![s].frames = Tail(@)]
          \/ /\ Mishap /\ frame # Ack
             /\ \/ node' = [node EXCEPT !.link = NoSession]
                \/ node' = [node EXCEPT !.link = NoSession, !.cut = @ \/ node.cred # NoCred, !.cred = NoCred]
             /\ session' = [session EXCEPT ![s].frames = <<>>]
    /\ UNCHANGED <<agent, entry, request, issued>>

\* The agent's end of the connection is gone: the dashboard closed it, or the
\* network or the process failed. What was not read is lost.
LoseLink ==
  \E s \in Sessions :
    /\ node.link = s
    /\ IF session[s].closed THEN Works ELSE Mishap
    /\ node' = [node EXCEPT !.link = NoSession]
    /\ session' = [session EXCEPT ![s] = IF @.stage = "gone" THEN Free ELSE [@ EXCEPT !.frames = <<>>]]
    /\ UNCHANGED <<agent, entry, request, issued>>

-----------------------------------------------------------------------------
(* ServeWS, for the connection s.                                          *)

Go(s, stage) == session' = [session EXCEPT ![s].stage = stage]
Refuse(s) == session' = [session EXCEPT ![s].stage = "leave", ![s].closed = TRUE]

\* FindAgentByCredentialHash: only an approved row's.
Known(cred) == cred # NoCred /\ agent.status = "approved" /\ agent.hash = cred

\* authenticate up to the first look at the row. A credential that is not known is
\* refused: the hello that has one has no key.
Authenticate(s) ==
  LET c == session[s]
      found(stage) == session' = [session EXCEPT ![s].stage = stage, ![s].id = agent.id, ![s].seen = agent.status]
  IN /\ c.stage = "look"
     /\ IF c.cred # NoCred
          THEN IF Known(c.cred) THEN found("clear") ELSE Refuse(s)
          ELSE CASE agent.status = "revoked" -> Refuse(s)
                 [] agent.status = "none" -> found("insert")
                 [] OTHER -> found("update")
     /\ UNCHANGED <<agent, node, entry, request, issued, mishaps>>

\* The node has proved that it holds its credential; a failure is ignored.
ClearCredPlain(s) ==
  /\ session[s].stage = "clear"
  /\ \/ Works /\ UpdateAgent(session[s].id, [agent EXCEPT !.plain = NoCred])
     \/ Mishap /\ UNCHANGED agent
  /\ Go(s, "register")
  /\ UNCHANGED <<node, entry, request, issued>>

\* InsertAgent: a new row, unless another connection was faster (the identity is unique).
InsertAgent(s) ==
  /\ session[s].stage = "insert"
  /\ IF agent.status # "none"
       THEN Refuse(s) /\ UNCHANGED agent
       ELSE /\ agent.id < MaxRows
            /\ agent' = [id |-> agent.id + 1, status |-> "pending", hash |-> NoCred, plain |-> NoCred]
            /\ session' = [session EXCEPT ![s].stage = "register", ![s].id = agent.id + 1, ![s].seen = "pending"]
  /\ UNCHANGED <<node, entry, request, issued, mishaps>>

\* UpsertPendingAgent for the status it has seen: a deleted node is pending again.
UpdatePending(s) ==
  /\ session[s].stage = "update"
  /\ IF session[s].seen = "deleted"
       THEN /\ UpdateAgent(session[s].id, [agent EXCEPT !.status = "pending", !.hash = NoCred, !.plain = NoCred])
            /\ session' = [session EXCEPT ![s].stage = "register", ![s].seen = "pending"]
       ELSE UNCHANGED agent /\ Go(s, "register")
  /\ UNCHANGED <<node, entry, request, issued, mishaps>>

\* register: an earlier connection of the row gives way.
Register(s) ==
  LET id == session[s].id
  IN /\ session[s].stage = "register"
     /\ session' = [t \in Sessions |->
          CASE t = s -> [session[t] EXCEPT !.stage = "ack"]
            [] t = entry[id] /\ t # s -> [session[t] EXCEPT !.closed = TRUE]
            [] OTHER -> session[t]]
     /\ entry' = [entry EXCEPT ![id] = s]
     /\ UNCHANGED <<agent, node, request, issued, mishaps>>

\* A frame of a link that is lost reaches nobody.
Framed(s, frame) == IF node.link = s THEN Append(session[s].frames, frame) ELSE session[s].frames

SendAck(s) ==
  /\ session[s].stage = "ack"
  /\ IF session[s].closed
       THEN Go(s, "leave")
       ELSE session' = [session EXCEPT ![s].frames = Framed(s, Ack),
                                       ![s].stage = IF session[s].seen = "approved" THEN "deliver" ELSE "read"]
  /\ UNCHANGED <<agent, node, entry, request, issued, mishaps>>

Owed(id) == IF Exists(id) THEN agent.plain ELSE NoCred

\* Mutant: what has been sent is owed no more.
DeliverOnce(s) ==
  /\ session[s].stage = "deliver"
  /\ session' = [session EXCEPT ![s].stage = "read",
       ![s].frames = IF Owed(session[s].id) # NoCred /\ ~session[s].closed THEN Framed(s, Owed(session[s].id)) ELSE @]
  /\ UpdateAgent(session[s].id, [agent EXCEPT !.plain = NoCred])
  /\ UNCHANGED <<node, entry, request, issued, mishaps>>

\* deliverPendingCredential: the credential that is owed is sent on every connection.
DeliverPendingCredential(s) ==
  /\ session[s].stage = "deliver"
  /\ session' = [session EXCEPT ![s].stage = "read",
       ![s].frames = IF Owed(session[s].id) # NoCred /\ ~session[s].closed THEN Framed(s, Owed(session[s].id)) ELSE @]
  /\ UNCHANGED <<agent, node, entry, request, issued, mishaps>>

\* readLoop ends with the connection, from either side.
EndRead(s) ==
  /\ session[s].stage = "read"
  /\ session[s].closed \/ node.link # s
  /\ Go(s, "leave")
  /\ UNCHANGED <<agent, node, entry, request, issued, mishaps>>

\* unregister: only the connection that has the entry gives it up.
Leave(s) ==
  LET c == session[s]
  IN /\ c.stage = "leave"
     /\ entry' = [i \in Ids |-> IF entry[i] = s THEN NoSession ELSE entry[i]]
     /\ session' = [session EXCEPT ![s] = IF node.link = s THEN [c EXCEPT !.closed = TRUE, !.stage = "gone"] ELSE Free]
     /\ UNCHANGED <<agent, node, request, issued, mishaps>>

-----------------------------------------------------------------------------
(* The nodes page. A request looks at the row, writes, and turns to the    *)
(* connection; each part is on its own.                                    *)

\* What a request requires, and what its last part does.
Requires(op) == CASE op \in {"approve", "reject"} -> "pending" [] op = "revoke" -> "approved"
                  [] OTHER -> "revoked"
Turn(r, stage) == request' = [request EXCEPT ![r].stage = stage]
Done(r) == request' = [request EXCEPT ![r] = NoRequest]

\* FindAgentByID and the check of the status.
Check(r) ==
  /\ request[r] = NoRequest
  /\ \E op \in Ops \ {"none"} :
       /\ agent.status = Requires(op)
       /\ request' = [request EXCEPT ![r] = [op |-> op, stage |-> "write", id |-> agent.id, cred |-> NoCred]]
  /\ UNCHANGED <<agent, node, session, entry, issued, mishaps>>

\* ApproveAgent: whatever the row has become meanwhile.
ApproveAgent(r) ==
  /\ request[r].stage = "write" /\ request[r].op \in {"approve", "reApprove"}
  /\ issued < MaxIssued /\ issued' = issued + 1
  /\ UpdateAgent(request[r].id, [agent EXCEPT !.status = "approved", !.hash = issued', !.plain = issued'])
  /\ request' = [request EXCEPT ![r].stage = "connection", ![r].cred = issued']
  /\ UNCHANGED <<node, session, entry, mishaps>>

\* DeleteAgent; the connection is left alone.
RejectAgent(r) ==
  /\ request[r].stage = "write" /\ request[r].op = "reject"
  /\ UpdateAgent(request[r].id, [agent EXCEPT !.status = "none", !.hash = NoCred, !.plain = NoCred])
  /\ Done(r)
  /\ UNCHANGED <<node, session, entry, issued, mishaps>>

\* RevokeAgent and SoftDeleteAgent.
RevokeAgent(r) ==
  /\ request[r].stage = "write" /\ request[r].op \in {"revoke", "delete"}
  /\ UpdateAgent(request[r].id, [agent EXCEPT !.hash = NoCred, !.plain = NoCred,
                                   !.status = IF request[r].op = "revoke" THEN "revoked" ELSE "deleted"])
  /\ Turn(r, "connection")
  /\ UNCHANGED <<node, session, entry, issued, mishaps>>

\* SendToAgent, or ForceDisconnect, on the connection that the row has by now.
TellConnection(r) ==
  LET q == request[r]
      s == entry[q.id]
  IN /\ q.stage = "connection"
     /\ session' =
          IF s = NoSession THEN session
          ELSE IF q.op \in {"revoke", "delete"} THEN [session EXCEPT ![s].closed = TRUE]
          ELSE IF session[s].closed THEN session
          ELSE [session EXCEPT ![s].frames = Framed(s, q.cred)]
     /\ Done(r)
     /\ UNCHANGED <<agent, node, entry, issued, mishaps>>

\* The dashboard stops and starts again; an approved credential is in the row.
Restart ==
  /\ Mishap
  /\ session' = [s \in Sessions |-> IF node.link = s THEN [session[s] EXCEPT !.closed = TRUE, !.stage = "gone"] ELSE Free]
  /\ entry' = [i \in Ids |-> NoSession]
  /\ request' = [r \in Requests |-> NoRequest]
  /\ UNCHANGED <<agent, node, issued>>

-----------------------------------------------------------------------------
Init ==
  /\ agent = [id |-> 0, status |-> "none", hash |-> NoCred, plain |-> NoCred]
  /\ node = [cred |-> NoCred, link |-> NoSession, cut |-> FALSE]
  /\ session = [s \in Sessions |-> Free]
  /\ entry = [i \in Ids |-> NoSession]
  /\ request = [r \in Requests |-> NoRequest]
  /\ issued = 0 /\ mishaps = 0

ServeWS(s) ==
  \/ Authenticate(s) \/ ClearCredPlain(s) \/ InsertAgent(s) \/ UpdatePending(s)
  \/ Register(s) \/ SendAck(s) \/ DeliverPendingCredential(s) \/ EndRead(s) \/ Leave(s)
NodesPage(r) == Check(r) \/ ApproveAgent(r) \/ RejectAgent(r) \/ RevokeAgent(r) \/ TellConnection(r)

Next ==
  \/ \E s \in Sessions : Connect(s) \/ ServeWS(s)
  \/ ReadFrame \/ LoseLink
  \/ \E r \in Requests : NodesPage(r)
  \/ Restart

Spec == Init /\ [][Next]_enrollmentVars
-----------------------------------------------------------------------------
(* Properties.                                                             *)

\* The type of every variable.
TypeOK ==
  /\ agent \in [id : 0..MaxRows, status : Statuses, hash : Creds, plain : Creds]
  /\ node \in [cred : Creds, link : Sessions \cup {NoSession}, cut : BOOLEAN]
  /\ \A s \in Sessions :
       /\ session[s].stage \in SessionStages /\ session[s].cred \in Creds /\ session[s].seen \in Statuses
       /\ session[s].id \in 0..MaxRows /\ session[s].frames \in Seq(Creds)
  /\ entry \in [Ids -> Sessions \cup {NoSession}]
  /\ request \in [Requests -> [op : Ops, stage : {"check", "write", "connection"}, id : 0..MaxRows, cred : Creds]]
  /\ issued \in 0..MaxIssued /\ mishaps \in 0..MaxMishaps

\* One approval is enough, whenever the connection, the node or the dashboard fails
\* in between: an approved node has the credential that lets it in, or has none and
\* is owed it. What only the administrator can mend is a node that was revoked with
\* the credential it still holds, and one that lost the only copy (cut).
OneApprovalIsEnough ==
  agent.status = "approved" =>
    \/ node.cred = agent.hash
    \/ node.cred = NoCred /\ (agent.plain = agent.hash \/ node.cut)
    \/ node.cred \notin {NoCred, agent.hash} /\ issued > 1
=============================================================================
