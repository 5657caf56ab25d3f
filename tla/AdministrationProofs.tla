------------------------ MODULE AdministrationProofs ------------------------
(***************************************************************************)
(* What TLAPS proves of the services that administer the dashboard - the   *)
(* nodes, the monitors and channels, the configuration as a whole - for    *)
(* any forms, rows, files, requests, connections and bounds.               *)
(***************************************************************************)
EXTENDS MCServices, FiniteSums, SequenceTheorems

-----------------------------------------------------------------------------
(* The enrollment of nodes.                                                *)

\* The enrollment's variables move by its own steps only.
LEMMA EnrollAlone == [Next]_<<part, vars>> => [Enroll!Next]_enrollmentVars
  BY DEF Next, vars, PushStep, NotifyStep, EnrollStep, AdminStep, TransferStep, KumaStep, ProbesStep,
     FeedStep, Others4, Others8, enrollmentVars

EnrollBounds == MaxRows \in Nat \ {0} /\ MaxIssued \in Nat /\ MaxMishaps \in Nat

\* No credential turns up anywhere before it was issued.
Given == 0..issued
Agents == [id : 0..MaxRows, status : Enroll!Statuses, hash : Given, plain : Given]
Nodes == [cred : Given, link : Sessions \cup {NoSession}, cut : BOOLEAN]
Session == [stage : Enroll!SessionStages, cred : Given, id : 0..MaxRows, seen : Enroll!Statuses,
            frames : Seq(Given), closed : BOOLEAN]
Requested == [op : Enroll!Ops, stage : {"check", "write", "connection"}, id : 0..MaxRows, cred : Given]

\* The types of the variables with whole records, which TypeOK follows from.
EnrollTypes ==
  /\ agent \in Agents /\ node \in Nodes
  /\ session \in [Sessions -> Session] /\ request \in [Requests -> Requested]
  /\ entry \in [Enroll!Ids -> Sessions \cup {NoSession}]
  /\ issued \in 0..MaxIssued /\ mishaps \in 0..MaxMishaps

\* A sequence over a set is one over every larger set.
LEMMA WiderSeq ==
  ASSUME NEW S, NEW T, S \subseteq T, NEW q \in Seq(S)
  PROVE  q \in Seq(T)
OBVIOUS

LEMMA TypesAreTypeOK == ASSUME EnrollBounds, EnrollTypes PROVE Enroll!TypeOK
<1>1. Given \subseteq Enroll!Creds
  BY DEF Given, Enroll!Creds, EnrollBounds, EnrollTypes
<1>2. \A s \in Sessions : session[s] \in Session /\ session[s].frames \in Seq(Enroll!Creds)
  <2>1. ASSUME NEW s \in Sessions PROVE session[s] \in Session /\ session[s].frames \in Seq(Given)
    BY DEF EnrollTypes, Session
  <2> QED
    BY <1>1, <2>1, WiderSeq
<1>3. agent \in [id : 0..MaxRows, status : Enroll!Statuses, hash : Enroll!Creds, plain : Enroll!Creds]
  BY <1>1 DEF EnrollTypes, Agents
<1>4. node \in [cred : Enroll!Creds, link : Sessions \cup {NoSession}, cut : BOOLEAN]
  BY <1>1 DEF EnrollTypes, Nodes
<1>5. request \in [Requests -> [op : Enroll!Ops, stage : {"check", "write", "connection"}, id : 0..MaxRows, cred : Enroll!Creds]]
  BY <1>1 DEF EnrollTypes, Requested
<1> QED
  BY <1>1, <1>2, <1>3, <1>4, <1>5 DEF EnrollTypes, Enroll!TypeOK, Session

\* A step that issues nothing leaves the types as they are; one that does widens them.
LEMMA SameTypes ==
  ASSUME issued' = issued
  PROVE  Given' = Given /\ Agents' = Agents /\ Nodes' = Nodes /\ Session' = Session /\ Requested' = Requested
BY DEF Given, Agents, Nodes, Session, Requested

LEMMA WiderTypes ==
  ASSUME issued \in Nat, issued' = issued + 1
  PROVE  /\ Given \subseteq Given' /\ issued' \in Given' /\ Agents \subseteq Agents' /\ Nodes \subseteq Nodes'
         /\ Session \subseteq Session' /\ Requested \subseteq Requested'
<1>1. Given \subseteq Given' /\ issued' \in Given'
  BY DEF Given
<1>2. ASSUME NEW r \in Session PROVE r \in Session'
  <2>1. r.frames \in Seq(Given)
    BY DEF Session
  <2>2. r.frames \in Seq(Given')
    BY <1>1, <2>1, WiderSeq
  <2> QED
    BY <1>1, <2>2 DEF Session
<1>3. Agents \subseteq Agents'
  BY <1>1 DEF Agents
<1>4. Nodes \subseteq Nodes'
  BY <1>1 DEF Nodes
<1>5. Requested \subseteq Requested'
  BY <1>1 DEF Requested
<1> QED
  BY <1>1, <1>2, <1>3, <1>4, <1>5

\* A connection that is not used, and a request that is not made, have their types.
LEMMA Blanks == ASSUME EnrollBounds, issued \in Nat PROVE Enroll!Free \in Session /\ Enroll!NoRequest \in Requested /\ Enroll!NoCred \in Given /\ Enroll!Ack \in Given
<1>1. 0 \in Given /\ 1 \in 0..MaxRows
  BY DEF EnrollBounds, Given
<1>2. <<>> \in Seq(Given)
  OBVIOUS
<1> QED
  BY <1>1, <1>2 DEF Enroll!Free, Enroll!NoRequest, Enroll!NoCred, Enroll!Ack, Session, Requested, Enroll!SessionStages, Enroll!Statuses, Enroll!Ops

LEMMA EnrollTypesInit == ASSUME EnrollBounds, Enroll!Init PROVE EnrollTypes
<1>1. agent \in Agents
  BY DEF Enroll!Init, EnrollBounds, Agents, Enroll!Statuses, Enroll!NoCred, Given
<1>2. node \in Nodes
  BY DEF Enroll!Init, EnrollBounds, Nodes, Enroll!NoCred, Given
<1>3. session \in [Sessions -> Session] /\ request \in [Requests -> Requested]
  BY Blanks DEF Enroll!Init
<1>4. entry \in [Enroll!Ids -> Sessions \cup {NoSession}] /\ issued \in 0..MaxIssued /\ mishaps \in 0..MaxMishaps
  BY DEF Enroll!Init, EnrollBounds, Enroll!Ids
<1> QED
  BY <1>1, <1>2, <1>3, <1>4 DEF EnrollTypes

\* Frames are added at the end and taken from the front.
LEMMA FramesAreTyped ==
  ASSUME EnrollTypes, NEW s \in Sessions, NEW f \in Given
  PROVE  /\ Enroll!Framed(s, f) \in Seq(Given)
         /\ session[s].frames # <<>> => /\ Head(session[s].frames) \in Given
                                        /\ Tail(session[s].frames) \in Seq(Given)
<1>1. session[s].frames \in Seq(Given)
  BY DEF EnrollTypes, Session
<1> QED
  BY <1>1 DEF Enroll!Framed

\* What a step may write into a connection, and into the set of connections.
LEMMA SessionFields ==
  ASSUME NEW r \in Session
  PROVE  /\ \A f \in Seq(Given) : [r EXCEPT !.frames = f] \in Session
         /\ \A st \in Enroll!SessionStages : [r EXCEPT !.stage = st] \in Session
         /\ [r EXCEPT !.closed = TRUE] \in Session
         /\ \A st \in Enroll!SessionStages : [r EXCEPT !.stage = st, !.closed = TRUE] \in Session
         /\ \A st \in Enroll!SessionStages : [r EXCEPT !.closed = TRUE, !.stage = st] \in Session
         /\ \A st \in Enroll!SessionStages, f \in Seq(Given) :
              /\ [r EXCEPT !.stage = st, !.frames = f] \in Session
              /\ [r EXCEPT !.frames = f, !.stage = st] \in Session
         /\ \A st \in Enroll!SessionStages, seen \in Enroll!Statuses :
              /\ [r EXCEPT !.stage = st, !.seen = seen] \in Session
              /\ \A i \in 0..MaxRows : [r EXCEPT !.stage = st, !.id = i, !.seen = seen] \in Session
BY DEF Session

LEMMA Put ==
  ASSUME session \in [Sessions -> Session], NEW s \in Sessions, NEW r \in Session
  PROVE  [session EXCEPT ![s] = r] \in [Sessions -> Session]
OBVIOUS

\* The counter of mishaps goes up by at most one and keeps its bound.
LEMMA MishapsStep ==
  ASSUME EnrollBounds, mishaps \in 0..MaxMishaps, Enroll!Mishap \/ Enroll!Works
  PROVE  mishaps' \in 0..MaxMishaps
BY DEF EnrollBounds, Enroll!Mishap, Enroll!Works

\* The row stays a row.
LEMMA RowStep ==
  ASSUME EnrollTypes, NEW id, NEW new \in Agents, Enroll!UpdateAgent(id, new)
  PROVE  agent' \in Agents
BY DEF EnrollTypes, Enroll!UpdateAgent

-----------------------------------------------------------------------------
\* The steps of the agent's process keep the types.
LEMMA AgentTypes ==
  ASSUME EnrollBounds, EnrollTypes, Enroll!ReadFrame \/ Enroll!LoseLink \/ \E s \in Sessions : Enroll!Connect(s)
  PROVE  EnrollTypes'
<1>1. agent \in Agents /\ node \in Nodes /\ session \in [Sessions -> Session]
  BY DEF EnrollTypes
<1>5. issued \in Nat
  BY DEF EnrollTypes, EnrollBounds
<1>6. issued' = issued
  BY DEF Enroll!ReadFrame, Enroll!LoseLink, Enroll!Connect
<1>2. ASSUME NEW s \in Sessions, Enroll!Connect(s) PROVE EnrollTypes'
  <2>1. node' \in Nodes
    BY <1>1, <1>2 DEF Enroll!Connect, Nodes
  <2>2. [Enroll!Free EXCEPT !.stage = "look", !.cred = node.cred] \in Session
    BY <1>1, <1>5, Blanks DEF Session, Enroll!SessionStages, Nodes
  <2>3. session' \in [Sessions -> Session]
    BY <1>1, <1>2, <2>2 DEF Enroll!Connect
  <2> QED
    BY <1>2, <1>6, <2>1, <2>3, SameTypes DEF EnrollTypes, Enroll!Connect
<1>3. CASE Enroll!ReadFrame
  <2>1. PICK s \in Sessions :
          /\ session[s].frames # <<>>
          /\ \/ /\ Enroll!Works
                /\ node' = IF Head(session[s].frames) = Enroll!Ack THEN node
                           ELSE [node EXCEPT !.cred = Head(session[s].frames)]
                /\ session' = [session EXCEPT ![s].frames = Tail(@)]
             \/ /\ Enroll!Mishap
                /\ \/ node' = [node EXCEPT !.link = NoSession]
                   \/ node' = [node EXCEPT !.link = NoSession, !.cut = @ \/ node.cred # Enroll!NoCred,
                                           !.cred = Enroll!NoCred]
                /\ session' = [session EXCEPT ![s].frames = <<>>]
    BY <1>3 DEF Enroll!ReadFrame
  <2>2. Head(session[s].frames) \in Given /\ Tail(session[s].frames) \in Seq(Given) /\ 0 \in Given
    BY <2>1, FramesAreTyped, <1>5, Blanks DEF Enroll!NoCred
  <2>3. node' \in Nodes
    BY <1>1, <2>1, <2>2 DEF Nodes, Enroll!NoCred
  <2>4. session' \in [Sessions -> Session]
    <3>1. session[s] \in Session /\ <<>> \in Seq(Given)
      BY <1>1
    <3>2. \E f \in Seq(Given) : session' = [session EXCEPT ![s] = [session[s] EXCEPT !.frames = f]]
      BY <2>1, <2>2, <3>1
    <3> QED
      BY <1>1, <3>1, <3>2, SessionFields
  <2>5. mishaps' \in 0..MaxMishaps
    BY <2>1, MishapsStep DEF EnrollTypes
  <2> QED
    BY <1>3, <1>6, <2>3, <2>4, <2>5, SameTypes DEF EnrollTypes, Enroll!ReadFrame
<1>4. CASE Enroll!LoseLink
  <2>1. PICK s \in Sessions :
          /\ Enroll!Mishap \/ Enroll!Works
          /\ node' = [node EXCEPT !.link = NoSession]
          /\ session' = [session EXCEPT ![s] = IF @.stage = "gone" THEN Enroll!Free ELSE [@ EXCEPT !.frames = <<>>]]
    BY <1>4 DEF Enroll!LoseLink
  <2>2. node' \in Nodes
    BY <1>1, <2>1 DEF Nodes
  <2>4. session' \in [Sessions -> Session]
    <3>1. session[s] \in Session /\ <<>> \in Seq(Given)
      BY <1>1
    <3>2. [session[s] EXCEPT !.frames = <<>>] \in Session
      BY <3>1, SessionFields
    <3>3. \E r \in Session : session' = [session EXCEPT ![s] = r]
      BY <1>5, <2>1, <3>2, Blanks
    <3> QED
      BY <1>1, <3>3
  <2>3. mishaps' \in 0..MaxMishaps
    BY <2>1, MishapsStep DEF EnrollTypes
  <2> QED
    BY <1>4, <1>6, <2>2, <2>3, <2>4, SameTypes DEF EnrollTypes, Enroll!LoseLink
<1> QED
  BY <1>2, <1>3, <1>4

-----------------------------------------------------------------------------
\* A step of one connection that leaves its row, or turns it into another row.
LEMMA ServeTypes ==
  ASSUME EnrollBounds, EnrollTypes, NEW s \in Sessions, Enroll!ServeWS(s)
  PROVE  EnrollTypes'
<1>1. agent \in Agents /\ session \in [Sessions -> Session] /\ session[s] \in Session
      /\ entry \in [Enroll!Ids -> Sessions \cup {NoSession}] /\ issued \in Nat
  BY DEF EnrollTypes, EnrollBounds
<1>2. agent.id \in 0..MaxRows /\ agent.status \in Enroll!Statuses /\ agent.plain \in Given
      /\ {"pending", "deleted"} \subseteq Enroll!Statuses
  BY <1>1 DEF Agents, Enroll!Statuses
<1>3. {"look", "clear", "insert", "update", "register", "ack", "deliver", "read", "leave", "gone"} \subseteq Enroll!SessionStages
  BY DEF Enroll!SessionStages
<1>4. Enroll!NoCred \in Given /\ Enroll!Ack \in Given /\ Enroll!Free \in Session
  BY <1>1, Blanks
<1>5. UNCHANGED <<node, request, issued>>
  BY DEF Enroll!ServeWS, Enroll!Authenticate, Enroll!ClearCredPlain, Enroll!InsertAgent, Enroll!UpdatePending, Enroll!Register, Enroll!SendAck,
         Enroll!DeliverPendingCredential, Enroll!EndRead, Enroll!Leave
<1>6. SUFFICES /\ agent' \in Agents /\ session' \in [Sessions -> Session]
               /\ entry' \in [Enroll!Ids -> Sessions \cup {NoSession}] /\ mishaps' \in 0..MaxMishaps
  BY <1>5, SameTypes DEF EnrollTypes
<1>7. ASSUME UNCHANGED agent PROVE agent' \in Agents
  BY <1>1, <1>7
<1>8. ASSUME UNCHANGED entry PROVE entry' \in [Enroll!Ids -> Sessions \cup {NoSession}]
  BY <1>1, <1>8
<1>9. ASSUME UNCHANGED mishaps PROVE mishaps' \in 0..MaxMishaps
  BY <1>9 DEF EnrollTypes
<1>10. ASSUME NEW stage \in Enroll!SessionStages, Enroll!Go(s, stage) PROVE session' \in [Sessions -> Session]
  BY <1>1, <1>10, SessionFields, Put DEF Enroll!Go
<1>11. ASSUME Enroll!Refuse(s) PROVE session' \in [Sessions -> Session]
  <2>1. [session[s] EXCEPT !.stage = "leave", !.closed = TRUE] \in Session
    BY <1>1, <1>3, SessionFields
  <2>2. session' = [session EXCEPT ![s] = [session[s] EXCEPT !.stage = "leave", !.closed = TRUE]]
    BY <1>1, <1>11 DEF Enroll!Refuse
  <2> QED
    BY <1>1, <2>1, <2>2
<1>12. ASSUME NEW stage \in Enroll!SessionStages, NEW i \in 0..MaxRows, NEW seen \in Enroll!Statuses,
              session' = [session EXCEPT ![s].stage = stage, ![s].id = i, ![s].seen = seen]
       PROVE  session' \in [Sessions -> Session]
  <2>1. [session[s] EXCEPT !.stage = stage, !.id = i, !.seen = seen] \in Session
    BY <1>1, SessionFields
  <2>2. session' = [session EXCEPT ![s] = [session[s] EXCEPT !.stage = stage, !.id = i, !.seen = seen]]
    BY <1>1, <1>12
  <2> QED
    BY <1>1, <2>1, <2>2
<1>13. CASE Enroll!Authenticate(s)
  <2>1. session' \in [Sessions -> Session]
    BY <1>2, <1>3, <1>11, <1>12, <1>13 DEF Enroll!Authenticate
  <2> QED
    BY <1>7, <1>8, <1>9, <1>13, <2>1 DEF Enroll!Authenticate
<1>14. CASE Enroll!ClearCredPlain(s)
  <2>1. [agent EXCEPT !.plain = Enroll!NoCred] \in Agents
    BY <1>1, <1>4 DEF Agents
  <2>2. agent' \in Agents
    BY <1>7, <1>14, <2>1, RowStep DEF Enroll!ClearCredPlain
  <2>3. session' \in [Sessions -> Session]
    BY <1>3, <1>10, <1>14 DEF Enroll!ClearCredPlain
  <2>4. mishaps' \in 0..MaxMishaps
    BY <1>14, MishapsStep DEF Enroll!ClearCredPlain, EnrollTypes
  <2> QED
    BY <1>8, <1>14, <2>2, <2>3, <2>4 DEF Enroll!ClearCredPlain
<1>15. CASE Enroll!InsertAgent(s)
  <2>1. CASE agent.status # "none"
    BY <1>7, <1>8, <1>9, <1>11, <1>15, <2>1 DEF Enroll!InsertAgent
  <2>2. CASE agent.status = "none"
    <3>1. agent.id + 1 \in 0..MaxRows
      BY <1>2, <1>15, <2>2 DEF Enroll!InsertAgent, EnrollBounds
    <3>2. agent' \in Agents
      BY <1>2, <1>4, <1>15, <2>2, <3>1 DEF Enroll!InsertAgent, Agents
    <3>3. session' \in [Sessions -> Session]
      BY <1>2, <1>3, <1>12, <1>15, <2>2, <3>1 DEF Enroll!InsertAgent
    <3> QED
      BY <1>8, <1>9, <1>15, <3>2, <3>3 DEF Enroll!InsertAgent
  <2> QED
    BY <2>1, <2>2
<1>16. CASE Enroll!UpdatePending(s)
  <2>1. CASE session[s].seen = "deleted"
    <3>1. [agent EXCEPT !.status = "pending", !.hash = Enroll!NoCred, !.plain = Enroll!NoCred] \in Agents
      BY <1>1, <1>2, <1>4 DEF Agents
    <3>2. agent' \in Agents
      BY <1>16, <2>1, <3>1, RowStep DEF Enroll!UpdatePending
    <3>3. [session[s] EXCEPT !.stage = "register", !.seen = "pending"] \in Session
      BY <1>1, <1>2, <1>3, SessionFields
    <3>4. session' = [session EXCEPT ![s] = [session[s] EXCEPT !.stage = "register", !.seen = "pending"]]
      BY <1>1, <1>16, <2>1 DEF Enroll!UpdatePending
    <3> QED
      BY <1>1, <1>8, <1>9, <1>16, <3>2, <3>3, <3>4 DEF Enroll!UpdatePending
  <2>2. CASE session[s].seen # "deleted"
    BY <1>3, <1>7, <1>8, <1>9, <1>10, <1>16, <2>2 DEF Enroll!UpdatePending
  <2> QED
    BY <2>1, <2>2
<1>17. CASE Enroll!Register(s)
  <2>1. \A t \in Sessions : [session[t] EXCEPT !.stage = "ack"] \in Session /\ [session[t] EXCEPT !.closed = TRUE] \in Session
    BY <1>1, <1>3, SessionFields
  <2>2. session' \in [Sessions -> Session]
    BY <1>1, <1>17, <2>1 DEF Enroll!Register
  <2>3. entry' \in [Enroll!Ids -> Sessions \cup {NoSession}]
    BY <1>1, <1>17 DEF Enroll!Register
  <2> QED
    BY <1>7, <1>9, <1>17, <2>2, <2>3 DEF Enroll!Register
<1>18. CASE Enroll!SendAck(s)
  <2>1. CASE session[s].closed
    BY <1>3, <1>7, <1>8, <1>9, <1>10, <1>18, <2>1 DEF Enroll!SendAck
  <2>2. CASE ~session[s].closed
    <3>1. PICK stage \in Enroll!SessionStages :
            session' = [session EXCEPT ![s] = [session[s] EXCEPT !.frames = Enroll!Framed(s, Enroll!Ack), !.stage = stage]]
      BY <1>1, <1>3, <1>18, <2>2 DEF Enroll!SendAck
    <3>2. [session[s] EXCEPT !.frames = Enroll!Framed(s, Enroll!Ack), !.stage = stage] \in Session
      BY <1>1, <1>4, FramesAreTyped, SessionFields
    <3> QED
      BY <1>1, <1>7, <1>8, <1>9, <1>18, <3>1, <3>2 DEF Enroll!SendAck
  <2> QED
    BY <2>1, <2>2
<1>19. CASE Enroll!DeliverPendingCredential(s)
  <2>1. Enroll!Owed(session[s].id) \in Given
    BY <1>2, <1>4 DEF Enroll!Owed
  <2>2. \E f \in Seq(Given) : session' = [session EXCEPT ![s] = [session[s] EXCEPT !.stage = "read", !.frames = f]]
    <3>1. Enroll!Framed(s, Enroll!Owed(session[s].id)) \in Seq(Given) /\ session[s].frames \in Seq(Given)
      BY <1>1, <2>1, FramesAreTyped DEF Session
    <3> QED
      BY <1>1, <1>19, <3>1 DEF Enroll!DeliverPendingCredential
  <2>3. session' \in [Sessions -> Session]
    <3>1. PICK f \in Seq(Given) : session' = [session EXCEPT ![s] = [session[s] EXCEPT !.stage = "read", !.frames = f]]
      BY <2>2
    <3>2. [session[s] EXCEPT !.stage = "read", !.frames = f] \in Session
      BY <1>1, <1>3, SessionFields
    <3> QED
      BY <1>1, <3>1, <3>2
  <2> QED
    BY <1>7, <1>8, <1>9, <1>19, <2>3 DEF Enroll!DeliverPendingCredential
<1>20. CASE Enroll!EndRead(s)
  BY <1>3, <1>7, <1>8, <1>9, <1>10, <1>20 DEF Enroll!EndRead
<1>21. CASE Enroll!Leave(s)
  <2>1. [session[s] EXCEPT !.closed = TRUE, !.stage = "gone"] \in Session
    BY <1>1, <1>3, SessionFields
  <2>2. session' \in [Sessions -> Session]
    BY <1>1, <1>4, <1>21, <2>1 DEF Enroll!Leave
  <2>3. entry' \in [Enroll!Ids -> Sessions \cup {NoSession}]
    BY <1>1, <1>21 DEF Enroll!Leave
  <2> QED
    BY <1>7, <1>9, <1>21, <2>2, <2>3 DEF Enroll!Leave
<1> QED
  BY <1>13, <1>14, <1>15, <1>16, <1>17, <1>18, <1>19, <1>20, <1>21 DEF Enroll!ServeWS

-----------------------------------------------------------------------------
\* The requests of the nodes page, and a restart.
LEMMA PageTypes ==
  ASSUME EnrollBounds, EnrollTypes, NEW r \in Requests, Enroll!NodesPage(r)
  PROVE  EnrollTypes'
<1>1. agent \in Agents /\ session \in [Sessions -> Session] /\ request \in [Requests -> Requested]
      /\ request[r] \in Requested /\ entry \in [Enroll!Ids -> Sessions \cup {NoSession}] /\ issued \in Nat
  BY DEF EnrollTypes, EnrollBounds
<1>2. agent.id \in 0..MaxRows
  BY <1>1 DEF Agents
<1>3. Enroll!NoCred \in Given /\ Enroll!NoRequest \in Requested
  BY <1>1, Blanks
<1>4. UNCHANGED <<node, entry, mishaps>>
  BY DEF Enroll!NodesPage, Enroll!Check, Enroll!ApproveAgent, Enroll!RejectAgent, Enroll!RevokeAgent, Enroll!TellConnection
<1>5. ASSUME issued' = issued, agent' \in Agents, session' \in [Sessions -> Session], request' \in [Requests -> Requested]
      PROVE  EnrollTypes'
  BY <1>4, <1>5, SameTypes DEF EnrollTypes
<1>6. ASSUME Enroll!Done(r) PROVE request' \in [Requests -> Requested]
  BY <1>1, <1>3, <1>6 DEF Enroll!Done
<1>7. CASE Enroll!Check(r)
  <2>1. PICK op \in Enroll!Ops : request' = [request EXCEPT ![r] = [op |-> op, stage |-> "write", id |-> agent.id, cred |-> Enroll!NoCred]]
    BY <1>7 DEF Enroll!Check
  <2>2. [op |-> op, stage |-> "write", id |-> agent.id, cred |-> Enroll!NoCred] \in Requested
    BY <1>2, <1>3 DEF Requested
  <2>3. request' \in [Requests -> Requested]
    BY <1>1, <2>1, <2>2
  <2> QED
    BY <1>1, <1>5, <1>7, <2>3 DEF Enroll!Check
<1>8. CASE Enroll!ApproveAgent(r)
  <2>1. /\ issued < MaxIssued /\ issued' = issued + 1
        /\ Enroll!UpdateAgent(request[r].id, [agent EXCEPT !.status = "approved", !.hash = issued', !.plain = issued'])
        /\ request' = [request EXCEPT ![r] = [request[r] EXCEPT !.stage = "connection", !.cred = issued']]
        /\ UNCHANGED <<node, session, entry, mishaps>>
    BY <1>1, <1>8 DEF Enroll!ApproveAgent
  <2>2. /\ Given \subseteq Given' /\ issued' \in Given' /\ Agents \subseteq Agents' /\ Nodes \subseteq Nodes'
        /\ Session \subseteq Session' /\ Requested \subseteq Requested'
    BY <1>1, <2>1, WiderTypes
  <2>3. agent' \in Agents'
    <3>1. [agent EXCEPT !.status = "approved", !.hash = issued', !.plain = issued'] \in Agents'
      BY <1>1, <2>2 DEF Agents, Enroll!Statuses
    <3> QED
      BY <1>1, <2>1, <2>2, <3>1 DEF Enroll!UpdateAgent
  <2>4. request' \in [Requests -> Requested']
    <3>1. [request[r] EXCEPT !.stage = "connection", !.cred = issued'] \in Requested'
      BY <1>1, <2>2 DEF Requested
    <3> QED
      BY <1>1, <2>1, <2>2, <3>1
  <2>5. session' \in [Sessions -> Session']
    BY <1>1, <2>1, <2>2
  <2>6. node' \in Nodes'
    BY <2>1, <2>2 DEF EnrollTypes
  <2>7. issued' \in 0..MaxIssued
    BY <1>1, <2>1 DEF EnrollBounds
  <2> QED
    BY <2>1, <2>3, <2>4, <2>5, <2>6, <2>7 DEF EnrollTypes
<1>9. CASE Enroll!RejectAgent(r)
  <2>1. [agent EXCEPT !.status = "none", !.hash = Enroll!NoCred, !.plain = Enroll!NoCred] \in Agents
    BY <1>1, <1>3 DEF Agents, Enroll!Statuses
  <2>2. agent' \in Agents
    BY <1>9, <2>1, RowStep DEF Enroll!RejectAgent
  <2> QED
    BY <1>1, <1>5, <1>6, <1>9, <2>2 DEF Enroll!RejectAgent
<1>10. CASE Enroll!RevokeAgent(r)
  <2>1. \A status \in Enroll!Statuses : [agent EXCEPT !.hash = Enroll!NoCred, !.plain = Enroll!NoCred, !.status = status] \in Agents
    BY <1>1, <1>3 DEF Agents
  <2>2. (IF request[r].op = "revoke" THEN "revoked" ELSE "deleted") \in Enroll!Statuses
    BY DEF Enroll!Statuses
  <2>3. agent' \in Agents
    BY <1>10, <2>1, <2>2, RowStep DEF Enroll!RevokeAgent
  <2>4. request' \in [Requests -> Requested]
    <3>1. [request[r] EXCEPT !.stage = "connection"] \in Requested
      BY <1>1 DEF Requested
    <3> QED
      BY <1>1, <1>10, <3>1 DEF Enroll!RevokeAgent, Enroll!Turn
  <2> QED
    BY <1>1, <1>5, <1>10, <2>3, <2>4 DEF Enroll!RevokeAgent
<1>11. CASE Enroll!TellConnection(r)
  <2>1. DEFINE s == entry[request[r].id]
  <2>2. session' \in [Sessions -> Session]
    <3>1. CASE s \notin Sessions
      BY <1>1, <1>11, <3>1 DEF Enroll!TellConnection
    <3>2. CASE s \in Sessions
      <4>1. session[s] \in Session /\ request[r].cred \in Given
        BY <1>1, <3>2 DEF Requested
      <4>2. /\ [session[s] EXCEPT !.closed = TRUE] \in Session
            /\ [session[s] EXCEPT !.frames = Enroll!Framed(s, request[r].cred)] \in Session
        BY <3>2, <4>1, FramesAreTyped, SessionFields
      <4>3. \/ session' = session
            \/ session' = [session EXCEPT ![s] = [session[s] EXCEPT !.closed = TRUE]]
            \/ session' = [session EXCEPT ![s] = [session[s] EXCEPT !.frames = Enroll!Framed(s, request[r].cred)]]
        BY <1>1, <1>11, <3>2 DEF Enroll!TellConnection
      <4> QED
        BY <1>1, <3>2, <4>2, <4>3
    <3> QED
      BY <3>1, <3>2
  <2> QED
    BY <1>1, <1>5, <1>6, <1>11, <2>2 DEF Enroll!TellConnection
<1> QED
  BY <1>7, <1>8, <1>9, <1>10, <1>11 DEF Enroll!NodesPage

LEMMA RestartTypes == ASSUME EnrollBounds, EnrollTypes, Enroll!Restart PROVE EnrollTypes'
<1>1. issued \in Nat
  BY DEF EnrollTypes, EnrollBounds
<1>7. issued' = issued
  BY DEF Enroll!Restart
<1>2. Enroll!Free \in Session /\ Enroll!NoRequest \in Requested
  BY <1>1, Blanks
<1>3. \A s \in Sessions : [session[s] EXCEPT !.closed = TRUE, !.stage = "gone"] \in Session
  <2>1. "gone" \in Enroll!SessionStages
    BY DEF Enroll!SessionStages
  <2> QED
    BY <2>1, SessionFields DEF EnrollTypes
<1>4. session' \in [Sessions -> Session]
  BY <1>2, <1>3 DEF Enroll!Restart
<1>5. request' \in [Requests -> Requested] /\ entry' \in [Enroll!Ids -> Sessions \cup {NoSession}]
  BY <1>2 DEF Enroll!Restart
<1>6. mishaps' \in 0..MaxMishaps
  BY MishapsStep DEF Enroll!Restart, EnrollTypes
<1> QED
  BY <1>4, <1>5, <1>6, <1>7, SameTypes DEF EnrollTypes, Enroll!Restart

LEMMA EnrollTypesStep == ASSUME EnrollBounds, EnrollTypes, [Enroll!Next]_enrollmentVars PROVE EnrollTypes'
<1>1. CASE UNCHANGED enrollmentVars
  BY <1>1, SameTypes DEF EnrollTypes, enrollmentVars
<1> QED
  BY <1>1, AgentTypes, ServeTypes, PageTypes, RestartTypes DEF Enroll!Next

-----------------------------------------------------------------------------
(* One approval is enough: by the row and the node, and by what a          *)
(* connection knows of the node that opened it.                            *)

\* A node that has no credential, and has not lost one, was never able to show one:
\* no connection is about to clear what it is owed.
Unproven == node.cred = Enroll!NoCred /\ ~node.cut
NobodyProved == Unproven => \A s \in Sessions : session[s].cred = Enroll!NoCred
ProofBeforeClearing == \A s \in Sessions : session[s].stage = "clear" => session[s].cred # Enroll!NoCred
ApprovedHasCred == agent.status = "approved" => agent.hash # Enroll!NoCred
StillOwed == agent.status = "approved" /\ Unproven => agent.plain = agent.hash

EnrollInv == EnrollTypes /\ NobodyProved /\ ProofBeforeClearing /\ ApprovedHasCred /\ StillOwed

LEMMA EnrollInvInit == ASSUME EnrollBounds, Enroll!Init PROVE EnrollInv
<1>1. EnrollTypes
  BY EnrollTypesInit
<1>2. \A s \in Sessions : session[s].cred = Enroll!NoCred /\ session[s].stage = "free"
  BY DEF Enroll!Init, Enroll!Free
<1>3. agent.status = "none"
  BY DEF Enroll!Init
<1> QED
  BY <1>1, <1>2, <1>3 DEF EnrollInv, NobodyProved, ProofBeforeClearing, ApprovedHasCred, StillOwed

\* Nothing but a loss within the write leaves a node without a credential again.
LEMMA NodeStep ==
  ASSUME EnrollTypes, Enroll!Next, Unproven'
  PROVE  Unproven
<1>1. CASE Enroll!ReadFrame
  <2>1. PICK s \in Sessions :
          \/ node' = IF Head(session[s].frames) = Enroll!Ack THEN node
                     ELSE [node EXCEPT !.cred = Head(session[s].frames)]
          \/ node' = [node EXCEPT !.link = NoSession]
          \/ node' = [node EXCEPT !.link = NoSession, !.cut = @ \/ node.cred # Enroll!NoCred, !.cred = Enroll!NoCred]
    BY <1>1 DEF Enroll!ReadFrame
  <2> QED
    BY <2>1 DEF EnrollTypes, Nodes, Unproven, Enroll!Ack, Enroll!NoCred
<1>2. CASE Enroll!LoseLink \/ \E s \in Sessions : Enroll!Connect(s)
  BY <1>2 DEF Enroll!LoseLink, Enroll!Connect, EnrollTypes, Nodes, Unproven
<1>3. ASSUME UNCHANGED node PROVE Unproven
  BY <1>3 DEF Unproven
<1>4. CASE \E s \in Sessions : Enroll!ServeWS(s)
  BY <1>3, <1>4 DEF Enroll!ServeWS, Enroll!Authenticate, Enroll!ClearCredPlain, Enroll!InsertAgent, Enroll!UpdatePending, Enroll!Register, Enroll!SendAck,
         Enroll!DeliverPendingCredential, Enroll!EndRead, Enroll!Leave
<1>5. CASE \E r \in Requests : Enroll!NodesPage(r)
  BY <1>3, <1>5 DEF Enroll!NodesPage, Enroll!Check, Enroll!ApproveAgent, Enroll!RejectAgent, Enroll!RevokeAgent, Enroll!TellConnection
<1>6. CASE Enroll!Restart
  BY <1>3, <1>6 DEF Enroll!Restart
<1> QED
  BY <1>1, <1>2, <1>4, <1>5, <1>6 DEF Enroll!Next

\* What a connection knows of the node is what the node had when it opened it.
Remembers(t) == session'[t].cred \in {session[t].cred, node.cred, Enroll!NoCred}
               /\ (session'[t].stage = "clear" => session'[t].cred # Enroll!NoCred)

LEMMA ConnectionsStep ==
  ASSUME EnrollTypes, ProofBeforeClearing, Enroll!Next, NEW t \in Sessions
  PROVE  Remembers(t)
<1>1. session \in [Sessions -> Session] /\ session[t] \in Session
      /\ (session[t].stage = "clear" => session[t].cred # Enroll!NoCred)
  BY DEF EnrollTypes, ProofBeforeClearing
<1>2. ASSUME \/ session'[t] = session[t]
             \/ session'[t] = Enroll!Free
             \/ \E r \in Session : r.cred = session[t].cred /\ r.stage # "clear" /\ session'[t] = r
             \/ session'[t].cred = session[t].cred /\ session'[t].stage = session[t].stage
      PROVE  Remembers(t)
  BY <1>1, <1>2 DEF Remembers, Enroll!Free
<1>3. ASSUME NEW s \in Sessions, Enroll!Connect(s) PROVE Remembers(t)
  BY <1>1, <1>3 DEF Enroll!Connect, Remembers, Enroll!Free, Session
<1>4. CASE Enroll!ReadFrame
  BY SMTT(60), <1>1, <1>4 DEF Enroll!ReadFrame, Remembers, Session
<1>5. CASE Enroll!LoseLink
  BY <1>1, <1>5 DEF Enroll!LoseLink, Remembers, Session, Enroll!Free
<1>6. ASSUME NEW s \in Sessions, Enroll!ServeWS(s) PROVE Remembers(t)
  <2>1. CASE t # s
    BY <1>1, <1>6, <2>1 DEF Enroll!ServeWS, Enroll!Authenticate, Enroll!ClearCredPlain, Enroll!InsertAgent, Enroll!UpdatePending, Enroll!Register, Enroll!SendAck,
         Enroll!DeliverPendingCredential, Enroll!EndRead, Enroll!Leave, Enroll!Go, Enroll!Refuse, Remembers, Session
  <2>2. CASE t = s
    <3>1. CASE Enroll!Authenticate(s)
      BY <1>1, <2>2, <3>1 DEF Enroll!Authenticate, Enroll!Refuse, Remembers, Session
    <3>2. CASE Enroll!ClearCredPlain(s) \/ Enroll!EndRead(s) \/ Enroll!SendAck(s)
      BY <1>1, <2>2, <3>2 DEF Enroll!ClearCredPlain, Enroll!EndRead, Enroll!SendAck, Enroll!Go, Remembers, Session
    <3>3. CASE Enroll!InsertAgent(s) \/ Enroll!UpdatePending(s)
      BY <1>1, <2>2, <3>3 DEF Enroll!InsertAgent, Enroll!UpdatePending, Enroll!Go, Enroll!Refuse, Remembers, Session
    <3>4. CASE Enroll!Register(s) \/ Enroll!DeliverPendingCredential(s)
      BY <1>1, <2>2, <3>4 DEF Enroll!Register, Enroll!DeliverPendingCredential, Remembers, Session
    <3>5. CASE Enroll!Leave(s)
      BY <1>1, <2>2, <3>5 DEF Enroll!Leave, Remembers, Session, Enroll!Free
    <3> QED
      BY <1>6, <3>1, <3>2, <3>3, <3>4, <3>5 DEF Enroll!ServeWS
  <2> QED
    BY <2>1, <2>2
<1>7. ASSUME NEW r \in Requests, Enroll!NodesPage(r) PROVE Remembers(t)
  BY <1>1, <1>7 DEF Enroll!NodesPage, Enroll!Check, Enroll!ApproveAgent, Enroll!RejectAgent, Enroll!RevokeAgent, Enroll!TellConnection, Remembers, Session
<1>8. CASE Enroll!Restart
  BY <1>1, <1>8 DEF Enroll!Restart, Remembers, Enroll!Free, Session
<1> QED
  BY <1>3, <1>4, <1>5, <1>6, <1>7, <1>8 DEF Enroll!Next

\* The row: it is approved with a new credential that it owes, and only a connection
\* that saw the node's credential takes the debt back.
LEMMA RowOwes ==
  ASSUME EnrollInv, Enroll!Next, agent'.status = "approved"
  PROVE  agent'.hash # Enroll!NoCred /\ (Unproven => agent'.plain = agent'.hash)
<1>1. agent \in Agents /\ issued \in Nat
  BY DEF EnrollInv, EnrollTypes
<1>2. CASE UNCHANGED agent
  BY <1>2 DEF EnrollInv, ApprovedHasCred, StillOwed
<1>3. ASSUME NEW s \in Sessions, Enroll!ServeWS(s)
      PROVE  agent'.hash # Enroll!NoCred /\ (Unproven => agent'.plain = agent'.hash)
  <2>1. CASE Enroll!ClearCredPlain(s)
    <3>1. ~Unproven
      BY <2>1 DEF Enroll!ClearCredPlain, EnrollInv, NobodyProved, ProofBeforeClearing
    <3>2. agent'.status = agent.status /\ agent'.hash = agent.hash
      BY <1>1, <2>1 DEF Enroll!ClearCredPlain, Enroll!UpdateAgent, Agents
    <3> QED
      BY <3>1, <3>2 DEF EnrollInv, ApprovedHasCred
  <2>2. CASE Enroll!InsertAgent(s)
    BY <1>1, <1>2, <2>2 DEF Enroll!InsertAgent, Agents
  <2>3. CASE Enroll!UpdatePending(s)
    BY <1>1, <1>2, <2>3 DEF Enroll!UpdatePending, Enroll!UpdateAgent, Agents
  <2> QED
    BY <1>2, <1>3, <2>1, <2>2, <2>3 DEF Enroll!ServeWS, Enroll!Authenticate, Enroll!Register, Enroll!SendAck, Enroll!DeliverPendingCredential, Enroll!EndRead, Enroll!Leave
<1>4. ASSUME NEW r \in Requests, Enroll!NodesPage(r)
      PROVE  agent'.hash # Enroll!NoCred /\ (Unproven => agent'.plain = agent'.hash)
  <2>1. CASE Enroll!ApproveAgent(r)
    <3>1. issued' # Enroll!NoCred
      BY <1>1, <2>1 DEF Enroll!ApproveAgent, Enroll!NoCred
    <3> QED
      BY <1>1, <1>2, <2>1, <3>1 DEF Enroll!ApproveAgent, Enroll!UpdateAgent, Agents
  <2>2. CASE Enroll!RejectAgent(r)
    BY <1>1, <1>2, <2>2 DEF Enroll!RejectAgent, Enroll!UpdateAgent, Agents
  <2>3. CASE Enroll!RevokeAgent(r)
    BY <1>1, <1>2, <2>3 DEF Enroll!RevokeAgent, Enroll!UpdateAgent, Agents
  <2> QED
    BY <1>2, <1>4, <2>1, <2>2, <2>3 DEF Enroll!NodesPage, Enroll!Check, Enroll!TellConnection
<1>5. CASE Enroll!ReadFrame \/ Enroll!LoseLink \/ Enroll!Restart \/ \E s \in Sessions : Enroll!Connect(s)
  BY <1>2, <1>5 DEF Enroll!ReadFrame, Enroll!LoseLink, Enroll!Restart, Enroll!Connect
<1> QED
  BY <1>3, <1>4, <1>5 DEF Enroll!Next

LEMMA EnrollInvStep == ASSUME EnrollBounds, EnrollInv, [Enroll!Next]_enrollmentVars PROVE EnrollInv'
<1>1. EnrollTypes'
  BY EnrollTypesStep DEF EnrollInv
<1>2. CASE UNCHANGED enrollmentVars
  BY <1>1, <1>2 DEF EnrollInv, enrollmentVars, NobodyProved, ProofBeforeClearing, ApprovedHasCred, StillOwed, Unproven
<1>3. CASE Enroll!Next
  <2>1. Unproven' => Unproven
    BY <1>3, NodeStep DEF EnrollInv
  <2>2. \A t \in Sessions : Remembers(t)
    BY <1>3, ConnectionsStep DEF EnrollInv
  <2>3. NobodyProved'
    BY <2>1, <2>2 DEF EnrollInv, NobodyProved, Remembers, Unproven
  <2>4. ProofBeforeClearing'
    BY <2>2 DEF ProofBeforeClearing, Remembers
  <2>5. ApprovedHasCred' /\ StillOwed'
    BY <1>3, <2>1, RowOwes DEF ApprovedHasCred, StillOwed
  <2> QED
    BY <1>1, <2>3, <2>4, <2>5 DEF EnrollInv
<1> QED
  BY <1>2, <1>3

\* One approval is enough (ServeWS, deliverPendingCredential, ClearCredPlain and the
\* nodes page): however links, processes and the dashboard fail, an approved node
\* has the credential that lets it in, or none and is still owed it.
THEOREM ApprovalIsEnough == Spec => []OneApprovalIsEnough
<1>1. EnrollBounds
  BY EnrollAssumption DEF EnrollBounds
<1>2. Init => EnrollInv
  BY <1>1, EnrollInvInit DEF Init
<1>3. EnrollInv /\ [Next]_<<part, vars>> => EnrollInv'
  BY <1>1, EnrollAlone, EnrollInvStep
<1>4. EnrollInv => OneApprovalIsEnough
  <2>1. ASSUME EnrollInv, agent.status = "approved", node.cred # Enroll!NoCred, node.cred # agent.hash PROVE issued > 1
    <3>1. agent.hash \in 0..issued /\ node.cred \in 0..issued /\ agent.hash # 0 /\ node.cred # 0 /\ issued \in Nat
      BY <2>1 DEF EnrollInv, EnrollTypes, Agents, Nodes, Given, ApprovedHasCred, Enroll!NoCred
    <3> QED
      BY <2>1, <3>1
  <2>2. ASSUME EnrollInv, agent.status = "approved", node.cred = Enroll!NoCred PROVE agent.plain = agent.hash \/ node.cut
    BY <2>2 DEF EnrollInv, StillOwed, Unproven
  <2> QED
    BY <2>1, <2>2 DEF OneApprovalIsEnough, Enroll!OneApprovalIsEnough
<1> QED
  BY <1>2, <1>3, <1>4, PTL DEF Spec

-----------------------------------------------------------------------------
(* The administration of monitors and channels.                            *)

\* A request, whatever its fields hold.
Ask(op, stage, ids, form, with, seen, reply, before) ==
  [op |-> op, stage |-> stage, ids |-> ids, form |-> form, channel |-> with,
   seen |-> seen, reply |-> reply, before |-> before]
SameAsk(q) == Ask(q.op, q.stage, q.ids, q.form, q.channel, q.seen, q.reply, q.before)

\* The statement a request is at fits what it asks for.
Stages(op) ==
  IF op = "none" THEN {"new"}
  ELSE IF op = "create" THEN {"insert", "done"}
  ELSE IF op = "pause" THEN {"pause", "getState", "putState", "done"}
  ELSE IF op = "batchPause" THEN {"batchPause", "resetCounts", "done"}
  ELSE IF op \in {"addChannel", "editChannel"} THEN {"write", "done"}
  ELSE IF op = "deleteChannel" THEN {op, "list", "rewrite", "done"}
  ELSE IF op = "applyAll" THEN {op, "list", "rewrite", "reread", "done"}
  ELSE {op, "done"}

\* The requests about monitors that exist when they are made.
OnMonitors == {"update", "pause", "resume", "delete", "batchPause", "batchResume", "batchDelete"}

\* What a request's fields can hold.
AskTyped(q) ==
  /\ q = SameAsk(q)
  /\ q.op \in {"none"} \cup Admin!MonitorOps \cup Admin!ChannelOps \cup Admin!BatchOps
  /\ q.stage \in Stages(q.op)
  /\ q.stage = "new" => q.before = <<>>
  /\ q.op \in {"create", "update"} => q.form \in Admin!Row /\ q.form.exists
  /\ q.op = "pause" => \E m \in MonitorIds : q.ids = {m}
  /\ q.op \in {"applyAll", "deleteChannel"} => \E c \in ChannelIds : q.ids = {c}
  /\ q.stage = "rewrite" => \A m \in DOMAIN q.seen : q.seen[m] \subseteq ChannelIds

\* A free row names no channels.
RowsTyped(mons) ==
  mons \in [MonitorIds -> Admin!Row] /\ \A m \in MonitorIds : ~mons[m].exists => mons[m].routes = {}

\* What remains to be done, for the rows of the request's channel.
ToDo(q, was) ==
  {m \in MonitorIds : was[m].exists /\ IF q.op = "applyAll" THEN ~(q.ids \subseteq was[m].routes)
                                       ELSE q.ids \subseteq was[m].routes}

\* A request that is done has done what it answers, or nothing, or is one of the exceptions.
MonitorsServed(q, mons) == \A m \in MonitorIds : mons[m] = Admin!Promised(q, m, q.before[1][m])
ChannelsServed(q, chans) == \A c \in ChannelIds : chans[c] = Admin!PromisedChannel(q, c, q.before[2][c])
Applied(q, mons, chans) ==
  \/ /\ MonitorsServed(q, mons) /\ ChannelsServed(q, chans)
     /\ q.reply \in {"ok", "okay"} \/ (q.op = "applyAll" /\ q.reply = "error")
  \/ q.reply \in {"missing", "error"} /\ mons = q.before[1] /\ chans = q.before[2]
  \/ q.reply = "error" /\ q.op = "deleteChannel" /\ mons = q.before[1] /\ ChannelsServed(q, chans)

\* A monitor's row, edited.
Overwritten(f, b) == [f EXCEPT !.token = b.token, !.count = b.count, !.data = b.data]
Routed(b, cs) == [b EXCEPT !.routes = cs]
On(b) == [b EXCEPT !.enabled = TRUE]
Off(b) == [b EXCEPT !.enabled = FALSE]
Cleared(b) == [b EXCEPT !.count = "zero"]

\* What an attached channel makes of a monitor, and of all of them.
Attached(q, b) == IF b.exists THEN Routed(b, b.routes \cup q.ids) ELSE b
AllAttached(q, mons) == \A m \in MonitorIds : mons[m] = Attached(q, q.before[1][m])

\* How far an undisturbed request is: nothing done yet, switched off with the count to
\* clear, the channel looked at or deleted, all routes written, all done.
AskSound(q, mons, chans) ==
  q.before # <<>> =>
    /\ RowsTyped(q.before[1])
    /\ q.op \in OnMonitors => q.ids \subseteq {m \in MonitorIds : q.before[1][m].exists}
    /\ q.stage \notin {"getState", "putState", "resetCounts", "list", "rewrite", "reread", "done"} =>
         mons = q.before[1] /\ chans = q.before[2]
    /\ q.stage \in {"getState", "putState", "resetCounts"} =>
         /\ chans = q.before[2]
         /\ mons = [m \in MonitorIds |-> IF m \in q.ids THEN Off(q.before[1][m])
                                         ELSE q.before[1][m]]
    /\ q.stage = "putState" => \A m \in q.ids : mons[m].count # "none"
    /\ q.stage \in {"list", "rewrite"} =>
         /\ mons = q.before[1]
         /\ IF q.op = "applyAll" THEN chans = q.before[2] ELSE ChannelsServed(q, chans)
    /\ q.stage = "rewrite" => q.seen = [m \in ToDo(q, q.before[1]) |-> q.before[1][m].routes]
    /\ q.stage = "reread" => chans = q.before[2] /\ AllAttached(q, mons)
    /\ q.stage = "done" => Applied(q, mons, chans)

\* What holds of the rows and of every request.
AdminInv ==
  /\ RowsTyped(monitors)
  /\ submission = [r \in Submissions |-> submission[r]]
  /\ \A r \in Submissions : AskTyped(submission[r]) /\ AskSound(submission[r], monitors, channels)

\* The rows and the requests move by the administration's own steps only.
LEMMA AdminAlone == [Next]_<<part, vars>> => [Admin!Next]_adminVars
  BY DEF Next, vars, PushStep, NotifyStep, EnrollStep, AdminStep, TransferStep, KumaStep, ProbesStep,
     FeedStep, Others4, Others8, adminVars

\* Rows with one field changed.
LEMMA RowOn ==
  ASSUME NEW x \in Admin!Row, NEW on_ \in BOOLEAN
  PROVE  /\ [x EXCEPT !.enabled = on_] \in Admin!Row
         /\ [x EXCEPT !.enabled = on_].exists = x.exists /\ [x EXCEPT !.enabled = on_].routes = x.routes
         /\ [x EXCEPT !.enabled = on_].count = x.count /\ [x EXCEPT !.enabled = on_].enabled = on_
  BY DEF Admin!Row

LEMMA RowCounted ==
  ASSUME NEW x \in Admin!Row, NEW n \in Admin!Counts
  PROVE  /\ [x EXCEPT !.count = n] \in Admin!Row
         /\ [x EXCEPT !.count = n].exists = x.exists /\ [x EXCEPT !.count = n].routes = x.routes
         /\ n = x.count => [x EXCEPT !.count = n] = x
  BY DEF Admin!Row, Admin!Counts

LEMMA RowRouted ==
  ASSUME NEW x \in Admin!Row, NEW cs \in SUBSET ChannelIds
  PROVE  /\ [x EXCEPT !.routes = cs] \in Admin!Row
         /\ [x EXCEPT !.routes = cs].exists = x.exists
         /\ cs = x.routes => [x EXCEPT !.routes = cs] = x
  BY DEF Admin!Row

LEMMA RowFilled ==
  ASSUME NEW x \in Admin!Row, NEW b \in BOOLEAN
  PROVE  /\ [x EXCEPT !.data = b] \in Admin!Row
         /\ [x EXCEPT !.data = b].exists = x.exists /\ [x EXCEPT !.data = b].routes = x.routes
  BY DEF Admin!Row

LEMMA RowTokened ==
  ASSUME NEW x \in Admin!Row, NEW t \in {"none", "old", "new"}
  PROVE  [x EXCEPT !.token = t] \in Admin!Row /\ [x EXCEPT !.token = t].exists = x.exists
  BY DEF Admin!Row

LEMMA FreeRow == Admin!NoMonitor \in Admin!Row /\ Admin!NoMonitor.routes = {} /\ ~Admin!NoMonitor.exists
  BY DEF Admin!NoMonitor, Admin!Row, Admin!Types, Admin!Modes, Admin!Counts

\* The fields of a request.
LEMMA AskParts ==
  ASSUME NEW op, NEW s, NEW ids, NEW f, NEW c, NEW n, NEW y, NEW b, NEW q, q = Ask(op, s, ids, f, c, n, y, b)
  PROVE  /\ q = SameAsk(q) /\ q.op = op /\ q.stage = s /\ q.ids = ids /\ q.form = f /\ q.channel = c
         /\ q.seen = n /\ q.reply = y /\ q.before = b
  BY DEF Ask, SameAsk

\* What the statements make of a request.
LEMMA AskMoved ==
  ASSUME NEW q, q = SameAsk(q), NEW s
  PROVE  [q EXCEPT !.stage = s] = Ask(q.op, s, q.ids, q.form, q.channel, q.seen, q.reply, q.before)
  BY DEF Ask, SameAsk

LEMMA AskDone ==
  ASSUME NEW q, q = SameAsk(q), NEW y
  PROVE  [q EXCEPT !.stage = "done", !.reply = y]
           = Ask(q.op, "done", q.ids, q.form, q.channel, q.seen, y, q.before)
<1> DEFINE a == Ask(q.op, "done", q.ids, q.form, q.channel, q.seen, q.reply, q.before)
<1>1. [q EXCEPT !.stage = "done", !.reply = y] = [[q EXCEPT !.stage = "done"] EXCEPT !.reply = y]
  OBVIOUS
<1>2. [q EXCEPT !.stage = "done"] = a
  BY AskMoved
<1>3. [a EXCEPT !.reply = y] = Ask(q.op, "done", q.ids, q.form, q.channel, q.seen, y, q.before)
  BY DEF Ask
<1> QED
  BY <1>1, <1>2, <1>3

LEMMA AskSeen ==
  ASSUME NEW q, q = SameAsk(q), NEW n
  PROVE  [q EXCEPT !.stage = "rewrite", !.seen = n]
           = Ask(q.op, "rewrite", q.ids, q.form, q.channel, n, q.reply, q.before)
<1> DEFINE a == Ask(q.op, "rewrite", q.ids, q.form, q.channel, q.seen, q.reply, q.before)
<1>1. [q EXCEPT !.stage = "rewrite", !.seen = n] = [[q EXCEPT !.stage = "rewrite"] EXCEPT !.seen = n]
  OBVIOUS
<1>2. [q EXCEPT !.stage = "rewrite"] = a
  BY AskMoved
<1>3. [a EXCEPT !.seen = n] = Ask(q.op, "rewrite", q.ids, q.form, q.channel, n, q.reply, q.before)
  BY DEF Ask
<1> QED
  BY <1>1, <1>2, <1>3

LEMMA AskForgets ==
  ASSUME NEW q, q = SameAsk(q)
  PROVE  [q EXCEPT !.before = <<>>] = Ask(q.op, q.stage, q.ids, q.form, q.channel, q.seen, q.reply, <<>>)
  BY DEF Ask, SameAsk

Asked(op, s, ids, f, c, b) ==
  [Admin!Unsent EXCEPT !.op = op, !.stage = s, !.ids = ids, !.form = f, !.channel = c, !.before = b]

LEMMA AskNew ==
  ASSUME NEW op, NEW ids, NEW f, NEW c, NEW s, NEW b
  PROVE  Asked(op, s, ids, f, c, b) = Ask(op, s, ids, f, c, Admin!Unsent.seen, "none", b)
<1>1. PICK n, d, e, u : e = {} /\ n = [m \in {} |-> {}] /\ d = Admin!NoChannel
        /\ u = Ask("none", "new", e, Reject, d, n, "none", <<>>)
  OBVIOUS
<1>2. /\ Admin!Unsent = u /\ Admin!Unsent.seen = n
      /\ [u EXCEPT !.op = op, !.stage = s, !.ids = ids, !.form = f, !.channel = c, !.before = b]
           = [[[[[[u EXCEPT !.op = op] EXCEPT !.stage = s] EXCEPT !.ids = ids] EXCEPT !.form = f]
                EXCEPT !.channel = c] EXCEPT !.before = b]
  BY <1>1 DEF Admin!Unsent, Ask
<1>3. [Ask("none", "new", e, Reject, d, n, "none", <<>>) EXCEPT !.op = op]
        = Ask(op, "new", e, Reject, d, n, "none", <<>>)
  BY DEF Ask
<1>4. [Ask(op, "new", e, Reject, d, n, "none", <<>>) EXCEPT !.stage = s]
        = Ask(op, s, e, Reject, d, n, "none", <<>>)
  BY DEF Ask
<1>5. [Ask(op, s, e, Reject, d, n, "none", <<>>) EXCEPT !.ids = ids]
        = Ask(op, s, ids, Reject, d, n, "none", <<>>)
  BY DEF Ask
<1>6. [Ask(op, s, ids, Reject, d, n, "none", <<>>) EXCEPT !.form = f]
        = Ask(op, s, ids, f, d, n, "none", <<>>)
  BY DEF Ask
<1>7. [Ask(op, s, ids, f, d, n, "none", <<>>) EXCEPT !.channel = c]
        = Ask(op, s, ids, f, c, n, "none", <<>>)
  BY DEF Ask
<1>8. [Ask(op, s, ids, f, c, n, "none", <<>>) EXCEPT !.before = b]
        = Ask(op, s, ids, f, c, n, "none", b)
  BY DEF Ask
<1>9. [[u EXCEPT !.op = op] EXCEPT !.stage = s] = Ask(op, s, e, Reject, d, n, "none", <<>>)
  BY <1>1, <1>3, <1>4
<1>10. [[[u EXCEPT !.op = op] EXCEPT !.stage = s] EXCEPT !.ids = ids] = Ask(op, s, ids, Reject, d, n, "none", <<>>)
  BY <1>5, <1>9
<1>11. [[[[u EXCEPT !.op = op] EXCEPT !.stage = s] EXCEPT !.ids = ids] EXCEPT !.form = f]
         = Ask(op, s, ids, f, d, n, "none", <<>>)
  BY <1>6, <1>10
<1>12. [[[[[u EXCEPT !.op = op] EXCEPT !.stage = s] EXCEPT !.ids = ids] EXCEPT !.form = f] EXCEPT !.channel = c]
         = Ask(op, s, ids, f, c, n, "none", <<>>)
  BY <1>7, <1>11
<1>13. [[[[[[u EXCEPT !.op = op] EXCEPT !.stage = s] EXCEPT !.ids = ids] EXCEPT !.form = f] EXCEPT !.channel = c]
          EXCEPT !.before = b] = Ask(op, s, ids, f, c, n, "none", b)
  BY <1>8, <1>12
<1> QED
  BY <1>2, <1>13 DEF Asked

\* A form that is let in makes a row.
LEMMA ValidRow ==
  ASSUME NEW f \in Forms, Admin!Validate(f) # Reject
  PROVE  Admin!Validate(f) \in Admin!Row /\ Admin!Validate(f).exists
<1> DEFINE mode  == IF f.type = "push" THEN "all" ELSE IF f.mode = "" THEN "selected" ELSE f.mode
           token == IF f.type # "push" THEN "none" ELSE IF f.token = "none" THEN "new" ELSE f.token
           inv   == f.invert /\ f.type # "download"
           base0 == Admin!NoMonitor
           x1 == [base0 EXCEPT !.exists = TRUE]
           x2 == [x1 EXCEPT !.type = f.type]
           x3 == [x2 EXCEPT !.nodes = Admin!Nodes(f)]
           x4 == [x3 EXCEPT !.routes = f.routes]
           x5 == [x4 EXCEPT !.mode = mode]
           x6 == [x5 EXCEPT !.invert = inv]
           x7 == [x6 EXCEPT !.enabled = f.enabled]
           x8 == [x7 EXCEPT !.token = token]
<1>1. /\ f.type \in Admin!Types /\ f.mode \in {""} \cup Admin!Modes /\ f.token \in {"none", "old", "new"}
      /\ f.assigned \subseteq Approved \cup Others /\ f.excluded \subseteq Approved \cup Others
      /\ f.routes \subseteq ChannelIds /\ f.invert \in BOOLEAN /\ f.enabled \in BOOLEAN
  BY AdminAssumption
<1>2. /\ mode \in Admin!Modes /\ token \in {"none", "old", "new"} /\ inv \in BOOLEAN
      /\ Admin!Nodes(f) \subseteq Approved \cup Others
  BY <1>1 DEF Admin!Modes, Admin!Nodes
<1>3. Admin!Validate(f) = x8
  BY DEF Admin!Validate
<1>4. base0 \in Admin!Row
  BY FreeRow
<1> HIDE DEF mode, token, inv, base0
<1>5. x1 \in Admin!Row /\ x1.exists
  BY <1>4 DEF Admin!Row
<1> HIDE DEF x1
<1>6. x2 \in Admin!Row /\ x2.exists
  BY <1>1, <1>5 DEF Admin!Row
<1> HIDE DEF x2
<1>7. x3 \in Admin!Row /\ x3.exists
  BY <1>2, <1>6 DEF Admin!Row
<1> HIDE DEF x3
<1>8. x4 \in Admin!Row /\ x4.exists
  BY <1>1, <1>7 DEF Admin!Row
<1> HIDE DEF x4
<1>9. x5 \in Admin!Row /\ x5.exists
  BY <1>2, <1>8 DEF Admin!Row
<1> HIDE DEF x5
<1>10. x6 \in Admin!Row /\ x6.exists
  BY <1>2, <1>9 DEF Admin!Row
<1> HIDE DEF x6
<1>11. x7 \in Admin!Row /\ x7.exists
  BY <1>1, <1>10 DEF Admin!Row
<1> HIDE DEF x7
<1>12. x8 \in Admin!Row /\ x8.exists
  BY <1>2, <1>11 DEF Admin!Row
<1> QED
  BY <1>3, <1>12

\* The op of a request at a statement.
LEMMA StageTells ==
  ASSUME AdminInv, NEW r \in Submissions, NEW q, q = submission[r]
  PROVE  /\ q.stage # "new" => q.op # "none"
         /\ q.stage = "insert" => q.op = "create"
         /\ q.stage \in {"getState", "putState"} => q.op = "pause"
         /\ q.stage = "resetCounts" => q.op = "batchPause"
         /\ q.stage = "write" => q.op \in {"addChannel", "editChannel"}
         /\ q.stage \in {"list", "rewrite"} => q.op \in {"applyAll", "deleteChannel"}
         /\ q.stage = "reread" => q.op = "applyAll"
         /\ q.stage \in {"update", "delete", "batchDelete", "pause", "resume", "batchPause", "batchResume",
                         "enableChannel", "disableChannel", "notifyOn", "notifyOff", "deleteChannel", "applyAll"} =>
              q.op = q.stage
<1>1. q.stage \in Stages(q.op) /\ q.op \in {"none"} \cup Admin!MonitorOps \cup Admin!ChannelOps \cup Admin!BatchOps
  BY DEF AdminInv, AskTyped
<1>2. PICK op, s : op = q.op /\ s = q.stage
  OBVIOUS
<1>3. s \in Stages(op) /\ op \in {"none"} \cup Admin!MonitorOps \cup Admin!ChannelOps \cup Admin!BatchOps
  BY <1>1, <1>2
<1> QED
  BY <1>2, <1>3 DEF Stages, Admin!MonitorOps, Admin!ChannelOps, Admin!SwitchOps, Admin!BatchOps

\* A request that another one, or a round, has disturbed promises nothing any more.
LEMMA DisturbedSound ==
  ASSUME AdminInv, NEW r \in Submissions, NEW d, d = Admin!Disturbed(r)
  PROVE  AskTyped(d) /\ AskSound(d, monitors', channels')
<1>1. PICK q : q = submission[r]
  OBVIOUS
<1>2. AskTyped(q) /\ AskSound(q, monitors, channels) /\ q = SameAsk(q)
  BY <1>1 DEF AdminInv, AskTyped
<1>3. CASE Admin!rows' = Admin!rows
  <2>1. d = q /\ monitors' = monitors /\ channels' = channels
    BY <1>1, <1>3 DEF Admin!Disturbed, Admin!rows
  <2> QED
    BY <1>2, <2>1
<1>4. CASE Admin!rows' # Admin!rows
  <2>1. d = [q EXCEPT !.before = <<>>]
    BY <1>1, <1>4 DEF Admin!Disturbed
  <2>2. d = Ask(q.op, q.stage, q.ids, q.form, q.channel, q.seen, q.reply, <<>>)
    BY <1>2, <2>1, AskForgets
  <2>3. /\ d = SameAsk(d) /\ d.op = q.op /\ d.stage = q.stage /\ d.ids = q.ids /\ d.form = q.form
        /\ d.seen = q.seen /\ d.before = <<>>
    BY <2>2, AskParts
  <2>4. AskTyped(d)
    BY <1>2, <2>3 DEF AskTyped
  <2>5. AskSound(d, monitors', channels')
    BY <2>3 DEF AskSound
  <2> QED
    BY <2>4, <2>5
<1> QED
  BY <1>3, <1>4

\* A step of one request keeps the invariant if the request itself is as far as it says.
LEMMA ProceedSound ==
  ASSUME AdminInv, NEW r \in Submissions, NEW new, Admin!Proceed(r, new), RowsTyped(monitors'),
         AskTyped(new), AskSound(new, monitors', channels')
  PROVE  AdminInv'
<1>1. submission' = [q \in Submissions |-> IF q = r THEN new ELSE Admin!Disturbed(q)]
  BY DEF Admin!Proceed
<1>2. ASSUME NEW q \in Submissions PROVE AskTyped(submission'[q]) /\ AskSound(submission'[q], monitors', channels')
  <2>1. PICK d : d = Admin!Disturbed(q)
    OBVIOUS
  <2>2. AskTyped(d) /\ AskSound(d, monitors', channels')
    BY <2>1, DisturbedSound
  <2>3. submission'[q] = IF q = r THEN new ELSE d
    BY <1>1, <2>1
  <2> QED
    BY <2>2, <2>3
<1>3. submission' = [q \in Submissions |-> submission'[q]]
  BY <1>1
<1> QED
  BY <1>2, <1>3 DEF AdminInv

\* A request is done: what it has promised of the rows is so, unless it was disturbed.
LEMMA AnswerSound ==
  ASSUME AdminInv, NEW r \in Submissions, NEW q, q = submission[r], q.op # "none", NEW reply,
         Admin!Answer(r, reply), RowsTyped(monitors'),
         NEW d, d = Ask(q.op, "done", q.ids, q.form, q.channel, q.seen, reply, q.before),
         q.before # <<>> => Applied(d, monitors', channels')
  PROVE  AdminInv'
<1>1. AskTyped(q) /\ AskSound(q, monitors, channels) /\ q = SameAsk(q)
  BY DEF AdminInv, AskTyped
<1>2. /\ d = SameAsk(d) /\ d.op = q.op /\ d.stage = "done" /\ d.ids = q.ids /\ d.form = q.form
      /\ d.seen = q.seen /\ d.before = q.before
  BY AskParts
<1>3. Admin!Proceed(r, d)
  BY <1>1, AskDone DEF Admin!Answer
<1>4. AskTyped(d)
  <2>1. "done" \in Stages(q.op)
    BY DEF Stages
  <2>2. AskTyped(q)
    BY <1>1
  <2>3. d = SameAsk(d) /\ d.stage \in Stages(d.op) /\ d.stage # "new" /\ d.stage # "rewrite"
    BY <1>2, <2>1
  <2>4. /\ d.op \in {"none"} \cup Admin!MonitorOps \cup Admin!ChannelOps \cup Admin!BatchOps
        /\ d.op \in {"create", "update"} => d.form \in Admin!Row /\ d.form.exists
        /\ d.op = "pause" => \E m \in MonitorIds : d.ids = {m}
        /\ d.op \in {"applyAll", "deleteChannel"} => \E c \in ChannelIds : d.ids = {c}
    BY <1>2, <2>2 DEF AskTyped
  <2> QED
    BY <2>3, <2>4 DEF AskTyped
<1>5. AskSound(d, monitors', channels')
  BY <1>1, <1>2 DEF AskSound
<1> QED
  BY <1>3, <1>4, <1>5, ProceedSound

\* The promise about channels depends on what was asked only.
LEMMA ServedAlike ==
  ASSUME NEW q, NEW d, d.op = q.op, d.ids = q.ids, d.channel = q.channel, d.before = q.before,
         NEW chans, ChannelsServed(q, chans)
  PROVE  ChannelsServed(d, chans)
  BY DEF ChannelsServed, Admin!PromisedChannel

\* A request about monitors, or about their routes, keeps the channels.
LEMMA ChannelKept ==
  ASSUME NEW q, q.op \in Admin!MonitorOps \cup Admin!BatchOps \cup {"applyAll"}, NEW c, NEW b
  PROVE  Admin!PromisedChannel(q, c, b) = b
<1>1. q.op \notin {"addChannel", "editChannel"} \cup Admin!SwitchOps \cup {"deleteChannel"}
  BY DEF Admin!MonitorOps, Admin!BatchOps, Admin!SwitchOps
<1> QED
  BY <1>1 DEF Admin!PromisedChannel

\* A request about monitors that has done what it says.
LEMMA AppliedDone ==
  ASSUME NEW q, q.op \in Admin!MonitorOps \cup Admin!BatchOps \cup {"applyAll"},
         q.reply \in {"ok", "okay"} \/ (q.op = "applyAll" /\ q.reply = "error"),
         NEW mons, NEW chans, chans = q.before[2],
         NEW was, was = q.before[1], \A m \in MonitorIds : mons[m] = Admin!Promised(q, m, was[m])
  PROVE  Applied(q, mons, chans)
<1>1. MonitorsServed(q, mons)
  BY DEF MonitorsServed
<1>2. ChannelsServed(q, chans)
  BY ChannelKept DEF ChannelsServed
<1> QED
  BY <1>1, <1>2 DEF Applied

\* A statement fails, or what it is about is missing, before the request has changed a monitor.
LEMMA FailSound ==
  ASSUME AdminInv, NEW r \in Submissions, NEW q, q = submission[r], q.op # "none", UNCHANGED Admin!rows,
         NEW reply \in {"error", "missing"}, Admin!Answer(r, reply), q.stage \notin {"getState", "putState", "resetCounts", "reread", "done"},
         q.op = "deleteChannel" /\ q.stage # "deleteChannel" => reply = "error"
  PROVE  AdminInv'
<1>1. AskTyped(q) /\ AskSound(q, monitors, channels)
  BY DEF AdminInv
<1>2. PICK d : d = Ask(q.op, "done", q.ids, q.form, q.channel, q.seen, reply, q.before)
  OBVIOUS
<1>3. d.op = q.op /\ d.ids = q.ids /\ d.channel = q.channel /\ d.reply = reply /\ d.before = q.before
  BY <1>2, AskParts
<1>4. monitors' = monitors /\ channels' = channels /\ RowsTyped(monitors')
  BY DEF Admin!rows, AdminInv
<1>5. ASSUME q.before # <<>> PROVE Applied(d, monitors', channels')
  <2>1. q.stage \in {"list", "rewrite"} => q.op \in {"applyAll", "deleteChannel"}
    BY StageTells
  <2>2. monitors = q.before[1]
    BY <1>1, <1>5 DEF AskSound
  <2>3. CASE channels = q.before[2]
    BY <1>3, <1>4, <2>2, <2>3 DEF Applied
  <2>4. CASE channels # q.before[2]
    <3>1. q.stage \in {"list", "rewrite"} /\ q.op = "deleteChannel" /\ ChannelsServed(q, channels)
      BY <1>1, <1>5, <2>1, <2>4 DEF AskSound
    <3>2. reply = "error" /\ ChannelsServed(d, channels)
      BY <1>3, <3>1, ServedAlike
    <3> QED
      BY <1>3, <1>4, <2>2, <3>1, <3>2 DEF Applied
  <2> QED
    BY <2>3, <2>4
<1> QED
  BY <1>2, <1>4, <1>5, AnswerSound

\* A new request finds the rows as they are, and has done nothing.
LEMMA SubmitSound ==
  ASSUME AdminInv, NEW r \in Submissions, NEW op \in Admin!MonitorOps \cup Admin!ChannelOps \cup Admin!BatchOps,
         NEW ids, NEW form, NEW with, NEW stage, Admin!Submit(r, op, ids, form, with, stage),
         stage \in Stages(op), stage \notin {"new", "getState", "putState", "resetCounts", "list", "rewrite", "reread", "done"},
         op \in {"create", "update"} => form \in Admin!Row /\ form.exists,
         op = "pause" => \E m \in MonitorIds : ids = {m},
         op \in {"applyAll", "deleteChannel"} => \E c \in ChannelIds : ids = {c},
         op \in OnMonitors => ids \subseteq Admin!Existing
  PROVE  AdminInv'
<1>1. PICK b, n, new : /\ b = <<monitors, channels>> /\ n = Admin!Unsent.seen
                       /\ new = Ask(op, stage, ids, form, with, n, "none", b)
  OBVIOUS
<1>2. /\ Admin!Proceed(r, Asked(op, stage, ids, form, with, b))
      /\ monitors' = monitors /\ channels' = channels
  BY <1>1 DEF Admin!Submit, Asked
<1>3. Admin!Proceed(r, new)
  <2>1. Asked(op, stage, ids, form, with, b) = new
    BY <1>1, AskNew
  <2> QED
    BY <1>2, <2>1
<1>4. /\ new = SameAsk(new) /\ new.op = op /\ new.stage = stage /\ new.ids = ids /\ new.form = form
      /\ new.before = b
  BY <1>1, AskParts
<1>5. AskTyped(new)
  BY <1>4 DEF AskTyped
<1>6. b[1] = monitors /\ b[2] = channels
  BY <1>1
<1>7. RowsTyped(monitors)
  BY DEF AdminInv
<1>8. AskSound(new, monitors', channels')
  BY <1>2, <1>4, <1>6, <1>7 DEF AskSound, Admin!Existing
<1> QED
  BY <1>2, <1>3, <1>5, <1>7, <1>8, ProceedSound

\* The arms of the promise.

LEMMA PromisedCreate ==
  ASSUME NEW q, q.op = "create", NEW m \in q.ids, NEW b PROVE Admin!Promised(q, m, b) = q.form
  BY DEF Admin!Promised

LEMMA PromisedUpdate ==
  ASSUME NEW q, q.op = "update", NEW m \in q.ids, NEW b PROVE Admin!Promised(q, m, b) = Overwritten(q.form, b)
  BY DEF Admin!Promised, Overwritten

LEMMA PromisedDelete ==
  ASSUME NEW q, q.op \in {"delete", "batchDelete"}, NEW m \in q.ids, NEW b
  PROVE  Admin!Promised(q, m, b) = Admin!NoMonitor
  BY DEF Admin!Promised

LEMMA PromisedResume ==
  ASSUME NEW q, q.op \in {"resume", "batchResume"}, NEW m \in q.ids, NEW b
  PROVE  Admin!Promised(q, m, b) = On(b)
  BY DEF Admin!Promised, On

LEMMA PromisedAttach ==
  ASSUME NEW q, q.op = "applyAll", NEW m, NEW b, b.exists
  PROVE  Admin!Promised(q, m, b) = Routed(b, b.routes \cup q.ids)
  BY DEF Admin!Promised, Routed

LEMMA PromisedDetach ==
  ASSUME NEW q, q.op = "deleteChannel", NEW m, NEW b
  PROVE  Admin!Promised(q, m, b) = Routed(b, b.routes \ q.ids)
  BY DEF Admin!Promised, Routed

LEMMA PromisedSame ==
  ASSUME NEW q, NEW m, NEW b,
         \/ q.op \in Admin!MonitorOps \cup Admin!BatchOps /\ m \notin q.ids
         \/ q.op \in Admin!ChannelOps \ {"applyAll", "deleteChannel"}
         \/ q.op = "applyAll" /\ ~b.exists
  PROVE  Admin!Promised(q, m, b) = b
<1>1. CASE q.op \in Admin!MonitorOps \cup Admin!BatchOps /\ m \notin q.ids
  BY <1>1 DEF Admin!Promised, Admin!MonitorOps, Admin!BatchOps
<1>2. CASE q.op \in Admin!ChannelOps \ {"applyAll", "deleteChannel"}
  BY <1>2 DEF Admin!Promised, Admin!ChannelOps, Admin!SwitchOps
<1>3. CASE q.op = "applyAll" /\ ~b.exists
  BY <1>3 DEF Admin!Promised
<1> QED
  BY <1>1, <1>2, <1>3

LEMMA PromisedPause ==
  ASSUME NEW q, q.op \in {"pause", "batchPause"}, NEW m \in q.ids, NEW b \in Admin!Row
  PROVE  Admin!Promised(q, m, b) =
           IF q.reply = "ok" /\ b.count = "some" THEN Cleared(Off(b)) ELSE Off(b)
<1> DEFINE n == IF q.reply = "ok" /\ b.count = "some" THEN "zero" ELSE b.count
           off == [b EXCEPT !.enabled = FALSE]
<1>1. Admin!Promised(q, m, b) = [b EXCEPT !.enabled = FALSE, !.count = IF q.reply = "ok" /\ @ = "some" THEN "zero" ELSE @]
  BY DEF Admin!Promised
<1>2. [b EXCEPT !.enabled = FALSE, !.count = IF q.reply = "ok" /\ @ = "some" THEN "zero" ELSE @] = [off EXCEPT !.count = n]
  BY DEF Admin!Row
<1>3. off \in Admin!Row /\ off.count = b.count /\ b.count \in Admin!Counts
  BY RowOn DEF Admin!Row
<1>4. b.count = off.count => [off EXCEPT !.count = b.count] = off
  BY <1>3, RowCounted
<1> QED
  BY <1>1, <1>2, <1>3, <1>4 DEF Cleared, Off

\* A new monitor has the form's row (InsertMonitor).
LEMMA InsertStep ==
  ASSUME AdminInv, NEW r \in Submissions, Admin!InsertMonitor(r)
  PROVE  AdminInv'
<1>1. PICK q : q = submission[r]
  OBVIOUS
<1>2. /\ AskTyped(q) /\ AskSound(q, monitors, channels) /\ RowsTyped(monitors)
      /\ q.stage = "insert" /\ q.op = "create" /\ q.form \in Admin!Row
  BY <1>1, StageTells DEF AdminInv, AskTyped, Admin!InsertMonitor, Admin!At
<1>3. CASE Admin!Fail(r)
  BY <1>1, <1>2, <1>3, FailSound DEF Admin!Fail
<1>4. ASSUME monitors' = [m \in MonitorIds |-> IF m \in q.ids THEN q.form ELSE monitors[m]], UNCHANGED channels,
             Admin!Answer(r, "ok")
      PROVE  AdminInv'
  <2>1. PICK d : d = Ask(q.op, "done", q.ids, q.form, q.channel, q.seen, "ok", q.before)
    OBVIOUS
  <2>2. d.op = q.op /\ d.ids = q.ids /\ d.form = q.form /\ d.reply = "ok" /\ d.before = q.before
    BY <2>1, AskParts
  <2>3. RowsTyped(monitors')
    <3>1. q.form.exists
      BY <1>2 DEF AskTyped
    <3> QED
      BY <1>2, <1>4, <3>1 DEF RowsTyped
  <2>4. ASSUME q.before # <<>> PROVE Applied(d, monitors', channels')
    <3>1. monitors = q.before[1] /\ channels = q.before[2]
      BY <1>2, <2>4 DEF AskSound
    <3>2. ASSUME NEW m \in MonitorIds PROVE monitors'[m] = Admin!Promised(d, m, q.before[1][m])
      <4>1. PICK b : b = q.before[1][m]
        OBVIOUS
      <4>2. CASE m \in q.ids
        <5>1. Admin!Promised(d, m, b) = q.form
          BY <1>2, <2>2, <4>2, PromisedCreate
        <5> QED
          BY <1>4, <4>1, <4>2, <5>1
      <4>3. CASE m \notin q.ids
        <5>1. Admin!Promised(d, m, b) = b
          BY <1>2, <2>2, <4>3, PromisedSame DEF Admin!MonitorOps
        <5> QED
          BY <1>4, <3>1, <4>1, <4>3, <5>1
      <4> QED
        BY <4>2, <4>3
    <3>3. d.op \in Admin!MonitorOps \cup Admin!BatchOps
      BY <1>2, <2>2 DEF Admin!MonitorOps, Admin!BatchOps
    <3> QED
      BY <1>4, <2>2, <3>1, <3>2, <3>3, AppliedDone
  <2> QED
    BY <1>1, <1>2, <1>4, <2>1, <2>3, <2>4, AnswerSound
<1> QED
  BY <1>1, <1>3, <1>4 DEF Admin!InsertMonitor

\* The form's row with the token, the count and the data that were there.
LEMMA RowKept ==
  ASSUME NEW f \in Admin!Row, NEW b \in Admin!Row, NEW k,
         k = Overwritten(f, b)
  PROVE  k \in Admin!Row /\ k.exists = f.exists
<1> DEFINE x1 == [f EXCEPT !.token = b.token]
           x2 == [x1 EXCEPT !.count = b.count]
           x3 == [x2 EXCEPT !.data = b.data]
<1>1. k = x3
  BY DEF Overwritten
<1>2. b.token \in {"none", "old", "new"} /\ b.count \in Admin!Counts /\ b.data \in BOOLEAN
  BY DEF Admin!Row
<1>3. x1 \in Admin!Row /\ x1.exists = f.exists
  BY <1>2, RowTokened
<1> HIDE DEF x1
<1>4. x2 \in Admin!Row /\ x2.exists = x1.exists
  BY <1>2, <1>3, RowCounted
<1> HIDE DEF x2
<1>5. x3 \in Admin!Row /\ x3.exists = x2.exists
  BY <1>2, <1>4, RowFilled
<1> QED
  BY <1>1, <1>3, <1>4, <1>5

\* An update writes the form over the rows that exist; without one it answers missing (UpdateMonitor).
LEMMA UpdateStep ==
  ASSUME AdminInv, NEW r \in Submissions, Admin!UpdateMonitor(r)
  PROVE  AdminInv'
<1>1. PICK q : q = submission[r]
  OBVIOUS
<1>2. /\ AskTyped(q) /\ AskSound(q, monitors, channels) /\ RowsTyped(monitors)
      /\ q.stage = "update" /\ q.op = "update" /\ q.form \in Admin!Row /\ q.form.exists
  BY <1>1, StageTells DEF AdminInv, AskTyped, Admin!UpdateMonitor, Admin!At
<1>3. CASE Admin!Fail(r)
  BY <1>1, <1>2, <1>3, FailSound DEF Admin!Fail
<1>4. ASSUME monitors' = [m \in MonitorIds |-> IF m \in q.ids \cap Admin!Existing THEN Overwritten(q.form, monitors[m])
                                               ELSE monitors[m]],
             UNCHANGED channels,
             NEW reply, reply = IF q.ids \subseteq Admin!Existing THEN "ok" ELSE "missing",
             Admin!Answer(r, reply)
      PROVE  AdminInv'
  <2>1. PICK d : d = Ask(q.op, "done", q.ids, q.form, q.channel, q.seen, reply, q.before)
    OBVIOUS
  <2>2. d.op = q.op /\ d.ids = q.ids /\ d.form = q.form /\ d.reply = reply /\ d.before = q.before
    BY <2>1, AskParts
  <2>3. RowsTyped(monitors')
    <3>1. ASSUME NEW m \in MonitorIds
          PROVE  monitors'[m] \in Admin!Row /\ (~monitors'[m].exists => monitors'[m].routes = {})
      <4>1. PICK k : k = Overwritten(q.form, monitors[m])
        OBVIOUS
      <4>2. monitors[m] \in Admin!Row /\ (~monitors[m].exists => monitors[m].routes = {})
        BY <1>2 DEF RowsTyped
      <4>3. k \in Admin!Row /\ k.exists
        BY <1>2, <4>1, <4>2, RowKept
      <4>4. monitors'[m] = k \/ monitors'[m] = monitors[m]
        BY <1>4, <4>1
      <4> QED
        BY <4>2, <4>3, <4>4
    <3>2. monitors' = [m \in MonitorIds |-> monitors'[m]]
      BY <1>4
    <3> QED
      BY <3>1, <3>2 DEF RowsTyped
  <2>4. ASSUME q.before # <<>> PROVE Applied(d, monitors', channels')
    <3>1. monitors = q.before[1] /\ channels = q.before[2]
      BY <1>2, <2>4 DEF AskSound
    <3>2. q.ids \subseteq Admin!Existing
      BY <1>2, <2>4, <3>1 DEF AskSound, OnMonitors, Admin!Existing
    <3>3. ASSUME NEW m \in MonitorIds PROVE monitors'[m] = Admin!Promised(d, m, q.before[1][m])
      <4>1. PICK b : b = q.before[1][m]
        OBVIOUS
      <4>2. CASE m \in q.ids
        <5>1. Admin!Promised(d, m, b) = Overwritten(d.form, b)
          BY <1>2, <2>2, <4>2, PromisedUpdate
        <5>2. monitors'[m] = Overwritten(q.form, monitors[m])
          BY <1>4, <3>2, <4>2
        <5> QED
          BY <2>2, <3>1, <4>1, <5>1, <5>2
      <4>3. CASE m \notin q.ids
        <5>1. Admin!Promised(d, m, b) = b
          BY <1>2, <2>2, <4>3, PromisedSame DEF Admin!MonitorOps
        <5> QED
          BY <1>4, <3>1, <4>1, <4>3, <5>1
      <4> QED
        BY <4>2, <4>3
    <3>4. d.op \in Admin!MonitorOps \cup Admin!BatchOps /\ d.reply = "ok"
      BY <1>2, <1>4, <2>2, <3>2 DEF Admin!MonitorOps, Admin!BatchOps
    <3> QED
      BY <1>4, <2>2, <3>1, <3>3, <3>4, AppliedDone
  <2> QED
    BY <1>1, <1>2, <1>4, <2>1, <2>3, <2>4, AnswerSound
<1>5. \/ Admin!Fail(r)
      \/ /\ monitors' = [m \in MonitorIds |-> IF m \in q.ids \cap Admin!Existing THEN Overwritten(q.form, monitors[m])
                                              ELSE monitors[m]]
         /\ UNCHANGED channels
         /\ Admin!Answer(r, IF q.ids \subseteq Admin!Existing THEN "ok" ELSE "missing")
  BY <1>1 DEF Admin!UpdateMonitor, Admin!Updated, Overwritten
<1> QED
  BY <1>3, <1>4, <1>5

\* A deletion is one transaction; a single monitor that is gone is missing (DeleteMonitorCascade).
LEMMA DeleteStep ==
  ASSUME AdminInv, NEW r \in Submissions, Admin!DeleteMonitors(r)
  PROVE  AdminInv'
<1>1. PICK q : q = submission[r]
  OBVIOUS
<1>2. /\ AskTyped(q) /\ AskSound(q, monitors, channels) /\ RowsTyped(monitors)
      /\ q.stage \in {"delete", "batchDelete"} /\ q.op = q.stage
  BY <1>1, StageTells DEF AdminInv, AskTyped, Admin!DeleteMonitors, Admin!At
<1>3. CASE Admin!Fail(r)
  BY <1>1, <1>2, <1>3, FailSound DEF Admin!Fail
<1>4. ASSUME monitors' = [m \in MonitorIds |-> IF m \in q.ids THEN Admin!NoMonitor ELSE monitors[m]],
             UNCHANGED channels, Admin!Answer(r, "ok")
      PROVE  AdminInv'
  <2>1. PICK d : d = Ask(q.op, "done", q.ids, q.form, q.channel, q.seen, "ok", q.before)
    OBVIOUS
  <2>2. d.op = q.op /\ d.ids = q.ids /\ d.form = q.form /\ d.reply = "ok" /\ d.before = q.before
    BY <2>1, AskParts
  <2>3. RowsTyped(monitors')
    BY <1>2, <1>4, FreeRow DEF RowsTyped
  <2>4. ASSUME q.before # <<>> PROVE Applied(d, monitors', channels')
    <3>1. monitors = q.before[1] /\ channels = q.before[2]
      BY <1>2, <2>4 DEF AskSound
    <3>2. ASSUME NEW m \in MonitorIds PROVE monitors'[m] = Admin!Promised(d, m, q.before[1][m])
      <4>1. PICK b : b = q.before[1][m]
        OBVIOUS
      <4>2. CASE m \in q.ids
        <5>1. Admin!Promised(d, m, b) = Admin!NoMonitor
          BY <1>2, <2>2, <4>2, PromisedDelete
        <5> QED
          BY <1>4, <4>1, <4>2, <5>1
      <4>3. CASE m \notin q.ids
        <5>1. Admin!Promised(d, m, b) = b
          BY <1>2, <2>2, <4>3, PromisedSame DEF Admin!MonitorOps, Admin!BatchOps
        <5> QED
          BY <1>4, <3>1, <4>1, <4>3, <5>1
      <4> QED
        BY <4>2, <4>3
    <3>3. d.op \in Admin!MonitorOps \cup Admin!BatchOps
      BY <1>2, <2>2 DEF Admin!MonitorOps, Admin!BatchOps
    <3> QED
      BY <1>4, <2>2, <3>1, <3>2, <3>3, AppliedDone
  <2> QED
    BY <1>1, <1>2, <1>4, <2>1, <2>3, <2>4, AnswerSound
<1>5. ASSUME q.op = "delete", ~(q.ids \subseteq Admin!Existing), UNCHANGED Admin!rows, Admin!Answer(r, "missing")
      PROVE  AdminInv'
  <2>1. PICK d : d = Ask(q.op, "done", q.ids, q.form, q.channel, q.seen, "missing", q.before)
    OBVIOUS
  <2>2. q.before = <<>>
    BY <1>2, <1>5 DEF AskSound, OnMonitors, Admin!Existing
  <2>3. RowsTyped(monitors')
    BY <1>2, <1>5 DEF Admin!rows
  <2> QED
    BY <1>1, <1>2, <1>5, <2>1, <2>2, <2>3, AnswerSound
<1> QED
  BY <1>1, <1>2, <1>3, <1>4, <1>5 DEF Admin!DeleteMonitors, Admin!At

\* A row switched or cleared is a row that exists as before and tells the same channels.
LEMMA RowSwitched ==
  ASSUME NEW b \in Admin!Row, NEW x, x = On(b) \/ x = Off(b)
  PROVE  x \in Admin!Row /\ x.exists = b.exists /\ x.routes = b.routes /\ x.count = b.count
  BY RowOn DEF On, Off

LEMMA RowCleared ==
  ASSUME NEW b \in Admin!Row, NEW x, x = Cleared(b)
  PROVE  /\ x \in Admin!Row /\ x.exists = b.exists /\ x.routes = b.routes
         /\ b.count = "zero" => x = b
<1>1. "zero" \in Admin!Counts
  BY DEF Admin!Counts
<1> QED
  BY <1>1, RowCounted DEF Cleared

\* A request goes on to another statement.
LEMMA ThenSound ==
  ASSUME AdminInv, NEW r \in Submissions, NEW q, q = submission[r], NEW s \in Stages(q.op),
         s \notin {"new", "rewrite"}, Admin!Then(r, s), RowsTyped(monitors'),
         NEW d, d = Ask(q.op, s, q.ids, q.form, q.channel, q.seen, q.reply, q.before),
         AskSound(d, monitors', channels')
  PROVE  AdminInv'
<1>1. AskTyped(q) /\ q = SameAsk(q)
  BY DEF AdminInv, AskTyped
<1>2. /\ d = SameAsk(d) /\ d.op = q.op /\ d.stage = s /\ d.ids = q.ids /\ d.form = q.form
      /\ d.seen = q.seen /\ d.before = q.before
  BY AskParts
<1>3. Admin!Proceed(r, d)
  BY <1>1, AskMoved DEF Admin!Then
<1>4. AskTyped(d)
  BY <1>1, <1>2 DEF AskTyped
<1> QED
  BY <1>3, <1>4, ProceedSound

\* Pausing and resuming switch the rows that exist; a pause goes on to the counts (SetMonitorEnabled).
LEMMA EnableStep ==
  ASSUME AdminInv, NEW r \in Submissions, Admin!SetMonitorsEnabled(r)
  PROVE  AdminInv'
<1>0. PICK q : q = submission[r]
  OBVIOUS
<1> DEFINE resumes == q.op \in {"resume", "batchResume"}
           batch == q.op \in Admin!BatchOps
           sw(b) == IF resumes THEN On(b) ELSE Off(b)
<1>1. q = submission[r]
  BY <1>0
<1>2. /\ AskTyped(q) /\ AskSound(q, monitors, channels) /\ RowsTyped(monitors)
      /\ q.stage \in {"pause", "resume", "batchPause", "batchResume"} /\ q.op = q.stage
  BY <1>1, StageTells DEF AdminInv, AskTyped, Admin!SetMonitorsEnabled, Admin!At
<1>5. CASE Admin!Fail(r)
  BY <1>1, <1>2, <1>5, FailSound DEF Admin!Fail
<1>6. ASSUME monitors' = [m \in MonitorIds |-> IF m \in q.ids \cap Admin!Existing THEN sw(monitors[m])
                                               ELSE monitors[m]],
             UNCHANGED channels,
             IF ~batch /\ ~(q.ids \subseteq Admin!Existing) THEN Admin!Answer(r, "missing")
             ELSE IF resumes THEN Admin!Answer(r, "ok")
             ELSE Admin!Then(r, IF batch THEN "resetCounts" ELSE "getState")
      PROVE  AdminInv'
  <2>1. RowsTyped(monitors')
    <3>1. ASSUME NEW m \in MonitorIds
          PROVE  monitors'[m] \in Admin!Row /\ (~monitors'[m].exists => monitors'[m].routes = {})
      <4>1. PICK k : k = sw(monitors[m])
        OBVIOUS
      <4>2. monitors[m] \in Admin!Row /\ (~monitors[m].exists => monitors[m].routes = {})
        BY <1>2 DEF RowsTyped
      <4>3. k \in Admin!Row /\ k.exists = monitors[m].exists /\ k.routes = monitors[m].routes
        BY <4>1, <4>2, RowSwitched
      <4>4. monitors'[m] = k \/ monitors'[m] = monitors[m]
        BY <1>6, <4>1
      <4> QED
        BY <4>2, <4>3, <4>4
    <3>2. monitors' = [m \in MonitorIds |-> monitors'[m]]
      BY <1>6
    <3> QED
      BY <3>1, <3>2 DEF RowsTyped
  <2>2. ASSUME q.before # <<>>
        PROVE  /\ monitors = q.before[1] /\ channels = q.before[2] /\ q.ids \subseteq Admin!Existing
               /\ monitors' = [m \in MonitorIds |-> IF m \in q.ids THEN sw(q.before[1][m])
                                                    ELSE q.before[1][m]]
    <3>1. monitors = q.before[1] /\ channels = q.before[2]
      BY <1>2, <2>2 DEF AskSound
    <3>2. q.ids \subseteq Admin!Existing
      BY <1>2, <2>2, <3>1 DEF AskSound, OnMonitors, Admin!Existing
    <3> QED
      BY <1>6, <3>1, <3>2
  <2>3. CASE ~batch /\ ~(q.ids \subseteq Admin!Existing)
    <3>1. q.before = <<>> /\ Admin!Answer(r, "missing")
      BY <1>6, <2>2, <2>3
    <3>2. PICK d : d = Ask(q.op, "done", q.ids, q.form, q.channel, q.seen, "missing", q.before)
      OBVIOUS
    <3> QED
      BY <1>1, <1>2, <2>1, <3>1, <3>2, AnswerSound
  <2>4. CASE resumes /\ ~(~batch /\ ~(q.ids \subseteq Admin!Existing))
    <3>1. Admin!Answer(r, "ok") /\ q.op \in {"resume", "batchResume"}
      BY <1>6, <2>4
    <3>2. PICK d : d = Ask(q.op, "done", q.ids, q.form, q.channel, q.seen, "ok", q.before)
      OBVIOUS
    <3>3. d.op = q.op /\ d.ids = q.ids /\ d.reply = "ok" /\ d.before = q.before
      BY <3>2, AskParts
    <3>4. ASSUME q.before # <<>> PROVE Applied(d, monitors', channels')
      <4>1. ASSUME NEW m \in MonitorIds PROVE monitors'[m] = Admin!Promised(d, m, q.before[1][m])
        <5>1. PICK b : b = q.before[1][m]
          OBVIOUS
        <5>2. CASE m \in q.ids
          <6>1. Admin!Promised(d, m, b) = On(b)
            BY <3>1, <3>3, <5>2, PromisedResume
          <6> QED
            BY <2>2, <2>4, <3>4, <5>1, <5>2, <6>1
        <5>3. CASE m \notin q.ids
          <6>1. Admin!Promised(d, m, b) = b
            BY <3>1, <3>3, <5>3, PromisedSame DEF Admin!MonitorOps, Admin!BatchOps
          <6> QED
            BY <2>2, <3>4, <5>1, <5>3, <6>1
        <5> QED
          BY <5>2, <5>3
      <4>2. d.op \in Admin!MonitorOps \cup Admin!BatchOps
        BY <3>1, <3>3 DEF Admin!MonitorOps, Admin!BatchOps
      <4> QED
        BY <1>6, <2>2, <3>3, <3>4, <4>1, <4>2, AppliedDone
    <3> QED
      BY <1>1, <1>2, <2>1, <3>1, <3>2, <3>4, AnswerSound
  <2>5. CASE ~resumes /\ ~(~batch /\ ~(q.ids \subseteq Admin!Existing))
    <3>1. PICK s : s = IF batch THEN "resetCounts" ELSE "getState"
      OBVIOUS
    <3>2. Admin!Then(r, s) /\ q.op = IF batch THEN "batchPause" ELSE "pause"
      BY <1>2, <1>6, <2>5, <3>1 DEF Admin!BatchOps
    <3>3. s \in Stages(q.op) /\ s \notin {"new", "rewrite"}
      BY <3>1, <3>2 DEF Stages
    <3>4. PICK d : d = Ask(q.op, s, q.ids, q.form, q.channel, q.seen, q.reply, q.before)
      OBVIOUS
    <3>5. d.op = q.op /\ d.stage = s /\ d.ids = q.ids /\ d.before = q.before
      BY <3>4, AskParts
    <3>6. ASSUME q.before # <<>> PROVE AskSound(d, monitors', channels')
      <4>1. /\ s \in {"resetCounts", "getState"} /\ channels' = q.before[2]
            /\ monitors' = [m \in MonitorIds |-> IF m \in q.ids THEN Off(q.before[1][m])
                                                 ELSE q.before[1][m]]
        BY <1>6, <2>2, <2>5, <3>1, <3>6
      <4>2. RowsTyped(q.before[1]) /\ q.ids \subseteq {m \in MonitorIds : q.before[1][m].exists}
        BY <1>2, <3>6 DEF AskSound, OnMonitors
      <4> QED
        BY <3>5, <4>1, <4>2 DEF AskSound
    <3>7. AskSound(d, monitors', channels')
      BY <3>5, <3>6 DEF AskSound
    <3> QED
      BY <1>1, <2>1, <3>2, <3>3, <3>4, <3>7, ThenSound
  <2> QED
    BY <2>3, <2>4, <2>5
<1>7. \/ Admin!Fail(r)
      \/ /\ monitors' = [m \in MonitorIds |-> IF m \in q.ids \cap Admin!Existing THEN sw(monitors[m])
                                              ELSE monitors[m]]
         /\ UNCHANGED channels
         /\ IF ~batch /\ ~(q.ids \subseteq Admin!Existing) THEN Admin!Answer(r, "missing")
            ELSE IF resumes THEN Admin!Answer(r, "ok")
            ELSE Admin!Then(r, IF batch THEN "resetCounts" ELSE "getState")
  <2>1. CASE resumes
    <3>1. (q.op \in {"resume", "batchResume"}) = TRUE
      BY <2>1
    <3> QED
      BY <1>1, <2>1, <3>1 DEF Admin!SetMonitorsEnabled, Admin!Updated, On
  <2>2. CASE ~resumes
    <3>1. (q.op \in {"resume", "batchResume"}) = FALSE
      BY <2>2
    <3> QED
      BY <1>1, <2>2, <3>1 DEF Admin!SetMonitorsEnabled, Admin!Updated, Off
  <2> QED
    BY <2>1, <2>2
<1> QED
  BY <1>5, <1>6, <1>7

\* A pause is done: switched off, and the counts cleared where that worked.
LEMMA PauseSound ==
  ASSUME AdminInv, NEW r \in Submissions, NEW q, q = submission[r],
         q.stage \in {"getState", "putState", "resetCounts"}, NEW reply \in {"ok", "okay"},
         Admin!Answer(r, reply), UNCHANGED channels, RowsTyped(monitors'),
         q.before # <<>> =>
           \A m \in MonitorIds : monitors'[m] =
             IF m \in q.ids /\ reply = "ok" /\ monitors[m].count = "some" THEN Cleared(monitors[m]) ELSE monitors[m]
  PROVE  AdminInv'
<1>1. AskTyped(q) /\ AskSound(q, monitors, channels) /\ q.op \in {"pause", "batchPause"}
  BY StageTells DEF AdminInv
<1>2. PICK d : d = Ask(q.op, "done", q.ids, q.form, q.channel, q.seen, reply, q.before)
  OBVIOUS
<1>3. d.op = q.op /\ d.ids = q.ids /\ d.reply = reply /\ d.before = q.before
  BY <1>2, AskParts
<1>4. ASSUME q.before # <<>> PROVE Applied(d, monitors', channels')
  <2>1. /\ channels = q.before[2] /\ RowsTyped(q.before[1])
        /\ monitors = [m \in MonitorIds |-> IF m \in q.ids THEN Off(q.before[1][m])
                                            ELSE q.before[1][m]]
    BY <1>1, <1>4 DEF AskSound
  <2>2. ASSUME NEW m \in MonitorIds PROVE monitors'[m] = Admin!Promised(d, m, q.before[1][m])
    <3>1. PICK b : b = q.before[1][m]
      OBVIOUS
    <3>2. b \in Admin!Row
      BY <2>1, <3>1 DEF RowsTyped
    <3>3. CASE m \in q.ids
      <4>1. PICK x : x = Off(b)
        OBVIOUS
      <4>2. x.count = b.count /\ monitors[m] = x
        BY <2>1, <3>1, <3>2, <3>3, <4>1, RowSwitched
      <4>3. Admin!Promised(d, m, b) = IF reply = "ok" /\ b.count = "some" THEN Cleared(x) ELSE x
        BY <1>1, <1>3, <3>2, <3>3, <4>1, PromisedPause
      <4> QED
        BY <1>4, <3>1, <3>3, <4>2, <4>3
    <3>4. CASE m \notin q.ids
      <4>1. Admin!Promised(d, m, b) = b
        BY <1>1, <1>3, <3>4, PromisedSame DEF Admin!MonitorOps, Admin!BatchOps
      <4> QED
        BY <1>4, <2>1, <3>1, <3>4, <4>1
    <3> QED
      BY <3>3, <3>4
  <2>3. d.op \in Admin!MonitorOps \cup Admin!BatchOps
    BY <1>1, <1>3 DEF Admin!MonitorOps, Admin!BatchOps
  <2> QED
    BY <1>3, <2>1, <2>2, <2>3, AppliedDone
<1> QED
  BY <1>1, <1>2, <1>4, AnswerSound

\* A pause of many clears the counts of those that have one (ResetMonitorsConsecutive).
LEMMA ResetStep ==
  ASSUME AdminInv, NEW r \in Submissions, Admin!ResetMonitorsConsecutive(r)
  PROVE  AdminInv'
<1>1. PICK q : q = submission[r]
  OBVIOUS
<1>2. RowsTyped(monitors) /\ q.stage = "resetCounts"
  BY <1>1 DEF AdminInv, Admin!ResetMonitorsConsecutive, Admin!At
<1>3. CASE UNCHANGED Admin!rows /\ Admin!Answer(r, "okay")
  BY <1>1, <1>2, <1>3, PauseSound DEF Admin!rows
<1>4. ASSUME monitors' = [m \in MonitorIds |-> IF m \in q.ids /\ monitors[m].count # "none" THEN Cleared(monitors[m])
                                               ELSE monitors[m]],
             UNCHANGED channels, Admin!Answer(r, "ok")
      PROVE  AdminInv'
  <2>1. ASSUME NEW m \in MonitorIds
        PROVE  /\ monitors'[m] \in Admin!Row /\ (~monitors'[m].exists => monitors'[m].routes = {})
               /\ monitors'[m] = IF m \in q.ids /\ monitors[m].count = "some" THEN Cleared(monitors[m])
                                 ELSE monitors[m]
    <3>1. PICK b, x : b = monitors[m] /\ x = Cleared(b)
      OBVIOUS
    <3>2. b \in Admin!Row /\ (~b.exists => b.routes = {}) /\ b.count \in Admin!Counts
      BY <1>2, <3>1 DEF RowsTyped, Admin!Row
    <3>3. x \in Admin!Row /\ x.exists = b.exists /\ x.routes = b.routes /\ (b.count = "zero" => x = b)
      BY <3>1, <3>2, RowCleared
    <3>4. monitors'[m] = IF m \in q.ids /\ b.count # "none" THEN x ELSE b
      BY <1>4, <3>1
    <3> QED
      BY <3>1, <3>2, <3>3, <3>4 DEF Admin!Counts
  <2>2. RowsTyped(monitors')
    BY <1>4, <2>1 DEF RowsTyped
  <2> QED
    BY <1>1, <1>2, <1>4, <2>1, <2>2, PauseSound
<1> QED
  BY <1>1, <1>3, <1>4 DEF Admin!ResetMonitorsConsecutive, Cleared

\* A pause of one looks for a state first (GetMonitorState).
LEMMA GetStep ==
  ASSUME AdminInv, NEW r \in Submissions, Admin!GetMonitorState(r)
  PROVE  AdminInv'
<1>1. PICK q : q = submission[r]
  OBVIOUS
<1>2. /\ AskTyped(q) /\ AskSound(q, monitors, channels) /\ RowsTyped(monitors)
      /\ q.stage = "getState" /\ q.op = "pause"
  BY <1>1, StageTells DEF AdminInv, Admin!GetMonitorState, Admin!At
<1>3. monitors' = monitors /\ channels' = channels
  BY DEF Admin!GetMonitorState, Admin!rows
<1>4. CASE Admin!Answer(r, "okay")
  BY <1>1, <1>2, <1>3, <1>4, PauseSound
<1>5. CASE Admin!Answer(r, "ok") /\ \E m \in q.ids : monitors[m].count = "none"
  <2>1. \A m \in MonitorIds : m \in q.ids => monitors[m].count # "some"
    BY <1>2, <1>5 DEF AskTyped
  <2> QED
    BY <1>1, <1>2, <1>3, <1>5, <2>1, PauseSound
<1>6. CASE Admin!Then(r, "putState") /\ \A m \in q.ids : monitors[m].count # "none"
  <2>1. PICK d : d = Ask(q.op, "putState", q.ids, q.form, q.channel, q.seen, q.reply, q.before)
    OBVIOUS
  <2>2. d.op = q.op /\ d.stage = "putState" /\ d.ids = q.ids /\ d.before = q.before
    BY <2>1, AskParts
  <2>3. AskSound(d, monitors', channels')
    BY <1>2, <1>3, <1>6, <2>2 DEF AskSound
  <2>4. "putState" \in Stages(q.op)
    BY <1>2 DEF Stages
  <2> QED
    BY <1>1, <1>2, <1>3, <1>6, <2>1, <2>3, <2>4, ThenSound
<1> QED
  BY <1>1, <1>4, <1>5, <1>6 DEF Admin!GetMonitorState

\* A pause of one writes the state back with its count cleared (PutMonitorState).
LEMMA PutStep ==
  ASSUME AdminInv, NEW r \in Submissions, Admin!PutMonitorState(r)
  PROVE  AdminInv'
<1>1. PICK q : q = submission[r]
  OBVIOUS
<1>2. AskSound(q, monitors, channels) /\ RowsTyped(monitors) /\ q.stage = "putState"
  BY <1>1 DEF AdminInv, Admin!PutMonitorState, Admin!At
<1>3. CASE UNCHANGED Admin!rows /\ Admin!Answer(r, "okay")
  BY <1>1, <1>2, <1>3, PauseSound DEF Admin!rows
<1>4. ASSUME monitors' = [m \in MonitorIds |-> IF m \in q.ids THEN Cleared(monitors[m]) ELSE monitors[m]],
             UNCHANGED channels, Admin!Answer(r, "ok")
      PROVE  AdminInv'
  <2>1. ASSUME NEW m \in MonitorIds
        PROVE  /\ monitors'[m] \in Admin!Row /\ (~monitors'[m].exists => monitors'[m].routes = {})
               /\ q.before # <<>> =>
                    monitors'[m] = IF m \in q.ids /\ monitors[m].count = "some" THEN Cleared(monitors[m])
                                   ELSE monitors[m]
    <3>1. PICK b, x : b = monitors[m] /\ x = Cleared(b)
      OBVIOUS
    <3>2. b \in Admin!Row /\ (~b.exists => b.routes = {}) /\ b.count \in Admin!Counts
      BY <1>2, <3>1 DEF RowsTyped, Admin!Row
    <3>3. x \in Admin!Row /\ x.exists = b.exists /\ x.routes = b.routes /\ (b.count = "zero" => x = b)
      BY <3>1, <3>2, RowCleared
    <3>4. monitors'[m] = IF m \in q.ids THEN x ELSE b
      BY <1>4, <3>1
    <3>5. q.before # <<>> /\ m \in q.ids => b.count # "none"
      BY <1>2, <3>1 DEF AskSound
    <3> QED
      BY <3>1, <3>2, <3>3, <3>4, <3>5 DEF Admin!Counts
  <2>2. RowsTyped(monitors')
    BY <1>4, <2>1 DEF RowsTyped
  <2> QED
    BY <1>1, <1>2, <1>4, <2>1, <2>2, PauseSound
<1> QED
  BY <1>1, <1>3, <1>4 DEF Admin!PutMonitorState, Cleared

\* The channels with one of them written.
ChannelsWritten(q, chans) == \A c \in ChannelIds : chans[c] = Admin!PromisedChannel(q, c, channels[c])

\* The requests that write one column or one row of a channel, or do not find it.
LEMMA ChannelSound ==
  ASSUME AdminInv, NEW r \in Submissions, NEW q, q = submission[r],
         q.op \in Admin!ChannelOps \ {"deleteChannel", "applyAll"}, q.stage # "done",
         NEW reply \in {"ok", "missing", "error"}, Admin!Answer(r, reply),
         UNCHANGED monitors, IF reply = "ok" THEN ChannelsWritten(q, channels') ELSE UNCHANGED channels
  PROVE  AdminInv'
<1>1. AskSound(q, monitors, channels) /\ RowsTyped(monitors) /\ q.op # "none"
      /\ q.stage \in Stages(q.op)
  BY DEF AdminInv, AskTyped, Admin!ChannelOps, Admin!SwitchOps
<1>2. PICK d : d = Ask(q.op, "done", q.ids, q.form, q.channel, q.seen, reply, q.before)
  OBVIOUS
<1>3. d.op = q.op /\ d.ids = q.ids /\ d.channel = q.channel /\ d.reply = reply /\ d.before = q.before
  BY <1>2, AskParts
<1>4. q.stage \notin {"getState", "putState", "resetCounts", "list", "rewrite", "reread", "done"}
  BY <1>1 DEF Stages, Admin!ChannelOps, Admin!SwitchOps
<1>5. ASSUME q.before # <<>> PROVE Applied(d, monitors', channels')
  <2>1. monitors' = q.before[1] /\ channels = q.before[2]
    BY <1>1, <1>4, <1>5 DEF AskSound
  <2>2. CASE reply = "ok"
    <3>1. MonitorsServed(d, monitors')
      BY <1>3, <2>1, PromisedSame DEF MonitorsServed
    <3>2. ChannelsServed(q, channels')
      BY <2>1, <2>2 DEF ChannelsServed, ChannelsWritten
    <3>3. ChannelsServed(d, channels')
      BY <1>3, <3>2, ServedAlike
    <3> QED
      BY <1>3, <2>2, <3>1, <3>3 DEF Applied
  <2>3. CASE reply # "ok"
    BY <1>3, <2>1, <2>3 DEF Applied
  <2> QED
    BY <2>2, <2>3
<1> QED
  BY <1>1, <1>2, <1>5, AnswerSound

\* A channel's row is written (InsertChannel, UpdateChannel).
LEMMA WriteStep ==
  ASSUME AdminInv, NEW r \in Submissions, Admin!WriteChannel(r)
  PROVE  AdminInv'
<1>1. PICK q : q = submission[r]
  OBVIOUS
<1>2. q.stage = "write" /\ q.op \in {"addChannel", "editChannel"}
  BY <1>1, StageTells DEF Admin!WriteChannel, Admin!At
<1>3. CASE Admin!PutChannel(r, q.channel) /\ Admin!Answer(r, "ok") /\ UNCHANGED monitors
  <2>1. ASSUME NEW c \in ChannelIds PROVE channels'[c] = Admin!PromisedChannel(q, c, channels[c])
    <3>1. channels'[c] = IF c \in q.ids THEN q.channel ELSE channels[c]
      BY <1>1, <1>3, <2>1 DEF Admin!PutChannel
    <3>2. q.op \in {"addChannel", "editChannel"} /\ q.op \notin Admin!SwitchOps /\ q.op # "deleteChannel"
      BY <1>2 DEF Admin!SwitchOps
    <3>3. c \in q.ids => Admin!PromisedChannel(q, c, channels[c]) = q.channel
      BY <3>2 DEF Admin!PromisedChannel
    <3>4. c \notin q.ids => Admin!PromisedChannel(q, c, channels[c]) = channels[c]
      BY <3>2 DEF Admin!PromisedChannel
    <3> QED
      BY <3>1, <3>3, <3>4
  <2>2. ChannelsWritten(q, channels')
    BY <2>1 DEF ChannelsWritten
  <2> QED
    BY <1>1, <1>2, <1>3, <2>2, ChannelSound DEF Admin!ChannelOps
<1>4. CASE Admin!Answer(r, "error") /\ UNCHANGED Admin!rows
  BY <1>1, <1>2, <1>4, ChannelSound DEF Admin!ChannelOps, Admin!rows
<1> QED
  BY <1>1, <1>3, <1>4 DEF Admin!WriteChannel, Admin!Fail, Admin!rows

\* A channel's switch is set (SetChannelEnabled, SetChannelAgentNotify).
LEMMA SwitchStep ==
  ASSUME AdminInv, NEW r \in Submissions, Admin!SetSwitch(r)
  PROVE  AdminInv'
<1>1. PICK q : q = submission[r]
  OBVIOUS
<1>2. q.stage \in Admin!SwitchOps /\ q.op = q.stage
  BY <1>1, StageTells DEF Admin!SetSwitch, Admin!At, Admin!SwitchOps
<1>3. q.op \in Admin!ChannelOps \ {"deleteChannel", "applyAll"} /\ q.op \notin {"addChannel", "editChannel"}
      /\ q.stage # "done"
  BY <1>2 DEF Admin!ChannelOps, Admin!SwitchOps
<1>4. CASE /\ channels' = [c \in ChannelIds |-> IF c \in q.ids THEN Admin!Switch(q.op, channels[c]) ELSE channels[c]]
           /\ Admin!Answer(r, "ok") /\ UNCHANGED monitors
  <2>1. ChannelsWritten(q, channels')
    BY <1>2, <1>3, <1>4 DEF ChannelsWritten, Admin!PromisedChannel
  <2> QED
    BY <1>1, <1>3, <1>4, <2>1, ChannelSound
<1>5. ASSUME NEW reply \in {"missing", "error"}, Admin!Answer(r, reply), UNCHANGED Admin!rows PROVE AdminInv'
  BY <1>1, <1>3, <1>5, ChannelSound DEF Admin!rows
<1> QED
  BY <1>1, <1>4, <1>5 DEF Admin!SetSwitch, Admin!Fail, Admin!rows

\* A channel's row goes before its routes (DeleteChannelDetach).
LEMMA DeleteChannelStep ==
  ASSUME AdminInv, NEW r \in Submissions, Admin!DeleteChannel(r)
  PROVE  AdminInv'
<1>1. PICK q : q = submission[r]
  OBVIOUS
<1>2. /\ AskTyped(q) /\ AskSound(q, monitors, channels) /\ RowsTyped(monitors)
      /\ q.stage = "deleteChannel" /\ q.op = "deleteChannel"
  BY <1>1, StageTells DEF AdminInv, Admin!DeleteChannel, Admin!At
<1>3. CASE UNCHANGED Admin!rows /\ (Admin!Answer(r, "error") \/ Admin!Answer(r, "missing"))
  BY <1>1, <1>2, <1>3, FailSound
<1>4. CASE UNCHANGED monitors /\ Admin!PutChannel(r, Admin!NoChannel) /\ Admin!Then(r, "list")
  <2>1. PICK d : d = Ask(q.op, "list", q.ids, q.form, q.channel, q.seen, q.reply, q.before)
    OBVIOUS
  <2>2. d.op = q.op /\ d.stage = "list" /\ d.ids = q.ids /\ d.before = q.before
    BY <2>1, AskParts
  <2>3. ASSUME q.before # <<>> PROVE ChannelsServed(d, channels')
    <3>1. channels = q.before[2]
      BY <1>2, <2>3 DEF AskSound
    <3> QED
      BY <1>1, <1>2, <1>4, <2>2, <3>1 DEF Admin!PutChannel, ChannelsServed, Admin!PromisedChannel, Admin!SwitchOps
  <2>4. AskSound(d, monitors', channels')
    BY <1>2, <1>4, <2>2, <2>3 DEF AskSound, OnMonitors
  <2>5. "list" \in Stages(q.op)
    BY <1>2 DEF Stages
  <2> QED
    BY <1>1, <1>2, <1>4, <2>1, <2>4, <2>5, ThenSound
<1> QED
  BY <1>3, <1>4 DEF Admin!DeleteChannel, Admin!Fail, Admin!rows

\* Applying a channel to all monitors begins with a look at it (applyChannelToAllMonitors).
LEMMA FindStep ==
  ASSUME AdminInv, NEW r \in Submissions, Admin!FindChannel(r)
  PROVE  AdminInv'
<1>1. PICK q : q = submission[r]
  OBVIOUS
<1>2. /\ AskTyped(q) /\ AskSound(q, monitors, channels) /\ RowsTyped(monitors)
      /\ q.stage = "applyAll" /\ q.op = "applyAll"
  BY <1>1, StageTells DEF AdminInv, Admin!FindChannel, Admin!At
<1>3. CASE UNCHANGED Admin!rows /\ (Admin!Answer(r, "error") \/ Admin!Answer(r, "missing"))
  BY <1>1, <1>2, <1>3, FailSound
<1>4. CASE UNCHANGED Admin!rows /\ Admin!Then(r, "list")
  <2>1. PICK d : d = Ask(q.op, "list", q.ids, q.form, q.channel, q.seen, q.reply, q.before)
    OBVIOUS
  <2>2. d.op = q.op /\ d.stage = "list" /\ d.ids = q.ids /\ d.before = q.before
    BY <2>1, AskParts
  <2>3. monitors' = monitors /\ channels' = channels
    BY <1>4 DEF Admin!rows
  <2>4. AskSound(d, monitors', channels')
    BY <1>2, <2>2, <2>3 DEF AskSound, OnMonitors
  <2>5. "list" \in Stages(q.op)
    BY <1>2 DEF Stages
  <2> QED
    BY <1>1, <1>2, <1>4, <2>1, <2>3, <2>4, <2>5, ThenSound
<1> QED
  BY <1>3, <1>4 DEF Admin!FindChannel

\* A row with other routes.
LEMMA RowRoute ==
  ASSUME NEW b \in Admin!Row, NEW cs \in SUBSET ChannelIds, NEW x, x = Routed(b, cs)
  PROVE  x \in Admin!Row /\ x.exists = b.exists /\ (cs = b.routes => x = b)
  BY RowRouted DEF Routed

\* What the request does to the routes of a monitor: nothing to one that is not to be done.
LEMMA PromisedRoutes ==
  ASSUME NEW q, AskTyped(q), q.op \in {"applyAll", "deleteChannel"}, NEW was, RowsTyped(was),
         NEW m \in MonitorIds, NEW b, b = was[m],
         NEW cs, cs = (IF q.op = "applyAll" THEN b.routes \cup q.ids ELSE b.routes \ q.ids)
  PROVE  /\ b \in Admin!Row /\ cs \in SUBSET ChannelIds
         /\ Admin!Promised(q, m, b) = IF m \in ToDo(q, was) THEN Routed(b, cs) ELSE b
<1>1. b \in Admin!Row /\ b.routes \subseteq ChannelIds /\ (~b.exists => b.routes = {})
  BY DEF RowsTyped, Admin!Row
<1>2. PICK c \in ChannelIds : q.ids = {c}
  BY DEF AskTyped
<1>3. cs \in SUBSET ChannelIds
  BY <1>1, <1>2
<1>4. PICK x : x = Routed(b, cs)
  OBVIOUS
<1>5. m \notin ToDo(q, was) /\ (q.op = "applyAll" => b.exists) => cs = b.routes
  BY <1>1, <1>2 DEF ToDo
<1>6. cs = b.routes => x = b
  BY <1>1, <1>3, <1>4, RowRoute
<1>7. CASE q.op = "applyAll" /\ b.exists
  <2>1. Admin!Promised(q, m, b) = x
    BY <1>4, <1>7, PromisedAttach
  <2> QED
    BY <1>1, <1>3, <1>4, <1>5, <1>6, <1>7, <2>1
<1>8. CASE q.op = "applyAll" /\ ~b.exists
  <2>1. Admin!Promised(q, m, b) = b /\ m \notin ToDo(q, was)
    BY <1>8, PromisedSame DEF ToDo
  <2> QED
    BY <1>1, <1>3, <2>1
<1>9. CASE q.op = "deleteChannel"
  <2>1. Admin!Promised(q, m, b) = x
    BY <1>4, <1>9, PromisedDetach
  <2> QED
    BY <1>1, <1>3, <1>4, <1>5, <1>6, <1>9, <2>1
<1> QED
  BY <1>7, <1>8, <1>9

\* The routes to rewrite are those of the monitors that need it (ListRoutes).
LEMMA ListStep ==
  ASSUME AdminInv, NEW r \in Submissions, Admin!ListRoutes(r)
  PROVE  AdminInv'
<1>1. PICK q : q = submission[r]
  OBVIOUS
<1>2. /\ AskTyped(q) /\ AskSound(q, monitors, channels) /\ RowsTyped(monitors) /\ q = SameAsk(q)
      /\ q.stage = "list" /\ q.op \in {"applyAll", "deleteChannel"}
      /\ monitors' = monitors /\ channels' = channels
  BY <1>1, StageTells DEF AdminInv, Admin!ListRoutes, Admin!At, Admin!rows, AskTyped
<1>3. PICK due : due = ToDo(q, monitors)
  OBVIOUS
<1>4. due = {m \in Admin!Existing : IF q.op = "applyAll" THEN ~(q.ids \subseteq monitors[m].routes)
                                     ELSE q.ids \subseteq monitors[m].routes}
  BY <1>3 DEF ToDo, Admin!Existing
<1>5. CASE Admin!Answer(r, "error")
  BY <1>1, <1>2, <1>5, FailSound DEF Admin!rows
<1>6. CASE due = {} /\ Admin!Answer(r, "ok")
  <2>1. PICK d : d = Ask(q.op, "done", q.ids, q.form, q.channel, q.seen, "ok", q.before)
    OBVIOUS
  <2>2. /\ d = SameAsk(d) /\ d.op = q.op /\ d.ids = q.ids /\ d.form = q.form /\ d.reply = "ok" /\ d.channel = q.channel
        /\ d.before = q.before /\ d.stage = "done" /\ d.seen = q.seen
    BY <2>1, AskParts
  <2>3. AskTyped(d)
    BY <1>2, <2>2 DEF AskTyped, Stages
  <2>4. ASSUME q.before # <<>> PROVE Applied(d, monitors', channels')
    <3>1. /\ monitors = q.before[1] /\ RowsTyped(q.before[1])
          /\ IF q.op = "applyAll" THEN channels = q.before[2] ELSE ChannelsServed(q, channels)
      BY <1>2, <2>4 DEF AskSound
    <3>2. ToDo(d, monitors) = {}
      BY <1>3, <1>6, <2>2 DEF ToDo
    <3>3. ASSUME NEW m \in MonitorIds PROVE monitors'[m] = Admin!Promised(d, m, q.before[1][m])
      <4>1. PICK b, cs : b = monitors[m] /\ cs = IF d.op = "applyAll" THEN b.routes \cup d.ids ELSE b.routes \ d.ids
        OBVIOUS
      <4>2. Admin!Promised(d, m, b) = b
        BY <1>2, <2>2, <2>3, <3>2, <4>1, PromisedRoutes
      <4> QED
        BY <1>2, <3>1, <4>1, <4>2
    <3>4. ChannelsServed(d, channels)
      <4>1. ASSUME q.op = "applyAll" PROVE ChannelsServed(q, channels)
        BY <3>1, <4>1, ChannelKept DEF ChannelsServed
      <4> QED
        BY <1>2, <2>2, <3>1, <4>1, ServedAlike
    <3>5. MonitorsServed(d, monitors')
      BY <2>2, <3>3 DEF MonitorsServed
    <3> QED
      BY <1>2, <2>2, <3>4, <3>5 DEF Applied
  <2> QED
    BY <1>1, <1>2, <1>6, <2>1, <2>4, AnswerSound
<1>7. ASSUME NEW n, n = [m \in due |-> monitors[m].routes],
             Admin!Proceed(r, [q EXCEPT !.stage = "rewrite", !.seen = n])
      PROVE  AdminInv'
  <2>1. PICK d : d = Ask(q.op, "rewrite", q.ids, q.form, q.channel, n, q.reply, q.before)
    OBVIOUS
  <2>2. /\ d = SameAsk(d) /\ d.op = q.op /\ d.ids = q.ids /\ d.form = q.form /\ d.channel = q.channel
        /\ d.before = q.before /\ d.stage = "rewrite" /\ d.seen = n
    BY <2>1, AskParts
  <2>3. Admin!Proceed(r, d)
    BY <1>2, <1>7, <2>1, AskSeen
  <2>4. AskTyped(d)
    <3>1. \A m \in DOMAIN n : n[m] \subseteq ChannelIds
      BY <1>2, <1>3, <1>7 DEF ToDo, RowsTyped, Admin!Row
    <3>2. "rewrite" \in Stages(q.op)
      BY <1>2 DEF Stages
    <3> QED
      BY <1>2, <2>2, <3>1, <3>2 DEF AskTyped
  <2>5. AskSound(d, monitors', channels')
    <3>1. ToDo(d, monitors) = due
      BY <1>3, <2>2 DEF ToDo
    <3>2. ASSUME q.before # <<>>
          PROVE  IF d.op = "applyAll" THEN channels = d.before[2] ELSE ChannelsServed(d, channels)
      BY <1>2, <2>2, <3>2, ServedAlike DEF AskSound
    <3> QED
      BY <1>2, <1>7, <2>2, <3>1, <3>2 DEF AskSound, OnMonitors
  <2> QED
    BY <1>2, <2>3, <2>4, <2>5, ProceedSound
<1> QED
  BY <1>1, <1>4, <1>5, <1>6, <1>7 DEF Admin!ListRoutes

\* The rows a rewriting leaves behind.
LEMMA RewrittenRows ==
  ASSUME RowsTyped(monitors), NEW q, AskTyped(q), q.op \in {"applyAll", "deleteChannel"}, q.stage = "rewrite", NEW cs,
         cs = [m \in DOMAIN q.seen |-> Admin!Routes(q, q.seen[m])],
         monitors' = [m \in MonitorIds |-> IF m \in DOMAIN q.seen \cap Admin!Existing
                                           THEN Routed(monitors[m], cs[m]) ELSE monitors[m]]
  PROVE  RowsTyped(monitors')
<1>1. ASSUME NEW m \in MonitorIds
      PROVE  monitors'[m] \in Admin!Row /\ (~monitors'[m].exists => monitors'[m].routes = {})
  <2>1. PICK b, k : b = monitors[m] /\ k = Routed(b, cs[m])
    OBVIOUS
  <2>2. b \in Admin!Row /\ (~b.exists => b.routes = {})
    BY <2>1 DEF RowsTyped
  <2>3. CASE m \in DOMAIN q.seen \cap Admin!Existing
    <3>1. q.seen[m] \subseteq ChannelIds /\ \E c \in ChannelIds : q.ids = {c}
      BY <2>3 DEF AskTyped
    <3>2. cs[m] \in SUBSET ChannelIds
      BY <2>3, <3>1 DEF Admin!Routes
    <3>3. k \in Admin!Row /\ k.exists = b.exists
      BY <2>1, <2>2, <3>2, RowRoute
    <3> QED
      BY <2>1, <2>3, <3>3 DEF Admin!Existing
  <2>4. CASE m \notin DOMAIN q.seen \cap Admin!Existing
    BY <2>1, <2>2, <2>4
  <2> QED
    BY <2>3, <2>4
<1>2. monitors' = [m \in MonitorIds |-> monitors'[m]]
  OBVIOUS
<1> QED
  BY <1>1, <1>2 DEF RowsTyped

\* And each of them is as the request promised.
LEMMA RewrittenPromise ==
  ASSUME NEW was, RowsTyped(was), was = monitors, NEW q, AskTyped(q), q.op \in {"applyAll", "deleteChannel"}, NEW cs,
         q.seen = [m \in ToDo(q, was) |-> was[m].routes],
         cs = [m \in DOMAIN q.seen |-> Admin!Routes(q, q.seen[m])],
         monitors' = [m \in MonitorIds |-> IF m \in DOMAIN q.seen \cap Admin!Existing
                                           THEN Routed(monitors[m], cs[m]) ELSE monitors[m]],
         NEW m \in MonitorIds
  PROVE  monitors'[m] = Admin!Promised(q, m, was[m])
<1>1. PICK b, rs : b = was[m] /\ rs = IF q.op = "applyAll" THEN b.routes \cup q.ids ELSE b.routes \ q.ids
  OBVIOUS
<1>2. Admin!Promised(q, m, b) = IF m \in ToDo(q, was) THEN Routed(b, rs) ELSE b
  BY <1>1, PromisedRoutes
<1>3. DOMAIN q.seen \cap Admin!Existing = ToDo(q, was)
  BY DEF ToDo, Admin!Existing
<1>4. ASSUME m \in ToDo(q, was) PROVE cs[m] = rs
  BY <1>1, <1>4 DEF Admin!Routes
<1> QED
  BY <1>1, <1>2, <1>3, <1>4

\* The routes that were read are written back with the channel, or without it
\* (AttachChannelToMonitors, DetachChannelFromMonitors).
LEMMA RewriteStep ==
  ASSUME AdminInv, NEW r \in Submissions, Admin!RewriteRoutes(r)
  PROVE  AdminInv'
<1>1. PICK q : q = submission[r]
  OBVIOUS
<1>2. /\ AskTyped(q) /\ AskSound(q, monitors, channels) /\ RowsTyped(monitors) /\ q = SameAsk(q)
      /\ q.stage = "rewrite" /\ q.op \in {"applyAll", "deleteChannel"}
  BY <1>1, StageTells DEF AdminInv, Admin!RewriteRoutes, Admin!At, AskTyped
<1>3. PICK cs : cs = [m \in DOMAIN q.seen |-> Admin!Routes(q, q.seen[m])]
  OBVIOUS
<1>4. CASE Admin!Fail(r)
  BY <1>1, <1>2, <1>4, FailSound DEF Admin!Fail
<1>5. ASSUME monitors' = [m \in MonitorIds |-> IF m \in DOMAIN q.seen \cap Admin!Existing
                                               THEN Routed(monitors[m], cs[m]) ELSE monitors[m]],
             UNCHANGED channels,
             IF q.op = "applyAll" THEN Admin!Then(r, "reread") ELSE Admin!Answer(r, "ok")
      PROVE  AdminInv'
  <2>1. RowsTyped(monitors')
    BY <1>2, <1>3, <1>5, RewrittenRows
  <2>2. ASSUME q.before # <<>>
        PROVE  /\ \A m \in MonitorIds : monitors'[m] = Admin!Promised(q, m, q.before[1][m])
               /\ IF q.op = "applyAll" THEN channels' = q.before[2] ELSE ChannelsServed(q, channels')
    <3>1. /\ monitors = q.before[1] /\ RowsTyped(q.before[1])
          /\ IF q.op = "applyAll" THEN channels = q.before[2] ELSE ChannelsServed(q, channels)
          /\ q.seen = [m \in ToDo(q, q.before[1]) |-> q.before[1][m].routes]
      BY <1>2, <2>2 DEF AskSound
    <3>2. PICK was : was = q.before[1]
      OBVIOUS
    <3>3. RowsTyped(was) /\ was = monitors /\ q.seen = [m \in ToDo(q, was) |-> was[m].routes]
      BY <3>1, <3>2
    <3>4. \A m \in MonitorIds : monitors'[m] = Admin!Promised(q, m, was[m])
      BY <1>2, <1>3, <1>5, <3>3, RewrittenPromise
    <3> QED
      BY <1>5, <3>1, <3>2, <3>4
  <2>3. CASE q.op = "deleteChannel"
    <3>1. PICK d : d = Ask(q.op, "done", q.ids, q.form, q.channel, q.seen, "ok", q.before)
      OBVIOUS
    <3>2. /\ d.op = q.op /\ d.ids = q.ids /\ d.form = q.form /\ d.reply = "ok" /\ d.channel = q.channel
          /\ d.before = q.before
      BY <3>1, AskParts
    <3>3. ASSUME q.before # <<>> PROVE Applied(d, monitors', channels')
      <4>1. ChannelsServed(d, channels')
        BY <2>2, <2>3, <3>2, <3>3, ServedAlike
      <4>2. ASSUME NEW m \in MonitorIds PROVE monitors'[m] = Admin!Promised(d, m, d.before[1][m])
        <5>1. PICK b : b = q.before[1][m]
          OBVIOUS
        <5>2. Admin!Promised(q, m, b) = Admin!Promised(d, m, b)
          BY <2>3, <3>2, PromisedDetach
        <5> QED
          BY <2>2, <3>2, <3>3, <5>1, <5>2
      <4>3. MonitorsServed(d, monitors')
        BY <4>2 DEF MonitorsServed
      <4> QED
        BY <3>2, <4>1, <4>3 DEF Applied
    <3>4. Admin!Answer(r, "ok") /\ q.op # "none"
      BY <1>5, <2>3
    <3> QED
      BY <1>1, <2>1, <3>1, <3>3, <3>4, AnswerSound
  <2>4. CASE q.op = "applyAll"
    <3>1. PICK d : d = Ask(q.op, "reread", q.ids, q.form, q.channel, q.seen, q.reply, q.before)
      OBVIOUS
    <3>2. d.op = q.op /\ d.stage = "reread" /\ d.ids = q.ids /\ d.before = q.before
      BY <3>1, AskParts
    <3>3. ASSUME q.before # <<>> PROVE channels' = d.before[2] /\ AllAttached(d, monitors')
      <4>1. channels' = q.before[2]
        BY <2>2, <2>4, <3>3
      <4>2. ASSUME NEW m \in MonitorIds PROVE monitors'[m] = Attached(d, q.before[1][m])
        <5>1. PICK b : b = q.before[1][m]
          OBVIOUS
        <5>2. Admin!Promised(q, m, b) = Attached(d, b)
          BY <2>4, <3>2, PromisedAttach, PromisedSame DEF Attached
        <5> QED
          BY <2>2, <3>3, <5>1, <5>2
      <4> QED
        BY <3>2, <4>1, <4>2 DEF AllAttached
    <3>4. AskSound(d, monitors', channels')
      <4>1. q.before # <<>> => RowsTyped(q.before[1])
        BY <1>2 DEF AskSound
      <4>2. d.op = "applyAll"
        BY <2>4, <3>2
      <4> QED
        BY <3>2, <3>3, <4>1, <4>2 DEF AskSound, OnMonitors
    <3>5. "reread" \in Stages(q.op) /\ Admin!Then(r, "reread")
      BY <1>5, <2>4 DEF Stages
    <3> QED
      BY <1>1, <2>1, <3>1, <3>4, <3>5, ThenSound
  <2> QED
    BY <1>2, <2>3, <2>4
<1>6. \/ Admin!Fail(r)
      \/ /\ monitors' = [m \in MonitorIds |-> IF m \in DOMAIN q.seen \cap Admin!Existing
                                              THEN Routed(monitors[m], cs[m]) ELSE monitors[m]]
         /\ UNCHANGED channels
         /\ IF q.op = "applyAll" THEN Admin!Then(r, "reread") ELSE Admin!Answer(r, "ok")
  BY <1>1, <1>3 DEF Admin!RewriteRoutes, Admin!Updated, Routed
<1> QED
  BY <1>4, <1>5, <1>6

\* The look at the result changes nothing; whether it fails or not, all is done (AttachChannelToMonitors).
LEMMA RereadStep ==
  ASSUME AdminInv, NEW r \in Submissions, Admin!RereadMonitors(r)
  PROVE  AdminInv'
<1>1. PICK q : q = submission[r]
  OBVIOUS
<1>2. /\ AskTyped(q) /\ AskSound(q, monitors, channels) /\ RowsTyped(monitors)
      /\ q.stage = "reread" /\ q.op = "applyAll"
  BY <1>1, StageTells DEF AdminInv, Admin!RereadMonitors, Admin!At
<1>3. PICK reply \in {"ok", "error"} : Admin!Answer(r, reply) /\ monitors' = monitors /\ channels' = channels
  BY DEF Admin!RereadMonitors, Admin!Fail, Admin!rows
<1>4. PICK d : d = Ask(q.op, "done", q.ids, q.form, q.channel, q.seen, reply, q.before)
  OBVIOUS
<1>5. d.op = q.op /\ d.ids = q.ids /\ d.reply = reply /\ d.before = q.before
  BY <1>4, AskParts
<1>6. ASSUME q.before # <<>> PROVE Applied(d, monitors', channels')
  <2>1. channels = q.before[2] /\ AllAttached(q, monitors)
    BY <1>2, <1>6 DEF AskSound
  <2>2. ASSUME NEW m \in MonitorIds PROVE monitors'[m] = Admin!Promised(d, m, d.before[1][m])
    <3>1. PICK b : b = q.before[1][m]
      OBVIOUS
    <3>2. Admin!Promised(d, m, b) = Attached(q, b)
      BY <1>2, <1>5, PromisedAttach, PromisedSame DEF Attached
    <3>3. monitors[m] = Attached(q, b)
      BY <2>1, <3>1 DEF AllAttached
    <3> QED
      BY <1>3, <1>5, <3>1, <3>2, <3>3
  <2> QED
    BY <1>2, <1>3, <1>5, <2>1, <2>2, AppliedDone
<1> QED
  BY <1>1, <1>2, <1>3, <1>4, <1>6, AnswerSound

\* The requests that come in, for monitors and for channels.
LEMMA SubmitMonitorStep ==
  ASSUME AdminInv, NEW r \in Submissions, Admin!SubmitMonitor(r)
  PROVE  AdminInv'
<1> USE DEF Stages, OnMonitors, Admin!MonitorOps, Admin!ChannelOps, Admin!SwitchOps, Admin!BatchOps
<1>1. ASSUME NEW m \in MonitorIds \ Admin!Existing, NEW f \in Forms, Admin!Validate(f) # Reject,
             Admin!Submit(r, "create", {m}, Admin!Validate(f), Admin!NoChannel, "insert")
      PROVE  AdminInv'
  <2>1. PICK x, c, ids : x = Admin!Validate(f) /\ c = Admin!NoChannel /\ ids = {m}
    OBVIOUS
  <2>2. x \in Admin!Row /\ x.exists
    BY <1>1, <2>1, ValidRow
  <2>3. Admin!Submit(r, "create", ids, x, c, "insert")
    BY <1>1, <2>1
  <2> QED
    BY <2>2, <2>3, SubmitSound
<1>2. ASSUME NEW m \in Admin!Existing, NEW f \in Forms, Admin!Validate(f) # Reject,
             Admin!Submit(r, "update", {m}, Admin!Validate(f), Admin!NoChannel, "update")
      PROVE  AdminInv'
  <2>1. PICK x, c, ids : x = Admin!Validate(f) /\ c = Admin!NoChannel /\ ids = {m}
    OBVIOUS
  <2>2. x \in Admin!Row /\ x.exists
    BY <1>2, <2>1, ValidRow
  <2>3. Admin!Submit(r, "update", ids, x, c, "update") /\ ids \subseteq Admin!Existing
    BY <1>2, <2>1
  <2> QED
    BY <2>2, <2>3, SubmitSound
<1>3. ASSUME NEW ms \in SUBSET Admin!Existing,
             NEW op \in {"pause", "resume", "delete", "batchPause", "batchResume", "batchDelete"},
             op = "pause" => \E m \in MonitorIds : ms = {m},
             Admin!Submit(r, op, ms, Reject, Admin!NoChannel, op)
      PROVE  AdminInv'
  <2>1. PICK x, c : x = Reject /\ c = Admin!NoChannel
    OBVIOUS
  <2>2. Admin!Submit(r, op, ms, x, c, op)
    BY <1>3, <2>1
  <2> QED
    BY <1>3, <2>2, SubmitSound
<1>4. \A m \in Admin!Existing : {m} \in SUBSET Admin!Existing /\ m \in MonitorIds
  BY DEF Admin!Existing
<1> QED
  BY <1>1, <1>2, <1>3, <1>4 DEF Admin!SubmitMonitor

LEMMA SubmitChannelStep ==
  ASSUME AdminInv, NEW r \in Submissions, Admin!SubmitChannel(r)
  PROVE  AdminInv'
<1> USE DEF Stages, OnMonitors, Admin!MonitorOps, Admin!ChannelOps, Admin!SwitchOps, Admin!BatchOps
<1>1. ASSUME NEW c \in ChannelIds, NEW op \in Admin!ChannelOps, NEW with, NEW stage,
             stage = IF op \in {"addChannel", "editChannel"} THEN "write" ELSE op,
             Admin!Submit(r, op, {c}, Reject, with, stage)
      PROVE  AdminInv'
  <2>1. PICK x, ids : x = Reject /\ ids = {c}
    OBVIOUS
  <2>2. Admin!Submit(r, op, ids, x, with, stage)
    BY <1>1, <2>1
  <2>3. stage \in Stages(op)
        /\ stage \notin {"new", "getState", "putState", "resetCounts", "list", "rewrite", "reread", "done"}
    BY <1>1
  <2> QED
    BY <1>1, <2>1, <2>2, <2>3, SubmitSound
<1>2. ASSUME NEW c \in ChannelIds, NEW op \in {"addChannel", "editChannel"}, NEW with,
             Admin!Submit(r, op, {c}, Reject, with, "write")
      PROVE  AdminInv'
  BY <1>1, <1>2
<1>3. ASSUME NEW c \in ChannelIds, NEW op \in Admin!ChannelOps \ {"addChannel", "editChannel"}, NEW with,
             Admin!Submit(r, op, {c}, Reject, with, op)
      PROVE  AdminInv'
  BY <1>1, <1>3
<1>4. \/ \E c \in ChannelIds, op \in {"addChannel", "editChannel"} : \E with :
           Admin!Submit(r, op, {c}, Reject, with, "write")
      \/ \E c \in ChannelIds, op \in Admin!ChannelOps \ {"addChannel", "editChannel"} : \E with :
           Admin!Submit(r, op, {c}, Reject, with, op)
  BY DEF Admin!SubmitChannel
<1> QED
  BY <1>2, <1>3, <1>4

\* A round disturbs every request whose rows it changes, and promises nothing.
LEMMA RoundStep ==
  ASSUME AdminInv, Admin!RoundFinalized
  PROVE  AdminInv'
<1>1. PICK m \in MonitorIds : monitors' = [monitors EXCEPT ![m].data = TRUE, ![m].count = "some"]
  BY DEF Admin!RoundFinalized, Admin!Existing
<1>2. RowsTyped(monitors)
  BY DEF AdminInv
<1>3. PICK b, x, y : b = monitors[m] /\ x = [b EXCEPT !.data = TRUE] /\ y = [x EXCEPT !.count = "some"]
  OBVIOUS
<1>4. b \in Admin!Row /\ (~b.exists => b.routes = {}) /\ "some" \in Admin!Counts
  BY <1>2, <1>3 DEF RowsTyped, Admin!Counts
<1>5. x \in Admin!Row /\ x.exists = b.exists /\ x.routes = b.routes
  BY <1>3, <1>4, RowFilled
<1>6. y \in Admin!Row /\ y.exists = b.exists /\ y.routes = b.routes
  BY <1>3, <1>4, <1>5, RowCounted
<1>7. monitors' = [monitors EXCEPT ![m] = y]
  <2>1. monitors' = [[monitors EXCEPT ![m] = x] EXCEPT ![m].count = "some"]
    BY <1>1, <1>2, <1>3 DEF RowsTyped
  <2> QED
    BY <1>2, <1>3, <2>1 DEF RowsTyped
<1>8. RowsTyped(monitors')
  BY <1>2, <1>4, <1>6, <1>7 DEF RowsTyped
<1>9. submission' = [q \in Submissions |-> Admin!Disturbed(q)]
  BY DEF Admin!RoundFinalized
<1>10. ASSUME NEW q \in Submissions PROVE AskTyped(submission'[q]) /\ AskSound(submission'[q], monitors', channels')
  <2>1. PICK d : d = Admin!Disturbed(q)
    OBVIOUS
  <2>2. AskTyped(d) /\ AskSound(d, monitors', channels')
    BY <2>1, DisturbedSound
  <2> QED
    BY <1>9, <2>1, <2>2
<1>11. submission' = [q \in Submissions |-> submission'[q]]
  BY <1>9
<1> QED
  BY <1>8, <1>10, <1>11 DEF AdminInv

\* At first every row is stored or free, and no request was sent.
LEMMA AdminInit == Init => AdminInv
<1> SUFFICES ASSUME Init PROVE AdminInv
  OBVIOUS
<1>1. RowsTyped(monitors) /\ submission = [r \in Submissions |-> Admin!Unsent]
  BY AdminAssumption DEF Init, Admin!Init, RowsTyped
<1>2. PICK u, n, d, e : /\ e = {} /\ n = [m \in {} |-> {}] /\ d = Admin!NoChannel
                        /\ u = Ask("none", "new", e, Reject, d, n, "none", <<>>)
  OBVIOUS
<1>3. u = Admin!Unsent
  BY <1>2 DEF Admin!Unsent, Ask
<1>4. u = SameAsk(u) /\ u.op = "none" /\ u.stage = "new" /\ u.before = <<>>
  BY <1>2, AskParts
<1>5. AskTyped(u) /\ AskSound(u, monitors, channels)
  BY <1>4 DEF AskTyped, AskSound, Stages
<1> QED
  BY <1>1, <1>3, <1>5 DEF AdminInv

\* Every step keeps the invariant.
LEMMA AdminKept ==
  ASSUME AdminInv, [Admin!Next]_adminVars
  PROVE  AdminInv'
<1>1. CASE UNCHANGED adminVars
  BY <1>1 DEF adminVars, AdminInv, RowsTyped, AskTyped, AskSound, Applied, MonitorsServed, ChannelsServed, AllAttached
<1>2. ASSUME NEW r \in Submissions, Admin!Statement(r) PROVE AdminInv'
  BY <1>2, InsertStep, UpdateStep, DeleteStep, EnableStep, ResetStep, GetStep, PutStep, WriteStep, SwitchStep,
     DeleteChannelStep, FindStep, ListStep, RewriteStep, RereadStep DEF Admin!Statement
<1> QED
  BY <1>1, <1>2, SubmitMonitorStep, SubmitChannelStep, RoundStep DEF Admin!Next

\* A request that is done and was not disturbed is a transaction.
LEMMA AdminTells == AdminInv => Admin!RequestsAreTransactions
<1> SUFFICES ASSUME AdminInv, NEW r \in Submissions, NEW q, q = submission[r], q.stage = "done", q.before # <<>>
             PROVE  \/ /\ Admin!MonitorsDone(q) /\ Admin!ChannelsDone(q)
                       /\ q.reply \in {"ok", "okay"} \/ (q.op = "applyAll" /\ q.reply = "error")
                    \/ q.reply \in {"missing", "error"} /\ monitors = q.before[1] /\ channels = q.before[2]
                    \/ q.reply = "error" /\ q.op = "deleteChannel" /\ monitors = q.before[1] /\ Admin!ChannelsDone(q)
  BY DEF Admin!RequestsAreTransactions
<1>1. Applied(q, monitors, channels)
  BY DEF AdminInv, AskSound
<1>2. MonitorsServed(q, monitors) <=> Admin!MonitorsDone(q)
  BY DEF MonitorsServed, Admin!MonitorsDone
<1>3. ChannelsServed(q, channels) <=> Admin!ChannelsDone(q)
  BY DEF ChannelsServed, Admin!ChannelsDone
<1> QED
  BY <1>1, <1>2, <1>3 DEF Applied

\* Of every form, every row and every number of requests: a monitor or channel request
\* that nothing disturbs does to the monitors and channels all that its answer says and
\* nothing else, and one that failed did nothing (api/monitors.go, api/channels.go), with
\* the three exceptions the property names.
THEOREM RequestsCorrect == Spec => []RequestsAreTransactions
<1>1. Init => AdminInv
  BY AdminInit
<1>2. AdminInv /\ [Next]_<<part, vars>> => AdminInv'
  BY AdminAlone, AdminKept
<1>3. AdminInv => RequestsAreTransactions
  BY AdminTells DEF RequestsAreTransactions
<1> QED
  BY <1>1, <1>2, <1>3, PTL DEF Spec

-----------------------------------------------------------------------------
(* The transfer of configurations.                                         *)

LEMMA TransferAlone == [Next]_<<part, vars>> => [Transfer!Next]_transferVars
  BY DEF Next, vars, PushStep, NotifyStep, EnrollStep, AdminStep, TransferStep, KumaStep, ProbesStep,
     FeedStep, Others4, Others8, transferVars

\* A list is a sequence of whatever there is.
IsList(s) == \E S : s \in Seq(S)

\* An import, from its fields.
Import(k, s, f, w, y, p, i, n, o, t, c, b) ==
  [kind |-> k, stage |-> s, file |-> f, overwrite |-> w, sync |-> y, plan |-> p, ids |-> i, known |-> n,
   outcomes |-> o, settled |-> t, clean |-> c, before |-> b]
SameImport(q) ==
  Import(q.kind, q.stage, q.file, q.overwrite, q.sync, q.plan, q.ids, q.known, q.outcomes, q.settled,
         q.clean, q.before)

\* What does not change about an import.
SameGoal(q, d) ==
  d.kind = q.kind /\ d.file = q.file /\ d.overwrite = q.overwrite /\ d.sync = q.sync /\ d.plan = q.plan

\* Rows and files as the program reads and writes them.
IsRow(m, top, chans) ==
  /\ m = Transfer!Row(m, m.token, m.routes, m.enabled)
  /\ m.token \in 0..top /\ m.routes \subseteq DOMAIN chans /\ m.enabled \in BOOLEAN
RowsRight(rows, chans, top) ==
  top \in Nat /\ 10 <= top /\ IsList(rows) /\ IsList(chans) /\ \A i \in DOMAIN rows : IsRow(rows[i], top, chans)
IsFile(f) ==
  /\ IsList(f.channels) /\ IsList(f.monitors)
  /\ \A e \in DOMAIN f.monitors : f.monitors[e].enabled \in BOOLEAN
IsFitFile(f) ==
  \A e \in DOMAIN f.monitors :
    f.monitors[e].token \in 0..10 /\ (f.monitors[e].type # "push" => f.monitors[e].token = 0)

HasKey(rows, key) == \E i \in DOMAIN rows : Transfer!Key(rows[i]) = key
Knowing(rows, chans, k) ==
  k.id \in DOMAIN rows /\ k.routes \subseteq DOMAIN chans /\ k.enabled \in BOOLEAN

\* The plan of an import refers to what there is; nothing that there is goes away.
PlanStands(q, rows, chans) ==
  /\ \A e \in DOMAIN q.file.monitors :
       /\ q.plan.monitors[e].status \in {"invalid", "update", "duplicate", "create"}
       /\ q.plan.monitors[e].token \in 0..10
       /\ q.plan.monitors[e].status = "update" =>
            /\ q.plan.monitors[e].existing \in DOMAIN rows
            /\ Transfer!Key(rows[q.plan.monitors[e].existing]) = Transfer!Key(q.file.monitors[e])
  /\ \A i \in DOMAIN q.file.channels :
       /\ q.plan.channels[i] \in {"invalid", "reuse", "merge", "create"}
       /\ q.plan.channels[i] = "reuse" => Transfer!Named(chans, q.file.channels[i].name) # {}

\* How far an import is, at each of its stages.
StageRight(q) ==
  /\ q.settled \in Nat /\ Len(q.outcomes) <= Len(q.file.monitors)
  /\ q.stage \in {"channels", "monitors", "settings", "done"}
  /\ q.stage = "channels" => q.settled <= Len(q.file.channels) /\ q.outcomes = <<>>
  /\ q.stage \in {"monitors", "settings", "done"} /\ q.kind = "config" => q.settled >= Len(q.file.channels)
  /\ q.stage \in {"settings", "done"} => Len(q.outcomes) = Len(q.file.monitors)
  /\ q.kind = "kuma" => q.stage \in {"monitors", "done"}

\* What holds of every import, whatever the others do.
ImportTyped(q, rows, chans) ==
  /\ q = SameImport(q) /\ q.overwrite \in BOOLEAN /\ q.sync \in BOOLEAN /\ q.clean \in BOOLEAN
  /\ q.kind \in {"none", "config", "kuma"}
  /\ IsFile(q.file) /\ IsList(q.outcomes) /\ \A e \in DOMAIN q.outcomes : q.outcomes[e] \in Transfer!Statuses
  /\ \A n \in DOMAIN q.ids : q.ids[n] \in DOMAIN chans /\ chans[q.ids[n]].name = n
  /\ q.kind = "none" => q.stage = "new" /\ q.before = <<>>
  /\ q.kind # "none" => StageRight(q)
  /\ q.kind = "config" => IsFitFile(q.file) /\ PlanStands(q, rows, chans)
  /\ q.kind = "kuma" => \A k \in DOMAIN q.known :
                          Knowing(rows, chans, q.known[k]) /\ Transfer!Key(rows[q.known[k].id]) = k

-----------------------------------------------------------------------------
(* What an undisturbed import has done so far.                             *)

\* Transfer!OldRowsAreKept, of any rows.
OldKept(q, rows) ==
  \A i \in DOMAIN q.before[2] :
    /\ i \in DOMAIN rows /\ rows[i].token = q.before[2][i].token
    /\ Transfer!Key(rows[i]) = Transfer!Key(q.before[2][i])
    /\ \/ rows[i] = q.before[2][i]
       \/ /\ q.overwrite
          /\ \E e \in Transfer!Fit(q.file) : /\ Transfer!Key(q.file.monitors[e]) = Transfer!Key(q.before[2][i])
                                             /\ q.file.monitors[e].text = rows[i].text
       \/ q.sync /\ rows[i] = [q.before[2][i] EXCEPT !.enabled = ~@]
New(old, rows) == {i \in DOMAIN rows : i \notin DOMAIN old}

\* The plan of a configuration, made of what was there.
FitBefore(q, e) ==
  \E j \in Transfer!Fit(q.file) : j < e /\ Transfer!Key(q.file.monitors[j]) = Transfer!Key(q.file.monitors[e])
TokensBefore(q, e) ==
  {q.before[2][i].token : i \in DOMAIN q.before[2]} \cup {q.file.monitors[j].token : j \in 1..(e - 1)}
EntryPlanned(q, e) ==
  /\ q.plan.monitors[e].status = "invalid" <=> e \notin Transfer!Fit(q.file)
  /\ q.plan.monitors[e].status = "update" =>
       /\ q.overwrite /\ q.plan.monitors[e].existing \in DOMAIN q.before[2]
       /\ Transfer!Key(q.before[2][q.plan.monitors[e].existing]) = Transfer!Key(q.file.monitors[e])
  /\ q.plan.monitors[e].status = "duplicate" =>
       HasKey(q.before[2], Transfer!Key(q.file.monitors[e])) \/ FitBefore(q, e)
  /\ q.plan.monitors[e].status = "create" =>
       ~HasKey(q.before[2], Transfer!Key(q.file.monitors[e])) /\ ~FitBefore(q, e)
  /\ q.plan.monitors[e].names = {n \in q.file.monitors[e].names :
       n \in Transfer!FitChannels(q.file) \/ Transfer!Named(q.before[1], n) # {}}
  /\ q.file.monitors[e].token \notin TokensBefore(q, e) \cup {0} =>
       q.plan.monitors[e].token = q.file.monitors[e].token
FitChannel(q, i, name) == q.file.channels[i].fit /\ q.file.channels[i].name = name
ChannelPlanned(q, i) ==
  /\ q.plan.channels[i] = "invalid" <=> ~q.file.channels[i].fit
  /\ q.plan.channels[i] = "merge" => \E j \in 1..(i - 1) : FitChannel(q, j, q.file.channels[i].name)
  /\ q.plan.channels[i] = "create" =>
       /\ Transfer!Named(q.before[1], q.file.channels[i].name) = {}
       /\ ~ \E j \in 1..(i - 1) : FitChannel(q, j, q.file.channels[i].name)
PlanRight(q) ==
  /\ \A e \in DOMAIN q.file.monitors : EntryPlanned(q, e)
  /\ \A i \in DOMAIN q.file.channels : ChannelPlanned(q, i)

\* The channels that were found or made.
Tried(q) == {i \in DOMAIN q.file.channels : i <= q.settled}
ChannelsRight(q, chans) ==
  /\ \A c \in DOMAIN q.before[1] : c \in DOMAIN chans /\ chans[c] = q.before[1][c]
  /\ \A c \in New(q.before[1], chans) :
       /\ Transfer!Named(q.before[1], chans[c].name) = {}
       /\ \E i \in Tried(q) : FitChannel(q, i, chans[c].name)
  /\ \A c, d \in New(q.before[1], chans) : c # d => chans[c].name # chans[d].name
  /\ \A n \in DOMAIN q.ids : \E i \in Tried(q) : FitChannel(q, i, n)
  /\ q.clean => \A i \in Tried(q) : q.file.channels[i].fit => q.file.channels[i].name \in DOMAIN q.ids

\* The rows that were made of the entries of a configuration.
Handled(q) == {e \in DOMAIN q.file.monitors : e <= Len(q.outcomes)}
Wired(q, e, row, chans) ==
  {chans[c].name : c \in row.routes} = q.file.monitors[e].names \cap Transfer!FitChannels(q.file)
MadeOf(q, e, row, chans) ==
  /\ q.plan.monitors[e].status = "create" /\ Transfer!Key(row) = Transfer!Key(q.file.monitors[e])
  /\ q.clean => Wired(q, e, row, chans)
RowsMade(q, rows, chans) ==
  /\ \A i \in New(q.before[2], rows) : \E e \in Handled(q) : MadeOf(q, e, rows[i], chans)
  /\ \A e \in Handled(q) : q.outcomes[e] = "create" =>
       \E i \in New(q.before[2], rows) :
         /\ Transfer!Key(rows[i]) = Transfer!Key(q.file.monitors[e])
         /\ q.plan.monitors[e].token # 0 => rows[i].token = q.plan.monitors[e].token

\* The rows and what an import of an Uptime Kuma knows of them.
KumaRight(q, rows, chans) ==
  /\ chans = q.before[1]
  /\ DOMAIN q.known = {Transfer!Key(rows[i]) : i \in DOMAIN rows}
  /\ \A i \in New(q.before[2], rows) :
       /\ ~HasKey(q.before[2], Transfer!Key(rows[i]))
       /\ \E e \in Transfer!Fit(q.file) : Transfer!Key(rows[i]) = Transfer!Key(q.file.monitors[e])
  /\ ~q.overwrite =>
       /\ \A k \in DOMAIN q.known : q.known[k].id \in DOMAIN q.before[2] =>
            q.known[k].enabled = q.before[2][q.known[k].id].enabled
       /\ \A i \in DOMAIN q.before[2] :
            rows[i] = q.before[2][i] \/ (q.sync /\ rows[i] = [q.before[2][i] EXCEPT !.enabled = ~@])

ImportRight(q, rows, chans) ==
  q.before # <<>> =>
    /\ \E top : RowsRight(q.before[2], q.before[1], top)
    /\ Len(q.before[2]) <= Len(rows) /\ Len(q.before[1]) <= Len(chans)
    /\ OldKept(q, rows)
    /\ \A i, j \in New(q.before[2], rows) : i # j => Transfer!Key(rows[i]) # Transfer!Key(rows[j])
    /\ q.clean => \A e \in Handled(q) \cap Transfer!Fit(q.file) : HasKey(rows, Transfer!Key(q.file.monitors[e]))
    /\ q.kind = "config" => PlanRight(q) /\ ChannelsRight(q, chans) /\ RowsMade(q, rows, chans)
    /\ q.kind = "kuma" => KumaRight(q, rows, chans)

\* What holds of the rows and of every import.
TransferInv ==
  /\ RowsRight(storedMonitors, storedChannels, minted) /\ mishap \in BOOLEAN
  /\ upload = [u \in Uploads |-> upload[u]]
  /\ \A u \in Uploads : /\ ImportTyped(upload[u], storedMonitors, storedChannels)
                        /\ ImportRight(upload[u], storedMonitors, storedChannels)

-----------------------------------------------------------------------------
(* Lists, rows and the records of imports.                                 *)

LEMMA ListParts ==
  ASSUME NEW s, IsList(s)
  PROVE  Len(s) \in Nat /\ DOMAIN s = 1..Len(s) /\ (s = <<>> <=> Len(s) = 0)
<1>1. PICK S : s \in Seq(S)
  BY DEF IsList
<1> QED
  BY <1>1

LEMMA ListAppend ==
  ASSUME NEW s, IsList(s), NEW x
  PROVE  /\ IsList(Append(s, x)) /\ Len(Append(s, x)) = Len(s) + 1
         /\ DOMAIN Append(s, x) = 1..(Len(s) + 1) /\ Len(s) \in Nat /\ DOMAIN s = 1..Len(s)
         /\ \A i \in DOMAIN s : Append(s, x)[i] = s[i]
         /\ Append(s, x)[Len(s) + 1] = x
         /\ \A i \in DOMAIN Append(s, x) : i \in DOMAIN s \/ i = Len(s) + 1
<1>1. PICK S : s \in Seq(S)
  BY DEF IsList
<1>2. s \in Seq(S \cup {x})
  BY <1>1
<1>3. Append(s, x) \in Seq(S \cup {x}) /\ Len(Append(s, x)) = Len(s) + 1
  BY <1>2
<1>4. Len(s) \in Nat /\ DOMAIN s = 1..Len(s)
  BY <1>1
<1>5. DOMAIN Append(s, x) = 1..(Len(s) + 1)
  BY <1>2, <1>4
<1>6. \A i \in DOMAIN s : Append(s, x)[i] = s[i]
  BY <1>2, <1>4
<1>7. Append(s, x)[Len(s) + 1] = x
  BY <1>2, <1>4
<1>8. IsList(Append(s, x))
  BY <1>3 DEF IsList
<1> QED
  BY <1>3, <1>4, <1>5, <1>6, <1>7, <1>8

LEMMA ListExcept ==
  ASSUME NEW s, IsList(s), NEW i \in DOMAIN s, NEW x
  PROVE  /\ IsList([s EXCEPT ![i] = x]) /\ Len([s EXCEPT ![i] = x]) = Len(s)
         /\ DOMAIN [s EXCEPT ![i] = x] = DOMAIN s
         /\ \A j \in DOMAIN s : [s EXCEPT ![i] = x][j] = IF j = i THEN x ELSE s[j]
<1>1. PICK S : s \in Seq(S)
  BY DEF IsList
<1>2. s \in Seq(S \cup {x}) /\ i \in 1..Len(s)
  BY <1>1
<1>3. [s EXCEPT ![i] = x] \in Seq(S \cup {x}) /\ Len([s EXCEPT ![i] = x]) = Len(s)
  BY <1>2
<1>4. IsList([s EXCEPT ![i] = x])
  BY <1>3 DEF IsList
<1> QED
  BY <1>3, <1>4

LEMMA OldestIn ==
  ASSUME NEW T \in SUBSET Nat, T # {}
  PROVE  Transfer!Oldest(T) \in T /\ \A j \in T : Transfer!Oldest(T) <= j
<1>1. \E i \in T : \A j \in T : i <= j
  BY Least
<1> QED
  BY <1>1 DEF Transfer!Oldest

\* The fields of an import.
LEMMA ImportParts ==
  \A q, k, s, f, w, y, p, i, n, o, t, c, b : q = Import(k, s, f, w, y, p, i, n, o, t, c, b) =>
         /\ q = SameImport(q) /\ q.kind = k /\ q.stage = s /\ q.file = f /\ q.overwrite = w /\ q.sync = y
         /\ q.plan = p /\ q.ids = i /\ q.known = n /\ q.outcomes = o /\ q.settled = t /\ q.clean = c
         /\ q.before = b
  BY DEF Import, SameImport

LEMMA ImportForgets ==
  ASSUME NEW q, q = SameImport(q)
  PROVE  [q EXCEPT !.before = <<>>] =
           Import(q.kind, q.stage, q.file, q.overwrite, q.sync, q.plan, q.ids, q.known, q.outcomes, q.settled,
                  q.clean, <<>>)
  BY DEF Import, SameImport

LEMMA ImportMoves ==
  ASSUME NEW q, q = SameImport(q), NEW s
  PROVE  [q EXCEPT !.stage = s] =
           Import(q.kind, s, q.file, q.overwrite, q.sync, q.plan, q.ids, q.known, q.outcomes, q.settled,
                  q.clean, q.before)
  BY DEF Import, SameImport

LEMMA ImportPasses ==
  ASSUME NEW q, q = SameImport(q)
  PROVE  [q EXCEPT !.settled = @ + 1] =
           Import(q.kind, q.stage, q.file, q.overwrite, q.sync, q.plan, q.ids, q.known, q.outcomes, q.settled + 1,
                  q.clean, q.before)
  BY DEF Import, SameImport

LEMMA ImportFinds ==
  ASSUME NEW q, q = SameImport(q), NEW x
  PROVE  [q EXCEPT !.ids = x] =
           Import(q.kind, q.stage, q.file, q.overwrite, q.sync, q.plan, x, q.known, q.outcomes, q.settled,
                  q.clean, q.before)
  BY DEF Import, SameImport

LEMMA ImportSpoils ==
  ASSUME NEW q, q = SameImport(q)
  PROVE  [q EXCEPT !.clean = FALSE] =
           Import(q.kind, q.stage, q.file, q.overwrite, q.sync, q.plan, q.ids, q.known, q.outcomes, q.settled,
                  FALSE, q.before)
<1>1. ASSUME NEW x PROVE [q EXCEPT !.clean = x] =
           Import(q.kind, q.stage, q.file, q.overwrite, q.sync, q.plan, q.ids, q.known, q.outcomes, q.settled,
                  x, q.before)
  BY DEF Import, SameImport
<1>2. [q EXCEPT !.clean = FALSE] =
           Import(q.kind, q.stage, q.file, q.overwrite, q.sync, q.plan, q.ids, q.known, q.outcomes, q.settled,
                  FALSE, q.before)
  BY <1>1, Zenon
<1> QED
  BY <1>2

LEMMA ImportRecords ==
  ASSUME NEW q, q = SameImport(q), NEW x
  PROVE  [q EXCEPT !.outcomes = x] =
           Import(q.kind, q.stage, q.file, q.overwrite, q.sync, q.plan, q.ids, q.known, x,
                  q.settled, q.clean, q.before)
  BY DEF Import, SameImport

LEMMA ImportLearns ==
  ASSUME NEW q, q = SameImport(q), NEW x
  PROVE  [q EXCEPT !.known = x] =
           Import(q.kind, q.stage, q.file, q.overwrite, q.sync, q.plan, q.ids, x, q.outcomes,
                  q.settled, q.clean, q.before)
  BY DEF Import, SameImport

\* Rows and channels are added; what is there keeps its key and its name.
Grown(rows, chans, rows2, chans2) ==
  /\ \A i \in DOMAIN rows : i \in DOMAIN rows2 /\ Transfer!Key(rows2[i]) = Transfer!Key(rows[i])
  /\ \A c \in DOMAIN chans : c \in DOMAIN chans2 /\ chans2[c].name = chans[c].name
Grows == Grown(storedMonitors, storedChannels, storedMonitors', storedChannels')

LEMMA PlanStays ==
  ASSUME NEW q, NEW rows, NEW chans, NEW rows2, NEW chans2, PlanStands(q, rows, chans),
         Grown(rows, chans, rows2, chans2)
  PROVE  PlanStands(q, rows2, chans2)
<1>1. ASSUME NEW n, Transfer!Named(chans, n) # {} PROVE Transfer!Named(chans2, n) # {}
  BY <1>1 DEF Grown, Transfer!Named
<1>2. \A i \in DOMAIN rows : i \in DOMAIN rows2 /\ Transfer!Key(rows2[i]) = Transfer!Key(rows[i])
  BY DEF Grown
<1> QED
  BY <1>1, <1>2 DEF PlanStands

LEMMA TypedStays ==
  ASSUME NEW q, NEW rows, NEW chans, NEW rows2, NEW chans2, ImportTyped(q, rows, chans),
         Grown(rows, chans, rows2, chans2)
  PROVE  ImportTyped(q, rows2, chans2)
<1>1. q.kind = "config" => PlanStands(q, rows2, chans2)
  BY PlanStays DEF ImportTyped
<1>2. \A n \in DOMAIN q.ids : q.ids[n] \in DOMAIN chans2 /\ chans2[q.ids[n]].name = n
  BY DEF ImportTyped, Grown
<1>3. ASSUME q.kind = "kuma", NEW k \in DOMAIN q.known
      PROVE  Knowing(rows2, chans2, q.known[k]) /\ Transfer!Key(rows2[q.known[k].id]) = k
  <2>1. Knowing(rows, chans, q.known[k]) /\ Transfer!Key(rows[q.known[k].id]) = k
    BY <1>3 DEF ImportTyped
  <2> QED
    BY <2>1 DEF Knowing, Grown
<1> QED
  BY <1>1, <1>2, <1>3 DEF ImportTyped

LEMMA StandsStays ==
  ASSUME NEW q, NEW d, SameGoal(q, d), NEW rows, NEW chans, PlanStands(q, rows, chans)
  PROVE  PlanStands(d, rows, chans)
<1>1. d.file = q.file /\ d.plan = q.plan
  BY DEF SameGoal
<1> QED
  BY <1>1 DEF PlanStands

\* An import is typed if what has changed about it is.
LEMMA StaysTyped ==
  ASSUME NEW q, NEW d, SameGoal(q, d), NEW rows, NEW chans, ImportTyped(q, rows, chans), q.kind # "none",
         d = SameImport(d), d.clean \in BOOLEAN, StageRight(d), IsList(d.outcomes),
         \A e \in DOMAIN d.outcomes : d.outcomes[e] \in Transfer!Statuses,
         \A n \in DOMAIN d.ids : d.ids[n] \in DOMAIN chans /\ chans[d.ids[n]].name = n,
         q.kind = "kuma" => \A k \in DOMAIN d.known :
                              Knowing(rows, chans, d.known[k]) /\ Transfer!Key(rows[d.known[k].id]) = k
  PROVE  ImportTyped(d, rows, chans)
<1>1. d.kind = q.kind /\ d.file = q.file /\ d.overwrite = q.overwrite /\ d.sync = q.sync
  BY DEF SameGoal
<1>2. d.overwrite \in BOOLEAN /\ d.sync \in BOOLEAN /\ d.kind \in {"none", "config", "kuma"} /\ IsFile(d.file)
  BY <1>1 DEF ImportTyped
<1>3. d.kind = "config" => IsFitFile(d.file) /\ PlanStands(d, rows, chans)
  BY <1>1, StandsStays DEF ImportTyped
<1>4. d.kind = "none" => d.stage = "new" /\ d.before = <<>>
  BY <1>1
<1> QED
  BY <1>1, <1>2, <1>3, <1>4 DEF ImportTyped

\* An import that another one disturbs has nothing left to keep.
LEMMA OtherImport ==
  ASSUME TransferInv, Grows, NEW v \in Uploads, NEW d,
         d = IF Transfer!stored' = Transfer!stored THEN upload[v] ELSE [upload[v] EXCEPT !.before = <<>>]
  PROVE  ImportTyped(d, storedMonitors', storedChannels') /\ ImportRight(d, storedMonitors', storedChannels')
<1>1. PICK q : q = upload[v]
  OBVIOUS
<1>2. ImportTyped(q, storedMonitors, storedChannels) /\ ImportRight(q, storedMonitors, storedChannels)
  BY <1>1 DEF TransferInv
<1>3. ImportTyped(q, storedMonitors', storedChannels')
  BY <1>2, TypedStays DEF Grows
<1>4. CASE Transfer!stored' = Transfer!stored
  <2>1. d = q /\ storedMonitors' = storedMonitors /\ storedChannels' = storedChannels
    BY <1>1, <1>4 DEF Transfer!stored
  <2> QED
    BY <1>2, <2>1
<1>5. CASE Transfer!stored' # Transfer!stored
  <2>1. d = [q EXCEPT !.before = <<>>]
    BY <1>1, <1>5
  <2>2. q = SameImport(q)
    BY <1>2 DEF ImportTyped
  <2>3. d = Import(q.kind, q.stage, q.file, q.overwrite, q.sync, q.plan, q.ids, q.known, q.outcomes, q.settled,
                   q.clean, <<>>)
    BY <2>1, <2>2, ImportForgets
  <2>4. /\ d = SameImport(d) /\ SameGoal(q, d) /\ d.stage = q.stage /\ d.ids = q.ids /\ d.known = q.known
        /\ d.outcomes = q.outcomes /\ d.settled = q.settled /\ d.clean = q.clean /\ d.before = <<>>
    BY <2>3 DEF Import, SameImport, SameGoal
  <2>5. q.kind # "none" => StageRight(d)
    BY <1>2, <2>4 DEF ImportTyped, StageRight, SameGoal
  <2>6. q.kind = "config" => PlanStands(d, storedMonitors', storedChannels')
    BY <1>3, <2>4, StandsStays DEF ImportTyped
  <2>7. ImportTyped(d, storedMonitors', storedChannels')
    BY <1>3, <2>4, <2>5, <2>6 DEF ImportTyped, SameGoal
  <2>8. ImportRight(d, storedMonitors', storedChannels')
    BY <2>4 DEF ImportRight
  <2> QED
    BY <2>7, <2>8
<1> QED
  BY <1>4, <1>5

\* A step of one import keeps the invariant if this import is as far as it says.
LEMMA GoesRight ==
  ASSUME TransferInv, Grows, NEW u \in Uploads, NEW new, Transfer!Goes(u, new), mishap' \in BOOLEAN,
         RowsRight(storedMonitors', storedChannels', minted'),
         ImportTyped(new, storedMonitors', storedChannels'), ImportRight(new, storedMonitors', storedChannels')
  PROVE  TransferInv'
<1>1. upload' = [v \in Uploads |-> IF v = u THEN new
                  ELSE IF Transfer!stored' = Transfer!stored THEN upload[v] ELSE [upload[v] EXCEPT !.before = <<>>]]
  BY DEF Transfer!Goes
<1>2. ASSUME NEW v \in Uploads
      PROVE  /\ ImportTyped(upload'[v], storedMonitors', storedChannels')
             /\ ImportRight(upload'[v], storedMonitors', storedChannels')
  <2>1. PICK d : d = IF Transfer!stored' = Transfer!stored THEN upload[v] ELSE [upload[v] EXCEPT !.before = <<>>]
    OBVIOUS
  <2>2. ImportTyped(d, storedMonitors', storedChannels') /\ ImportRight(d, storedMonitors', storedChannels')
    BY <2>1, OtherImport
  <2>3. upload'[v] = IF v = u THEN new ELSE d
    BY <1>1, <2>1
  <2> QED
    BY <2>2, <2>3
<1>3. upload' = [v \in Uploads |-> upload'[v]]
  BY <1>1
<1> QED
  BY <1>2, <1>3 DEF TransferInv

\* A step that writes nothing.
LEMMA QuietRight ==
  ASSUME TransferInv, NEW u \in Uploads, NEW new, Transfer!Goes(u, new),
         UNCHANGED <<storedChannels, storedMonitors, minted, mishap>>,
         ImportTyped(new, storedMonitors, storedChannels), ImportRight(new, storedMonitors, storedChannels)
  PROVE  TransferInv'
<1>1. Grows
  BY DEF Grows, Grown
<1>2. storedMonitors' = storedMonitors /\ storedChannels' = storedChannels /\ minted' = minted /\ mishap' = mishap
  OBVIOUS
<1>3. RowsRight(storedMonitors', storedChannels', minted') /\ mishap' \in BOOLEAN
  BY <1>2 DEF TransferInv
<1> QED
  BY <1>1, <1>2, <1>3, GoesRight

-----------------------------------------------------------------------------
(* The channels of an import.                                              *)

\* Of the fields that an import's soundness is about, only the stage has changed.
SameWork(q, d) ==
  /\ SameGoal(q, d) /\ d.ids = q.ids /\ d.known = q.known /\ d.outcomes = q.outcomes /\ d.before = q.before

LEMMA OldStays ==
  ASSUME NEW q, NEW d, SameGoal(q, d), d.before = q.before, NEW rows, OldKept(q, rows)
  PROVE  OldKept(d, rows)
<1>1. d.before[2] = q.before[2] /\ d.overwrite = q.overwrite /\ d.sync = q.sync /\ d.file = q.file
  BY DEF SameGoal
<1> QED
  BY <1>1 DEF OldKept

LEMMA PlanRightStays ==
  ASSUME NEW q, NEW d, SameGoal(q, d), d.before = q.before, PlanRight(q)
  PROVE  PlanRight(d)
<1>1. d.before[1] = q.before[1] /\ d.before[2] = q.before[2] /\ d.overwrite = q.overwrite /\ d.file = q.file /\ d.plan = q.plan
  BY DEF SameGoal
<1>2. ASSUME NEW e \in DOMAIN d.file.monitors PROVE EntryPlanned(d, e)
  <2>1. EntryPlanned(q, e)
    BY <1>1, <1>2 DEF PlanRight
  <2>2. FitBefore(d, e) = FitBefore(q, e) /\ TokensBefore(d, e) = TokensBefore(q, e)
    BY <1>1 DEF FitBefore, TokensBefore
  <2> QED
    BY <1>1, <2>1, <2>2 DEF EntryPlanned
<1>3. ASSUME NEW i \in DOMAIN d.file.channels PROVE ChannelPlanned(d, i)
  <2>1. ChannelPlanned(q, i)
    BY <1>1, <1>3 DEF PlanRight
  <2> QED
    BY <1>1, <2>1 DEF ChannelPlanned, FitChannel
<1> QED
  BY <1>2, <1>3 DEF PlanRight

LEMMA RowsMadeStays ==
  ASSUME NEW q, NEW d, SameGoal(q, d), d.before = q.before, d.outcomes = q.outcomes, d.clean => q.clean,
         NEW rows, NEW chans, RowsMade(q, rows, chans)
  PROVE  RowsMade(d, rows, chans)
<1>1. d.before[2] = q.before[2] /\ d.file = q.file /\ d.plan = q.plan /\ Handled(d) = Handled(q)
  BY DEF SameGoal, Handled
<1>2. ASSUME NEW e, NEW row, MadeOf(q, e, row, chans) PROVE MadeOf(d, e, row, chans)
  BY <1>1, <1>2 DEF MadeOf, Wired
<1> QED
  BY <1>1, <1>2 DEF RowsMade

LEMMA MovesRight ==
  ASSUME TransferInv, NEW u \in Uploads, NEW stage, Transfer!Moves(u, stage),
         NEW q, q = upload[u], q.kind # "none", NEW d, d = [q EXCEPT !.stage = stage], StageRight(d),
         q.stage = "channels" => q.settled = Len(q.file.channels)
  PROVE  TransferInv'
<1>1. /\ ImportTyped(q, storedMonitors, storedChannels) /\ ImportRight(q, storedMonitors, storedChannels)
      /\ q = SameImport(q)
  BY DEF TransferInv, ImportTyped
<1>2. d = Import(q.kind, stage, q.file, q.overwrite, q.sync, q.plan, q.ids, q.known, q.outcomes, q.settled,
                 q.clean, q.before)
  BY <1>1, ImportMoves
<1>3. /\ d = SameImport(d) /\ SameWork(q, d) /\ d.stage = stage /\ d.settled = q.settled /\ d.clean = q.clean
  BY <1>2 DEF Import, SameImport, SameGoal, SameWork
<1>4. Transfer!Goes(u, d) /\ UNCHANGED <<storedChannels, storedMonitors, minted, mishap>>
  BY DEF Transfer!Moves, Transfer!stored
<1>5. ImportTyped(d, storedMonitors, storedChannels)
  <2>1. SameGoal(q, d) /\ d.ids = q.ids /\ d.known = q.known /\ d.outcomes = q.outcomes
    BY <1>3 DEF SameWork
  <2>2. /\ IsList(d.outcomes) /\ \A e \in DOMAIN d.outcomes : d.outcomes[e] \in Transfer!Statuses
        /\ d.clean \in BOOLEAN
    BY <1>1, <1>3, <2>1 DEF ImportTyped
  <2>3. \A n \in DOMAIN d.ids : d.ids[n] \in DOMAIN storedChannels /\ storedChannels[d.ids[n]].name = n
    BY <1>1, <2>1 DEF ImportTyped
  <2>4. q.kind = "kuma" => \A k \in DOMAIN d.known :
                             /\ Knowing(storedMonitors, storedChannels, d.known[k])
                             /\ Transfer!Key(storedMonitors[d.known[k].id]) = k
    BY <1>1, <2>1 DEF ImportTyped
  <2>5. d = SameImport(d)
    BY <1>3
  <2> QED
    BY <1>1, <2>1, <2>2, <2>3, <2>4, <2>5, StaysTyped
<1>6. ImportRight(d, storedMonitors, storedChannels)
  <2>1. CASE q.before = <<>>
    BY <1>3, <2>1 DEF ImportRight, SameWork
  <2>2. CASE q.before # <<>>
    <3>1. OldKept(d, storedMonitors)
      BY <1>1, <1>3, <2>2, OldStays DEF ImportRight, SameWork
    <3>2. q.kind = "config" => PlanRight(d)
      BY <1>1, <1>3, <2>2, PlanRightStays DEF ImportRight, SameWork
    <3>3. q.kind = "config" => ChannelsRight(d, storedChannels)
      <4>1. /\ d.before[1] = q.before[1] /\ d.ids = q.ids /\ d.clean = q.clean /\ d.file = q.file
            /\ Tried(d) = Tried(q)
        BY <1>3 DEF Tried, SameWork, SameGoal
      <4>2. q.kind = "config" => ChannelsRight(q, storedChannels)
        BY <1>1, <2>2 DEF ImportRight
      <4>3. \A i, n : FitChannel(d, i, n) <=> FitChannel(q, i, n)
        BY <4>1 DEF FitChannel
      <4> QED
        BY <4>1, <4>2, <4>3 DEF ChannelsRight
    <3>4. q.kind = "config" => RowsMade(d, storedMonitors, storedChannels)
      BY <1>1, <1>3, <2>2, RowsMadeStays DEF ImportRight, SameWork
    <3>5. q.kind = "kuma" => KumaRight(d, storedMonitors, storedChannels)
      <4>1. /\ d.before[1] = q.before[1] /\ d.before[2] = q.before[2] /\ d.known = q.known /\ d.file = q.file
            /\ d.overwrite = q.overwrite /\ d.sync = q.sync
        BY <1>3 DEF SameWork, SameGoal
      <4>2. q.kind = "kuma" => KumaRight(q, storedMonitors, storedChannels)
        BY <1>1, <2>2 DEF ImportRight
      <4> QED
        BY <4>1, <4>2 DEF KumaRight
    <3>6. Handled(d) = Handled(q)
      BY <1>3 DEF Handled, SameWork, SameGoal
    <3> QED
      BY <1>1, <1>3, <2>2, <3>1, <3>2, <3>3, <3>4, <3>5, <3>6 DEF ImportRight, SameWork, SameGoal
  <2> QED
    BY <2>1, <2>2
<1> QED
  BY <1>4, <1>5, <1>6, QuietRight

\* One entry of the channels more is settled.
ChannelWritten ==
  /\ Grows /\ mishap' \in BOOLEAN /\ storedMonitors' = storedMonitors /\ minted' = minted
  /\ RowsRight(storedMonitors', storedChannels', minted') /\ Len(storedChannels) <= Len(storedChannels')
SettledAs(q, d, ids, clean) ==
  /\ d = Import(q.kind, q.stage, q.file, q.overwrite, q.sync, q.plan, ids, q.known, q.outcomes, q.settled + 1,
                clean, q.before)
  /\ clean \in BOOLEAN /\ (clean => q.clean)
  /\ q.stage = "channels" /\ q.settled < Len(q.file.channels)
IdsRight(ids, chans) == \A n \in DOMAIN ids : ids[n] \in DOMAIN chans /\ chans[ids[n]].name = n

LEMMA ChannelStep ==
  ASSUME TransferInv, ChannelWritten, NEW u \in Uploads, NEW q, q = upload[u], NEW d, NEW ids, NEW clean,
         SettledAs(q, d, ids, clean), Transfer!Goes(u, d), IdsRight(ids, storedChannels'),
         q.before # <<>> => ChannelsRight(d, storedChannels')
  PROVE  TransferInv'
<1> USE DEF ChannelWritten, SettledAs, IdsRight
<1>1. /\ ImportTyped(q, storedMonitors, storedChannels) /\ ImportRight(q, storedMonitors, storedChannels)
      /\ q = SameImport(q)
  BY DEF TransferInv, ImportTyped
<1>2. q.kind = "config"
  BY <1>1 DEF ImportTyped, StageRight
<1>3. /\ d = SameImport(d) /\ SameGoal(q, d) /\ d.stage = q.stage /\ d.ids = ids /\ d.known = q.known
      /\ d.outcomes = q.outcomes /\ d.settled = q.settled + 1 /\ d.clean = clean /\ d.before = q.before
  BY DEF Import, SameImport, SameGoal
<1>4. ImportTyped(q, storedMonitors', storedChannels')
  BY <1>1, TypedStays DEF Grows
<1>5. IsList(q.file.channels) /\ Len(q.file.channels) \in Nat
  BY <1>1, ListParts DEF ImportTyped, IsFile
<1>6. StageRight(d)
  <2>1. StageRight(q) /\ q.settled \in Nat
    BY <1>1, <1>2 DEF ImportTyped, StageRight
  <2>2. d.settled \in Nat /\ d.settled <= Len(q.file.channels)
    BY <1>3, <1>5, <2>1
  <2>3. d.file = q.file /\ d.kind = "config" /\ d.outcomes = <<>>
    BY <1>2, <1>3, <2>1 DEF SameGoal, StageRight
  <2> QED
    BY <1>3, <2>1, <2>2, <2>3 DEF StageRight
<1>7. IsList(d.outcomes) /\ \A e \in DOMAIN d.outcomes : d.outcomes[e] \in Transfer!Statuses
  BY <1>1, <1>3 DEF ImportTyped
<1>8. ImportTyped(d, storedMonitors', storedChannels')
  <2>1. q.kind # "none" /\ q.kind # "kuma" /\ d.clean \in BOOLEAN /\ SameGoal(q, d) /\ d = SameImport(d)
    BY <1>2, <1>3
  <2> HIDE DEF ChannelWritten, SettledAs
  <2>2. \A n \in DOMAIN d.ids : d.ids[n] \in DOMAIN storedChannels' /\ storedChannels'[d.ids[n]].name = n
    <3>1. d.ids = ids
      BY <1>3
    <3> QED
      BY <3>1
  <2> HIDE DEF IdsRight
  <2> QED
    BY <1>4, <1>6, <1>7, <2>1, <2>2, StaysTyped
<1>9. ASSUME q.before # <<>> PROVE ImportRight(d, storedMonitors', storedChannels')
  <2>1. Handled(q) = {}
    <3>1. q.outcomes = <<>> /\ IsList(q.file.monitors)
      BY <1>1, <1>2 DEF ImportTyped, StageRight, IsFile
    <3>2. DOMAIN q.file.monitors = 1..Len(q.file.monitors) /\ Len(q.outcomes) = 0
      BY <3>1, ListParts
    <3> QED
      BY <3>2 DEF Handled
  <2>2. RowsMade(q, storedMonitors, storedChannels)
    BY <1>1, <1>2, <1>9 DEF ImportRight
  <2>3. New(q.before[2], storedMonitors) = {} /\ Handled(d) = {}
    BY <1>3, <2>1, <2>2 DEF RowsMade, Handled, SameGoal
  <2>4. RowsMade(d, storedMonitors', storedChannels')
    BY <1>3, <2>3 DEF RowsMade
  <2>5. OldKept(d, storedMonitors') /\ PlanRight(d)
    BY <1>1, <1>2, <1>3, <1>9, OldStays, PlanRightStays DEF ImportRight
  <2>6. Len(q.before[1]) <= Len(storedChannels) /\ IsList(q.before[1]) /\ Len(q.before[1]) \in Nat
    BY <1>1, <1>9, ListParts DEF ImportRight, RowsRight
  <2>7. Len(storedChannels) \in Nat /\ Len(storedChannels') \in Nat
    BY ListParts DEF TransferInv, RowsRight
  <2>8. Len(q.before[1]) <= Len(storedChannels')
    BY <2>6, <2>7
  <2>9. d.kind = "config" /\ d.before = q.before /\ storedMonitors' = storedMonitors
    BY <1>2, <1>3 DEF SameGoal
  <2>10. ChannelsRight(d, storedChannels')
    BY <1>9
  <2> HIDE DEF ChannelWritten, SettledAs, IdsRight
  <2>11. PICK b, c : b = q.before[2] /\ c = q.before[1]
    OBVIOUS
  <2>12. (\E top : RowsRight(b, c, top)) /\ Len(b) <= Len(storedMonitors')
    BY <1>1, <1>9, <2>9, <2>11 DEF ImportRight
  <2>13. d.before[2] = b /\ d.before[1] = c /\ New(b, storedMonitors') = {} /\ Len(c) <= Len(storedChannels')
    BY <2>3, <2>8, <2>9, <2>11
  <2> QED
    BY <2>3, <2>4, <2>5, <2>9, <2>10, <2>12, <2>13 DEF ImportRight
<1>10. ImportRight(d, storedMonitors', storedChannels')
  BY <1>3, <1>9 DEF ImportRight
<1> QED
  BY <1>8, <1>10, GoesRight

\* What is settled one entry later.
LEMMA TriedLater ==
  ASSUME NEW q, NEW d, SameGoal(q, d), q.settled \in Nat, d.settled = q.settled + 1, IsList(q.file.channels),
         q.settled < Len(q.file.channels)
  PROVE  /\ Tried(d) = Tried(q) \cup {d.settled} /\ d.settled \in DOMAIN q.file.channels
         /\ \A i \in Tried(q) : i \in 1..(d.settled - 1)
         /\ \A j \in 1..(d.settled - 1) : j \in Tried(q)
<1>1. DOMAIN q.file.channels = 1..Len(q.file.channels) /\ Len(q.file.channels) \in Nat
  BY ListParts
<1> QED
  BY <1>1 DEF Tried, SameGoal

\* The channels of an import after one entry more.
SettlesOne(q, d) ==
  /\ SameGoal(q, d) /\ d.before = q.before /\ q.settled \in Nat /\ d.settled = q.settled + 1
  /\ IsList(q.file.channels) /\ q.settled < Len(q.file.channels)
MoreChannels(q, d, chans, chans2, name) ==
  /\ name = q.file.channels[d.settled].name
  /\ \A c \in DOMAIN chans : c \in DOMAIN chans2 /\ chans2[c] = chans[c]
  /\ \A c \in DOMAIN chans2 :
       \/ c \in DOMAIN chans
       \/ /\ chans2[c].name = name /\ Transfer!Named(q.before[1], name) = {} /\ FitChannel(q, d.settled, name)
          /\ \A j \in Tried(q) : ~FitChannel(q, j, name)
          /\ \A e \in DOMAIN chans2 : e \in DOMAIN chans \/ e = c
  /\ \A n \in DOMAIN d.ids : n \in DOMAIN q.ids \/ (n = name /\ FitChannel(q, d.settled, n))
  /\ DOMAIN q.ids \subseteq DOMAIN d.ids
  /\ d.clean => q.clean /\ (q.file.channels[d.settled].fit => name \in DOMAIN d.ids)

LEMMA ChannelsLater ==
  ASSUME NEW q, NEW d, SettlesOne(q, d), NEW chans, ChannelsRight(q, chans), NEW chans2, NEW name,
         MoreChannels(q, d, chans, chans2, name)
  PROVE  ChannelsRight(d, chans2)
<1> USE DEF SettlesOne, MoreChannels
<1>1. /\ Tried(d) = Tried(q) \cup {d.settled} /\ d.settled \in DOMAIN q.file.channels
  BY TriedLater
<1>2. \A i, n : FitChannel(d, i, n) <=> FitChannel(q, i, n)
  BY DEF FitChannel, SameGoal
<1>3. d.before[1] = q.before[1] /\ d.file.channels = q.file.channels
  BY DEF SameGoal
<1>4. \A c \in DOMAIN d.before[1] : c \in DOMAIN chans2 /\ chans2[c] = d.before[1][c]
  BY <1>3 DEF ChannelsRight
<1>5. ASSUME NEW c \in New(d.before[1], chans2)
      PROVE  /\ Transfer!Named(d.before[1], chans2[c].name) = {}
             /\ \E i \in Tried(d) : FitChannel(d, i, chans2[c].name)
  <2>1. CASE c \in DOMAIN chans
    <3>1. c \in New(q.before[1], chans) /\ chans2[c] = chans[c]
      BY <1>3, <1>5, <2>1 DEF New
    <3> QED
      BY <1>1, <1>2, <1>3, <3>1 DEF ChannelsRight
  <2>2. CASE c \notin DOMAIN chans
    BY <1>1, <1>2, <1>3, <1>5, <2>2 DEF New
  <2> QED
    BY <2>1, <2>2
<1>6. ASSUME NEW c \in New(d.before[1], chans2), NEW e \in New(d.before[1], chans2), c # e
      PROVE  chans2[c].name # chans2[e].name
  <2>1. ASSUME NEW x \in New(d.before[1], chans2), x \in DOMAIN chans
        PROVE  x \in New(q.before[1], chans) /\ chans2[x] = chans[x] /\ \E i \in Tried(q) : FitChannel(q, i, chans[x].name)
    <3>1. x \in New(q.before[1], chans) /\ chans2[x] = chans[x]
      BY <1>3, <2>1 DEF New
    <3> QED
      BY <3>1 DEF ChannelsRight
  <2>2. CASE c \in DOMAIN chans /\ e \in DOMAIN chans
    BY <1>6, <2>1, <2>2 DEF ChannelsRight
  <2>3. CASE c \in DOMAIN chans /\ e \notin DOMAIN chans
    BY <1>6, <2>1, <2>3 DEF New
  <2>4. CASE c \notin DOMAIN chans /\ e \in DOMAIN chans
    BY <1>6, <2>1, <2>4 DEF New
  <2>5. CASE c \notin DOMAIN chans /\ e \notin DOMAIN chans
    BY <1>6, <2>5 DEF New
  <2> QED
    BY <2>2, <2>3, <2>4, <2>5
<1>7. \A n \in DOMAIN d.ids : \E i \in Tried(d) : FitChannel(d, i, n)
  BY <1>1, <1>2 DEF ChannelsRight
<1>8. d.clean => \A i \in Tried(d) : d.file.channels[i].fit => d.file.channels[i].name \in DOMAIN d.ids
  BY <1>1, <1>3 DEF ChannelsRight
<1> QED
  BY <1>4, <1>5, <1>6, <1>7, <1>8 DEF ChannelsRight

\* What is known when an import is at an entry of its channels.
LEMMA AtChannel ==
  ASSUME TransferInv, NEW u \in Uploads, NEW q, q = upload[u], NEW S, Transfer!NextChannel(u, S)
  PROVE  /\ q = SameImport(q) /\ q.kind = "config" /\ q.stage = "channels" /\ q.settled \in Nat
         /\ q.settled < Len(q.file.channels) /\ q.settled + 1 \in DOMAIN q.file.channels
         /\ q.plan.channels[q.settled + 1] \in S /\ IsList(q.file.channels)
         /\ PlanStands(q, storedMonitors, storedChannels)
         /\ IdsRight(q.ids, storedChannels) /\ q.clean \in BOOLEAN
         /\ q.before # <<>> => /\ ChannelsRight(q, storedChannels) /\ ChannelPlanned(q, q.settled + 1)
                               /\ Len(q.before[1]) <= Len(storedChannels)
<1>1. ImportTyped(q, storedMonitors, storedChannels) /\ ImportRight(q, storedMonitors, storedChannels)
  BY DEF TransferInv
<1>2. /\ q.stage = "channels" /\ q.settled < Len(q.file.channels)
      /\ q.plan.channels[q.settled + 1] \in S
  BY DEF Transfer!NextChannel
<1>3. q.kind = "config" /\ StageRight(q)
  BY <1>1, <1>2 DEF ImportTyped, StageRight
<1>4. IsList(q.file.channels) /\ q.settled \in Nat
  BY <1>1, <1>3 DEF ImportTyped, IsFile, StageRight
<1>5. q.settled + 1 \in DOMAIN q.file.channels
  BY <1>2, <1>4, ListParts
<1>6. q.before # <<>> => /\ ChannelsRight(q, storedChannels) /\ ChannelPlanned(q, q.settled + 1)
                         /\ Len(q.before[1]) <= Len(storedChannels)
  BY <1>1, <1>3, <1>5 DEF ImportRight, PlanRight
<1> QED
  BY <1>1, <1>2, <1>3, <1>4, <1>5, <1>6 DEF ImportTyped, IdsRight

\* A step at the channels that writes nothing.
LEMMA ChannelQuiet ==
  ASSUME TransferInv, UNCHANGED <<storedChannels, storedMonitors, minted>>, mishap' \in BOOLEAN
  PROVE  ChannelWritten /\ storedChannels' = storedChannels
<1>1. storedChannels' = storedChannels /\ storedMonitors' = storedMonitors /\ minted' = minted
  OBVIOUS
<1>2. Len(storedChannels) \in Nat /\ Len(storedChannels) <= Len(storedChannels')
  BY <1>1, ListParts DEF TransferInv, RowsRight
<1> QED
  BY <1>1, <1>2 DEF ChannelWritten, Grows, Grown, TransferInv

LEMMA PassChannelRight ==
  ASSUME TransferInv, NEW u \in Uploads, Transfer!PassChannel(u)
  PROVE  TransferInv'
<1>1. PICK q : q = upload[u]
  OBVIOUS
<1>2. PICK S : S = {"invalid", "merge"}
  OBVIOUS
<1>3. Transfer!NextChannel(u, S)
  BY <1>2 DEF Transfer!PassChannel
<1>4. /\ q = SameImport(q) /\ q.kind = "config" /\ q.stage = "channels" /\ q.settled \in Nat
      /\ q.settled < Len(q.file.channels) /\ q.settled + 1 \in DOMAIN q.file.channels
      /\ q.plan.channels[q.settled + 1] \in S /\ IsList(q.file.channels) /\ q.clean \in BOOLEAN
      /\ IdsRight(q.ids, storedChannels)
      /\ q.before # <<>> => /\ ChannelsRight(q, storedChannels) /\ ChannelPlanned(q, q.settled + 1)
  BY <1>1, <1>3, AtChannel
<1>5. PICK d : d = [q EXCEPT !.settled = @ + 1]
  OBVIOUS
<1>6. d = Import(q.kind, q.stage, q.file, q.overwrite, q.sync, q.plan, q.ids, q.known, q.outcomes, q.settled + 1,
                 q.clean, q.before)
  BY <1>4, <1>5, ImportPasses
<1>7. SameGoal(q, d) /\ d.ids = q.ids /\ d.settled = q.settled + 1 /\ d.clean = q.clean /\ d.before = q.before
  BY <1>6 DEF Import, SameGoal
<1>8. Transfer!Goes(u, d)
  BY <1>1, <1>5 DEF Transfer!PassChannel, Transfer!Passed
<1>9. ChannelWritten /\ storedChannels' = storedChannels
  <2>1. UNCHANGED <<storedChannels, storedMonitors, minted>> /\ mishap' = mishap
    BY DEF Transfer!PassChannel, Transfer!stored
  <2> QED
    BY <2>1, ChannelQuiet DEF TransferInv
<1>10. ASSUME q.before # <<>> PROVE ChannelsRight(d, storedChannels)
  <2>1. PICK name : name = q.file.channels[d.settled].name
    OBVIOUS
  <2>2. SettlesOne(q, d)
    BY <1>4, <1>7 DEF SettlesOne
  <2>3. ASSUME d.clean, q.file.channels[d.settled].fit PROVE name \in DOMAIN d.ids
    <3>1. PICK j \in 1..(d.settled - 1) : FitChannel(q, j, name)
      BY <1>2, <1>4, <1>7, <1>10, <2>1, <2>3 DEF ChannelPlanned
    <3>2. j \in Tried(q)
      BY <1>4, <1>7, TriedLater
    <3> QED
      BY <1>4, <1>7, <1>10, <2>3, <3>1, <3>2 DEF ChannelsRight, FitChannel
  <2>4. MoreChannels(q, d, storedChannels, storedChannels, name)
    BY <1>7, <2>1, <2>3 DEF MoreChannels
  <2> QED
    BY <1>4, <1>10, <2>2, <2>4, ChannelsLater
<1>11. SettledAs(q, d, q.ids, q.clean)
  BY <1>4, <1>6 DEF SettledAs
<1>12. q.before # <<>> => ChannelsRight(d, storedChannels')
  BY <1>9, <1>10
<1>13. IdsRight(q.ids, storedChannels')
  BY <1>4, <1>9
<1> QED
  BY <1>1, <1>8, <1>9, <1>11, <1>12, <1>13, ChannelStep

LEMMA ImportSettles ==
  ASSUME NEW u, NEW q, q = upload[u], q = SameImport(q), NEW id, NEW d, d = Transfer!Settled(u, id),
         NEW ids, ids = Transfer!With(q.ids, q.file.channels[q.settled + 1].name, id)
  PROVE  d = Import(q.kind, q.stage, q.file, q.overwrite, q.sync, q.plan, ids, q.known, q.outcomes, q.settled + 1,
                    q.clean, q.before)
<1>1. PICK p : p = [q EXCEPT !.settled = @ + 1]
  OBVIOUS
<1>2. p = Import(q.kind, q.stage, q.file, q.overwrite, q.sync, q.plan, q.ids, q.known, q.outcomes, q.settled + 1,
                 q.clean, q.before)
  BY <1>1, ImportPasses
<1>3. /\ p = SameImport(p) /\ p.kind = q.kind /\ p.stage = q.stage /\ p.file = q.file /\ p.overwrite = q.overwrite
      /\ p.sync = q.sync /\ p.plan = q.plan /\ p.ids = q.ids /\ p.known = q.known /\ p.outcomes = q.outcomes
      /\ p.settled = q.settled + 1 /\ p.clean = q.clean /\ p.before = q.before
  BY <1>2 DEF Import, SameImport
<1>4. d = [p EXCEPT !.ids = ids]
  BY <1>1, <1>3 DEF Transfer!Settled, Transfer!Passed, Transfer!Channel
<1>5. d = Import(p.kind, p.stage, p.file, p.overwrite, p.sync, p.plan, ids, p.known, p.outcomes, p.settled,
                 p.clean, p.before)
  BY <1>3, <1>4, ImportFinds
<1> QED
  BY <1>3, <1>5

\* A channel is found, or made.
ChannelFound(q, name, id) ==
  /\ name = q.file.channels[q.settled + 1].name
  /\ id \in DOMAIN storedChannels' /\ storedChannels'[id].name = name
  /\ \A c \in DOMAIN storedChannels : c \in DOMAIN storedChannels' /\ storedChannels'[c] = storedChannels[c]
  /\ q.before # <<>> =>
       /\ FitChannel(q, q.settled + 1, name)
       /\ \A c \in DOMAIN storedChannels' :
            \/ c \in DOMAIN storedChannels
            \/ /\ storedChannels'[c].name = name /\ Transfer!Named(q.before[1], name) = {}
               /\ \A j \in Tried(q) : ~FitChannel(q, j, name)
               /\ \A e \in DOMAIN storedChannels' : e \in DOMAIN storedChannels \/ e = c

LEMMA FoundRight ==
  ASSUME TransferInv, ChannelWritten, NEW u \in Uploads, NEW q, q = upload[u], NEW S, Transfer!NextChannel(u, S),
         NEW name, NEW id, ChannelFound(q, name, id), Transfer!Goes(u, Transfer!Settled(u, id))
  PROVE  TransferInv'
<1>1. /\ q = SameImport(q) /\ q.kind = "config" /\ q.stage = "channels" /\ q.settled \in Nat
      /\ q.settled < Len(q.file.channels) /\ q.settled + 1 \in DOMAIN q.file.channels
      /\ q.plan.channels[q.settled + 1] \in S /\ IsList(q.file.channels) /\ q.clean \in BOOLEAN
      /\ IdsRight(q.ids, storedChannels)
      /\ q.before # <<>> => /\ ChannelsRight(q, storedChannels) /\ ChannelPlanned(q, q.settled + 1)
  BY AtChannel
<1>2. PICK d, ids : d = Transfer!Settled(u, id) /\ ids = Transfer!With(q.ids, name, id)
  OBVIOUS
<1>3. d = Import(q.kind, q.stage, q.file, q.overwrite, q.sync, q.plan, ids, q.known, q.outcomes, q.settled + 1,
                 q.clean, q.before)
  <2>1. ids = Transfer!With(q.ids, q.file.channels[q.settled + 1].name, id)
    BY <1>2 DEF ChannelFound
  <2>2. q = SameImport(q) /\ d = Transfer!Settled(u, id)
    BY <1>1, <1>2
  <2> QED
    BY <2>1, <2>2, ImportSettles
<1>4. SameGoal(q, d) /\ d.ids = ids /\ d.settled = q.settled + 1 /\ d.clean = q.clean /\ d.before = q.before
  BY <1>3 DEF Import, SameGoal
<1>5. DOMAIN ids = DOMAIN q.ids \cup {name} /\ ids[name] = id /\ \A n \in DOMAIN q.ids : n = name \/ ids[n] = q.ids[n]
  BY <1>2 DEF Transfer!With
<1>6. IdsRight(ids, storedChannels')
  <2>1. ASSUME NEW n \in DOMAIN ids PROVE ids[n] \in DOMAIN storedChannels' /\ storedChannels'[ids[n]].name = n
    <3>1. CASE n = name
      BY <1>5, <3>1 DEF ChannelFound
    <3>2. CASE n # name
      <4>1. n \in DOMAIN q.ids /\ ids[n] = q.ids[n]
        BY <1>5, <2>1, <3>2
      <4>2. q.ids[n] \in DOMAIN storedChannels /\ storedChannels[q.ids[n]].name = n
        BY <1>1, <4>1 DEF IdsRight
      <4> QED
        BY <4>1, <4>2 DEF ChannelFound
    <3> QED
      BY <3>1, <3>2
  <2> QED
    BY <2>1 DEF IdsRight
<1>7. ASSUME q.before # <<>> PROVE ChannelsRight(d, storedChannels')
  <2>1. SettlesOne(q, d)
    BY <1>1, <1>4 DEF SettlesOne
  <2>2. PICK chans2 : chans2 = storedChannels'
    OBVIOUS
  <2>3. /\ FitChannel(q, d.settled, name) /\ name = q.file.channels[d.settled].name
        /\ \A c \in DOMAIN storedChannels : c \in DOMAIN chans2 /\ chans2[c] = storedChannels[c]
        /\ \A c \in DOMAIN chans2 :
             \/ c \in DOMAIN storedChannels
             \/ /\ chans2[c].name = name /\ Transfer!Named(q.before[1], name) = {}
                /\ \A j \in Tried(q) : ~FitChannel(q, j, name)
                /\ \A e \in DOMAIN chans2 : e \in DOMAIN storedChannels \/ e = c
    BY <1>4, <1>7, <2>2 DEF ChannelFound
  <2>4. /\ DOMAIN q.ids \subseteq DOMAIN d.ids /\ name \in DOMAIN d.ids /\ d.clean = q.clean
        /\ \A n \in DOMAIN d.ids : n \in DOMAIN q.ids \/ n = name
    BY <1>4, <1>5
  <2>5. MoreChannels(q, d, storedChannels, chans2, name)
    BY <2>3, <2>4 DEF MoreChannels
  <2> QED
    BY <1>1, <1>7, <2>1, <2>2, <2>5, ChannelsLater
<1>8. SettledAs(q, d, ids, q.clean)
  BY <1>1, <1>3 DEF SettledAs
<1>9. Transfer!Goes(u, d)
  BY <1>2
<1> QED
  BY <1>6, <1>7, <1>8, <1>9, ChannelStep

LEMMA ReuseChannelRight ==
  ASSUME TransferInv, NEW u \in Uploads, Transfer!ReuseChannel(u)
  PROVE  TransferInv'
<1>1. PICK q : q = upload[u]
  OBVIOUS
<1>2. PICK S : S = {"reuse"}
  OBVIOUS
<1>3. Transfer!NextChannel(u, S)
  BY <1>2 DEF Transfer!ReuseChannel
<1>4. /\ q.kind = "config" /\ q.settled + 1 \in DOMAIN q.file.channels
      /\ q.plan.channels[q.settled + 1] = "reuse" /\ PlanStands(q, storedMonitors, storedChannels)
      /\ q.before # <<>> => ChannelPlanned(q, q.settled + 1)
  BY <1>1, <1>2, <1>3, AtChannel
<1>5. PICK name : name = q.file.channels[q.settled + 1].name
  OBVIOUS
<1>6. Transfer!Named(storedChannels, name) # {}
  BY <1>4, <1>5 DEF PlanStands
<1>7. Transfer!Named(storedChannels, name) \in SUBSET Nat
  <2>1. DOMAIN storedChannels = 1..Len(storedChannels) /\ Len(storedChannels) \in Nat
    BY ListParts DEF TransferInv, RowsRight
  <2> QED
    BY <2>1 DEF Transfer!Named
<1>8. PICK id : id = Transfer!Oldest(Transfer!Named(storedChannels, name))
  OBVIOUS
<1>9. id \in DOMAIN storedChannels /\ storedChannels[id].name = name
  <2>1. id \in Transfer!Named(storedChannels, name)
    BY <1>6, <1>7, <1>8, OldestIn
  <2> QED
    BY <2>1 DEF Transfer!Named
<1>10. ChannelWritten /\ storedChannels' = storedChannels
  <2>1. UNCHANGED <<storedChannels, storedMonitors, minted>> /\ mishap' = mishap
    BY DEF Transfer!ReuseChannel, Transfer!stored
  <2> QED
    BY <2>1, ChannelQuiet DEF TransferInv
<1>11. ChannelFound(q, name, id)
  BY <1>4, <1>5, <1>9, <1>10 DEF ChannelFound, ChannelPlanned, FitChannel
<1>12. Transfer!Goes(u, Transfer!Settled(u, id))
  BY <1>1, <1>5, <1>8 DEF Transfer!ReuseChannel, Transfer!Channel
<1> QED
  BY <1>1, <1>3, <1>10, <1>11, <1>12, FoundRight

LEMMA InsertChannelRight ==
  ASSUME TransferInv, NEW u \in Uploads, Transfer!InsertChannel(u)
  PROVE  TransferInv'
<1>1. PICK q : q = upload[u]
  OBVIOUS
<1>2. PICK S : S = {"create"}
  OBVIOUS
<1>3. Transfer!NextChannel(u, S)
  BY <1>2 DEF Transfer!InsertChannel
<1>4. /\ q = SameImport(q) /\ q.kind = "config" /\ q.stage = "channels" /\ q.settled \in Nat
      /\ q.settled < Len(q.file.channels) /\ q.settled + 1 \in DOMAIN q.file.channels
      /\ q.plan.channels[q.settled + 1] = "create" /\ IsList(q.file.channels) /\ q.clean \in BOOLEAN
      /\ IdsRight(q.ids, storedChannels)
      /\ q.before # <<>> => /\ ChannelsRight(q, storedChannels) /\ ChannelPlanned(q, q.settled + 1)
                            /\ Len(q.before[1]) <= Len(storedChannels)
  BY <1>1, <1>2, <1>3, AtChannel
<1>5. storedMonitors' = storedMonitors /\ minted' = minted
  BY DEF Transfer!InsertChannel
<1>6. PICK name : name = q.file.channels[q.settled + 1].name
  OBVIOUS
<1>7. CASE /\ Transfer!Works
           /\ storedChannels' = Append(storedChannels, [name |-> Transfer!Channel(u).name, text |-> Transfer!Channel(u).text])
           /\ Transfer!Goes(u, Transfer!Settled(u, Len(storedChannels) + 1))
  <2>1. PICK x : x = [name |-> Transfer!Channel(u).name, text |-> Transfer!Channel(u).text]
    OBVIOUS
  <2>2. x.name = name /\ storedChannels' = Append(storedChannels, x)
    BY <1>1, <1>6, <1>7, <2>1 DEF Transfer!Channel
  <2>3. PICK id : id = Len(storedChannels) + 1
    OBVIOUS
  <2>4. /\ IsList(storedChannels') /\ Len(storedChannels') = Len(storedChannels) + 1 /\ Len(storedChannels) \in Nat
        /\ DOMAIN storedChannels' = 1..(Len(storedChannels) + 1) /\ DOMAIN storedChannels = 1..Len(storedChannels)
        /\ \A c \in DOMAIN storedChannels : storedChannels'[c] = storedChannels[c]
        /\ storedChannels'[id] = x /\ \A c \in DOMAIN storedChannels' : c \in DOMAIN storedChannels \/ c = id
    BY <2>2, <2>3, ListAppend DEF TransferInv, RowsRight
  <2>5. id \in DOMAIN storedChannels' /\ \A c \in DOMAIN storedChannels : c \in DOMAIN storedChannels'
    BY <2>3, <2>4
  <2>6. RowsRight(storedMonitors', storedChannels', minted')
    BY <1>5, <2>4, <2>5 DEF TransferInv, RowsRight, IsRow
  <2>7. ChannelWritten
    BY <1>5, <1>7, <2>4, <2>5, <2>6 DEF ChannelWritten, Grows, Grown, TransferInv, Transfer!Works
  <2>8. ASSUME q.before # <<>>
        PROVE  /\ FitChannel(q, q.settled + 1, name) /\ Transfer!Named(q.before[1], name) = {}
               /\ \A j \in Tried(q) : ~FitChannel(q, j, name)
    <3>1. /\ FitChannel(q, q.settled + 1, name) /\ Transfer!Named(q.before[1], name) = {}
          /\ \A j \in 1..q.settled : ~FitChannel(q, j, name)
      BY <1>4, <1>6, <2>8 DEF ChannelPlanned, FitChannel
    <3>2. \A j \in Tried(q) : j \in 1..q.settled
      BY <1>4, ListParts DEF Tried
    <3> QED
      BY <3>1, <3>2
  <2>9. ChannelFound(q, name, id)
    BY <1>6, <2>2, <2>4, <2>5, <2>8 DEF ChannelFound
  <2>10. Transfer!Goes(u, Transfer!Settled(u, id))
    BY <1>7, <2>3
  <2> QED
    BY <1>1, <1>3, <2>7, <2>9, <2>10, FoundRight
<1>8. CASE /\ Transfer!Breaks /\ UNCHANGED storedChannels
           /\ Transfer!Goes(u, [Transfer!Passed(u) EXCEPT !.clean = FALSE])
  <2>1. PICK p : p = [q EXCEPT !.settled = @ + 1]
    OBVIOUS
  <2>2. p = Import(q.kind, q.stage, q.file, q.overwrite, q.sync, q.plan, q.ids, q.known, q.outcomes, q.settled + 1,
                   q.clean, q.before)
    BY <1>4, <2>1, ImportPasses
  <2>3. /\ p = SameImport(p) /\ p.kind = q.kind /\ p.stage = q.stage /\ p.file = q.file /\ p.overwrite = q.overwrite
        /\ p.sync = q.sync /\ p.plan = q.plan /\ p.ids = q.ids /\ p.known = q.known /\ p.outcomes = q.outcomes
        /\ p.settled = q.settled + 1 /\ p.clean = q.clean /\ p.before = q.before
    BY <2>2 DEF Import, SameImport
  <2>4. PICK d : d = [p EXCEPT !.clean = FALSE]
    OBVIOUS
  <2>5. d = Import(p.kind, p.stage, p.file, p.overwrite, p.sync, p.plan, p.ids, p.known, p.outcomes, p.settled,
                   FALSE, p.before)
    BY <2>3, <2>4, ImportSpoils
  <2>6. PICK clean \in BOOLEAN : clean = FALSE
    OBVIOUS
  <2>7. d = Import(q.kind, q.stage, q.file, q.overwrite, q.sync, q.plan, q.ids, q.known, q.outcomes, q.settled + 1,
                   clean, q.before)
    BY <2>3, <2>5, <2>6, Zenon
  <2>8. SameGoal(q, d) /\ d.ids = q.ids /\ d.settled = q.settled + 1 /\ d.clean = clean /\ d.before = q.before
    BY <2>7 DEF Import, SameGoal
  <2>9. Transfer!Goes(u, d)
    BY <1>1, <1>8, <2>1, <2>4 DEF Transfer!Passed
  <2>10. ChannelWritten /\ storedChannels' = storedChannels
    BY <1>5, <1>8, ChannelQuiet DEF Transfer!Breaks
  <2>11. ASSUME q.before # <<>> PROVE ChannelsRight(d, storedChannels)
    <3>1. SettlesOne(q, d)
      BY <1>4, <2>8 DEF SettlesOne
    <3>2. MoreChannels(q, d, storedChannels, storedChannels, name)
      BY <1>6, <2>6, <2>8 DEF MoreChannels
    <3> QED
      BY <1>4, <2>11, <3>1, <3>2, ChannelsLater
  <2>12. SettledAs(q, d, q.ids, clean)
    BY <1>4, <2>6, <2>7 DEF SettledAs
  <2>13. IdsRight(q.ids, storedChannels') /\ (q.before # <<>> => ChannelsRight(d, storedChannels'))
    BY <1>4, <2>10, <2>11
  <2> QED
    BY <1>1, <2>9, <2>10, <2>12, <2>13, ChannelStep
<1> QED
  BY <1>7, <1>8 DEF Transfer!InsertChannel

-----------------------------------------------------------------------------
(* The entries of an import.                                               *)

\* One outcome more is recorded.
RecordedAs(q, d, o, known, clean) ==
  /\ d = Import(q.kind, q.stage, q.file, q.overwrite, q.sync, q.plan, q.ids, known, Append(q.outcomes, o),
                q.settled, clean, q.before)
  /\ o \in Transfer!Statuses /\ clean \in BOOLEAN /\ (clean => q.clean)
RowsWritten ==
  /\ Grows /\ mishap' \in BOOLEAN /\ storedChannels' = storedChannels
  /\ RowsRight(storedMonitors', storedChannels', minted') /\ Len(storedMonitors) <= Len(storedMonitors')
KnownRight(known, rows, chans) ==
  \A k \in DOMAIN known : Knowing(rows, chans, known[k]) /\ Transfer!Key(rows[known[k].id]) = k
AtEntry(q, e) ==
  /\ e = Len(q.outcomes) + 1 /\ e \in DOMAIN q.file.monitors
EntryRight(q, d, e, rows, chans) ==
  /\ OldKept(q, rows)
  /\ \A i, j \in New(q.before[2], rows) : i # j => Transfer!Key(rows[i]) # Transfer!Key(rows[j])
  /\ d.clean /\ e \in Transfer!Fit(q.file) => HasKey(rows, Transfer!Key(q.file.monitors[e]))
  /\ q.kind = "config" => RowsMade(d, rows, chans)
  /\ q.kind = "kuma" => KumaRight(d, rows, chans)

\* What is known when an import is at an entry.
LEMMA EntryFacts ==
  ASSUME TransferInv, NEW u \in Uploads, NEW q, q = upload[u], NEW kind, Transfer!NextEntry(u, kind)
  PROVE  /\ q = SameImport(q) /\ q.kind = kind /\ q.stage = "monitors" /\ q.kind # "none"
         /\ IsList(q.outcomes) /\ IsList(q.file.monitors) /\ StageRight(q) /\ q.clean \in BOOLEAN
         /\ Len(q.outcomes) < Len(q.file.monitors) /\ AtEntry(q, Len(q.outcomes) + 1)
         /\ ImportTyped(q, storedMonitors, storedChannels) /\ ImportRight(q, storedMonitors, storedChannels)
<1>1. ImportTyped(q, storedMonitors, storedChannels) /\ ImportRight(q, storedMonitors, storedChannels)
  BY DEF TransferInv
<1>2. q.kind = kind /\ q.stage = "monitors" /\ Len(q.outcomes) < Len(q.file.monitors)
  BY DEF Transfer!NextEntry
<1>3. q.kind # "none" /\ StageRight(q) /\ IsList(q.outcomes) /\ IsList(q.file.monitors)
  BY <1>1, <1>2 DEF ImportTyped, IsFile
<1>4. Len(q.outcomes) + 1 \in DOMAIN q.file.monitors
  <2>1. DOMAIN q.file.monitors = 1..Len(q.file.monitors) /\ Len(q.file.monitors) \in Nat /\ Len(q.outcomes) \in Nat
    BY <1>3, ListParts
  <2> QED
    BY <1>2, <2>1
<1> QED
  BY <1>1, <1>2, <1>3, <1>4 DEF ImportTyped, AtEntry

\* What has been handled one entry later.
RecordsOne(q, d, e, o) ==
  /\ AtEntry(q, e) /\ IsList(q.outcomes) /\ IsList(q.file.monitors) /\ d.file = q.file
  /\ d.outcomes = Append(q.outcomes, o)
LEMMA HandledLater ==
  ASSUME NEW q, NEW d, NEW e, NEW o, RecordsOne(q, d, e, o)
  PROVE  /\ Handled(d) = Handled(q) \cup {e} /\ d.outcomes[e] = o /\ IsList(d.outcomes)
         /\ \A j \in Handled(q) : d.outcomes[j] = q.outcomes[j] /\ j < e
         /\ \A j \in DOMAIN q.file.monitors : j < e => j \in Handled(q)
         /\ \A j \in DOMAIN d.outcomes : d.outcomes[j] = o \/ (j \in DOMAIN q.outcomes /\ d.outcomes[j] = q.outcomes[j])
         /\ Len(d.outcomes) = Len(q.outcomes) + 1 /\ Len(q.outcomes) \in Nat
         /\ Len(q.file.monitors) \in Nat /\ Len(q.outcomes) < Len(q.file.monitors)
<1> USE DEF RecordsOne
<1>1. /\ IsList(d.outcomes) /\ Len(d.outcomes) = Len(q.outcomes) + 1 /\ Len(q.outcomes) \in Nat
      /\ DOMAIN q.outcomes = 1..Len(q.outcomes) /\ DOMAIN d.outcomes = 1..(Len(q.outcomes) + 1)
      /\ \A j \in DOMAIN q.outcomes : d.outcomes[j] = q.outcomes[j]
      /\ d.outcomes[Len(q.outcomes) + 1] = o
      /\ \A j \in DOMAIN d.outcomes : j \in DOMAIN q.outcomes \/ j = Len(q.outcomes) + 1
  BY ListAppend
<1>2. DOMAIN q.file.monitors = 1..Len(q.file.monitors) /\ Len(q.file.monitors) \in Nat
  BY ListParts
<1>3. e = Len(q.outcomes) + 1 /\ e \in DOMAIN q.file.monitors
  BY DEF AtEntry
<1>4. Handled(d) = Handled(q) \cup {e}
  BY <1>1, <1>2, <1>3 DEF Handled
<1>5. \A j \in Handled(q) : j \in DOMAIN q.outcomes /\ j < e
  BY <1>1, <1>2, <1>3 DEF Handled
<1>6. \A j \in DOMAIN q.file.monitors : j < e => j \in Handled(q)
  BY <1>1, <1>2, <1>3 DEF Handled
<1>7. Len(q.outcomes) < Len(q.file.monitors)
  BY <1>1, <1>2, <1>3
<1> QED
  BY <1>1, <1>2, <1>3, <1>4, <1>5, <1>6, <1>7

LEMMA ChannelsStay ==
  ASSUME NEW q, NEW d, SameGoal(q, d), d.before = q.before, d.ids = q.ids, d.settled = q.settled,
         d.clean => q.clean, NEW chans, ChannelsRight(q, chans)
  PROVE  ChannelsRight(d, chans)
<1>1. d.before[1] = q.before[1] /\ d.file = q.file /\ Tried(d) = Tried(q)
  BY DEF SameGoal, Tried
<1>2. \A i, n : FitChannel(d, i, n) <=> FitChannel(q, i, n)
  BY <1>1 DEF FitChannel
<1> QED
  BY <1>1, <1>2 DEF ChannelsRight

LEMMA EntryStep ==
  ASSUME TransferInv, RowsWritten, NEW u \in Uploads, NEW q, q = upload[u], NEW kind, Transfer!NextEntry(u, kind),
         NEW e, AtEntry(q, e), NEW d, NEW o, NEW known, NEW clean, RecordedAs(q, d, o, known, clean),
         Transfer!Goes(u, d), q.kind = "kuma" => KnownRight(known, storedMonitors', storedChannels'),
         q.before # <<>> => EntryRight(q, d, e, storedMonitors', storedChannels')
  PROVE  TransferInv'
<1>1. /\ q = SameImport(q) /\ q.kind = kind /\ q.stage = "monitors" /\ q.kind # "none"
      /\ IsList(q.outcomes) /\ IsList(q.file.monitors) /\ StageRight(q) /\ q.clean \in BOOLEAN
      /\ ImportTyped(q, storedMonitors, storedChannels) /\ ImportRight(q, storedMonitors, storedChannels)
  BY EntryFacts
<1>2. /\ d = SameImport(d) /\ SameGoal(q, d) /\ d.stage = q.stage /\ d.ids = q.ids /\ d.known = known
      /\ d.outcomes = Append(q.outcomes, o) /\ d.settled = q.settled /\ d.clean = clean /\ d.before = q.before
  BY DEF RecordedAs, Import, SameImport, SameGoal
<1>3. d.file = q.file /\ d.kind = q.kind
  BY <1>2 DEF SameGoal
<1>4. /\ Handled(d) = Handled(q) \cup {e} /\ d.outcomes[e] = o /\ IsList(d.outcomes)
      /\ \A j \in DOMAIN d.outcomes : d.outcomes[j] = o \/ (j \in DOMAIN q.outcomes /\ d.outcomes[j] = q.outcomes[j])
      /\ Len(d.outcomes) = Len(q.outcomes) + 1 /\ Len(q.outcomes) \in Nat
      /\ Len(q.file.monitors) \in Nat /\ Len(q.outcomes) < Len(q.file.monitors)
  <2>1. RecordsOne(q, d, e, o)
    BY <1>1, <1>2, <1>3 DEF RecordsOne
  <2> QED
    BY <2>1, HandledLater
<1>5. clean \in BOOLEAN /\ (clean => q.clean) /\ o \in Transfer!Statuses
  BY DEF RecordedAs
<1>6. ImportTyped(q, storedMonitors', storedChannels')
  BY <1>1, TypedStays DEF RowsWritten, Grows
<1>7. StageRight(d)
  BY <1>1, <1>2, <1>3, <1>4 DEF StageRight
<1>8. \A j \in DOMAIN d.outcomes : d.outcomes[j] \in Transfer!Statuses
  BY <1>1, <1>4, <1>5 DEF ImportTyped
<1>9. \A n \in DOMAIN d.ids : d.ids[n] \in DOMAIN storedChannels' /\ storedChannels'[d.ids[n]].name = n
  BY <1>2, <1>6 DEF ImportTyped
<1>10. q.kind = "kuma" => \A k \in DOMAIN d.known :
              Knowing(storedMonitors', storedChannels', d.known[k]) /\ Transfer!Key(storedMonitors'[d.known[k].id]) = k
  BY <1>2 DEF KnownRight
<1>11. ImportTyped(d, storedMonitors', storedChannels')
  BY <1>1, <1>2, <1>4, <1>5, <1>6, <1>7, <1>8, <1>9, <1>10, StaysTyped
<1>12. ASSUME q.before # <<>> PROVE ImportRight(d, storedMonitors', storedChannels')
  <2>1. EntryRight(q, d, e, storedMonitors', storedChannels')
    BY <1>12
  <2>2. OldKept(d, storedMonitors')
    BY <1>2, <2>1, OldStays DEF EntryRight
  <2>3. Len(q.before[2]) <= Len(storedMonitors')
    <3>1. Len(q.before[2]) <= Len(storedMonitors) /\ IsList(q.before[2])
      BY <1>1, <1>12 DEF ImportRight, RowsRight
    <3>2. Len(storedMonitors) <= Len(storedMonitors') /\ IsList(storedMonitors) /\ IsList(storedMonitors')
      BY DEF RowsWritten, RowsRight, TransferInv
    <3>3. Len(q.before[2]) \in Nat /\ Len(storedMonitors) \in Nat /\ Len(storedMonitors') \in Nat
      BY <3>1, <3>2, ListParts
    <3> QED
      BY <3>1, <3>2, <3>3
  <2>4. ASSUME d.clean, NEW j \in Handled(d) \cap Transfer!Fit(d.file)
        PROVE  HasKey(storedMonitors', Transfer!Key(d.file.monitors[j]))
    <3>1. CASE j = e
      BY <1>3, <2>1, <2>4, <3>1 DEF EntryRight
    <3>2. CASE j # e
      <4>1. HasKey(storedMonitors, Transfer!Key(q.file.monitors[j]))
        BY <1>1, <1>2, <1>3, <1>4, <1>5, <1>12, <2>4, <3>2 DEF ImportRight
      <4> QED
        BY <1>3, <4>1 DEF HasKey, RowsWritten, Grows, Grown
    <3> QED
      BY <3>1, <3>2
  <2>5. d.kind = "config" => PlanRight(d) /\ ChannelsRight(d, storedChannels') /\ RowsMade(d, storedMonitors', storedChannels')
    <3>1. ASSUME q.kind = "config" PROVE PlanRight(d) /\ ChannelsRight(d, storedChannels)
      <4>1. PlanRight(q) /\ ChannelsRight(q, storedChannels)
        BY <1>1, <1>12, <3>1 DEF ImportRight
      <4>2. d.clean => q.clean
        BY <1>2, <1>5
      <4> QED
        BY <1>2, <4>1, <4>2, PlanRightStays, ChannelsStay
    <3>2. storedChannels' = storedChannels
      BY DEF RowsWritten
    <3> QED
      BY <1>3, <2>1, <3>1, <3>2 DEF EntryRight
  <2>6. Len(d.before[1]) <= Len(storedChannels') /\ \E top : RowsRight(d.before[2], d.before[1], top)
    BY <1>1, <1>2, <1>12 DEF ImportRight, RowsWritten
  <2> QED
    BY <1>2, <1>3, <1>12, <2>1, <2>2, <2>3, <2>4, <2>5, <2>6 DEF ImportRight, EntryRight
<1>13. ImportRight(d, storedMonitors', storedChannels')
  BY <1>2, <1>12 DEF ImportRight
<1> QED
  BY <1>11, <1>13, GoesRight DEF RowsWritten

LEMMA ImportFails ==
  ASSUME NEW q, q = SameImport(q), NEW x
  PROVE  [[q EXCEPT !.outcomes = x] EXCEPT !.clean = FALSE] =
           Import(q.kind, q.stage, q.file, q.overwrite, q.sync, q.plan, q.ids, q.known, x, q.settled,
                  FALSE, q.before)
<1>1. PICK r : r = [q EXCEPT !.outcomes = x]
  OBVIOUS
<1>2. r = Import(q.kind, q.stage, q.file, q.overwrite, q.sync, q.plan, q.ids, q.known, x, q.settled,
                 q.clean, q.before)
  BY <1>1, ImportRecords
<1>3. /\ r = SameImport(r) /\ r.kind = q.kind /\ r.stage = q.stage /\ r.file = q.file /\ r.overwrite = q.overwrite
      /\ r.sync = q.sync /\ r.plan = q.plan /\ r.ids = q.ids /\ r.known = q.known /\ r.outcomes = x
      /\ r.settled = q.settled /\ r.clean = q.clean /\ r.before = q.before
  BY <1>2 DEF Import, SameImport
<1>4. [r EXCEPT !.clean = FALSE] =
           Import(r.kind, r.stage, r.file, r.overwrite, r.sync, r.plan, r.ids, r.known, r.outcomes, r.settled,
                  FALSE, r.before)
  BY <1>3, ImportSpoils
<1>5. [r EXCEPT !.clean = FALSE] =
           Import(q.kind, q.stage, q.file, q.overwrite, q.sync, q.plan, q.ids, q.known, x, q.settled,
                  FALSE, q.before)
  BY <1>3, <1>4, Zenon
<1> QED
  BY <1>1, <1>5

\* Rows as they are: an outcome that makes no row changes nothing.
LEMMA NothingMade ==
  ASSUME NEW q, NEW d, NEW e, NEW o, NEW known, NEW clean, NEW rows, NEW chans, RecordedAs(q, d, o, known, clean),
         AtEntry(q, e), IsList(q.outcomes), IsList(q.file.monitors), known = q.known, o # "create",
         ImportRight(q, rows, chans), q.before # <<>>,
         d.clean /\ e \in Transfer!Fit(q.file) => HasKey(rows, Transfer!Key(q.file.monitors[e]))
  PROVE  EntryRight(q, d, e, rows, chans)
<1>1. /\ SameGoal(q, d) /\ d.known = q.known /\ d.outcomes = Append(q.outcomes, o) /\ d.before = q.before
      /\ d.clean = clean
  BY DEF RecordedAs, Import, SameGoal
<1>2. RecordsOne(q, d, e, o)
  BY <1>1 DEF RecordsOne, SameGoal
<1>3. /\ Handled(d) = Handled(q) \cup {e} /\ d.outcomes[e] = o
      /\ \A j \in Handled(q) : d.outcomes[j] = q.outcomes[j]
  BY <1>2, HandledLater
<1>4. d.before[2] = q.before[2] /\ d.file = q.file /\ d.plan = q.plan
  BY <1>1 DEF SameGoal
<1>5. d.clean => q.clean
  BY <1>1 DEF RecordedAs
<1>6. \A j, row : MadeOf(q, j, row, chans) => MadeOf(d, j, row, chans)
  BY <1>4, <1>5 DEF MadeOf, Wired
<1>7. q.kind = "config" => RowsMade(d, rows, chans)
  <2>1. ASSUME q.kind = "config" PROVE RowsMade(q, rows, chans)
    BY <2>1 DEF ImportRight
  <2> QED
    BY <1>3, <1>4, <1>6, <2>1 DEF RowsMade
<1>8. q.kind = "kuma" => KumaRight(d, rows, chans)
  <2>1. ASSUME q.kind = "kuma" PROVE KumaRight(q, rows, chans)
    BY <2>1 DEF ImportRight
  <2> QED
    BY <1>1, <1>4, <2>1 DEF KumaRight, SameGoal
<1>9. OldKept(q, rows) /\ \A i, j \in New(q.before[2], rows) : i # j => Transfer!Key(rows[i]) # Transfer!Key(rows[j])
  BY DEF ImportRight
<1> QED
  BY <1>7, <1>8, <1>9 DEF EntryRight

\* An entry that writes nothing.
EntryUnwritten ==
  UNCHANGED <<storedChannels, storedMonitors>> /\ minted' \in {minted, minted + 1} /\ mishap' \in BOOLEAN
LEMMA EntryQuiet ==
  ASSUME TransferInv, EntryUnwritten
  PROVE  RowsWritten /\ storedChannels' = storedChannels /\ storedMonitors' = storedMonitors
<1>1. storedChannels' = storedChannels /\ storedMonitors' = storedMonitors
  BY DEF EntryUnwritten
<1>2. minted \in Nat /\ minted' \in Nat /\ minted <= minted' /\ 10 <= minted' /\ mishap' \in BOOLEAN
  BY DEF EntryUnwritten, TransferInv, RowsRight
<1>3. \A i \in DOMAIN storedMonitors : IsRow(storedMonitors[i], minted', storedChannels)
  BY <1>2 DEF TransferInv, RowsRight, IsRow
<1>4. RowsRight(storedMonitors', storedChannels', minted')
  BY <1>1, <1>2, <1>3 DEF TransferInv, RowsRight
<1>5. Len(storedMonitors) \in Nat /\ Len(storedMonitors) <= Len(storedMonitors')
  BY <1>1, ListParts DEF TransferInv, RowsRight
<1> QED
  BY <1>1, <1>2, <1>4, <1>5 DEF RowsWritten, Grows, Grown

\* An entry whose statement fails, or whose token is taken.
LEMMA FailsRight ==
  ASSUME TransferInv, NEW u \in Uploads, NEW kind, Transfer!NextEntry(u, kind), EntryUnwritten,
         Transfer!Spoilt(u, "failed")
  PROVE  TransferInv'
<1>1. PICK q, e, o : q = upload[u] /\ e = Len(q.outcomes) + 1 /\ o = "failed"
  OBVIOUS
<1>2. /\ q = SameImport(q) /\ q.kind = kind /\ IsList(q.outcomes) /\ IsList(q.file.monitors) /\ q.clean \in BOOLEAN
      /\ AtEntry(q, e)
      /\ ImportTyped(q, storedMonitors, storedChannels) /\ ImportRight(q, storedMonitors, storedChannels)
  BY <1>1, EntryFacts
<1>3. PICK x, d : x = Append(q.outcomes, o) /\ d = [[q EXCEPT !.outcomes = x] EXCEPT !.clean = FALSE]
  OBVIOUS
<1>4. PICK clean \in BOOLEAN : clean = FALSE
  OBVIOUS
<1>5. d = Import(q.kind, q.stage, q.file, q.overwrite, q.sync, q.plan, q.ids, q.known, x, q.settled,
                 FALSE, q.before)
  BY <1>2, <1>3, ImportFails
<1>6. d = Import(q.kind, q.stage, q.file, q.overwrite, q.sync, q.plan, q.ids, q.known, x, q.settled,
                 clean, q.before)
  BY <1>4, <1>5, Zenon
<1>7. RecordedAs(q, d, o, q.known, clean)
  BY <1>1, <1>3, <1>4, <1>6 DEF RecordedAs, Transfer!Statuses
<1>8. d.clean = FALSE
  BY <1>4, <1>6 DEF Import
<1>9. Transfer!Goes(u, d)
  BY <1>1, <1>3 DEF Transfer!Spoilt, Transfer!Recorded
<1>10. RowsWritten /\ storedChannels' = storedChannels /\ storedMonitors' = storedMonitors
  BY EntryQuiet
<1>11. q.kind = "kuma" => KnownRight(q.known, storedMonitors', storedChannels')
  BY <1>2, <1>10 DEF ImportTyped, KnownRight
<1>12. ASSUME q.before # <<>> PROVE EntryRight(q, d, e, storedMonitors', storedChannels')
  BY <1>1, <1>2, <1>7, <1>8, <1>10, <1>12, NothingMade
<1> QED
  BY <1>1, <1>2, <1>7, <1>9, <1>10, <1>11, <1>12, EntryStep

\* An entry that is passed over.
LEMMA PassesRight ==
  ASSUME TransferInv, NEW u \in Uploads, NEW kind, Transfer!NextEntry(u, kind), EntryUnwritten,
         NEW q, q = upload[u], NEW e, AtEntry(q, e), NEW o \in Transfer!Statuses \ {"create"}, Transfer!Records(u, o),
         q.before # <<>> /\ q.clean /\ e \in Transfer!Fit(q.file) =>
           HasKey(storedMonitors, Transfer!Key(q.file.monitors[e]))
  PROVE  TransferInv'
<1>1. /\ q = SameImport(q) /\ q.kind = kind /\ IsList(q.outcomes) /\ IsList(q.file.monitors) /\ q.clean \in BOOLEAN
      /\ ImportTyped(q, storedMonitors, storedChannels) /\ ImportRight(q, storedMonitors, storedChannels)
  BY EntryFacts
<1>2. PICK x, d : x = Append(q.outcomes, o) /\ d = [q EXCEPT !.outcomes = x]
  OBVIOUS
<1>3. d = Import(q.kind, q.stage, q.file, q.overwrite, q.sync, q.plan, q.ids, q.known, x, q.settled,
                 q.clean, q.before)
  BY <1>1, <1>2, ImportRecords
<1>4. RecordedAs(q, d, o, q.known, q.clean)
  BY <1>1, <1>2, <1>3 DEF RecordedAs
<1>5. d.clean = q.clean
  BY <1>3 DEF Import
<1>6. Transfer!Goes(u, d)
  BY <1>2 DEF Transfer!Records, Transfer!Recorded
<1>7. RowsWritten /\ storedChannels' = storedChannels /\ storedMonitors' = storedMonitors
  BY EntryQuiet
<1>8. q.kind = "kuma" => KnownRight(q.known, storedMonitors', storedChannels')
  BY <1>1, <1>7 DEF ImportTyped, KnownRight
<1>9. ASSUME q.before # <<>> PROVE EntryRight(q, d, e, storedMonitors', storedChannels')
  BY <1>1, <1>4, <1>5, <1>7, <1>9, NothingMade
<1> QED
  BY <1>1, <1>4, <1>6, <1>7, <1>8, <1>9, EntryStep

LEMMA PassEntryRight ==
  ASSUME TransferInv, NEW u \in Uploads, Transfer!PassEntry(u)
  PROVE  TransferInv'
<1>1. PICK q, e, kind : q = upload[u] /\ e = Len(q.outcomes) + 1 /\ kind = "config"
  OBVIOUS
<1>2. /\ Transfer!NextEntry(u, kind) /\ EntryUnwritten
  BY <1>1 DEF Transfer!PassEntry, EntryUnwritten, Transfer!stored, TransferInv
<1>3. /\ q = SameImport(q) /\ q.kind = kind /\ IsList(q.outcomes) /\ IsList(q.file.monitors) /\ q.clean \in BOOLEAN
      /\ AtEntry(q, e)
      /\ ImportTyped(q, storedMonitors, storedChannels) /\ ImportRight(q, storedMonitors, storedChannels)
  BY <1>1, <1>2, EntryFacts
<1>4. PICK o : o = q.plan.monitors[e].status
  OBVIOUS
<1>5. Transfer!Records(u, o) /\ o \in {"invalid", "duplicate"}
  BY <1>1, <1>4 DEF Transfer!PassEntry, Transfer!Planned
<1>6. o \in Transfer!Statuses \ {"create"}
  BY <1>5 DEF Transfer!Statuses
<1>7. ASSUME q.before # <<>>, q.clean, e \in Transfer!Fit(q.file)
      PROVE  HasKey(storedMonitors, Transfer!Key(q.file.monitors[e]))
  <2>1. e \in DOMAIN q.file.monitors
    BY <1>3 DEF AtEntry
  <2>2. EntryPlanned(q, e) /\ OldKept(q, storedMonitors)
    BY <1>1, <1>3, <1>7, <2>1 DEF ImportRight, PlanRight
  <2>3. HasKey(q.before[2], Transfer!Key(q.file.monitors[e])) \/ FitBefore(q, e)
    BY <1>4, <1>5, <1>7, <2>2 DEF EntryPlanned
  <2>4. CASE HasKey(q.before[2], Transfer!Key(q.file.monitors[e]))
    BY <2>2, <2>4 DEF HasKey, OldKept
  <2>5. CASE FitBefore(q, e)
    <3>1. PICK j \in Transfer!Fit(q.file) : j < e /\ Transfer!Key(q.file.monitors[j]) = Transfer!Key(q.file.monitors[e])
      BY <2>5 DEF FitBefore
    <3>2. j \in Handled(q)
      <4>1. j \in DOMAIN q.file.monitors /\ DOMAIN q.file.monitors \subseteq Nat /\ Len(q.outcomes) \in Nat
        BY <1>3, ListParts DEF Transfer!Fit
      <4> QED
        BY <1>1, <3>1, <4>1 DEF Handled
    <3> QED
      BY <1>3, <1>7, <3>1, <3>2 DEF ImportRight
  <2> QED
    BY <2>3, <2>4, <2>5
<1> QED
  BY <1>1, <1>2, <1>3, <1>5, <1>6, <1>7, PassesRight

-----------------------------------------------------------------------------
(* A row is rewritten, or made.                                            *)

RowRewritten(x, row) ==
  /\ x \in DOMAIN storedMonitors /\ storedMonitors' = [storedMonitors EXCEPT ![x] = row]
  /\ storedChannels' = storedChannels /\ minted' = minted /\ mishap' \in BOOLEAN
  /\ IsRow(row, minted, storedChannels) /\ row.token = storedMonitors[x].token
  /\ Transfer!Key(row) = Transfer!Key(storedMonitors[x])

LEMMA RewriteRows ==
  ASSUME TransferInv, NEW x, NEW row, RowRewritten(x, row)
  PROVE  /\ RowsWritten /\ storedChannels' = storedChannels /\ DOMAIN storedMonitors' = DOMAIN storedMonitors
         /\ \A i \in DOMAIN storedMonitors : storedMonitors'[i] = IF i = x THEN row ELSE storedMonitors[i]
         /\ \A i \in DOMAIN storedMonitors : Transfer!Key(storedMonitors'[i]) = Transfer!Key(storedMonitors[i])
         /\ \A i \in DOMAIN storedMonitors : storedMonitors'[i].token = storedMonitors[i].token
<1>1. /\ x \in DOMAIN storedMonitors /\ storedMonitors' = [storedMonitors EXCEPT ![x] = row]
      /\ storedChannels' = storedChannels /\ minted' = minted /\ mishap' \in BOOLEAN
      /\ IsRow(row, minted, storedChannels) /\ row.token = storedMonitors[x].token
      /\ Transfer!Key(row) = Transfer!Key(storedMonitors[x])
  BY DEF RowRewritten
<1>2. /\ IsList(storedMonitors) /\ IsList(storedChannels) /\ minted \in Nat /\ 10 <= minted
      /\ \A i \in DOMAIN storedMonitors : IsRow(storedMonitors[i], minted, storedChannels)
  BY DEF TransferInv, RowsRight
<1>3. PICK rows : rows = [storedMonitors EXCEPT ![x] = row]
  OBVIOUS
<1>4. /\ IsList(rows) /\ Len(rows) = Len(storedMonitors) /\ DOMAIN rows = DOMAIN storedMonitors
      /\ \A i \in DOMAIN storedMonitors : rows[i] = IF i = x THEN row ELSE storedMonitors[i]
  <2>1. x \in DOMAIN storedMonitors /\ IsList(storedMonitors)
    BY <1>1, <1>2
  <2>2. /\ IsList([storedMonitors EXCEPT ![x] = row]) /\ Len([storedMonitors EXCEPT ![x] = row]) = Len(storedMonitors)
        /\ DOMAIN [storedMonitors EXCEPT ![x] = row] = DOMAIN storedMonitors
        /\ \A j \in DOMAIN storedMonitors :
             [storedMonitors EXCEPT ![x] = row][j] = IF j = x THEN row ELSE storedMonitors[j]
    BY <2>1, ListExcept
  <2> QED
    BY <1>3, <2>2
<1>5. \A i \in DOMAIN storedMonitors : Transfer!Key(rows[i]) = Transfer!Key(storedMonitors[i]) /\ rows[i].token = storedMonitors[i].token
  BY <1>1, <1>4
<1>6. storedMonitors' = rows
  BY <1>1, <1>3
<1>7. RowsRight(storedMonitors', storedChannels', minted')
  BY <1>1, <1>2, <1>4, <1>6 DEF RowsRight
<1>8. Len(storedMonitors) <= Len(storedMonitors')
  BY <1>2, <1>4, <1>6, ListParts
<1>9. mishap' \in BOOLEAN
  BY <1>1
<1>10. RowsWritten
  BY <1>1, <1>4, <1>5, <1>6, <1>7, <1>8, <1>9 DEF RowsWritten, Grows, Grown
<1> QED
  BY <1>1, <1>4, <1>5, <1>6, <1>10

\* An import that may rewrite rows keeps the others.
LEMMA RewriteKeeps ==
  ASSUME TransferInv, NEW x, NEW row, RowRewritten(x, row), NEW q, OldKept(q, storedMonitors),
         NEW e \in Transfer!Fit(q.file), q.overwrite, row.text = q.file.monitors[e].text,
         Transfer!Key(row) = Transfer!Key(q.file.monitors[e])
  PROVE  OldKept(q, storedMonitors')
<1>1. /\ DOMAIN storedMonitors' = DOMAIN storedMonitors
      /\ \A i \in DOMAIN storedMonitors : storedMonitors'[i] = IF i = x THEN row ELSE storedMonitors[i]
      /\ \A i \in DOMAIN storedMonitors : Transfer!Key(storedMonitors'[i]) = Transfer!Key(storedMonitors[i])
      /\ \A i \in DOMAIN storedMonitors : storedMonitors'[i].token = storedMonitors[i].token
  BY RewriteRows
<1>2. Transfer!Key(row) = Transfer!Key(storedMonitors[x])
  BY DEF RowRewritten
<1>3. ASSUME NEW i \in DOMAIN q.before[2]
      PROVE  /\ i \in DOMAIN storedMonitors' /\ storedMonitors'[i].token = q.before[2][i].token
             /\ Transfer!Key(storedMonitors'[i]) = Transfer!Key(q.before[2][i])
             /\ \/ storedMonitors'[i] = q.before[2][i]
                \/ /\ q.overwrite
                   /\ \E j \in Transfer!Fit(q.file) : /\ Transfer!Key(q.file.monitors[j]) = Transfer!Key(q.before[2][i])
                                                      /\ q.file.monitors[j].text = storedMonitors'[i].text
                \/ q.sync /\ storedMonitors'[i] = [q.before[2][i] EXCEPT !.enabled = ~@]
  <2>1. /\ i \in DOMAIN storedMonitors /\ storedMonitors[i].token = q.before[2][i].token
        /\ Transfer!Key(storedMonitors[i]) = Transfer!Key(q.before[2][i])
    BY <1>3 DEF OldKept
  <2>2. CASE i = x
    <3>1. /\ Transfer!Key(q.file.monitors[e]) = Transfer!Key(q.before[2][i])
          /\ q.file.monitors[e].text = storedMonitors'[i].text
      BY <1>1, <1>2, <2>1, <2>2
    <3> QED
      BY <1>1, <2>1, <3>1
  <2>3. CASE i # x
    <3>1. storedMonitors'[i] = storedMonitors[i]
      BY <1>1, <2>1, <2>3
    <3>2. \/ storedMonitors[i] = q.before[2][i]
          \/ /\ q.overwrite
             /\ \E j \in Transfer!Fit(q.file) : /\ Transfer!Key(q.file.monitors[j]) = Transfer!Key(q.before[2][i])
                                                /\ q.file.monitors[j].text = storedMonitors[i].text
          \/ q.sync /\ storedMonitors[i] = [q.before[2][i] EXCEPT !.enabled = ~@]
      BY <1>3 DEF OldKept
    <3> QED
      BY <1>1, <2>1, <3>1, <3>2
  <2> QED
    BY <2>2, <2>3
<1> QED
  BY <1>3 DEF OldKept

\* The keys of the rows that are new, when a row is rewritten.
LEMMA RewriteDistinct ==
  ASSUME TransferInv, NEW x, NEW row, RowRewritten(x, row), NEW q, q.before # <<>>,
         ImportRight(q, storedMonitors, storedChannels)
  PROVE  /\ New(q.before[2], storedMonitors') = New(q.before[2], storedMonitors)
         /\ \A i, j \in New(q.before[2], storedMonitors') :
              i # j => Transfer!Key(storedMonitors'[i]) # Transfer!Key(storedMonitors'[j])
<1>1. /\ DOMAIN storedMonitors' = DOMAIN storedMonitors
      /\ \A i \in DOMAIN storedMonitors : Transfer!Key(storedMonitors'[i]) = Transfer!Key(storedMonitors[i])
  BY RewriteRows
<1>2. New(q.before[2], storedMonitors') = New(q.before[2], storedMonitors)
  BY <1>1 DEF New
<1>3. \A i, j \in New(q.before[2], storedMonitors) :
        i # j => Transfer!Key(storedMonitors[i]) # Transfer!Key(storedMonitors[j])
  BY DEF ImportRight
<1> QED
  BY <1>1, <1>2, <1>3 DEF New

\* The channels an entry names.
LEMMA RoutesThere ==
  ASSUME NEW u, NEW q, q = upload[u], NEW rows, NEW chans, ImportTyped(q, rows, chans), NEW names
  PROVE  /\ Transfer!IdsOfNames(u, names) \subseteq DOMAIN chans
         /\ {chans[c].name : c \in Transfer!IdsOfNames(u, names)} = names \cap DOMAIN q.ids
<1>1. Transfer!IdsOfNames(u, names) = {q.ids[n] : n \in names \cap DOMAIN q.ids}
  BY DEF Transfer!IdsOfNames
<1>2. \A n \in DOMAIN q.ids : q.ids[n] \in DOMAIN chans /\ chans[q.ids[n]].name = n
  BY DEF ImportTyped
<1> QED
  BY <1>1, <1>2

LEMMA RewriteMonitorRight ==
  ASSUME TransferInv, NEW u \in Uploads, Transfer!RewriteMonitor(u)
  PROVE  TransferInv'
<1>1. PICK q, e, kind, o : q = upload[u] /\ e = Len(q.outcomes) + 1 /\ kind = "config" /\ o = "update"
  OBVIOUS
<1>2. Transfer!NextEntry(u, kind) /\ q.plan.monitors[e].status = "update"
  BY <1>1 DEF Transfer!RewriteMonitor, Transfer!Planned
<1>3. /\ q = SameImport(q) /\ q.kind = kind /\ IsList(q.outcomes) /\ IsList(q.file.monitors) /\ q.clean \in BOOLEAN
      /\ AtEntry(q, e)
      /\ ImportTyped(q, storedMonitors, storedChannels) /\ ImportRight(q, storedMonitors, storedChannels)
  BY <1>1, <1>2, EntryFacts
<1>4. PICK item, x : item = q.file.monitors[e] /\ x = q.plan.monitors[e].existing
  OBVIOUS
<1>5. Transfer!Entry(u) = item /\ Transfer!Planned(u) = q.plan.monitors[e]
  BY <1>1, <1>4 DEF Transfer!Entry, Transfer!Planned
<1>6. PICK told : told = Transfer!IdsOfNames(u, q.plan.monitors[e].names)
  OBVIOUS
<1>7. ASSUME storedMonitors' = Transfer!Rewritten(u), mishap' \in BOOLEAN, NEW d, NEW clean \in BOOLEAN,
             clean => q.clean, Transfer!Goes(u, d),
             d = Import(q.kind, q.stage, q.file, q.overwrite, q.sync, q.plan, q.ids, q.known, Append(q.outcomes, o),
                        q.settled, clean, q.before)
      PROVE  TransferInv'
  <2>1. PICK row : row = Transfer!Row(item, storedMonitors[x].token, told, item.enabled)
    OBVIOUS
  <2>2. e \in DOMAIN q.file.monitors /\ x \in DOMAIN storedMonitors
        /\ Transfer!Key(storedMonitors[x]) = Transfer!Key(item) /\ item.enabled \in BOOLEAN
    BY <1>1, <1>2, <1>3, <1>4 DEF AtEntry, ImportTyped, PlanStands, IsFile
  <2>3. storedMonitors' = [storedMonitors EXCEPT ![x] = row]
    BY <1>4, <1>5, <1>6, <1>7, <2>1 DEF Transfer!Rewritten
  <2>4. told \subseteq DOMAIN storedChannels
    BY <1>1, <1>3, <1>6, RoutesThere
  <2>5. /\ row = Transfer!Row(row, row.token, row.routes, row.enabled) /\ row.token = storedMonitors[x].token
        /\ row.routes = told /\ row.enabled = item.enabled /\ row.text = item.text
        /\ Transfer!Key(row) = Transfer!Key(item)
    BY <2>1 DEF Transfer!Row, Transfer!Key
  <2>6. IsRow(row, minted, storedChannels)
    BY <2>2, <2>4, <2>5 DEF IsRow, TransferInv, RowsRight
  <2>7. RowRewritten(x, row)
    BY <1>7, <2>2, <2>3, <2>5, <2>6 DEF RowRewritten, Transfer!RewriteMonitor
  <2>8. /\ RowsWritten /\ storedChannels' = storedChannels /\ DOMAIN storedMonitors' = DOMAIN storedMonitors
        /\ \A i \in DOMAIN storedMonitors : storedMonitors'[i] = IF i = x THEN row ELSE storedMonitors[i]
    BY <2>7, RewriteRows
  <2>11. RecordedAs(q, d, o, q.known, clean)
    BY <1>1, <1>7 DEF RecordedAs, Transfer!Statuses
  <2>13. SameGoal(q, d) /\ d.outcomes = Append(q.outcomes, o) /\ d.before = q.before /\ (d.clean => q.clean)
    <3>1. d.clean = clean
      BY <1>7, ImportParts
    <3> QED
      BY <1>7, <3>1 DEF Import, SameGoal
  <2>14. ASSUME q.before # <<>> PROVE EntryRight(q, d, e, storedMonitors', storedChannels)
    <3>1. /\ e \in Transfer!Fit(q.file) /\ q.overwrite /\ x \in DOMAIN q.before[2]
      <4>1. EntryPlanned(q, e)
        BY <1>1, <1>3, <2>2, <2>14 DEF ImportRight, PlanRight
      <4> QED
        BY <1>2, <1>4, <4>1 DEF EntryPlanned
    <3>2. OldKept(q, storedMonitors')
      BY <1>3, <1>4, <2>5, <2>7, <2>14, <3>1, RewriteKeeps DEF ImportRight
    <3>3. /\ New(q.before[2], storedMonitors') = New(q.before[2], storedMonitors)
          /\ \A i, j \in New(q.before[2], storedMonitors') :
               i # j => Transfer!Key(storedMonitors'[i]) # Transfer!Key(storedMonitors'[j])
      BY <1>3, <2>7, <2>14, RewriteDistinct
    <3>4. HasKey(storedMonitors', Transfer!Key(q.file.monitors[e]))
      BY <1>4, <2>2, <2>5, <2>8 DEF HasKey
    <3>5. RowsMade(d, storedMonitors', storedChannels)
      <4>1. RecordsOne(q, d, e, o)
        BY <1>3, <2>13 DEF RecordsOne, SameGoal
      <4>2. /\ Handled(d) = Handled(q) \cup {e} /\ d.outcomes[e] = o
            /\ \A j \in Handled(q) : d.outcomes[j] = q.outcomes[j]
        BY <4>1, HandledLater
      <4>3. d.before[2] = q.before[2] /\ d.file = q.file /\ d.plan = q.plan
        BY <2>13 DEF SameGoal
      <4>4. \A j, r : MadeOf(q, j, r, storedChannels) => MadeOf(d, j, r, storedChannels)
        BY <2>13, <4>3 DEF MadeOf, Wired
      <4>5. RowsMade(q, storedMonitors, storedChannels)
        BY <1>1, <1>3, <2>14 DEF ImportRight
      <4>6. \A i \in New(q.before[2], storedMonitors) : storedMonitors'[i] = storedMonitors[i]
        BY <2>8, <3>1 DEF New
      <4>7. o # "create"
        BY <1>1
      <4> QED
        BY <3>3, <4>2, <4>3, <4>4, <4>5, <4>6, <4>7 DEF RowsMade
    <3>6. q.kind # "kuma"
      BY <1>1, <1>3
    <3> QED
      BY <3>2, <3>3, <3>4, <3>5, <3>6 DEF EntryRight
  <2>15. q.before # <<>> => EntryRight(q, d, e, storedMonitors', storedChannels')
    BY <2>8, <2>14
  <2>16. q.kind # "kuma"
    BY <1>1, <1>3
  <2> QED
    BY <1>1, <1>2, <1>3, <1>7, <2>8, <2>11, <2>15, <2>16, EntryStep
<1>8. CASE Transfer!Breaks /\ UNCHANGED storedMonitors /\ Transfer!Spoilt(u, "failed")
  <2>1. EntryUnwritten
    BY <1>8 DEF EntryUnwritten, Transfer!Breaks, Transfer!RewriteMonitor
  <2> QED
    BY <1>2, <1>8, <2>1, FailsRight
<1>9. PICK p : p = [q EXCEPT !.outcomes = Append(q.outcomes, o)]
  OBVIOUS
<1>10. p = Import(q.kind, q.stage, q.file, q.overwrite, q.sync, q.plan, q.ids, q.known, Append(q.outcomes, o),
                  q.settled, q.clean, q.before)
  BY <1>3, <1>9, ImportRecords
<1>11. CASE Transfer!Works /\ storedMonitors' = Transfer!Rewritten(u) /\ Transfer!Records(u, "update")
  <2>1. Transfer!Goes(u, p)
    BY <1>1, <1>9, <1>11 DEF Transfer!Records, Transfer!Recorded
  <2>2. mishap' \in BOOLEAN
    BY <1>11 DEF Transfer!Works, TransferInv
  <2> QED
    BY <1>3, <1>7, <1>10, <1>11, <2>1, <2>2
<1>12. CASE Transfer!Breaks /\ storedMonitors' = Transfer!Rewritten(u) /\ Transfer!Spoilt(u, "update")
  <2>1. PICK clean \in BOOLEAN : clean = FALSE
    OBVIOUS
  <2>2. PICK d : d = [p EXCEPT !.clean = FALSE]
    OBVIOUS
  <2>3. d = Import(q.kind, q.stage, q.file, q.overwrite, q.sync, q.plan, q.ids, q.known, Append(q.outcomes, o),
                   q.settled, FALSE, q.before)
    <3>1. [[q EXCEPT !.outcomes = Append(q.outcomes, o)] EXCEPT !.clean = FALSE] =
            Import(q.kind, q.stage, q.file, q.overwrite, q.sync, q.plan, q.ids, q.known, Append(q.outcomes, o),
                   q.settled, FALSE, q.before)
      BY <1>3, ImportFails
    <3> QED
      BY <1>9, <2>2, <3>1
  <2>4. d = Import(q.kind, q.stage, q.file, q.overwrite, q.sync, q.plan, q.ids, q.known, Append(q.outcomes, o),
                   q.settled, clean, q.before)
    BY <2>1, <2>3, Zenon
  <2>5. Transfer!Goes(u, d)
    BY <1>1, <1>9, <1>12, <2>2 DEF Transfer!Spoilt, Transfer!Recorded
  <2>6. mishap' \in BOOLEAN /\ (clean => q.clean)
    BY <1>12, <2>1 DEF Transfer!Breaks
  <2> QED
    BY <1>7, <1>12, <2>4, <2>5, <2>6
<1> QED
  BY <1>8, <1>11, <1>12 DEF Transfer!RewriteMonitor

RowMade(n, row) ==
  /\ n = Len(storedMonitors) + 1 /\ storedMonitors' = Append(storedMonitors, row)
  /\ storedChannels' = storedChannels /\ minted' \in {minted, minted + 1} /\ mishap' = mishap
  /\ IsRow(row, minted', storedChannels)

LEMMA MakeRow ==
  ASSUME TransferInv, NEW n, NEW row, RowMade(n, row)
  PROVE  /\ RowsWritten /\ storedChannels' = storedChannels /\ DOMAIN storedMonitors' = DOMAIN storedMonitors \cup {n}
         /\ n \notin DOMAIN storedMonitors /\ storedMonitors'[n] = row
         /\ \A i \in DOMAIN storedMonitors : storedMonitors'[i] = storedMonitors[i]
<1>1. /\ n = Len(storedMonitors) + 1 /\ storedMonitors' = Append(storedMonitors, row)
      /\ storedChannels' = storedChannels /\ minted' \in {minted, minted + 1} /\ mishap' = mishap
      /\ IsRow(row, minted', storedChannels)
  BY DEF RowMade
<1>2. /\ IsList(storedMonitors) /\ IsList(storedChannels) /\ minted \in Nat /\ 10 <= minted
      /\ \A i \in DOMAIN storedMonitors : IsRow(storedMonitors[i], minted, storedChannels)
  BY DEF TransferInv, RowsRight
<1>3. /\ IsList(storedMonitors') /\ Len(storedMonitors') = Len(storedMonitors) + 1 /\ Len(storedMonitors) \in Nat
      /\ DOMAIN storedMonitors' = 1..(Len(storedMonitors) + 1) /\ DOMAIN storedMonitors = 1..Len(storedMonitors)
      /\ \A i \in DOMAIN storedMonitors : storedMonitors'[i] = storedMonitors[i]
      /\ storedMonitors'[n] = row
  BY <1>1, <1>2, ListAppend
<1>4. DOMAIN storedMonitors' = DOMAIN storedMonitors \cup {n} /\ n \notin DOMAIN storedMonitors
  BY <1>1, <1>3
<1>5. minted' \in Nat /\ 10 <= minted' /\ minted <= minted'
  BY <1>1, <1>2
<1>6. \A i \in DOMAIN storedMonitors : IsRow(storedMonitors[i], minted', storedChannels)
  BY <1>2, <1>5 DEF IsRow
<1>7. RowsRight(storedMonitors', storedChannels', minted')
  BY <1>1, <1>2, <1>3, <1>4, <1>5, <1>6 DEF RowsRight
<1>8. RowsWritten
  BY <1>1, <1>3, <1>4, <1>7 DEF RowsWritten, Grows, Grown, TransferInv
<1> QED
  BY <1>1, <1>3, <1>4, <1>8

\* What a new row leaves of what was there.
LEMMA MadeKeeps ==
  ASSUME TransferInv, NEW n, NEW row, RowMade(n, row), NEW q, q.before # <<>>,
         ImportRight(q, storedMonitors, storedChannels), ~HasKey(storedMonitors, Transfer!Key(row))
  PROVE  /\ OldKept(q, storedMonitors')
         /\ New(q.before[2], storedMonitors') = New(q.before[2], storedMonitors) \cup {n}
         /\ \A i, j \in New(q.before[2], storedMonitors') :
              i # j => Transfer!Key(storedMonitors'[i]) # Transfer!Key(storedMonitors'[j])
<1>1. /\ DOMAIN storedMonitors' = DOMAIN storedMonitors \cup {n}
      /\ n \notin DOMAIN storedMonitors /\ storedMonitors'[n] = row
      /\ \A i \in DOMAIN storedMonitors : storedMonitors'[i] = storedMonitors[i]
  BY MakeRow
<1>2. /\ OldKept(q, storedMonitors)
      /\ \A i, j \in New(q.before[2], storedMonitors) :
           i # j => Transfer!Key(storedMonitors[i]) # Transfer!Key(storedMonitors[j])
  BY DEF ImportRight
<1>3. \A i \in DOMAIN q.before[2] : i \in DOMAIN storedMonitors
  BY <1>2 DEF OldKept
<1>4. New(q.before[2], storedMonitors') = New(q.before[2], storedMonitors) \cup {n}
  BY <1>1, <1>3 DEF New
<1>5. OldKept(q, storedMonitors')
  BY <1>1, <1>2, <1>3 DEF OldKept
<1>6. \A i \in DOMAIN storedMonitors : Transfer!Key(storedMonitors[i]) # Transfer!Key(row)
  BY DEF HasKey
<1>7. ASSUME NEW i \in New(q.before[2], storedMonitors'), NEW j \in New(q.before[2], storedMonitors'), i # j
      PROVE  Transfer!Key(storedMonitors'[i]) # Transfer!Key(storedMonitors'[j])
  <2>1. CASE i = n
    BY <1>1, <1>4, <1>6, <1>7, <2>1 DEF New
  <2>2. CASE j = n
    BY <1>1, <1>4, <1>6, <1>7, <2>2 DEF New
  <2>3. CASE i # n /\ j # n
    BY <1>1, <1>2, <1>4, <1>7, <2>3 DEF New
  <2> QED
    BY <2>1, <2>2, <2>3
<1> QED
  BY <1>4, <1>5, <1>7

\* The channels of a new row, if nothing has failed.
LEMMA RoutesWired ==
  ASSUME NEW u, NEW q, q = upload[u], NEW rows, NEW chans, ImportTyped(q, rows, chans), ImportRight(q, rows, chans),
         q.before # <<>>, q.kind = "config", q.stage = "monitors", q.clean, NEW e \in DOMAIN q.file.monitors,
         NEW row, row.routes = Transfer!IdsOfNames(u, q.plan.monitors[e].names)
  PROVE  Wired(q, e, row, chans)
<1>1. PICK names : names = q.plan.monitors[e].names
  OBVIOUS
<1>2. {chans[c].name : c \in Transfer!IdsOfNames(u, names)} = names \cap DOMAIN q.ids
  <2>1. Transfer!IdsOfNames(u, names) = {q.ids[n] : n \in names \cap DOMAIN q.ids}
    BY DEF Transfer!IdsOfNames
  <2>2. \A n \in DOMAIN q.ids : q.ids[n] \in DOMAIN chans /\ chans[q.ids[n]].name = n
    BY DEF ImportTyped
  <2> QED
    BY <2>1, <2>2
<1>3. EntryPlanned(q, e) /\ ChannelsRight(q, chans)
  BY DEF ImportRight, PlanRight
<1>4. names = {n \in q.file.monitors[e].names : n \in Transfer!FitChannels(q.file) \/ Transfer!Named(q.before[1], n) # {}}
  BY <1>1, <1>3 DEF EntryPlanned
<1>5. q.settled \in Nat /\ q.settled >= Len(q.file.channels)
  BY DEF ImportTyped, StageRight
<1>6. DOMAIN q.file.channels = 1..Len(q.file.channels) /\ Len(q.file.channels) \in Nat
  BY ListParts DEF ImportTyped, IsFile
<1>7. Tried(q) = DOMAIN q.file.channels
  BY <1>5, <1>6 DEF Tried
<1>8. DOMAIN q.ids = Transfer!FitChannels(q.file)
  <2>1. \A n \in DOMAIN q.ids : \E i \in DOMAIN q.file.channels : FitChannel(q, i, n)
    BY <1>3, <1>7 DEF ChannelsRight
  <2>2. \A i \in DOMAIN q.file.channels : q.file.channels[i].fit => q.file.channels[i].name \in DOMAIN q.ids
    BY <1>3, <1>7 DEF ChannelsRight
  <2> QED
    BY <2>1, <2>2 DEF FitChannel, Transfer!FitChannels
<1> QED
  BY <1>1, <1>2, <1>4, <1>8 DEF Wired

\* A created entry has a key that no row has.
LEMMA CreatedIsNew ==
  ASSUME NEW q, NEW rows, NEW chans, ImportTyped(q, rows, chans), ImportRight(q, rows, chans), q.before # <<>>,
         q.kind = "config", NEW e, AtEntry(q, e), q.plan.monitors[e].status = "create"
  PROVE  ~HasKey(rows, Transfer!Key(q.file.monitors[e]))
<1>1. e \in DOMAIN q.file.monitors /\ e = Len(q.outcomes) + 1
  BY DEF AtEntry
<1>2. /\ PlanRight(q) /\ RowsMade(q, rows, chans) /\ OldKept(q, rows)
  BY DEF ImportRight
<1>3. ~HasKey(q.before[2], Transfer!Key(q.file.monitors[e])) /\ ~FitBefore(q, e)
  BY <1>1, <1>2 DEF PlanRight, EntryPlanned
<1>4. ASSUME NEW i \in DOMAIN rows, Transfer!Key(rows[i]) = Transfer!Key(q.file.monitors[e]) PROVE FALSE
  <2>1. CASE i \in DOMAIN q.before[2]
    BY <1>2, <1>3, <1>4, <2>1 DEF OldKept, HasKey
  <2>2. CASE i \notin DOMAIN q.before[2]
    <3>1. PICK j \in Handled(q) : MadeOf(q, j, rows[i], chans)
      BY <1>2, <1>4, <2>2 DEF RowsMade, New
    <3>2. j \in DOMAIN q.file.monitors /\ j <= Len(q.outcomes)
      BY DEF Handled
    <3>3. q.plan.monitors[j].status = "create" /\ Transfer!Key(q.file.monitors[j]) = Transfer!Key(q.file.monitors[e])
      BY <1>4, <3>1 DEF MadeOf
    <3>4. EntryPlanned(q, j)
      BY <1>2, <3>2 DEF PlanRight
    <3>5. j \in Transfer!Fit(q.file)
      BY <3>2, <3>3, <3>4 DEF EntryPlanned
    <3>6. j < e
      <4>1. Len(q.outcomes) \in Nat /\ DOMAIN q.file.monitors \subseteq Nat
        BY ListParts DEF ImportTyped, IsFile
      <4> QED
        BY <1>1, <3>2, <4>1
    <3> QED
      BY <1>3, <3>3, <3>5, <3>6 DEF FitBefore
  <2> QED
    BY <2>1, <2>2
<1> QED
  BY <1>4 DEF HasKey

\* What a new row is to the import of a configuration that makes it.
LEMMA RowsMadeLater ==
  ASSUME TransferInv, NEW n, NEW row, RowMade(n, row), NEW q, ImportRight(q, storedMonitors, storedChannels),
         q.before # <<>>, q.kind = "config", NEW d, NEW e, NEW o, RecordsOne(q, d, e, o), o = "create",
         SameGoal(q, d), d.before = q.before, d.clean = q.clean, MadeOf(q, e, row, storedChannels),
         q.plan.monitors[e].token # 0 => row.token = q.plan.monitors[e].token
  PROVE  RowsMade(d, storedMonitors', storedChannels)
<1>1. /\ DOMAIN storedMonitors' = DOMAIN storedMonitors \cup {n}
      /\ n \notin DOMAIN storedMonitors /\ storedMonitors'[n] = row
      /\ \A i \in DOMAIN storedMonitors : storedMonitors'[i] = storedMonitors[i]
  BY MakeRow
<1>2. /\ Handled(d) = Handled(q) \cup {e} /\ d.outcomes[e] = o
      /\ \A j \in Handled(q) : d.outcomes[j] = q.outcomes[j]
  BY HandledLater
<1>3. d.before[2] = q.before[2] /\ d.file = q.file /\ d.plan = q.plan
  BY DEF SameGoal
<1>4. \A j, r : MadeOf(q, j, r, storedChannels) => MadeOf(d, j, r, storedChannels)
  BY <1>3 DEF MadeOf, Wired
<1>5. RowsMade(q, storedMonitors, storedChannels) /\ OldKept(q, storedMonitors)
  BY DEF ImportRight
<1>6. /\ New(q.before[2], storedMonitors') = New(q.before[2], storedMonitors) \cup {n}
      /\ n \in New(q.before[2], storedMonitors')
  BY <1>1, <1>5 DEF New, OldKept
<1>7. ASSUME NEW i \in New(d.before[2], storedMonitors')
      PROVE  \E j \in Handled(d) : MadeOf(d, j, storedMonitors'[i], storedChannels)
  <2>1. CASE i = n
    BY <1>1, <1>2, <1>4, <2>1
  <2>2. CASE i # n
    <3>1. i \in New(q.before[2], storedMonitors) /\ storedMonitors'[i] = storedMonitors[i]
      BY <1>1, <1>3, <1>6, <1>7, <2>2 DEF New
    <3> QED
      BY <1>2, <1>4, <1>5, <3>1 DEF RowsMade
  <2> QED
    BY <2>1, <2>2
<1>8. ASSUME NEW j \in Handled(d), d.outcomes[j] = "create"
      PROVE  \E i \in New(d.before[2], storedMonitors') :
               /\ Transfer!Key(storedMonitors'[i]) = Transfer!Key(d.file.monitors[j])
               /\ d.plan.monitors[j].token # 0 => storedMonitors'[i].token = d.plan.monitors[j].token
  <2>1. CASE j = e
    BY <1>1, <1>3, <1>6, <2>1 DEF MadeOf
  <2>2. CASE j # e
    <3>1. j \in Handled(q) /\ q.outcomes[j] = "create"
      BY <1>2, <1>8, <2>2
    <3>2. PICK i \in New(q.before[2], storedMonitors) :
               /\ Transfer!Key(storedMonitors[i]) = Transfer!Key(q.file.monitors[j])
               /\ q.plan.monitors[j].token # 0 => storedMonitors[i].token = q.plan.monitors[j].token
      BY <1>5, <3>1 DEF RowsMade
    <3>3. storedMonitors'[i] = storedMonitors[i]
      BY <1>1 DEF New
    <3> QED
      BY <1>3, <1>6, <3>2, <3>3
  <2> QED
    BY <2>1, <2>2
<1> QED
  BY <1>7, <1>8 DEF RowsMade

LEMMA InsertMonitorRight ==
  ASSUME TransferInv, NEW u \in Uploads, Transfer!InsertMonitor(u)
  PROVE  TransferInv'
<1>1. PICK q, e, kind, o : q = upload[u] /\ e = Len(q.outcomes) + 1 /\ kind = "config" /\ o = "create"
  OBVIOUS
<1>2. Transfer!NextEntry(u, kind) /\ q.plan.monitors[e].status = "create"
  BY <1>1 DEF Transfer!InsertMonitor, Transfer!Planned
<1>3. /\ q = SameImport(q) /\ q.kind = kind /\ IsList(q.outcomes) /\ IsList(q.file.monitors) /\ q.clean \in BOOLEAN
      /\ q.stage = "monitors" /\ AtEntry(q, e)
      /\ ImportTyped(q, storedMonitors, storedChannels) /\ ImportRight(q, storedMonitors, storedChannels)
  BY <1>1, <1>2, EntryFacts
<1>4. PICK item, plan : item = q.file.monitors[e] /\ plan = q.plan.monitors[e]
  OBVIOUS
<1>5. Transfer!Entry(u) = item /\ Transfer!Planned(u) = plan
  BY <1>1, <1>4 DEF Transfer!Entry, Transfer!Planned
<1>6. PICK told : told = Transfer!IdsOfNames(u, plan.names)
  OBVIOUS
<1>7. PICK token : token = IF item.type = "push" /\ plan.token = 0 THEN minted + 1 ELSE plan.token
  OBVIOUS
<1>8. /\ e \in DOMAIN q.file.monitors /\ item.enabled \in BOOLEAN /\ plan.token \in 0..10
  BY <1>1, <1>3, <1>4 DEF AtEntry, ImportTyped, PlanStands, IsFile
<1>9. /\ minted' = IF item.type = "push" /\ plan.token = 0 THEN token ELSE minted
      /\ storedChannels' = storedChannels
  BY <1>5, <1>7 DEF Transfer!InsertMonitor
<1>10. minted \in Nat /\ 10 <= minted
  BY DEF TransferInv, RowsRight
<1>11. minted' \in {minted, minted + 1} /\ token \in 0..minted'
  BY <1>7, <1>8, <1>9, <1>10
<1>12. CASE /\ Transfer!Works
            /\ storedMonitors' = Append(storedMonitors, Transfer!Row(item, token, told, item.enabled))
            /\ Transfer!Records(u, "create")
  <2>1. PICK n, row : n = Len(storedMonitors) + 1 /\ row = Transfer!Row(item, token, told, item.enabled)
    OBVIOUS
  <2>2. told \subseteq DOMAIN storedChannels
    BY <1>1, <1>3, <1>6, RoutesThere
  <2>3. /\ row = Transfer!Row(row, row.token, row.routes, row.enabled) /\ row.token = token
        /\ row.routes = told /\ row.enabled = item.enabled /\ Transfer!Key(row) = Transfer!Key(item)
    BY <2>1 DEF Transfer!Row, Transfer!Key
  <2>4. IsRow(row, minted', storedChannels)
    BY <1>8, <1>11, <2>2, <2>3 DEF IsRow
  <2>5. RowMade(n, row)
    BY <1>9, <1>11, <1>12, <2>1, <2>4 DEF RowMade, Transfer!Works
  <2>6. /\ RowsWritten /\ DOMAIN storedMonitors' = DOMAIN storedMonitors \cup {n} /\ storedMonitors'[n] = row
    BY <2>5, MakeRow
  <2>7. PICK d, clean : d = [q EXCEPT !.outcomes = Append(q.outcomes, o)] /\ clean = q.clean
    OBVIOUS
  <2>8. d = Import(q.kind, q.stage, q.file, q.overwrite, q.sync, q.plan, q.ids, q.known, Append(q.outcomes, o),
                   q.settled, clean, q.before)
    BY <1>3, <2>7, ImportRecords
  <2>9. RecordedAs(q, d, o, q.known, clean)
    BY <1>1, <1>3, <2>7, <2>8 DEF RecordedAs, Transfer!Statuses
  <2>10. Transfer!Goes(u, d)
    BY <1>1, <1>12, <2>7 DEF Transfer!Records, Transfer!Recorded
  <2>11. SameGoal(q, d) /\ d.outcomes = Append(q.outcomes, o) /\ d.before = q.before /\ d.clean = q.clean
    BY <2>7, <2>8 DEF Import, SameGoal
  <2>12. ASSUME q.before # <<>> PROVE EntryRight(q, d, e, storedMonitors', storedChannels)
    <3>1. ~HasKey(storedMonitors, Transfer!Key(row))
      <4>1. ~HasKey(storedMonitors, Transfer!Key(q.file.monitors[e]))
        BY <1>1, <1>2, <1>3, <2>12, CreatedIsNew
      <4> QED
        BY <1>4, <2>3, <4>1
    <3>2. /\ OldKept(q, storedMonitors')
          /\ \A i, j \in New(q.before[2], storedMonitors') :
               i # j => Transfer!Key(storedMonitors'[i]) # Transfer!Key(storedMonitors'[j])
      BY <1>3, <2>5, <2>12, <3>1, MadeKeeps
    <3>3. HasKey(storedMonitors', Transfer!Key(q.file.monitors[e]))
      BY <1>4, <2>3, <2>6 DEF HasKey
    <3>4. MadeOf(q, e, row, storedChannels)
      <4>1. ASSUME q.clean PROVE Wired(q, e, row, storedChannels)
        BY <1>1, <1>3, <1>4, <1>6, <1>8, <2>3, <2>12, <4>1, RoutesWired
      <4> QED
        BY <1>2, <1>4, <2>3, <4>1 DEF MadeOf
    <3>5. RecordsOne(q, d, e, o)
      BY <1>3, <2>11 DEF RecordsOne, SameGoal
    <3>6. q.plan.monitors[e].token # 0 => row.token = q.plan.monitors[e].token
      BY <1>4, <1>7, <2>3
    <3>7. RowsMade(d, storedMonitors', storedChannels)
      BY <1>1, <1>3, <2>5, <2>11, <2>12, <3>4, <3>5, <3>6, RowsMadeLater
    <3>8. q.kind # "kuma"
      BY <1>1, <1>3
    <3> QED
      BY <3>2, <3>3, <3>7, <3>8 DEF EntryRight
  <2>13. q.before # <<>> => EntryRight(q, d, e, storedMonitors', storedChannels')
    BY <1>9, <2>12
  <2>14. q.kind # "kuma"
    BY <1>1, <1>3
  <2> QED
    BY <1>1, <1>2, <1>3, <2>6, <2>9, <2>10, <2>13, <2>14, EntryStep
<1>13. CASE mishap' \in BOOLEAN /\ UNCHANGED storedMonitors /\ Transfer!Spoilt(u, "failed")
  <2>1. EntryUnwritten
    BY <1>9, <1>11, <1>13 DEF EntryUnwritten
  <2> QED
    BY <1>2, <1>13, <2>1, FailsRight
<1> QED
  BY <1>5, <1>6, <1>7, <1>12, <1>13 DEF Transfer!InsertMonitor, Transfer!Works, Transfer!Breaks, TransferInv

-----------------------------------------------------------------------------
(* An import comes to its next stage.                                      *)

LEMMA EndChannelsRight ==
  ASSUME TransferInv, NEW u \in Uploads, Transfer!EndChannels(u)
  PROVE  TransferInv'
<1>1. PICK q, stage, d : q = upload[u] /\ stage = "monitors" /\ d = [q EXCEPT !.stage = stage]
  OBVIOUS
<1>2. q.stage = "channels" /\ q.settled = Len(q.file.channels) /\ Transfer!Moves(u, stage)
  BY <1>1 DEF Transfer!EndChannels
<1>3. ImportTyped(q, storedMonitors, storedChannels)
  BY <1>1 DEF TransferInv
<1>4. q.kind # "none" /\ StageRight(q) /\ q = SameImport(q)
  BY <1>2, <1>3 DEF ImportTyped
<1>5. d = Import(q.kind, stage, q.file, q.overwrite, q.sync, q.plan, q.ids, q.known, q.outcomes, q.settled,
                 q.clean, q.before)
  BY <1>1, <1>4, ImportMoves
<1>6. /\ d.stage = "monitors" /\ d.kind = q.kind /\ d.file = q.file /\ d.outcomes = q.outcomes
      /\ d.settled = q.settled
  BY <1>1, <1>5 DEF Import
<1>7. StageRight(d)
  BY <1>2, <1>4, <1>6 DEF StageRight
<1> QED
  BY <1>1, <1>2, <1>4, <1>7, MovesRight

LEMMA EndMonitorsRight ==
  ASSUME TransferInv, NEW u \in Uploads, Transfer!EndMonitors(u)
  PROVE  TransferInv'
<1>1. PICK q, stage : q = upload[u] /\ stage = IF upload[u].kind = "config" THEN "settings" ELSE "done"
  OBVIOUS
<1>2. PICK d : d = [q EXCEPT !.stage = stage]
  OBVIOUS
<1>3. q.stage = "monitors" /\ Len(q.outcomes) = Len(q.file.monitors) /\ Transfer!Moves(u, stage)
  BY <1>1 DEF Transfer!EndMonitors
<1>4. ImportTyped(q, storedMonitors, storedChannels)
  BY <1>1 DEF TransferInv
<1>5. q.kind # "none" /\ StageRight(q) /\ q = SameImport(q)
  BY <1>3, <1>4 DEF ImportTyped
<1>6. d = Import(q.kind, stage, q.file, q.overwrite, q.sync, q.plan, q.ids, q.known, q.outcomes, q.settled,
                 q.clean, q.before)
  BY <1>2, <1>5, ImportMoves
<1>7. /\ d.stage = stage /\ d.kind = q.kind /\ d.file = q.file /\ d.outcomes = q.outcomes
      /\ d.settled = q.settled
  BY <1>6 DEF Import
<1>8. StageRight(d)
  BY <1>1, <1>3, <1>5, <1>7 DEF StageRight
<1> QED
  BY <1>1, <1>2, <1>3, <1>5, <1>8, MovesRight

\* The settings.
SettingAs(q, d, s, clean) ==
  /\ d = Import(q.kind, s, q.file, q.overwrite, q.sync, q.plan, q.ids, q.known, q.outcomes, q.settled + 1,
                clean, q.before)
  /\ q.stage = "settings" /\ s \in {"settings", "done"} /\ clean \in BOOLEAN /\ (clean => q.clean)

LEMMA SettingStep ==
  ASSUME TransferInv, NEW u \in Uploads, NEW q, q = upload[u], NEW d, NEW s, NEW clean, SettingAs(q, d, s, clean),
         Transfer!Goes(u, d), UNCHANGED <<storedChannels, storedMonitors, minted>>, mishap' \in BOOLEAN
  PROVE  TransferInv'
<1>1. /\ ImportTyped(q, storedMonitors, storedChannels) /\ ImportRight(q, storedMonitors, storedChannels)
      /\ q = SameImport(q)
  BY DEF TransferInv, ImportTyped
<1>2. q.stage = "settings" /\ s \in {"settings", "done"} /\ clean \in BOOLEAN /\ (clean => q.clean)
  BY DEF SettingAs
<1>3. q.kind = "config" /\ StageRight(q)
  BY <1>1, <1>2 DEF ImportTyped, StageRight
<1>4. /\ d = SameImport(d) /\ SameWork(q, d) /\ SameGoal(q, d) /\ d.stage = s /\ d.settled = q.settled + 1
      /\ d.clean = clean
  BY DEF SettingAs, Import, SameImport, SameGoal, SameWork
<1>5. d.ids = q.ids /\ d.outcomes = q.outcomes /\ d.before = q.before /\ d.file = q.file /\ d.kind = q.kind
  BY <1>4 DEF SameWork, SameGoal
<1>6. Len(q.file.channels) \in Nat /\ DOMAIN q.file.channels = 1..Len(q.file.channels)
  BY <1>1, ListParts DEF ImportTyped, IsFile
<1>7. StageRight(d)
  BY <1>2, <1>3, <1>4, <1>5, <1>6 DEF StageRight
<1>8. ImportTyped(d, storedMonitors, storedChannels)
  <2>1. IsList(d.outcomes) /\ \A e \in DOMAIN d.outcomes : d.outcomes[e] \in Transfer!Statuses
    BY <1>1, <1>5 DEF ImportTyped
  <2>2. \A n \in DOMAIN d.ids : d.ids[n] \in DOMAIN storedChannels /\ storedChannels[d.ids[n]].name = n
    BY <1>1, <1>5 DEF ImportTyped
  <2> QED
    BY <1>1, <1>2, <1>3, <1>4, <1>7, <2>1, <2>2, StaysTyped
<1>9. Tried(d) = Tried(q)
  BY <1>2, <1>3, <1>4, <1>5, <1>6 DEF Tried, StageRight
<1>10. ASSUME q.before # <<>> PROVE ImportRight(d, storedMonitors, storedChannels)
  <2>1. OldKept(d, storedMonitors) /\ PlanRight(d) /\ RowsMade(d, storedMonitors, storedChannels)
    BY <1>1, <1>2, <1>3, <1>4, <1>5, <1>10, OldStays, PlanRightStays, RowsMadeStays DEF ImportRight
  <2>2. ChannelsRight(d, storedChannels)
    <3>1. ChannelsRight(q, storedChannels)
      BY <1>1, <1>3, <1>10 DEF ImportRight
    <3>2. d.before[1] = q.before[1] /\ \A i, n : FitChannel(d, i, n) <=> FitChannel(q, i, n)
      BY <1>5 DEF FitChannel
    <3> QED
      BY <1>2, <1>4, <1>5, <1>9, <3>1, <3>2 DEF ChannelsRight
  <2>3. Handled(d) = Handled(q)
    BY <1>5 DEF Handled
  <2> QED
    BY <1>1, <1>2, <1>3, <1>4, <1>5, <1>10, <2>1, <2>2, <2>3 DEF ImportRight
<1>11. ImportRight(d, storedMonitors, storedChannels)
  BY <1>5, <1>10 DEF ImportRight
<1>12. storedMonitors' = storedMonitors /\ storedChannels' = storedChannels /\ minted' = minted
  OBVIOUS
<1>13. Grows /\ RowsRight(storedMonitors', storedChannels', minted')
  BY <1>12 DEF Grows, Grown, TransferInv
<1> QED
  BY <1>8, <1>11, <1>12, <1>13, GoesRight

LEMMA ImportPassesOn ==
  ASSUME NEW q, q = SameImport(q), NEW s
  PROVE  [[q EXCEPT !.settled = @ + 1] EXCEPT !.stage = s] =
           Import(q.kind, s, q.file, q.overwrite, q.sync, q.plan, q.ids, q.known, q.outcomes, q.settled + 1,
                  q.clean, q.before)
<1>1. PICK p : p = [q EXCEPT !.settled = @ + 1]
  OBVIOUS
<1>2. p = Import(q.kind, q.stage, q.file, q.overwrite, q.sync, q.plan, q.ids, q.known, q.outcomes, q.settled + 1,
                 q.clean, q.before)
  BY <1>1, ImportPasses
<1>3. /\ p = SameImport(p) /\ p.kind = q.kind /\ p.file = q.file /\ p.overwrite = q.overwrite
      /\ p.sync = q.sync /\ p.plan = q.plan /\ p.ids = q.ids /\ p.known = q.known /\ p.outcomes = q.outcomes
      /\ p.settled = q.settled + 1 /\ p.clean = q.clean /\ p.before = q.before
  BY <1>2 DEF Import, SameImport
<1>4. [p EXCEPT !.stage = s] =
           Import(p.kind, s, p.file, p.overwrite, p.sync, p.plan, p.ids, p.known, p.outcomes, p.settled,
                  p.clean, p.before)
  BY <1>3, ImportMoves
<1> QED
  BY <1>1, <1>3, <1>4

LEMMA ApplySettingsRight ==
  ASSUME TransferInv, NEW u \in Uploads, Transfer!ApplySettings(u)
  PROVE  TransferInv'
<1>1. PICK q : q = upload[u]
  OBVIOUS
<1>2. q.stage = "settings" /\ UNCHANGED <<storedChannels, storedMonitors, minted>>
  BY <1>1 DEF Transfer!ApplySettings
<1>3. q = SameImport(q) /\ q.clean \in BOOLEAN
  BY <1>1 DEF TransferInv, ImportTyped
<1>4. PICK s : s = IF q.settled - Len(q.file.channels) + 1 = Len(Transfer!SettingItems) THEN "done" ELSE q.stage
  OBVIOUS
<1>5. PICK p, d : p = [q EXCEPT !.settled = @ + 1] /\ d = [p EXCEPT !.stage = s]
  OBVIOUS
<1>6. p = Import(q.kind, q.stage, q.file, q.overwrite, q.sync, q.plan, q.ids, q.known, q.outcomes, q.settled + 1,
                 q.clean, q.before)
  BY <1>3, <1>5, ImportPasses
<1>7. /\ p = SameImport(p) /\ p.kind = q.kind /\ p.stage = q.stage /\ p.file = q.file /\ p.overwrite = q.overwrite
      /\ p.sync = q.sync /\ p.plan = q.plan /\ p.ids = q.ids /\ p.known = q.known /\ p.outcomes = q.outcomes
      /\ p.settled = q.settled + 1 /\ p.clean = q.clean /\ p.before = q.before
  BY <1>6 DEF Import, SameImport
<1>8. d = Import(q.kind, s, q.file, q.overwrite, q.sync, q.plan, q.ids, q.known, q.outcomes, q.settled + 1,
                 q.clean, q.before)
  <2>1. [[q EXCEPT !.settled = @ + 1] EXCEPT !.stage = s] =
           Import(q.kind, s, q.file, q.overwrite, q.sync, q.plan, q.ids, q.known, q.outcomes, q.settled + 1,
                  q.clean, q.before)
    BY <1>3, ImportPassesOn
  <2> QED
    BY <1>5, <2>1
<1>9. d = [Transfer!Passed(u) EXCEPT
             !.stage = IF upload[u].settled - Len(upload[u].file.channels) + 1 = Len(Transfer!SettingItems) THEN "done" ELSE @]
  BY <1>1, <1>4, <1>5, <1>7 DEF Transfer!Passed
<1>10. s \in {"settings", "done"}
  BY <1>2, <1>4
<1>11. CASE mishap' = mishap /\ Transfer!Goes(u, d)
  <2>1. SettingAs(q, d, s, q.clean)
    BY <1>2, <1>3, <1>8, <1>10 DEF SettingAs
  <2> QED
    BY <1>1, <1>2, <1>11, <2>1, SettingStep DEF TransferInv
<1>12. CASE mishap' = TRUE /\ Transfer!Goes(u, [d EXCEPT !.clean = FALSE])
  <2>1. /\ d = SameImport(d) /\ d.kind = q.kind /\ d.stage = s /\ d.file = q.file /\ d.overwrite = q.overwrite
        /\ d.sync = q.sync /\ d.plan = q.plan /\ d.ids = q.ids /\ d.known = q.known /\ d.outcomes = q.outcomes
        /\ d.settled = q.settled + 1 /\ d.clean = q.clean /\ d.before = q.before
    BY <1>8 DEF Import, SameImport
  <2>2. PICK new : new = [d EXCEPT !.clean = FALSE]
    OBVIOUS
  <2>3. new = Import(d.kind, d.stage, d.file, d.overwrite, d.sync, d.plan, d.ids, d.known, d.outcomes, d.settled,
                     FALSE, d.before)
    BY <2>1, <2>2, ImportSpoils
  <2>4. PICK clean \in BOOLEAN : clean = FALSE
    OBVIOUS
  <2>5. new = Import(q.kind, s, q.file, q.overwrite, q.sync, q.plan, q.ids, q.known, q.outcomes, q.settled + 1,
                     clean, q.before)
    BY <2>1, <2>3, <2>4, Zenon
  <2>6. SettingAs(q, new, s, clean)
    BY <1>2, <1>10, <2>4, <2>5 DEF SettingAs
  <2>7. Transfer!Goes(u, new) /\ mishap' \in BOOLEAN
    BY <1>12, <2>2
  <2> QED
    BY <1>1, <1>2, <2>6, <2>7, SettingStep
<1> QED
  BY <1>9, <1>11, <1>12 DEF Transfer!ApplySettings, Transfer!Works, Transfer!Breaks

-----------------------------------------------------------------------------
(* An import starts.                                                       *)

LEMMA FunctionList ==
  ASSUME NEW n \in Nat, NEW f, f = [i \in 1..n |-> f[i]]
  PROVE  IsList(f) /\ Len(f) = n /\ DOMAIN f = 1..n
<1>1. PICK S : S = {f[i] : i \in 1..n}
  OBVIOUS
<1>2. f \in [1..n -> S]
  BY <1>1
<1>3. f \in Seq(S)
  BY <1>2, SeqDef
<1>4. DOMAIN f = 1..n
  OBVIOUS
<1>5. Len(f) = n
  BY <1>3, <1>4
<1> QED
  BY <1>3, <1>4, <1>5 DEF IsList

LEMMA ReverseList ==
  ASSUME NEW s, IsList(s), NEW r, r = Transfer!Reverse(s)
  PROVE  IsList(r) /\ \A i \in DOMAIN r : \E j \in DOMAIN s : r[i] = s[j]
<1>1. Len(s) \in Nat /\ DOMAIN s = 1..Len(s)
  BY ListParts
<1>2. r = [i \in 1..Len(s) |-> s[(Len(s) - i) + 1]]
  BY DEF Transfer!Reverse
<1>3. r = [i \in 1..Len(s) |-> r[i]]
  BY <1>2
<1>4. IsList(r) /\ DOMAIN r = 1..Len(s)
  BY <1>1, <1>3, FunctionList
<1>5. ASSUME NEW i \in DOMAIN r PROVE \E j \in DOMAIN s : r[i] = s[j]
  <2>1. (Len(s) - i) + 1 \in DOMAIN s
    BY <1>1, <1>4, <1>5
  <2>2. r[i] = s[(Len(s) - i) + 1]
    BY <1>2, <1>4, <1>5
  <2> QED
    BY <2>1, <2>2
<1> QED
  BY <1>4, <1>5

\* The homes and the files there may be.
LEMMA HomeParts ==
  ASSUME NEW h \in HomeStates
  PROVE  /\ IsList(h.channels) /\ IsList(h.monitors)
         /\ \A i \in DOMAIN h.monitors : /\ IsRow(h.monitors[i], 10, h.channels)
                                         /\ h.monitors[i].type # "push" => h.monitors[i].token = 0
<1>1. IsList(h.channels) /\ IsList(h.monitors)
  BY TransferAssumption DEF IsList
<1>2. \A i \in DOMAIN h.monitors : /\ IsRow(h.monitors[i], 10, h.channels)
                                   /\ h.monitors[i].type # "push" => h.monitors[i].token = 0
  BY TransferAssumption DEF IsRow
<1> QED
  BY <1>1, <1>2

LEMMA FileBuilt ==
  ASSUME NEW h \in HomeStates, NEW f, f = Transfer!BuildFile(h)
  PROVE  IsFile(f) /\ IsFitFile(f)
<1>1. /\ IsList(h.channels) /\ IsList(h.monitors)
      /\ \A i \in DOMAIN h.monitors : /\ IsRow(h.monitors[i], 10, h.channels)
                                      /\ h.monitors[i].type # "push" => h.monitors[i].token = 0
  BY HomeParts
<1>2. PICK cs, ms :
        /\ cs = [c \in DOMAIN h.channels |->
                   [name |-> h.channels[c].name, text |-> h.channels[c].text, fit |-> TRUE]]
        /\ ms = [i \in DOMAIN h.monitors |->
                   [type |-> h.monitors[i].type, target |-> h.monitors[i].target, text |-> h.monitors[i].text,
                    token |-> h.monitors[i].token, enabled |-> h.monitors[i].enabled,
                    names |-> {h.channels[c].name : c \in h.monitors[i].routes \cap DOMAIN h.channels},
                    fit |-> "ok"]]
  OBVIOUS
<1>3. f.channels = Transfer!Reverse(cs) /\ f.monitors = Transfer!Reverse(ms)
  BY <1>2 DEF Transfer!BuildFile
<1>4. DOMAIN h.channels = 1..Len(h.channels) /\ Len(h.channels) \in Nat
  BY <1>1, ListParts
<1>5. DOMAIN h.monitors = 1..Len(h.monitors) /\ Len(h.monitors) \in Nat
  BY <1>1, ListParts
<1>6. IsList(cs)
  <2>1. cs = [i \in 1..Len(h.channels) |-> cs[i]]
    BY <1>2, <1>4
  <2> QED
    BY <1>4, <2>1, FunctionList
<1>7. IsList(ms) /\ DOMAIN ms = DOMAIN h.monitors
  <2>1. ms = [i \in 1..Len(h.monitors) |-> ms[i]]
    BY <1>2, <1>5
  <2> QED
    BY <1>5, <2>1, FunctionList
<1>8. \A i \in DOMAIN ms : /\ ms[i].type = h.monitors[i].type /\ ms[i].token = h.monitors[i].token
                           /\ ms[i].enabled = h.monitors[i].enabled
  BY <1>2
<1>9. \A i \in DOMAIN ms : /\ ms[i].token \in 0..10 /\ (ms[i].type # "push" => ms[i].token = 0)
                           /\ ms[i].enabled \in BOOLEAN
  BY <1>1, <1>7, <1>8 DEF IsRow
<1>10. IsList(f.channels)
  BY <1>3, <1>6, ReverseList
<1>11. IsList(f.monitors) /\ \A e \in DOMAIN f.monitors : \E j \in DOMAIN ms : f.monitors[e] = ms[j]
  BY <1>3, <1>7, ReverseList
<1>12. \A e \in DOMAIN f.monitors : /\ f.monitors[e].token \in 0..10
                                    /\ (f.monitors[e].type # "push" => f.monitors[e].token = 0)
                                    /\ f.monitors[e].enabled \in BOOLEAN
  BY <1>9, <1>11
<1> QED
  BY <1>10, <1>11, <1>12 DEF IsFile, IsFitFile

LEMMA FileFit ==
  ASSUME NEW f \in Edited \cup {Transfer!BuildFile(h) : h \in HomeStates}
  PROVE  IsFile(f) /\ IsFitFile(f)
<1>1. CASE f \in Edited
  <2>1. IsList(f.channels) /\ IsList(f.monitors)
    BY <1>1, TransferAssumption DEF IsList
  <2>2. \A e \in DOMAIN f.monitors : /\ f.monitors[e].token \in 0..10
                                     /\ (f.monitors[e].type # "push" => f.monitors[e].token = 0)
                                     /\ f.monitors[e].enabled \in BOOLEAN
    BY <1>1, TransferAssumption
  <2> QED
    BY <2>1, <2>2 DEF IsFile, IsFitFile
<1>2. CASE f \notin Edited
  <2>1. PICK h \in HomeStates : f = Transfer!BuildFile(h)
    BY <1>2
  <2> QED
    BY <2>1, FileBuilt
<1> QED
  BY <1>1, <1>2

\* The oldest of the rows of a key.
LEMMA OldestAlike ==
  ASSUME TransferInv, NEW m, Transfer!Alike(storedMonitors, m) # {}
  PROVE  /\ Transfer!Oldest(Transfer!Alike(storedMonitors, m)) \in DOMAIN storedMonitors
         /\ Transfer!Key(storedMonitors[Transfer!Oldest(Transfer!Alike(storedMonitors, m))]) = Transfer!Key(m)
<1>1. PICK T : T = Transfer!Alike(storedMonitors, m)
  OBVIOUS
<1>2. DOMAIN storedMonitors \subseteq Nat
  BY ListParts DEF TransferInv, RowsRight
<1>3. T \in SUBSET Nat /\ T # {}
  BY <1>1, <1>2 DEF Transfer!Alike
<1>4. Transfer!Oldest(T) \in T
  BY <1>3, OldestIn
<1> QED
  BY <1>1, <1>4 DEF Transfer!Alike

\* The plan of a file.
LEMMA PlanMade ==
  ASSUME TransferInv, NEW q, IsFile(q.file), IsFitFile(q.file), q.overwrite \in BOOLEAN,
         q.plan = Transfer!PlanImport(q.file, q.overwrite), q.before = <<storedChannels, storedMonitors, settings>>
  PROVE  PlanStands(q, storedMonitors, storedChannels) /\ PlanRight(q)
<1>1. q.before[1] = storedChannels /\ q.before[2] = storedMonitors
  OBVIOUS
<1>2. ASSUME NEW e \in DOMAIN q.file.monitors
      PROVE  /\ q.plan.monitors[e].status = Transfer!MonitorStatus(q.file, q.overwrite, e)
             /\ q.plan.monitors[e].token = Transfer!PlannedToken(q.file, e)
             /\ q.plan.monitors[e].existing = IF Transfer!Alike(storedMonitors, q.file.monitors[e]) = {} THEN 0
                                              ELSE Transfer!Oldest(Transfer!Alike(storedMonitors, q.file.monitors[e]))
             /\ q.plan.monitors[e].names = {n \in q.file.monitors[e].names :
                     n \in Transfer!FitChannels(q.file) \/ Transfer!Named(storedChannels, n) # {}}
  BY <1>2 DEF Transfer!PlanImport
<1>3. ASSUME NEW i \in DOMAIN q.file.channels
      PROVE  q.plan.channels[i] = Transfer!ChannelStatus(q.file, i)
  BY <1>3 DEF Transfer!PlanImport
<1>4. ASSUME NEW e \in DOMAIN q.file.monitors
      PROVE  /\ q.plan.monitors[e].status \in {"invalid", "update", "duplicate", "create"}
             /\ q.plan.monitors[e].status = "invalid" <=> e \notin Transfer!Fit(q.file)
             /\ q.plan.monitors[e].status = "update" =>
                  q.overwrite /\ Transfer!Alike(storedMonitors, q.file.monitors[e]) # {}
             /\ q.plan.monitors[e].status = "duplicate" =>
                  Transfer!Alike(storedMonitors, q.file.monitors[e]) # {} \/ FitBefore(q, e)
             /\ q.plan.monitors[e].status = "create" =>
                  Transfer!Alike(storedMonitors, q.file.monitors[e]) = {} /\ ~FitBefore(q, e)
  <2>1. FitBefore(q, e) <=>
          \E j \in 1..(e - 1) : /\ q.file.monitors[j].fit = "ok"
                                /\ Transfer!Key(q.file.monitors[j]) = Transfer!Key(q.file.monitors[e])
    <3>1. DOMAIN q.file.monitors = 1..Len(q.file.monitors) /\ Len(q.file.monitors) \in Nat
      BY ListParts DEF IsFile
    <3>2. \A j : j \in DOMAIN q.file.monitors /\ j < e <=> j \in 1..(e - 1)
      BY <1>4, <3>1
    <3> QED
      BY <3>2 DEF FitBefore, Transfer!Fit
  <2>2. q.plan.monitors[e].status = Transfer!MonitorStatus(q.file, q.overwrite, e)
    BY <1>2, <1>4
  <2> QED
    BY <1>4, <2>1, <2>2 DEF Transfer!MonitorStatus, Transfer!Fit
<1>5. ASSUME NEW e \in DOMAIN q.file.monitors
      PROVE  /\ q.plan.monitors[e].token \in 0..10
             /\ q.file.monitors[e].token \notin TokensBefore(q, e) \cup {0} =>
                  q.plan.monitors[e].token = q.file.monitors[e].token
  <2>1. q.plan.monitors[e].token = Transfer!PlannedToken(q.file, e)
    BY <1>2, <1>5
  <2>2. q.file.monitors[e].token \in 0..10 /\ (q.file.monitors[e].type # "push" => q.file.monitors[e].token = 0)
    BY <1>5 DEF IsFitFile
  <2>3. Transfer!Taken(q.file, e) \subseteq TokensBefore(q, e)
    <3>1. ASSUME NEW n \in DOMAIN storedMonitors
          PROVE  Transfer!Oldest(Transfer!Alike(storedMonitors, storedMonitors[n])) \in DOMAIN storedMonitors
      BY <3>1, OldestAlike DEF Transfer!Alike
    <3> QED
      BY <1>1, <3>1 DEF Transfer!Taken, TokensBefore
  <2> QED
    BY <2>1, <2>2, <2>3 DEF Transfer!PlannedToken
<1>6. ASSUME NEW e \in DOMAIN q.file.monitors, q.plan.monitors[e].status = "update"
      PROVE  /\ q.plan.monitors[e].existing \in DOMAIN storedMonitors
             /\ Transfer!Key(storedMonitors[q.plan.monitors[e].existing]) = Transfer!Key(q.file.monitors[e])
  BY <1>2, <1>4, <1>6, OldestAlike
<1>7. \A m : Transfer!Alike(storedMonitors, m) # {} <=> HasKey(storedMonitors, Transfer!Key(m))
  BY DEF Transfer!Alike, HasKey
<1>8. ASSUME NEW e \in DOMAIN q.file.monitors PROVE EntryPlanned(q, e)
  BY <1>1, <1>2, <1>4, <1>5, <1>6, <1>7, <1>8 DEF EntryPlanned
<1>9. ASSUME NEW i \in DOMAIN q.file.channels
      PROVE  /\ ChannelPlanned(q, i) /\ q.plan.channels[i] \in {"invalid", "reuse", "merge", "create"}
             /\ q.plan.channels[i] = "reuse" => Transfer!Named(storedChannels, q.file.channels[i].name) # {}
  BY <1>1, <1>3, <1>9 DEF ChannelPlanned, Transfer!ChannelStatus, FitChannel
<1>10. PlanStands(q, storedMonitors, storedChannels)
  BY <1>4, <1>5, <1>6, <1>9 DEF PlanStands
<1> QED
  BY <1>8, <1>9, <1>10 DEF PlanRight

\* The fields that a start sets, one after the other.
ConfigStarted(k, s, f, w, p, b) ==
  [Transfer!Unused EXCEPT !.kind = k, !.stage = s, !.file = f, !.overwrite = w, !.plan = p, !.before = b]
KumaStarted(k, s, f, w, v, b, m) ==
  [Transfer!Unused EXCEPT !.kind = k, !.stage = s, !.file = f, !.overwrite = w, !.sync = v,
                          !.before = b, !.known = m]

LEMMA UnusedParts ==
  /\ Transfer!Unused.sync = FALSE /\ DOMAIN Transfer!Unused.ids = {} /\ DOMAIN Transfer!Unused.known = {}
  /\ Transfer!Unused.outcomes = <<>> /\ Transfer!Unused.settled = 0 /\ Transfer!Unused.clean = TRUE
  BY DEF Transfer!Unused

LEMMA StartConfig ==
  ASSUME NEW k, NEW s, NEW f, NEW w, NEW p, NEW b
  PROVE  ConfigStarted(k, s, f, w, p, b) =
           Import(k, s, f, w, Transfer!Unused.sync, p, Transfer!Unused.ids, Transfer!Unused.known,
                  Transfer!Unused.outcomes, Transfer!Unused.settled, Transfer!Unused.clean, b)
<1>1. PICK u, i, n, x, y, g, r, z : /\ u = Transfer!Unused /\ i = [c \in {} |-> 0] /\ n = [c \in {} |-> 0]
                                    /\ x = FALSE /\ y = TRUE /\ g = Transfer!NoFile /\ r = Transfer!NoPlan /\ z = <<>>
  OBVIOUS
<1>2. /\ u = Import("none", "new", g, x, x, r, i, n, z, 0, y, z)
      /\ ConfigStarted(k, s, f, w, p, b) = [[[[[[u EXCEPT !.kind = k] EXCEPT !.stage = s] EXCEPT !.file = f] EXCEPT !.overwrite = w]
                  EXCEPT !.plan = p] EXCEPT !.before = b]
  BY <1>1 DEF ConfigStarted, Transfer!Unused, Import
<1>3. [Import("none", "new", g, x, x, r, i, n, z, 0, y, z) EXCEPT !.kind = k]
        = Import(k, "new", g, x, x, r, i, n, z, 0, y, z)
  BY DEF Import
<1>4. [Import(k, "new", g, x, x, r, i, n, z, 0, y, z) EXCEPT !.stage = s]
        = Import(k, s, g, x, x, r, i, n, z, 0, y, z)
  BY DEF Import
<1>5. [Import(k, s, g, x, x, r, i, n, z, 0, y, z) EXCEPT !.file = f] = Import(k, s, f, x, x, r, i, n, z, 0, y, z)
  BY DEF Import
<1>6. [Import(k, s, f, x, x, r, i, n, z, 0, y, z) EXCEPT !.overwrite = w] = Import(k, s, f, w, x, r, i, n, z, 0, y, z)
  BY DEF Import
<1>7. [Import(k, s, f, w, x, r, i, n, z, 0, y, z) EXCEPT !.plan = p] = Import(k, s, f, w, x, p, i, n, z, 0, y, z)
  BY DEF Import
<1>8. [Import(k, s, f, w, x, p, i, n, z, 0, y, z) EXCEPT !.before = b] = Import(k, s, f, w, x, p, i, n, z, 0, y, b)
  BY DEF Import
<1>9. [[u EXCEPT !.kind = k] EXCEPT !.stage = s] = Import(k, s, g, x, x, r, i, n, z, 0, y, z)
  BY <1>2, <1>3, <1>4
<1>10. [[[u EXCEPT !.kind = k] EXCEPT !.stage = s] EXCEPT !.file = f] = Import(k, s, f, x, x, r, i, n, z, 0, y, z)
  BY <1>5, <1>9
<1>11. [[[[u EXCEPT !.kind = k] EXCEPT !.stage = s] EXCEPT !.file = f] EXCEPT !.overwrite = w]
         = Import(k, s, f, w, x, r, i, n, z, 0, y, z)
  BY <1>6, <1>10
<1>12. [[[[[u EXCEPT !.kind = k] EXCEPT !.stage = s] EXCEPT !.file = f] EXCEPT !.overwrite = w] EXCEPT !.plan = p]
         = Import(k, s, f, w, x, p, i, n, z, 0, y, z)
  BY <1>7, <1>11
<1>13. ConfigStarted(k, s, f, w, p, b) = Import(k, s, f, w, x, p, i, n, z, 0, y, b)
  BY <1>2, <1>8, <1>12
<1>14. /\ Transfer!Unused.sync = x /\ Transfer!Unused.ids = i /\ Transfer!Unused.known = n
       /\ Transfer!Unused.outcomes = z /\ Transfer!Unused.settled = 0 /\ Transfer!Unused.clean = y
  BY <1>1, <1>2 DEF Import
<1> QED
  BY <1>13, <1>14

LEMMA StartOfKuma ==
  ASSUME NEW k, NEW s, NEW f, NEW w, NEW v, NEW b, NEW m
  PROVE  KumaStarted(k, s, f, w, v, b, m) =
           Import(k, s, f, w, v, Transfer!Unused.plan, Transfer!Unused.ids, m,
                  Transfer!Unused.outcomes, Transfer!Unused.settled, Transfer!Unused.clean, b)
<1>1. PICK u, i, n, x, y, g, r, z : /\ u = Transfer!Unused /\ i = [c \in {} |-> 0] /\ n = [c \in {} |-> 0]
                                    /\ x = FALSE /\ y = TRUE /\ g = Transfer!NoFile /\ r = Transfer!NoPlan /\ z = <<>>
  OBVIOUS
<1>2. /\ u = Import("none", "new", g, x, x, r, i, n, z, 0, y, z)
      /\ KumaStarted(k, s, f, w, v, b, m) = [[[[[[[u EXCEPT !.kind = k] EXCEPT !.stage = s] EXCEPT !.file = f] EXCEPT !.overwrite = w]
                  EXCEPT !.sync = v] EXCEPT !.before = b] EXCEPT !.known = m]
  BY <1>1 DEF KumaStarted, Transfer!Unused, Import
<1>3. [Import("none", "new", g, x, x, r, i, n, z, 0, y, z) EXCEPT !.kind = k]
        = Import(k, "new", g, x, x, r, i, n, z, 0, y, z)
  BY DEF Import
<1>4. [Import(k, "new", g, x, x, r, i, n, z, 0, y, z) EXCEPT !.stage = s]
        = Import(k, s, g, x, x, r, i, n, z, 0, y, z)
  BY DEF Import
<1>5. [Import(k, s, g, x, x, r, i, n, z, 0, y, z) EXCEPT !.file = f] = Import(k, s, f, x, x, r, i, n, z, 0, y, z)
  BY DEF Import
<1>6. [Import(k, s, f, x, x, r, i, n, z, 0, y, z) EXCEPT !.overwrite = w] = Import(k, s, f, w, x, r, i, n, z, 0, y, z)
  BY DEF Import
<1>7. [Import(k, s, f, w, x, r, i, n, z, 0, y, z) EXCEPT !.sync = v] = Import(k, s, f, w, v, r, i, n, z, 0, y, z)
  BY DEF Import
<1>8. [Import(k, s, f, w, v, r, i, n, z, 0, y, z) EXCEPT !.before = b] = Import(k, s, f, w, v, r, i, n, z, 0, y, b)
  BY DEF Import
<1>9. [Import(k, s, f, w, v, r, i, n, z, 0, y, b) EXCEPT !.known = m] = Import(k, s, f, w, v, r, i, m, z, 0, y, b)
  BY DEF Import
<1>10. [[u EXCEPT !.kind = k] EXCEPT !.stage = s] = Import(k, s, g, x, x, r, i, n, z, 0, y, z)
  BY <1>2, <1>3, <1>4
<1>11. [[[u EXCEPT !.kind = k] EXCEPT !.stage = s] EXCEPT !.file = f] = Import(k, s, f, x, x, r, i, n, z, 0, y, z)
  BY <1>5, <1>10
<1>12. [[[[u EXCEPT !.kind = k] EXCEPT !.stage = s] EXCEPT !.file = f] EXCEPT !.overwrite = w]
         = Import(k, s, f, w, x, r, i, n, z, 0, y, z)
  BY <1>6, <1>11
<1>13. [[[[[u EXCEPT !.kind = k] EXCEPT !.stage = s] EXCEPT !.file = f] EXCEPT !.overwrite = w] EXCEPT !.sync = v]
         = Import(k, s, f, w, v, r, i, n, z, 0, y, z)
  BY <1>7, <1>12
<1>14. [[[[[[u EXCEPT !.kind = k] EXCEPT !.stage = s] EXCEPT !.file = f] EXCEPT !.overwrite = w] EXCEPT !.sync = v]
         EXCEPT !.before = b] = Import(k, s, f, w, v, r, i, n, z, 0, y, b)
  BY <1>8, <1>13
<1>15. KumaStarted(k, s, f, w, v, b, m) = Import(k, s, f, w, v, r, i, m, z, 0, y, b)
  BY <1>2, <1>9, <1>14
<1>16. /\ Transfer!Unused.plan = r /\ Transfer!Unused.ids = i
       /\ Transfer!Unused.outcomes = z /\ Transfer!Unused.settled = 0 /\ Transfer!Unused.clean = y
  BY <1>1, <1>2 DEF Import
<1> QED
  BY <1>15, <1>16

\* What both starts have in common.
LEMMA FreshRight ==
  ASSUME TransferInv, NEW q, q.before = <<storedChannels, storedMonitors, settings>>, q.outcomes = <<>>,
         IsList(q.file.monitors)
  PROVE  /\ \E top : RowsRight(q.before[2], q.before[1], top)
         /\ Len(q.before[2]) <= Len(storedMonitors) /\ Len(q.before[1]) <= Len(storedChannels)
         /\ OldKept(q, storedMonitors) /\ New(q.before[2], storedMonitors) = {} /\ Handled(q) = {}
         /\ New(q.before[1], storedChannels) = {} /\ IsList(q.outcomes) /\ DOMAIN q.outcomes = {}
         /\ Len(q.outcomes) = 0 /\ Len(q.file.monitors) \in Nat
<1>1. q.before[1] = storedChannels /\ q.before[2] = storedMonitors
  OBVIOUS
<1>2. RowsRight(storedMonitors, storedChannels, minted)
  BY DEF TransferInv
<1>3. Len(storedMonitors) \in Nat /\ Len(storedChannels) \in Nat
  BY <1>2, ListParts DEF RowsRight
<1>4. OldKept(q, storedMonitors)
  BY <1>1 DEF OldKept
<1>5. /\ New(q.before[2], storedMonitors) = {} /\ New(q.before[1], storedChannels) = {}
  BY <1>1 DEF New
<1>6. IsList(q.outcomes) /\ DOMAIN q.outcomes = {} /\ Len(q.outcomes) = 0
  BY DEF IsList
<1>7. DOMAIN q.file.monitors = 1..Len(q.file.monitors) /\ Len(q.file.monitors) \in Nat
  BY ListParts
<1>8. Handled(q) = {}
  BY <1>6, <1>7 DEF Handled
<1> QED
  BY <1>1, <1>2, <1>3, <1>4, <1>5, <1>6, <1>7, <1>8

LEMMA StartImportRight ==
  ASSUME TransferInv, NEW u \in Uploads, Transfer!StartImport(u)
  PROVE  TransferInv'
<1>1. PICK f \in Edited \cup {Transfer!BuildFile(h) : h \in HomeStates}, w \in BOOLEAN :
        Transfer!Goes(u, [Transfer!Unused EXCEPT !.kind = "config", !.stage = "channels", !.file = f, !.overwrite = w,
                                        !.plan = Transfer!PlanImport(f, w), !.before = Transfer!stored])
  BY DEF Transfer!StartImport
<1>2. PICK q : q = [Transfer!Unused EXCEPT !.kind = "config", !.stage = "channels", !.file = f, !.overwrite = w,
                                        !.plan = Transfer!PlanImport(f, w), !.before = Transfer!stored]
  OBVIOUS
<1>3. /\ q = SameImport(q) /\ q.kind = "config" /\ q.stage = "channels" /\ q.file = f /\ q.overwrite = w
      /\ q.sync = FALSE /\ q.plan = Transfer!PlanImport(f, w) /\ DOMAIN q.ids = {} /\ DOMAIN q.known = {}
      /\ q.outcomes = <<>> /\ q.settled = 0 /\ q.clean = TRUE /\ q.before = Transfer!stored
  <2>1. PICK kind, stage, plan, b : /\ kind = "config" /\ stage = "channels" /\ plan = Transfer!PlanImport(f, w)
                                    /\ b = Transfer!stored
    OBVIOUS
  <2>2. q = ConfigStarted(kind, stage, f, w, plan, b)
    BY <1>2, <2>1 DEF ConfigStarted
  <2>3. /\ q = SameImport(q) /\ q.kind = kind /\ q.stage = stage /\ q.file = f /\ q.overwrite = w
        /\ q.sync = FALSE /\ q.plan = plan /\ DOMAIN q.ids = {} /\ DOMAIN q.known = {}
        /\ q.outcomes = <<>> /\ q.settled = 0 /\ q.clean = TRUE /\ q.before = b
    <3>1. q = Import(kind, stage, f, w, Transfer!Unused.sync, plan, Transfer!Unused.ids, Transfer!Unused.known,
                     Transfer!Unused.outcomes, Transfer!Unused.settled, Transfer!Unused.clean, b)
      BY <2>2, StartConfig
    <3>2. /\ q = SameImport(q) /\ q.kind = kind /\ q.stage = stage /\ q.file = f /\ q.overwrite = w
          /\ q.sync = Transfer!Unused.sync /\ q.plan = plan /\ q.ids = Transfer!Unused.ids
          /\ q.known = Transfer!Unused.known /\ q.outcomes = Transfer!Unused.outcomes
          /\ q.settled = Transfer!Unused.settled /\ q.clean = Transfer!Unused.clean /\ q.before = b
      BY <3>1 DEF Import, SameImport
    <3> QED
      BY <3>2, UnusedParts
  <2> QED
    BY <2>1, <2>3
<1>4. q.before = <<storedChannels, storedMonitors, settings>>
  BY <1>3 DEF Transfer!stored
<1>5. IsFile(q.file) /\ IsFitFile(q.file)
  BY <1>3, FileFit
<1>6. PlanStands(q, storedMonitors, storedChannels) /\ PlanRight(q)
  BY <1>3, <1>4, <1>5, PlanMade
<1>7. /\ \E top : RowsRight(q.before[2], q.before[1], top)
      /\ Len(q.before[2]) <= Len(storedMonitors) /\ Len(q.before[1]) <= Len(storedChannels)
      /\ OldKept(q, storedMonitors) /\ New(q.before[2], storedMonitors) = {} /\ Handled(q) = {}
      /\ New(q.before[1], storedChannels) = {} /\ IsList(q.outcomes) /\ DOMAIN q.outcomes = {}
      /\ Len(q.outcomes) = 0 /\ Len(q.file.monitors) \in Nat
  BY <1>3, <1>4, <1>5, FreshRight DEF IsFile
<1>8. DOMAIN q.file.channels = 1..Len(q.file.channels) /\ Len(q.file.channels) \in Nat
  BY <1>5, ListParts DEF IsFile
<1>9. StageRight(q)
  BY <1>3, <1>7, <1>8 DEF StageRight
<1>10. ImportTyped(q, storedMonitors, storedChannels)
  BY <1>3, <1>5, <1>6, <1>7, <1>9 DEF ImportTyped
<1>11. Tried(q) = {}
  BY <1>3, <1>8 DEF Tried
<1>12. ChannelsRight(q, storedChannels)
  BY <1>3, <1>4, <1>7, <1>11 DEF ChannelsRight
<1>13. RowsMade(q, storedMonitors, storedChannels)
  BY <1>7 DEF RowsMade
<1>14. ImportRight(q, storedMonitors, storedChannels)
  BY <1>3, <1>6, <1>7, <1>12, <1>13 DEF ImportRight
<1>15. Transfer!Goes(u, q) /\ UNCHANGED <<storedChannels, storedMonitors, minted, mishap>>
  BY <1>1, <1>2 DEF Transfer!StartImport, Transfer!stored
<1> QED
  BY <1>10, <1>14, <1>15, QuietRight

LEMMA StartKumaRight ==
  ASSUME TransferInv, NEW u \in Uploads, Transfer!StartKuma(u)
  PROVE  TransferInv'
<1>0. PICK m : m = [k \in {Transfer!Key(storedMonitors[i]) : i \in DOMAIN storedMonitors} |->
                     LET i == Transfer!Oldest({j \in DOMAIN storedMonitors : Transfer!Key(storedMonitors[j]) = k})
                     IN [id |-> i, routes |-> storedMonitors[i].routes, enabled |-> storedMonitors[i].enabled]]
  OBVIOUS
<1>1. PICK list \in KumaLists, w \in BOOLEAN, v \in BOOLEAN :
        Transfer!Goes(u, [Transfer!Unused EXCEPT !.kind = "kuma", !.stage = "monitors",
                            !.file = [Transfer!NoFile EXCEPT !.monitors = list],
                            !.overwrite = w, !.sync = v, !.before = Transfer!stored, !.known = m])
  BY <1>0 DEF Transfer!StartKuma
<1>2. PICK f : f = [Transfer!NoFile EXCEPT !.monitors = list]
  OBVIOUS
<1>3. PICK q : q = [Transfer!Unused EXCEPT !.kind = "kuma", !.stage = "monitors", !.file = f,
                               !.overwrite = w, !.sync = v, !.before = Transfer!stored, !.known = m]
  OBVIOUS
<1>4. /\ q = SameImport(q) /\ q.kind = "kuma" /\ q.stage = "monitors" /\ q.file = f /\ q.overwrite = w
      /\ q.sync = v /\ DOMAIN q.ids = {} /\ q.known = m
      /\ q.outcomes = <<>> /\ q.settled = 0 /\ q.clean = TRUE /\ q.before = Transfer!stored
  <2>1. PICK kind, stage, b : kind = "kuma" /\ stage = "monitors" /\ b = Transfer!stored
    OBVIOUS
  <2>2. q = KumaStarted(kind, stage, f, w, v, b, m)
    BY <1>3, <2>1 DEF KumaStarted
  <2>3. /\ q = SameImport(q) /\ q.kind = kind /\ q.stage = stage /\ q.file = f /\ q.overwrite = w
        /\ q.sync = v /\ DOMAIN q.ids = {} /\ q.known = m
        /\ q.outcomes = <<>> /\ q.settled = 0 /\ q.clean = TRUE /\ q.before = b
    <3>1. q = Import(kind, stage, f, w, v, Transfer!Unused.plan, Transfer!Unused.ids, m,
                     Transfer!Unused.outcomes, Transfer!Unused.settled, Transfer!Unused.clean, b)
      BY <2>2, StartOfKuma
    <3>2. /\ q = SameImport(q) /\ q.kind = kind /\ q.stage = stage /\ q.file = f /\ q.overwrite = w
          /\ q.sync = v /\ q.ids = Transfer!Unused.ids /\ q.known = m
          /\ q.outcomes = Transfer!Unused.outcomes
          /\ q.settled = Transfer!Unused.settled /\ q.clean = Transfer!Unused.clean /\ q.before = b
      BY <3>1 DEF Import, SameImport
    <3> QED
      BY <3>2, UnusedParts
  <2> QED
    BY <2>1, <2>3
<1>5. q.before = <<storedChannels, storedMonitors, settings>> /\ q.before[1] = storedChannels /\ q.before[2] = storedMonitors
  BY <1>4 DEF Transfer!stored
<1>6. IsFile(f)
  <2>1. f.monitors = list /\ f.channels = <<>>
    BY <1>2 DEF Transfer!NoFile
  <2>2. IsList(list) /\ \A e \in DOMAIN list : list[e].enabled \in BOOLEAN
    BY TransferAssumption DEF IsList
  <2>3. IsList(f.channels)
    BY <2>1 DEF IsList
  <2> QED
    BY <2>1, <2>2, <2>3 DEF IsFile
<1>7. /\ \E top : RowsRight(q.before[2], q.before[1], top)
      /\ Len(q.before[2]) <= Len(storedMonitors) /\ Len(q.before[1]) <= Len(storedChannels)
      /\ OldKept(q, storedMonitors) /\ New(q.before[2], storedMonitors) = {} /\ Handled(q) = {}
      /\ IsList(q.outcomes) /\ DOMAIN q.outcomes = {}
      /\ Len(q.outcomes) = 0 /\ Len(q.file.monitors) \in Nat
  BY <1>4, <1>5, <1>6, FreshRight DEF IsFile
<1>8. ASSUME NEW k \in DOMAIN m
      PROVE  /\ m[k].id \in DOMAIN storedMonitors /\ Transfer!Key(storedMonitors[m[k].id]) = k
             /\ m[k].routes = storedMonitors[m[k].id].routes /\ m[k].enabled = storedMonitors[m[k].id].enabled
  <2>1. PICK T : T = {j \in DOMAIN storedMonitors : Transfer!Key(storedMonitors[j]) = k}
    OBVIOUS
  <2>2. PICK i : i = Transfer!Oldest(T)
    OBVIOUS
  <2>3. DOMAIN storedMonitors \subseteq Nat
    BY ListParts DEF TransferInv, RowsRight
  <2>4. T \in SUBSET Nat /\ T # {}
    BY <1>0, <1>8, <2>1, <2>3
  <2>5. i \in T
    BY <2>2, <2>4, OldestIn
  <2>6. m[k] = [id |-> i, routes |-> storedMonitors[i].routes, enabled |-> storedMonitors[i].enabled]
    BY <1>0, <1>8, <2>1, <2>2
  <2> QED
    BY <2>1, <2>5, <2>6
<1>9. \A k \in DOMAIN q.known : /\ Knowing(storedMonitors, storedChannels, q.known[k])
                                /\ Transfer!Key(storedMonitors[q.known[k].id]) = k
  <2>1. \A i \in DOMAIN storedMonitors : /\ storedMonitors[i].routes \subseteq DOMAIN storedChannels
                                         /\ storedMonitors[i].enabled \in BOOLEAN
    BY DEF TransferInv, RowsRight, IsRow
  <2> QED
    BY <1>4, <1>8, <2>1 DEF Knowing
<1>10. StageRight(q)
  BY <1>4, <1>7 DEF StageRight
<1>11. ImportTyped(q, storedMonitors, storedChannels)
  BY <1>4, <1>6, <1>7, <1>9, <1>10 DEF ImportTyped
<1>12. DOMAIN q.known = {Transfer!Key(storedMonitors[i]) : i \in DOMAIN storedMonitors}
  BY <1>0, <1>4
<1>13. KumaRight(q, storedMonitors, storedChannels)
  BY <1>4, <1>5, <1>7, <1>8, <1>12 DEF KumaRight
<1>14. ImportRight(q, storedMonitors, storedChannels)
  BY <1>4, <1>7, <1>13 DEF ImportRight
<1>15. Transfer!Goes(u, q) /\ UNCHANGED <<storedChannels, storedMonitors, minted, mishap>>
  BY <1>1, <1>2, <1>3 DEF Transfer!StartKuma, Transfer!stored
<1> QED
  BY <1>11, <1>14, <1>15, QuietRight

-----------------------------------------------------------------------------
(* The entries of an Uptime Kuma.                                          *)

LEMMA ImportKnows ==
  ASSUME NEW q, q = SameImport(q), NEW x, NEW y
  PROVE  [[q EXCEPT !.outcomes = x] EXCEPT !.known = y] =
           Import(q.kind, q.stage, q.file, q.overwrite, q.sync, q.plan, q.ids, y, x, q.settled, q.clean, q.before)
<1>1. PICK r : r = [q EXCEPT !.outcomes = x]
  OBVIOUS
<1>2. r = Import(q.kind, q.stage, q.file, q.overwrite, q.sync, q.plan, q.ids, q.known, x, q.settled,
                 q.clean, q.before)
  BY <1>1, ImportRecords
<1>3. /\ r = SameImport(r) /\ r.kind = q.kind /\ r.stage = q.stage /\ r.file = q.file /\ r.overwrite = q.overwrite
      /\ r.sync = q.sync /\ r.plan = q.plan /\ r.ids = q.ids /\ r.known = q.known /\ r.outcomes = x
      /\ r.settled = q.settled /\ r.clean = q.clean /\ r.before = q.before
  BY <1>2 DEF Import, SameImport
<1>4. [r EXCEPT !.known = y] =
           Import(r.kind, r.stage, r.file, r.overwrite, r.sync, r.plan, r.ids, y, r.outcomes, r.settled,
                  r.clean, r.before)
  BY <1>3, ImportLearns
<1> QED
  BY <1>1, <1>3, <1>4

\* What is known at an entry of an Uptime Kuma.
LEMMA KumaFacts ==
  ASSUME TransferInv, NEW u \in Uploads, NEW q, q = upload[u], Transfer!NextEntry(u, "kuma"),
         NEW e, e = Len(q.outcomes) + 1
  PROVE  /\ q = SameImport(q) /\ q.kind = "kuma" /\ q.clean \in BOOLEAN /\ AtEntry(q, e)
         /\ IsList(q.outcomes) /\ IsList(q.file.monitors) /\ e \in DOMAIN q.file.monitors
         /\ q.file.monitors[e].enabled \in BOOLEAN
         /\ KnownRight(q.known, storedMonitors, storedChannels)
         /\ ImportRight(q, storedMonitors, storedChannels)
         /\ q.before # <<>> => KumaRight(q, storedMonitors, storedChannels)
         /\ Transfer!Entry(u) = q.file.monitors[e]
<1>1. PICK kind : kind = "kuma"
  OBVIOUS
<1>2. /\ q = SameImport(q) /\ q.kind = kind /\ IsList(q.outcomes) /\ IsList(q.file.monitors) /\ q.clean \in BOOLEAN
      /\ AtEntry(q, Len(q.outcomes) + 1)
      /\ ImportTyped(q, storedMonitors, storedChannels) /\ ImportRight(q, storedMonitors, storedChannels)
  BY <1>1, EntryFacts
<1>3. e \in DOMAIN q.file.monitors /\ q.file.monitors[e].enabled \in BOOLEAN
  BY <1>2 DEF AtEntry, ImportTyped, IsFile
<1>4. KnownRight(q.known, storedMonitors, storedChannels)
  BY <1>1, <1>2 DEF ImportTyped, KnownRight
<1>5. q.before # <<>> => KumaRight(q, storedMonitors, storedChannels)
  BY <1>1, <1>2 DEF ImportRight
<1> QED
  BY <1>1, <1>2, <1>3, <1>4, <1>5 DEF Transfer!Entry

LEMMA KumaPassRight ==
  ASSUME TransferInv, NEW u \in Uploads, Transfer!KumaPass(u)
  PROVE  TransferInv'
<1>1. PICK q, e, kind : q = upload[u] /\ e = Len(q.outcomes) + 1 /\ kind = "kuma"
  OBVIOUS
<1>2. Transfer!NextEntry(u, "kuma") /\ Transfer!NextEntry(u, kind) /\ EntryUnwritten
  BY <1>1 DEF Transfer!KumaPass, EntryUnwritten, Transfer!stored, TransferInv
<1>3. /\ q.kind = "kuma" /\ AtEntry(q, e) /\ e \in DOMAIN q.file.monitors
      /\ q.before # <<>> => KumaRight(q, storedMonitors, storedChannels)
      /\ Transfer!Entry(u) = q.file.monitors[e]
  BY <1>1, <1>2, KumaFacts
<1>4. PICK o \in Transfer!Statuses \ {"create"} :
        /\ Transfer!Records(u, o)
        /\ q.file.monitors[e].fit # "ok" \/ Transfer!Key(q.file.monitors[e]) \in DOMAIN q.known
  <2>1. CASE Transfer!Records(u, "skipped") /\ (Transfer!Entry(u).fit = "unsupported" \/ Transfer!Found(u))
    BY <1>1, <1>3, <2>1 DEF Transfer!Found, Transfer!Statuses
  <2>2. CASE Transfer!Records(u, "failed") /\ Transfer!Entry(u).fit = "invalid"
    BY <1>1, <1>3, <2>2 DEF Transfer!Statuses
  <2> QED
    BY <2>1, <2>2 DEF Transfer!KumaPass
<1>5. ASSUME q.before # <<>>, q.clean, e \in Transfer!Fit(q.file)
      PROVE  HasKey(storedMonitors, Transfer!Key(q.file.monitors[e]))
  BY <1>3, <1>4, <1>5 DEF Transfer!Fit, KumaRight, HasKey
<1> QED
  BY <1>1, <1>2, <1>3, <1>4, <1>5, PassesRight

LEMMA KumaCreateRight ==
  ASSUME TransferInv, NEW u \in Uploads, Transfer!KumaCreate(u)
  PROVE  TransferInv'
<1>1. PICK q, e, kind, o : q = upload[u] /\ e = Len(q.outcomes) + 1 /\ kind = "kuma" /\ o = "create"
  OBVIOUS
<1>2. Transfer!NextEntry(u, "kuma") /\ Transfer!NextEntry(u, kind)
  BY <1>1 DEF Transfer!KumaCreate
<1>3. /\ q = SameImport(q) /\ q.kind = "kuma" /\ q.clean \in BOOLEAN /\ AtEntry(q, e)
      /\ IsList(q.outcomes) /\ IsList(q.file.monitors) /\ e \in DOMAIN q.file.monitors
      /\ q.file.monitors[e].enabled \in BOOLEAN
      /\ KnownRight(q.known, storedMonitors, storedChannels)
      /\ ImportRight(q, storedMonitors, storedChannels)
      /\ q.before # <<>> => KumaRight(q, storedMonitors, storedChannels)
      /\ Transfer!Entry(u) = q.file.monitors[e]
  BY <1>1, <1>2, KumaFacts
<1>4. PICK item, token, key : /\ item = q.file.monitors[e] /\ token = IF item.type = "push" THEN minted + 1 ELSE 0
                              /\ key = Transfer!Key(item)
  OBVIOUS
<1>5. /\ Transfer!Entry(u) = item /\ Transfer!KumaToken(u) = token /\ item.fit = "ok" /\ key \notin DOMAIN q.known
      /\ storedChannels' = storedChannels /\ minted' = IF item.type = "push" THEN token ELSE minted
  BY <1>1, <1>3, <1>4 DEF Transfer!KumaCreate, Transfer!KumaToken, Transfer!Found
<1>6. minted \in Nat /\ 10 <= minted
  BY DEF TransferInv, RowsRight
<1>7. minted' \in {minted, minted + 1} /\ token \in 0..minted'
  BY <1>4, <1>5, <1>6
<1>8. CASE /\ Transfer!Works
           /\ storedMonitors' = Append(storedMonitors, Transfer!Row(item, token, {}, item.enabled))
           /\ Transfer!Knows(u, Len(storedMonitors) + 1, {}, item.enabled, "create")
  <2>1. PICK n, row, none : /\ n = Len(storedMonitors) + 1 /\ row = Transfer!Row(item, token, {}, item.enabled)
                            /\ none = {}
    OBVIOUS
  <2>2. /\ row = Transfer!Row(row, row.token, row.routes, row.enabled) /\ row.token = token
        /\ row.routes = none /\ row.enabled = item.enabled /\ Transfer!Key(row) = key
    BY <1>4, <2>1 DEF Transfer!Row, Transfer!Key
  <2>3. IsRow(row, minted', storedChannels)
    BY <1>3, <1>4, <1>7, <2>1, <2>2 DEF IsRow
  <2>4. RowMade(n, row)
    BY <1>5, <1>7, <1>8, <2>1, <2>3 DEF RowMade, Transfer!Works
  <2>5. /\ RowsWritten /\ DOMAIN storedMonitors' = DOMAIN storedMonitors \cup {n} /\ storedMonitors'[n] = row
        /\ n \notin DOMAIN storedMonitors
        /\ \A i \in DOMAIN storedMonitors : storedMonitors'[i] = storedMonitors[i]
    BY <2>4, MakeRow
  <2>6. PICK x, k, rec : /\ x = Append(q.outcomes, o) /\ rec = [id |-> n, routes |-> none, enabled |-> item.enabled]
                         /\ k = Transfer!With(q.known, key, rec)
    OBVIOUS
  <2>7. PICK d, clean : d = [[q EXCEPT !.outcomes = x] EXCEPT !.known = k] /\ clean = q.clean
    OBVIOUS
  <2>8. d = Import(q.kind, q.stage, q.file, q.overwrite, q.sync, q.plan, q.ids, k, x, q.settled, clean, q.before)
    <3>1. q = SameImport(q)
      BY <1>3
    <3>2. [[q EXCEPT !.outcomes = x] EXCEPT !.known = k] =
            Import(q.kind, q.stage, q.file, q.overwrite, q.sync, q.plan, q.ids, k, x, q.settled, q.clean, q.before)
      BY <3>1, ImportKnows
    <3> QED
      BY <2>7, <3>2
  <2>9. RecordedAs(q, d, o, k, clean)
    <3>1. o \in Transfer!Statuses
      BY <1>1 DEF Transfer!Statuses
    <3>2. clean \in BOOLEAN /\ (clean => q.clean) /\ x = Append(q.outcomes, o)
      BY <1>3, <2>6, <2>7
    <3> QED
      BY <2>8, <3>1, <3>2 DEF RecordedAs
  <2>10. Transfer!Goes(u, d)
    <3>1. [Transfer!Recorded(u, "create") EXCEPT
             !.known = Transfer!With(@, Transfer!Key(Transfer!Entry(u)), [id |-> n, routes |-> {}, enabled |-> item.enabled])] = d
      <4>1. [q EXCEPT !.outcomes = x].known = q.known
        <5>1. [q EXCEPT !.outcomes = x] = Import(q.kind, q.stage, q.file, q.overwrite, q.sync, q.plan, q.ids, q.known, x,
                                                 q.settled, q.clean, q.before)
          BY <1>3, ImportRecords
        <5> QED
          BY <5>1 DEF Import
      <4>2. Transfer!Recorded(u, "create") = [q EXCEPT !.outcomes = x]
        BY <1>1, <2>6 DEF Transfer!Recorded
      <4> QED
        BY <1>4, <1>5, <2>1, <2>6, <2>7, <4>1, <4>2
    <3> QED
      BY <1>8, <2>1, <3>1 DEF Transfer!Knows
  <2>11. /\ SameGoal(q, d) /\ d.outcomes = Append(q.outcomes, o) /\ d.before = q.before /\ d.clean = q.clean /\ d.known = k
    BY <2>6, <2>7, <2>8 DEF Import, SameGoal
  <2>12. /\ DOMAIN k = DOMAIN q.known \cup {key} /\ k[key] = rec /\ \A y \in DOMAIN q.known : k[y] = q.known[y]
    BY <1>5, <2>6 DEF Transfer!With
  <2>13. KnownRight(k, storedMonitors', storedChannels')
    <3>1. ASSUME NEW y \in DOMAIN q.known
          PROVE  Knowing(storedMonitors', storedChannels', k[y]) /\ Transfer!Key(storedMonitors'[k[y].id]) = y
      <4>1. Knowing(storedMonitors, storedChannels, k[y]) /\ Transfer!Key(storedMonitors[k[y].id]) = y
        BY <1>3, <2>12, <3>1 DEF KnownRight
      <4> QED
        BY <1>5, <2>5, <4>1 DEF Knowing
    <3>2. Knowing(storedMonitors', storedChannels', rec) /\ Transfer!Key(storedMonitors'[rec.id]) = key
      BY <1>3, <1>4, <2>1, <2>2, <2>5, <2>6 DEF Knowing
    <3> QED
      BY <2>12, <3>1, <3>2 DEF KnownRight
  <2>14. ASSUME q.before # <<>> PROVE EntryRight(q, d, e, storedMonitors', storedChannels)
    <3>1. KumaRight(q, storedMonitors, storedChannels) /\ OldKept(q, storedMonitors)
      BY <1>3, <2>14 DEF ImportRight
    <3>2. ~HasKey(storedMonitors, Transfer!Key(row))
      BY <1>5, <2>2, <3>1 DEF HasKey, KumaRight
    <3>3. /\ OldKept(q, storedMonitors')
          /\ New(q.before[2], storedMonitors') = New(q.before[2], storedMonitors) \cup {n}
          /\ \A i, j \in New(q.before[2], storedMonitors') :
               i # j => Transfer!Key(storedMonitors'[i]) # Transfer!Key(storedMonitors'[j])
      BY <1>3, <2>4, <2>14, <3>2, MadeKeeps
    <3>4. HasKey(storedMonitors', Transfer!Key(q.file.monitors[e]))
      BY <1>4, <2>2, <2>5 DEF HasKey
    <3>5. d.before[1] = q.before[1] /\ d.before[2] = q.before[2] /\ d.file = q.file /\ d.overwrite = q.overwrite /\ d.sync = q.sync
      BY <2>11 DEF SameGoal
    <3>6. DOMAIN d.known = {Transfer!Key(storedMonitors'[i]) : i \in DOMAIN storedMonitors'}
      <4>1. DOMAIN q.known = {Transfer!Key(storedMonitors[i]) : i \in DOMAIN storedMonitors}
        BY <3>1 DEF KumaRight
      <4> QED
        BY <2>2, <2>5, <2>11, <2>12, <4>1
    <3>7. ASSUME NEW i \in New(q.before[2], storedMonitors')
          PROVE  /\ ~HasKey(q.before[2], Transfer!Key(storedMonitors'[i]))
                 /\ \E j \in Transfer!Fit(q.file) : Transfer!Key(storedMonitors'[i]) = Transfer!Key(q.file.monitors[j])
      <4>1. CASE i = n
        <5>1. ~HasKey(q.before[2], key)
          BY <2>2, <3>1, <3>2 DEF HasKey, OldKept
        <5>2. e \in Transfer!Fit(q.file)
          BY <1>3, <1>4, <1>5 DEF Transfer!Fit
        <5> QED
          BY <1>4, <2>2, <2>5, <4>1, <5>1, <5>2
      <4>2. CASE i # n
        <5>1. i \in New(q.before[2], storedMonitors) /\ storedMonitors'[i] = storedMonitors[i]
          BY <2>5, <3>3, <3>7, <4>2 DEF New
        <5> QED
          BY <3>1, <5>1 DEF KumaRight
      <4> QED
        BY <4>1, <4>2
    <3>8. ASSUME ~q.overwrite
          PROVE  /\ \A y \in DOMAIN d.known : d.known[y].id \in DOMAIN q.before[2] =>
                      d.known[y].enabled = q.before[2][d.known[y].id].enabled
                 /\ \A i \in DOMAIN q.before[2] :
                      \/ storedMonitors'[i] = q.before[2][i]
                      \/ q.sync /\ storedMonitors'[i] = [q.before[2][i] EXCEPT !.enabled = ~@]
      <4>1. n \notin DOMAIN q.before[2] /\ \A i \in DOMAIN q.before[2] : storedMonitors'[i] = storedMonitors[i]
        BY <2>5, <3>1 DEF OldKept
      <4>2. /\ \A y \in DOMAIN q.known : q.known[y].id \in DOMAIN q.before[2] =>
                      q.known[y].enabled = q.before[2][q.known[y].id].enabled
            /\ \A i \in DOMAIN q.before[2] :
                      \/ storedMonitors[i] = q.before[2][i]
                      \/ q.sync /\ storedMonitors[i] = [q.before[2][i] EXCEPT !.enabled = ~@]
        BY <3>1, <3>8 DEF KumaRight
      <4>3. rec.id = n
        BY <2>6
      <4>4. \A i \in DOMAIN q.before[2] :
              \/ storedMonitors'[i] = q.before[2][i]
              \/ q.sync /\ storedMonitors'[i] = [q.before[2][i] EXCEPT !.enabled = ~@]
        BY <4>1, <4>2
      <4>5. ASSUME NEW y \in DOMAIN d.known, d.known[y].id \in DOMAIN q.before[2]
            PROVE  d.known[y].enabled = q.before[2][d.known[y].id].enabled
        <5>1. d.known[y] = k[y] /\ y \in DOMAIN q.known \cup {key}
          BY <2>11, <2>12, <4>5
        <5>2. y \in DOMAIN q.known /\ k[y] = q.known[y]
          BY <2>12, <4>1, <4>3, <4>5, <5>1
        <5> QED
          BY <4>2, <4>5, <5>1, <5>2
      <4> QED
        BY <4>4, <4>5
    <3>9. KumaRight(d, storedMonitors', storedChannels)
      BY <3>1, <3>5, <3>6, <3>7, <3>8 DEF KumaRight
    <3>10. q.kind # "config"
      BY <1>3
    <3> QED
      BY <3>3, <3>4, <3>9, <3>10 DEF EntryRight
  <2>15. q.before # <<>> => EntryRight(q, d, e, storedMonitors', storedChannels')
    BY <1>5, <2>14
  <2> QED
    BY <1>1, <1>2, <1>3, <2>5, <2>9, <2>10, <2>13, <2>15, EntryStep
<1>9. CASE mishap' = TRUE /\ UNCHANGED storedMonitors /\ Transfer!Spoilt(u, "failed")
  <2>1. EntryUnwritten
    BY <1>5, <1>7, <1>9 DEF EntryUnwritten
  <2> QED
    BY <1>2, <1>9, <2>1, FailsRight
<1> QED
  BY <1>5, <1>8, <1>9 DEF Transfer!KumaCreate, Transfer!Breaks

\* What an import of an Uptime Kuma knows after it has rewritten a row.
KumaRewrites(q, d, x, row) ==
  /\ SameGoal(q, d) /\ d.before = q.before /\ DOMAIN d.known = DOMAIN q.known
  /\ ~q.overwrite =>
       /\ d.known = q.known
       /\ x \in DOMAIN q.before[2] =>
            row = q.before[2][x] \/ (q.sync /\ row = [q.before[2][x] EXCEPT !.enabled = ~@])

LEMMA KumaRightLater ==
  ASSUME TransferInv, NEW x, NEW row, RowRewritten(x, row), NEW q, q.before # <<>>,
         ImportRight(q, storedMonitors, storedChannels), q.kind = "kuma", NEW d, KumaRewrites(q, d, x, row)
  PROVE  KumaRight(d, storedMonitors', storedChannels)
<1>1. /\ DOMAIN storedMonitors' = DOMAIN storedMonitors
      /\ \A i \in DOMAIN storedMonitors : storedMonitors'[i] = IF i = x THEN row ELSE storedMonitors[i]
      /\ \A i \in DOMAIN storedMonitors : Transfer!Key(storedMonitors'[i]) = Transfer!Key(storedMonitors[i])
  BY RewriteRows
<1>2. KumaRight(q, storedMonitors, storedChannels) /\ OldKept(q, storedMonitors)
  BY DEF ImportRight
<1>3. /\ d.before[1] = q.before[1] /\ d.before[2] = q.before[2] /\ d.file = q.file /\ d.overwrite = q.overwrite
      /\ d.sync = q.sync /\ DOMAIN d.known = DOMAIN q.known
  BY DEF KumaRewrites, SameGoal
<1>4. New(d.before[2], storedMonitors') = New(q.before[2], storedMonitors)
  BY <1>1, <1>3 DEF New
<1>5. DOMAIN d.known = {Transfer!Key(storedMonitors'[i]) : i \in DOMAIN storedMonitors'}
  <2>1. DOMAIN q.known = {Transfer!Key(storedMonitors[i]) : i \in DOMAIN storedMonitors}
    BY <1>2 DEF KumaRight
  <2> QED
    BY <1>1, <1>3, <2>1
<1>6. ASSUME NEW i \in New(d.before[2], storedMonitors')
      PROVE  /\ ~HasKey(d.before[2], Transfer!Key(storedMonitors'[i]))
             /\ \E j \in Transfer!Fit(d.file) : Transfer!Key(storedMonitors'[i]) = Transfer!Key(d.file.monitors[j])
  <2>1. i \in New(q.before[2], storedMonitors) /\ Transfer!Key(storedMonitors'[i]) = Transfer!Key(storedMonitors[i])
    BY <1>1, <1>4, <1>6 DEF New
  <2> QED
    BY <1>2, <1>3, <2>1 DEF KumaRight
<1>7. ASSUME ~d.overwrite
      PROVE  /\ \A y \in DOMAIN d.known : d.known[y].id \in DOMAIN d.before[2] =>
                  d.known[y].enabled = d.before[2][d.known[y].id].enabled
             /\ \A i \in DOMAIN d.before[2] :
                  \/ storedMonitors'[i] = d.before[2][i]
                  \/ d.sync /\ storedMonitors'[i] = [d.before[2][i] EXCEPT !.enabled = ~@]
  <2>1. /\ \A y \in DOMAIN q.known : q.known[y].id \in DOMAIN q.before[2] =>
                  q.known[y].enabled = q.before[2][q.known[y].id].enabled
        /\ \A i \in DOMAIN q.before[2] :
                  \/ storedMonitors[i] = q.before[2][i]
                  \/ q.sync /\ storedMonitors[i] = [q.before[2][i] EXCEPT !.enabled = ~@]
    BY <1>2, <1>3, <1>7 DEF KumaRight
  <2>2. /\ d.known = q.known
        /\ x \in DOMAIN q.before[2] =>
             row = q.before[2][x] \/ (q.sync /\ row = [q.before[2][x] EXCEPT !.enabled = ~@])
    BY <1>3, <1>7 DEF KumaRewrites
  <2>3. \A i \in DOMAIN q.before[2] : storedMonitors'[i] = storedMonitors[i] \/ (i = x /\ storedMonitors'[i] = row)
    BY <1>1, <1>2 DEF OldKept
  <2>4. \A y \in DOMAIN d.known : d.known[y].id \in DOMAIN d.before[2] =>
                  d.known[y].enabled = d.before[2][d.known[y].id].enabled
    BY <1>3, <2>1, <2>2
  <2>5. ASSUME NEW i \in DOMAIN q.before[2]
        PROVE  \/ storedMonitors'[i] = q.before[2][i]
               \/ q.sync /\ storedMonitors'[i] = [q.before[2][i] EXCEPT !.enabled = ~@]
    <3>1. PICK b, c : b = q.before[2][i] /\ c = [q.before[2][i] EXCEPT !.enabled = ~@]
      OBVIOUS
    <3>2. storedMonitors[i] = b \/ (q.sync /\ storedMonitors[i] = c)
      BY <2>1, <2>5, <3>1
    <3>3. CASE storedMonitors'[i] = storedMonitors[i]
      BY <3>1, <3>2, <3>3
    <3>4. CASE i = x /\ storedMonitors'[i] = row
      <4>1. row = b \/ (q.sync /\ row = c)
        BY <2>2, <2>5, <3>1, <3>4
      <4> QED
        BY <3>1, <3>4, <4>1
    <3> QED
      BY <2>3, <2>5, <3>3, <3>4
  <2>6. d.before[2] = q.before[2] /\ d.sync = q.sync
    BY <1>3
  <2> QED
    BY <2>4, <2>5, <2>6
<1> QED
  BY <1>2, <1>3, <1>5, <1>6, <1>7 DEF KumaRight

LEMMA KumaRewriteRight ==
  ASSUME TransferInv, NEW u \in Uploads, Transfer!KumaRewrite(u)
  PROVE  TransferInv'
<1>1. PICK q, e, kind, o : q = upload[u] /\ e = Len(q.outcomes) + 1 /\ kind = "kuma" /\ o = "update"
  OBVIOUS
<1>2. Transfer!NextEntry(u, "kuma") /\ Transfer!NextEntry(u, kind)
  BY <1>1 DEF Transfer!KumaRewrite
<1>3. /\ q = SameImport(q) /\ q.kind = "kuma" /\ q.clean \in BOOLEAN /\ AtEntry(q, e)
      /\ IsList(q.outcomes) /\ IsList(q.file.monitors) /\ e \in DOMAIN q.file.monitors
      /\ q.file.monitors[e].enabled \in BOOLEAN
      /\ KnownRight(q.known, storedMonitors, storedChannels)
      /\ ImportRight(q, storedMonitors, storedChannels)
      /\ Transfer!Entry(u) = q.file.monitors[e]
  BY <1>1, <1>2, KumaFacts
<1>4. PICK item, key, old, running : /\ item = q.file.monitors[e] /\ key = Transfer!Key(item) /\ old = q.known[key]
                                     /\ running = (old.enabled /\ item.enabled)
  OBVIOUS
<1>5. /\ Transfer!Entry(u) = item /\ Transfer!Old(u) = old /\ item.fit = "ok" /\ key \in DOMAIN q.known /\ q.overwrite
      /\ storedChannels' = storedChannels /\ minted' = minted
  BY <1>1, <1>3, <1>4 DEF Transfer!KumaRewrite, Transfer!Old, Transfer!Found
<1>6. /\ old.id \in DOMAIN storedMonitors /\ old.routes \subseteq DOMAIN storedChannels /\ old.enabled \in BOOLEAN
      /\ Transfer!Key(storedMonitors[old.id]) = key
  BY <1>4, <1>5, <1>3 DEF KnownRight, Knowing
<1>7. running \in BOOLEAN
  BY <1>3, <1>4, <1>6
<1>8. CASE /\ Transfer!Works
           /\ storedMonitors' = [storedMonitors EXCEPT ![old.id] = Transfer!Row(item, @.token, old.routes, running)]
           /\ Transfer!Knows(u, old.id, old.routes, running, "update")
  <2>1. PICK x, told : x = old.id /\ told = old.routes
    OBVIOUS
  <2>2. PICK row : row = Transfer!Row(item, storedMonitors[x].token, told, running)
    OBVIOUS
  <2>3. /\ row = Transfer!Row(row, row.token, row.routes, row.enabled) /\ row.token = storedMonitors[x].token
        /\ row.routes = told /\ row.enabled = running /\ row.text = item.text /\ Transfer!Key(row) = key
    BY <1>4, <2>2 DEF Transfer!Row, Transfer!Key
  <2>4. IsRow(row, minted, storedChannels)
    BY <1>6, <1>7, <2>1, <2>3 DEF IsRow, TransferInv, RowsRight
  <2>5. RowRewritten(x, row)
    BY <1>5, <1>6, <1>8, <2>1, <2>2, <2>3, <2>4 DEF TransferInv, RowRewritten, Transfer!Works
  <2>6. /\ RowsWritten /\ DOMAIN storedMonitors' = DOMAIN storedMonitors
        /\ \A i \in DOMAIN storedMonitors : storedMonitors'[i] = IF i = x THEN row ELSE storedMonitors[i]
        /\ \A i \in DOMAIN storedMonitors : Transfer!Key(storedMonitors'[i]) = Transfer!Key(storedMonitors[i])
    BY <2>5, RewriteRows
  <2>7. PICK z, k, rec : /\ z = Append(q.outcomes, o) /\ rec = [id |-> x, routes |-> told, enabled |-> running]
                         /\ k = Transfer!With(q.known, key, rec)
    OBVIOUS
  <2>8. PICK d, clean : d = [[q EXCEPT !.outcomes = z] EXCEPT !.known = k] /\ clean = q.clean
    OBVIOUS
  <2>9. d = Import(q.kind, q.stage, q.file, q.overwrite, q.sync, q.plan, q.ids, k, z, q.settled, clean, q.before)
    <3>1. q = SameImport(q)
      BY <1>3
    <3>2. [[q EXCEPT !.outcomes = z] EXCEPT !.known = k] =
            Import(q.kind, q.stage, q.file, q.overwrite, q.sync, q.plan, q.ids, k, z, q.settled, q.clean, q.before)
      BY <3>1, ImportKnows
    <3> QED
      BY <2>8, <3>2
  <2>10. RecordedAs(q, d, o, k, clean)
    <3>1. o \in Transfer!Statuses
      BY <1>1 DEF Transfer!Statuses
    <3>2. clean \in BOOLEAN /\ (clean => q.clean) /\ z = Append(q.outcomes, o)
      BY <1>3, <2>7, <2>8
    <3> QED
      BY <2>9, <3>1, <3>2 DEF RecordedAs
  <2>11. Transfer!Goes(u, d)
    <3>1. [Transfer!Recorded(u, "update") EXCEPT
             !.known = Transfer!With(@, Transfer!Key(Transfer!Entry(u)), [id |-> x, routes |-> told, enabled |-> running])] = d
      <4>1. [q EXCEPT !.outcomes = z].known = q.known
        <5>1. [q EXCEPT !.outcomes = z] = Import(q.kind, q.stage, q.file, q.overwrite, q.sync, q.plan, q.ids, q.known, z,
                                                 q.settled, q.clean, q.before)
          BY <1>3, ImportRecords
        <5> QED
          BY <5>1 DEF Import
      <4>2. Transfer!Recorded(u, "update") = [q EXCEPT !.outcomes = z]
        BY <1>1, <2>7 DEF Transfer!Recorded
      <4> QED
        BY <1>4, <1>5, <2>7, <2>8, <4>1, <4>2
    <3> QED
      BY <1>8, <2>1, <3>1 DEF Transfer!Knows
  <2>12. /\ SameGoal(q, d) /\ d.outcomes = Append(q.outcomes, o) /\ d.before = q.before /\ d.clean = q.clean /\ d.known = k
    BY <2>7, <2>8, <2>9 DEF Import, SameGoal
  <2>13. /\ DOMAIN k = DOMAIN q.known /\ k[key] = rec /\ \A y \in DOMAIN q.known : y = key \/ k[y] = q.known[y]
    BY <1>5, <2>7 DEF Transfer!With
  <2>14. KnownRight(k, storedMonitors', storedChannels')
    <3>1. ASSUME NEW y \in DOMAIN q.known, y # key
          PROVE  Knowing(storedMonitors', storedChannels', k[y]) /\ Transfer!Key(storedMonitors'[k[y].id]) = y
      <4>1. Knowing(storedMonitors, storedChannels, k[y]) /\ Transfer!Key(storedMonitors[k[y].id]) = y
        BY <1>3, <2>13, <3>1 DEF KnownRight
      <4> QED
        BY <1>5, <2>6, <4>1 DEF Knowing
    <3>2. Knowing(storedMonitors', storedChannels', rec) /\ Transfer!Key(storedMonitors'[rec.id]) = key
      BY <1>5, <1>6, <1>7, <2>1, <2>6, <2>7 DEF Knowing
    <3> QED
      BY <2>13, <3>1, <3>2 DEF KnownRight
  <2>15. ASSUME q.before # <<>> PROVE EntryRight(q, d, e, storedMonitors', storedChannels)
    <3>1. e \in Transfer!Fit(q.file)
      BY <1>3, <1>4, <1>5 DEF Transfer!Fit
    <3>2. OldKept(q, storedMonitors')
      BY <1>3, <1>4, <1>5, <2>3, <2>5, <2>15, <3>1, RewriteKeeps DEF ImportRight
    <3>3. \A i, j \in New(q.before[2], storedMonitors') :
               i # j => Transfer!Key(storedMonitors'[i]) # Transfer!Key(storedMonitors'[j])
      BY <1>3, <2>5, <2>15, RewriteDistinct
    <3>4. HasKey(storedMonitors', Transfer!Key(q.file.monitors[e]))
      BY <1>4, <1>6, <2>1, <2>6 DEF HasKey
    <3>5. KumaRewrites(q, d, x, row)
      BY <1>5, <2>12, <2>13 DEF KumaRewrites
    <3>6. KumaRight(d, storedMonitors', storedChannels)
      BY <1>3, <2>5, <2>15, <3>5, KumaRightLater
    <3>7. q.kind # "config"
      BY <1>3
    <3> QED
      BY <3>2, <3>3, <3>4, <3>6, <3>7 DEF EntryRight
  <2>16. q.before # <<>> => EntryRight(q, d, e, storedMonitors', storedChannels')
    BY <1>5, <2>15
  <2> QED
    BY <1>1, <1>2, <1>3, <2>6, <2>10, <2>11, <2>14, <2>16, EntryStep
<1>9. CASE Transfer!Breaks /\ UNCHANGED storedMonitors /\ Transfer!Spoilt(u, "failed")
  <2>1. EntryUnwritten
    BY <1>5, <1>9 DEF EntryUnwritten, Transfer!Breaks
  <2> QED
    BY <1>2, <1>9, <2>1, FailsRight
<1> QED
  BY <1>4, <1>5, <1>8, <1>9 DEF Transfer!KumaRewrite

\* A switch of a row, once or more than once.
LEMMA SwitchTwice ==
  ASSUME NEW m, m = Transfer!Row(m, m.token, m.routes, m.enabled), NEW r, NEW v \in BOOLEAN, NEW w \in BOOLEAN,
         r = m \/ r = [m EXCEPT !.enabled = v]
  PROVE  [r EXCEPT !.enabled = w] = [m EXCEPT !.enabled = w]
  BY DEF Transfer!Row

LEMMA KumaSyncRight ==
  ASSUME TransferInv, NEW u \in Uploads, Transfer!KumaSync(u)
  PROVE  TransferInv'
<1>1. PICK q, e, kind, o : q = upload[u] /\ e = Len(q.outcomes) + 1 /\ kind = "kuma" /\ o = "synced"
  OBVIOUS
<1>2. Transfer!NextEntry(u, "kuma") /\ Transfer!NextEntry(u, kind)
  BY <1>1 DEF Transfer!KumaSync
<1>3. /\ q = SameImport(q) /\ q.kind = "kuma" /\ q.clean \in BOOLEAN /\ AtEntry(q, e)
      /\ IsList(q.outcomes) /\ IsList(q.file.monitors) /\ e \in DOMAIN q.file.monitors
      /\ q.file.monitors[e].enabled \in BOOLEAN
      /\ KnownRight(q.known, storedMonitors, storedChannels)
      /\ ImportRight(q, storedMonitors, storedChannels)
      /\ q.before # <<>> => KumaRight(q, storedMonitors, storedChannels)
      /\ Transfer!Entry(u) = q.file.monitors[e]
  BY <1>1, <1>2, KumaFacts
<1>4. PICK item, key, old : /\ item = q.file.monitors[e] /\ key = Transfer!Key(item) /\ old = q.known[key]
  OBVIOUS
<1>5. /\ Transfer!Entry(u) = item /\ Transfer!Old(u) = old /\ key \in DOMAIN q.known /\ ~q.overwrite /\ q.sync
      /\ old.enabled # item.enabled
      /\ storedChannels' = storedChannels /\ minted' = minted
  BY <1>1, <1>3, <1>4 DEF Transfer!KumaSync, Transfer!Old, Transfer!Found, Transfer!Differs
<1>6. /\ old.id \in DOMAIN storedMonitors /\ old.enabled \in BOOLEAN
      /\ Transfer!Key(storedMonitors[old.id]) = key
  BY <1>4, <1>5, <1>3 DEF KnownRight, Knowing
<1>7. PICK w \in BOOLEAN : w = item.enabled
  BY <1>3, <1>4
<1>8. CASE /\ Transfer!Works
           /\ storedMonitors' = [storedMonitors EXCEPT ![old.id].enabled = w]
           /\ Transfer!Records(u, "synced")
  <2>1. PICK x, m : x = old.id /\ m = storedMonitors[x]
    OBVIOUS
  <2>2. PICK row : row = [m EXCEPT !.enabled = w]
    OBVIOUS
  <2>3. IsRow(m, minted, storedChannels)
    BY <1>6, <2>1 DEF TransferInv, RowsRight
  <2>4. m = Transfer!Row(m, m.token, m.routes, m.enabled)
    BY <2>3 DEF IsRow
  <2>5. /\ row = Transfer!Row(row, row.token, row.routes, row.enabled) /\ row.token = m.token
        /\ row.routes = m.routes /\ row.enabled = w /\ Transfer!Key(row) = Transfer!Key(m)
    BY <2>2, <2>4 DEF Transfer!Row, Transfer!Key
  <2>6. IsRow(row, minted, storedChannels)
    BY <2>3, <2>5 DEF IsRow
  <2>7. RowRewritten(x, row)
    BY <1>5, <1>6, <1>8, <2>1, <2>2, <2>5, <2>6 DEF TransferInv, RowRewritten, Transfer!Works
  <2>8. /\ RowsWritten /\ DOMAIN storedMonitors' = DOMAIN storedMonitors
        /\ \A i \in DOMAIN storedMonitors : storedMonitors'[i] = IF i = x THEN row ELSE storedMonitors[i]
        /\ \A i \in DOMAIN storedMonitors : Transfer!Key(storedMonitors'[i]) = Transfer!Key(storedMonitors[i])
        /\ \A i \in DOMAIN storedMonitors : storedMonitors'[i].token = storedMonitors[i].token
    BY <2>7, RewriteRows
  <2>9. PICK d, clean : d = [q EXCEPT !.outcomes = Append(q.outcomes, o)] /\ clean = q.clean
    OBVIOUS
  <2>10. d = Import(q.kind, q.stage, q.file, q.overwrite, q.sync, q.plan, q.ids, q.known, Append(q.outcomes, o),
                    q.settled, clean, q.before)
    BY <1>3, <2>9, ImportRecords
  <2>11. RecordedAs(q, d, o, q.known, clean)
    BY <1>1, <1>3, <2>9, <2>10 DEF RecordedAs, Transfer!Statuses
  <2>12. Transfer!Goes(u, d)
    BY <1>1, <1>8, <2>9 DEF Transfer!Records, Transfer!Recorded
  <2>13. SameGoal(q, d) /\ d.before = q.before /\ d.known = q.known
    BY <2>10 DEF Import, SameGoal
  <2>14. KnownRight(q.known, storedMonitors', storedChannels')
    <3>1. ASSUME NEW y \in DOMAIN q.known
          PROVE  Knowing(storedMonitors', storedChannels', q.known[y]) /\ Transfer!Key(storedMonitors'[q.known[y].id]) = y
      <4>1. Knowing(storedMonitors, storedChannels, q.known[y]) /\ Transfer!Key(storedMonitors[q.known[y].id]) = y
        BY <1>3, <3>1 DEF KnownRight
      <4> QED
        BY <1>5, <2>8, <4>1 DEF Knowing
    <3> QED
      BY <3>1 DEF KnownRight
  <2>15. ASSUME q.before # <<>> PROVE EntryRight(q, d, e, storedMonitors', storedChannels)
    <3>1. KumaRight(q, storedMonitors, storedChannels) /\ OldKept(q, storedMonitors)
      BY <1>3, <2>15 DEF ImportRight
    <3>2. ASSUME x \in DOMAIN q.before[2] PROVE row = [q.before[2][x] EXCEPT !.enabled = ~@]
      <4>1. PICK b : b = q.before[2][x]
        OBVIOUS
      <4>2. b = Transfer!Row(b, b.token, b.routes, b.enabled) /\ b.enabled \in BOOLEAN
        <5>1. PICK top : RowsRight(q.before[2], q.before[1], top)
          BY <1>3, <2>15 DEF ImportRight
        <5> QED
          BY <3>2, <4>1, <5>1 DEF RowsRight, IsRow
      <4>3. PICK v \in BOOLEAN : v = ~b.enabled
        BY <4>2
      <4>4. m = b \/ m = [b EXCEPT !.enabled = v]
        BY <1>5, <2>1, <3>1, <3>2, <4>1, <4>3 DEF KumaRight
      <4>5. old.enabled = b.enabled
        <5>1. key \in DOMAIN q.known /\ q.known[key] = old /\ old.id = x /\ ~q.overwrite
          BY <1>4, <1>5, <2>1
        <5>2. \A y \in DOMAIN q.known : q.known[y].id \in DOMAIN q.before[2] =>
                q.known[y].enabled = q.before[2][q.known[y].id].enabled
          BY <3>1, <5>1 DEF KumaRight
        <5> QED
          BY <3>2, <4>1, <5>1, <5>2
      <4>6. w = v
        BY <1>5, <1>6, <1>7, <4>3, <4>5
      <4>7. [m EXCEPT !.enabled = w] = [b EXCEPT !.enabled = w]
        BY <4>2, <4>4, SwitchTwice
      <4> QED
        BY <2>2, <4>1, <4>3, <4>6, <4>7
    <3>3. OldKept(q, storedMonitors')
      <4>1. ASSUME NEW i \in DOMAIN q.before[2]
            PROVE  /\ i \in DOMAIN storedMonitors /\ storedMonitors[i].token = q.before[2][i].token
                   /\ Transfer!Key(storedMonitors[i]) = Transfer!Key(q.before[2][i])
                   /\ \/ storedMonitors[i] = q.before[2][i]
                      \/ q.sync /\ storedMonitors[i] = [q.before[2][i] EXCEPT !.enabled = ~@]
        BY <1>5, <3>1, <4>1 DEF OldKept, KumaRight
      <4>2. ASSUME NEW i \in DOMAIN q.before[2]
            PROVE  \/ storedMonitors'[i] = q.before[2][i]
                   \/ q.sync /\ storedMonitors'[i] = [q.before[2][i] EXCEPT !.enabled = ~@]
        BY <1>5, <2>8, <3>2, <4>1, <4>2
      <4> QED
        BY <2>8, <4>1, <4>2 DEF OldKept
    <3>4. \A i, j \in New(q.before[2], storedMonitors') :
               i # j => Transfer!Key(storedMonitors'[i]) # Transfer!Key(storedMonitors'[j])
      BY <1>3, <2>7, <2>15, RewriteDistinct
    <3>5. HasKey(storedMonitors', Transfer!Key(q.file.monitors[e]))
      BY <1>4, <1>6, <2>1, <2>8 DEF HasKey
    <3>6. KumaRewrites(q, d, x, row)
      BY <1>5, <2>13, <3>2 DEF KumaRewrites
    <3>7. KumaRight(d, storedMonitors', storedChannels)
      BY <1>3, <2>7, <2>15, <3>6, KumaRightLater
    <3>8. q.kind # "config"
      BY <1>3
    <3> QED
      BY <3>3, <3>4, <3>5, <3>7, <3>8 DEF EntryRight
  <2>16. q.before # <<>> => EntryRight(q, d, e, storedMonitors', storedChannels')
    BY <1>5, <2>15
  <2> QED
    BY <1>1, <1>2, <1>3, <2>8, <2>11, <2>12, <2>14, <2>16, EntryStep
<1>9. CASE Transfer!Breaks /\ UNCHANGED storedMonitors /\ Transfer!Spoilt(u, "failed")
  <2>1. EntryUnwritten
    BY <1>5, <1>9 DEF EntryUnwritten, Transfer!Breaks
  <2> QED
    BY <1>2, <1>9, <2>1, FailsRight
<1> QED
  BY <1>5, <1>7, <1>8, <1>9 DEF Transfer!KumaSync

-----------------------------------------------------------------------------
(* The transfer, put together.                                             *)

LEMMA TransferStays ==
  ASSUME TransferInv, Transfer!Next
  PROVE  TransferInv'
<1>1. PICK u \in Uploads : Transfer!ConfigImport(u) \/ Transfer!KumaImport(u)
  BY DEF Transfer!Next
<1>2. CASE Transfer!StartImport(u)
  BY <1>2, StartImportRight
<1>3. CASE Transfer!PassChannel(u)
  BY <1>3, PassChannelRight
<1>4. CASE Transfer!ReuseChannel(u)
  BY <1>4, ReuseChannelRight
<1>5. CASE Transfer!InsertChannel(u)
  BY <1>5, InsertChannelRight
<1>6. CASE Transfer!EndChannels(u)
  BY <1>6, EndChannelsRight
<1>7. CASE Transfer!PassEntry(u)
  BY <1>7, PassEntryRight
<1>8. CASE Transfer!RewriteMonitor(u)
  BY <1>8, RewriteMonitorRight
<1>9. CASE Transfer!InsertMonitor(u)
  BY <1>9, InsertMonitorRight
<1>10. CASE Transfer!EndMonitors(u)
  BY <1>10, EndMonitorsRight
<1>11. CASE Transfer!ApplySettings(u)
  BY <1>11, ApplySettingsRight
<1>12. CASE Transfer!StartKuma(u)
  BY <1>12, StartKumaRight
<1>13. CASE Transfer!KumaPass(u)
  BY <1>13, KumaPassRight
<1>14. CASE Transfer!KumaCreate(u)
  BY <1>14, KumaCreateRight
<1>15. CASE Transfer!KumaRewrite(u)
  BY <1>15, KumaRewriteRight
<1>16. CASE Transfer!KumaSync(u)
  BY <1>16, KumaSyncRight
<1> QED
  BY <1>1, <1>2, <1>3, <1>4, <1>5, <1>6, <1>7, <1>8, <1>9, <1>10, <1>11, <1>12, <1>13, <1>14, <1>15, <1>16
     DEF Transfer!ConfigImport, Transfer!KumaImport

LEMMA TransferRests ==
  ASSUME TransferInv, UNCHANGED transferVars
  PROVE  TransferInv'
<1>1. /\ storedChannels' = storedChannels /\ storedMonitors' = storedMonitors /\ minted' = minted
      /\ upload' = upload /\ mishap' = mishap /\ counting' = counting
  BY DEF transferVars
<1> QED
  BY <1>1 DEF TransferInv

LEMMA TransferStarts ==
  ASSUME Init
  PROVE  TransferInv
<1>1. Transfer!Init
  BY DEF Init
<1>2. PICK h \in HomeStates : storedChannels = h.channels /\ storedMonitors = h.monitors
  BY <1>1 DEF Transfer!Init
<1>3. RowsRight(storedMonitors, storedChannels, minted) /\ mishap \in BOOLEAN
  <2>1. minted = 10 /\ mishap = FALSE
    BY <1>1 DEF Transfer!Init
  <2>2. /\ IsList(storedChannels) /\ IsList(storedMonitors)
        /\ \A i \in DOMAIN storedMonitors : IsRow(storedMonitors[i], minted, storedChannels)
    BY <1>2, <2>1, HomeParts
  <2>3. minted \in Nat /\ 10 <= minted
    BY <2>1
  <2>4. RowsRight(storedMonitors, storedChannels, minted)
    BY <2>2, <2>3 DEF RowsRight
  <2>5. mishap \in BOOLEAN
    BY <2>1
  <2> QED
    BY <2>4, <2>5
<1>4. ASSUME NEW u \in Uploads
      PROVE  /\ ImportTyped(upload[u], storedMonitors, storedChannels)
             /\ ImportRight(upload[u], storedMonitors, storedChannels)
  <2>1. PICK q : q = upload[u] /\ q = Transfer!Unused
    BY <1>1 DEF Transfer!Init
  <2>2. PICK i, n, x, y, g, r, z, k, s, t : /\ i = [c \in {} |-> 0] /\ n = [c \in {} |-> 0] /\ x = FALSE /\ y = TRUE
                                            /\ g = Transfer!NoFile /\ r = Transfer!NoPlan /\ z = <<>>
                                            /\ k = "none" /\ s = "new" /\ t = 0
    OBVIOUS
  <2>3. q = Import(k, s, g, x, x, r, i, n, z, t, y, z)
    BY <2>1, <2>2 DEF Import, Transfer!Unused
  <2>4. /\ q = SameImport(q) /\ q.kind = k /\ q.stage = s /\ q.file = g /\ q.overwrite = x /\ q.sync = x
        /\ q.outcomes = z /\ q.ids = i /\ q.clean = y /\ q.before = z
    BY <2>3, ImportParts
  <2>5. IsList(z) /\ DOMAIN z = {}
    BY <2>2 DEF IsList
  <2>6. IsFile(q.file)
    <3>1. q.file.channels = z /\ q.file.monitors = z
      BY <2>2, <2>4 DEF Transfer!NoFile
    <3> QED
      BY <2>5, <3>1 DEF IsFile
  <2>7. /\ x \in BOOLEAN /\ y \in BOOLEAN /\ DOMAIN i = {} /\ k = "none" /\ s = "new" /\ z = <<>>
    BY <2>2
  <2>8. ImportTyped(q, storedMonitors, storedChannels)
    BY <2>4, <2>5, <2>6, <2>7 DEF ImportTyped
  <2>9. ImportRight(q, storedMonitors, storedChannels)
    BY <2>4, <2>7 DEF ImportRight
  <2> QED
    BY <2>1, <2>8, <2>9
<1>5. upload = [u \in Uploads |-> upload[u]]
  BY <1>1 DEF Transfer!Init
<1> QED
  BY <1>3, <1>4, <1>5 DEF TransferInv

-----------------------------------------------------------------------------
(* The rows that a configuration pauses, and their counts.                 *)

\* Transfer!PausedCountAnew, of any rows that count.
CountsAnew(q, rows) ==
  q.kind = "config" /\ q.clean =>
    \A e \in DOMAIN q.outcomes :
      q.outcomes[e] = "update" /\ ~q.file.monitors[e].enabled => q.plan.monitors[e].existing \notin rows
CountsRight ==
  /\ counting \subseteq DOMAIN storedMonitors
  /\ \A u \in Uploads : CountsAnew(upload[u], counting)

\* An import of which only the work on other things goes on.
SameRecord(q, d) ==
  /\ d = SameImport(d) /\ d.kind = q.kind /\ d.file = q.file /\ d.plan = q.plan /\ d.outcomes = q.outcomes
  /\ d.clean => q.clean

LEMMA SameRecords ==
  ASSUME NEW q, q = SameImport(q), NEW x
  PROVE  /\ SameRecord(q, [q EXCEPT !.stage = x]) /\ SameRecord(q, [q EXCEPT !.settled = @ + 1])
         /\ SameRecord(q, [q EXCEPT !.ids = x]) /\ SameRecord(q, [q EXCEPT !.known = x])
         /\ SameRecord(q, [q EXCEPT !.before = <<>>])
         /\ SameRecord(q, [q EXCEPT !.clean = FALSE]) /\ ~[q EXCEPT !.clean = FALSE].clean
<1>1. SameRecord(q, [q EXCEPT !.stage = x])
  BY ImportMoves, ImportParts DEF SameRecord
<1>2. SameRecord(q, [q EXCEPT !.settled = @ + 1])
  BY ImportPasses, ImportParts DEF SameRecord
<1>3. SameRecord(q, [q EXCEPT !.ids = x])
  BY ImportFinds, ImportParts DEF SameRecord
<1>4. SameRecord(q, [q EXCEPT !.known = x])
  BY ImportLearns, ImportParts DEF SameRecord
<1>5. SameRecord(q, [q EXCEPT !.before = <<>>])
  BY ImportForgets, ImportParts DEF SameRecord
<1>6. SameRecord(q, [q EXCEPT !.clean = FALSE]) /\ ~[q EXCEPT !.clean = FALSE].clean
  <2>1. PICK d, clean : d = [q EXCEPT !.clean = FALSE] /\ clean = FALSE
    OBVIOUS
  <2>2. d = Import(q.kind, q.stage, q.file, q.overwrite, q.sync, q.plan, q.ids, q.known, q.outcomes, q.settled,
                   clean, q.before)
    BY <2>1, ImportSpoils, Zenon
  <2>3. /\ d = SameImport(d) /\ d.kind = q.kind /\ d.file = q.file /\ d.plan = q.plan /\ d.outcomes = q.outcomes
        /\ d.clean = clean
    BY <2>2, ImportParts
  <2> QED
    BY <2>1, <2>3 DEF SameRecord
<1> QED
  BY <1>1, <1>2, <1>3, <1>4, <1>5, <1>6

LEMMA SameRecordsChain ==
  ASSUME NEW q, NEW p, NEW d, SameRecord(q, p), SameRecord(p, d)
  PROVE  SameRecord(q, d)
  BY DEF SameRecord

LEMMA SameCounts ==
  ASSUME NEW q, NEW d, NEW rows, NEW rows2, SameRecord(q, d), CountsAnew(q, rows), rows2 \subseteq rows
  PROVE  CountsAnew(d, rows2)
  BY DEF SameRecord, CountsAnew

\* One outcome more.
LEMMA RecordedCounts ==
  ASSUME NEW u \in Uploads, NEW o, NEW rows, NEW rows2, upload[u] = SameImport(upload[u]),
         IsList(upload[u].outcomes), CountsAnew(upload[u], rows), rows2 \subseteq rows,
         upload[u].kind = "config" /\ o = "update" /\ ~Transfer!Entry(u).enabled =>
           Transfer!Planned(u).existing \notin rows2
  PROVE  CountsAnew(Transfer!Recorded(u, o), rows2) /\ Transfer!Recorded(u, o) = SameImport(Transfer!Recorded(u, o))
<1>1. PICK q, e, more : q = upload[u] /\ e = Len(q.outcomes) + 1 /\ more = Append(q.outcomes, o)
  OBVIOUS
<1>2. PICK d : d = [q EXCEPT !.outcomes = more]
  OBVIOUS
<1>3. d = Transfer!Recorded(u, o)
  BY <1>1, <1>2 DEF Transfer!Recorded
<1>4. /\ d = SameImport(d) /\ d.kind = q.kind /\ d.file = q.file /\ d.plan = q.plan /\ d.clean = q.clean
      /\ d.outcomes = more
  <2>1. d = Import(q.kind, q.stage, q.file, q.overwrite, q.sync, q.plan, q.ids, q.known, more,
                   q.settled, q.clean, q.before)
    BY <1>1, <1>2, ImportRecords
  <2> QED
    BY <2>1, ImportParts
<1>5. /\ \A i \in DOMAIN q.outcomes : more[i] = q.outcomes[i]
      /\ more[e] = o /\ \A i \in DOMAIN more : i \in DOMAIN q.outcomes \/ i = e
  BY <1>1, ListAppend
<1>6. q.kind = "config" /\ o = "update" /\ ~q.file.monitors[e].enabled => q.plan.monitors[e].existing \notin rows2
  BY <1>1 DEF Transfer!Entry, Transfer!Planned
<1>7. CountsAnew(d, rows2)
  BY <1>1, <1>4, <1>5, <1>6 DEF CountsAnew
<1> QED
  BY <1>3, <1>4, <1>7

\* A step of one import keeps the counts right if it leaves its own right.
LEMMA CountsGo ==
  ASSUME TransferInv, CountsRight, NEW u \in Uploads, NEW d, Transfer!Goes(u, d), counting' \subseteq counting,
         DOMAIN storedMonitors \subseteq DOMAIN storedMonitors', CountsAnew(d, counting')
  PROVE  CountsRight'
<1>1. ASSUME NEW v \in Uploads PROVE CountsAnew(upload'[v], counting')
  <2>1. PICK q : q = upload[v]
    OBVIOUS
  <2>2. PICK f : f = [q EXCEPT !.before = <<>>]
    OBVIOUS
  <2>3. upload'[v] \in {d, q, f} /\ (upload'[v] = d \/ v # u)
    BY <2>1, <2>2 DEF Transfer!Goes
  <2>4. q = SameImport(q) /\ CountsAnew(q, counting)
    BY <2>1 DEF TransferInv, ImportTyped, CountsRight
  <2>5. SameRecord(q, f)
    BY <2>2, <2>4, SameRecords
  <2>6. CountsAnew(f, counting') /\ CountsAnew(q, counting')
    BY <2>4, <2>5, SameCounts DEF SameRecord, CountsAnew
  <2> QED
    BY <2>3, <2>6
<1> QED
  BY <1>1 DEF CountsRight

LEMMA CountsKept ==
  ASSUME TransferInv, CountsRight, NEW u \in Uploads, NEW d, Transfer!Goes(u, d), counting' = counting,
         DOMAIN storedMonitors \subseteq DOMAIN storedMonitors',
         SameRecord(upload[u], d) \/ d.kind # "config" \/ ~d.clean \/ d.outcomes = <<>>
  PROVE  CountsRight'
<1>1. CountsAnew(upload[u], counting)
  BY DEF CountsRight
<1>2. CASE SameRecord(upload[u], d)
  BY <1>1, <1>2, CountsGo, SameCounts
<1>3. CASE d.kind # "config" \/ ~d.clean \/ d.outcomes = <<>>
  <2>1. CountsAnew(d, counting')
    BY <1>3 DEF CountsAnew
  <2> QED
    BY <2>1, CountsGo
<1> QED
  BY <1>2, <1>3

LEMMA EntryCounts ==
  ASSUME TransferInv, CountsRight, NEW u \in Uploads, NEW o, NEW d, Transfer!Goes(u, d),
         d = Transfer!Recorded(u, o) \/ SameRecord(Transfer!Recorded(u, o), d), counting' \subseteq counting,
         DOMAIN storedMonitors \subseteq DOMAIN storedMonitors',
         upload[u].kind = "config" /\ o = "update" /\ ~Transfer!Entry(u).enabled =>
           Transfer!Planned(u).existing \notin counting'
  PROVE  CountsRight'
<1>1. upload[u] = SameImport(upload[u]) /\ IsList(upload[u].outcomes) /\ CountsAnew(upload[u], counting)
  BY DEF TransferInv, ImportTyped, CountsRight
<1>2. CountsAnew(Transfer!Recorded(u, o), counting')
  BY <1>1, RecordedCounts
<1>3. CountsAnew(d, counting')
  BY <1>2, SameCounts
<1> QED
  BY <1>3, CountsGo

LEMMA SpoiltCounts ==
  ASSUME TransferInv, CountsRight, NEW u \in Uploads, NEW o, Transfer!Spoilt(u, o), counting' = counting,
         DOMAIN storedMonitors \subseteq DOMAIN storedMonitors'
  PROVE  CountsRight'
<1>1. PICK p, d : p = Transfer!Recorded(u, o) /\ d = [p EXCEPT !.clean = FALSE]
  OBVIOUS
<1>2. Transfer!Goes(u, d)
  BY <1>1 DEF Transfer!Spoilt
<1>3. p = SameImport(p)
  <2>1. upload[u] = SameImport(upload[u]) /\ IsList(upload[u].outcomes) /\ CountsAnew(upload[u], counting)
    BY DEF TransferInv, ImportTyped, CountsRight
  <2>2. PICK none : none = {}
    OBVIOUS
  <2>3. CountsAnew(upload[u], counting) /\ none \subseteq counting /\ Transfer!Planned(u).existing \notin none
    BY <2>1, <2>2
  <2> QED
    BY <1>1, <2>1, <2>3, RecordedCounts
<1>4. ~d.clean
  BY <1>1, <1>3, SameRecords
<1> QED
  BY <1>2, <1>4, CountsKept

\* The starts of imports.
LEMMA StartCounts ==
  ASSUME TransferInv, CountsRight, NEW u \in Uploads, Transfer!StartImport(u) \/ Transfer!StartKuma(u)
  PROVE  CountsRight'
<1>1. counting' = counting /\ storedMonitors' = storedMonitors
  BY DEF Transfer!StartImport, Transfer!StartKuma, Transfer!stored
<1>2. ASSUME Transfer!StartImport(u) PROVE \E d : Transfer!Goes(u, d) /\ d.outcomes = <<>>
  <2>1. PICK f, w : Transfer!Goes(u, [Transfer!Unused EXCEPT !.kind = "config", !.stage = "channels", !.file = f,
                      !.overwrite = w, !.plan = Transfer!PlanImport(f, w), !.before = Transfer!stored])
    BY <1>2 DEF Transfer!StartImport
  <2>2. PICK k, s, p, b : k = "config" /\ s = "channels" /\ p = Transfer!PlanImport(f, w) /\ b = Transfer!stored
    OBVIOUS
  <2>3. Transfer!Goes(u, ConfigStarted(k, s, f, w, p, b))
    BY <2>1, <2>2 DEF ConfigStarted
  <2>4. ConfigStarted(k, s, f, w, p, b).outcomes = Transfer!Unused.outcomes
    BY StartConfig, ImportParts
  <2> QED
    BY <2>3, <2>4, UnusedParts
<1>3. ASSUME Transfer!StartKuma(u) PROVE \E d : Transfer!Goes(u, d) /\ d.outcomes = <<>>
  <2>1. PICK m : m = [k \in {Transfer!Key(storedMonitors[i]) : i \in DOMAIN storedMonitors} |->
                       LET i == Transfer!Oldest({j \in DOMAIN storedMonitors : Transfer!Key(storedMonitors[j]) = k})
                       IN [id |-> i, routes |-> storedMonitors[i].routes, enabled |-> storedMonitors[i].enabled]]
    OBVIOUS
  <2>2. PICK list, w, v : Transfer!Goes(u, [Transfer!Unused EXCEPT !.kind = "kuma", !.stage = "monitors",
                            !.file = [Transfer!NoFile EXCEPT !.monitors = list],
                            !.overwrite = w, !.sync = v, !.before = Transfer!stored, !.known = m])
    BY <1>3, <2>1 DEF Transfer!StartKuma
  <2>3. PICK k, s, f, b : /\ k = "kuma" /\ s = "monitors" /\ f = [Transfer!NoFile EXCEPT !.monitors = list]
                          /\ b = Transfer!stored
    OBVIOUS
  <2>4. Transfer!Goes(u, KumaStarted(k, s, f, w, v, b, m))
    BY <2>2, <2>3 DEF KumaStarted
  <2>5. KumaStarted(k, s, f, w, v, b, m).outcomes = Transfer!Unused.outcomes
    BY StartOfKuma, ImportParts
  <2> QED
    BY <2>4, <2>5, UnusedParts
<1> QED
  BY <1>1, <1>2, <1>3, CountsKept

\* The channels, the settings and the moves from stage to stage.
LEMMA SettledCounts ==
  ASSUME TransferInv, CountsRight, NEW u \in Uploads, counting' = counting, storedMonitors' = storedMonitors,
         NEW p, p = Transfer!Passed(u), NEW x,
         \/ Transfer!Goes(u, p) \/ Transfer!Goes(u, [p EXCEPT !.ids = x]) \/ Transfer!Goes(u, [p EXCEPT !.stage = x])
         \/ Transfer!Goes(u, [p EXCEPT !.clean = FALSE])
         \/ Transfer!Goes(u, [[p EXCEPT !.stage = x] EXCEPT !.clean = FALSE])
         \/ Transfer!Goes(u, [upload[u] EXCEPT !.stage = x])
  PROVE  CountsRight'
<1>1. PICK q, i, s, c, t, g : /\ q = upload[u] /\ i = [p EXCEPT !.ids = x] /\ s = [p EXCEPT !.stage = x]
                              /\ c = [p EXCEPT !.clean = FALSE] /\ t = [s EXCEPT !.clean = FALSE]
                              /\ g = [q EXCEPT !.stage = x]
  OBVIOUS
<1>2. q = SameImport(q)
  BY <1>1 DEF TransferInv, ImportTyped
<1>3. SameRecord(q, p) /\ SameRecord(q, g)
  BY <1>1, <1>2, SameRecords DEF Transfer!Passed
<1>4. p = SameImport(p)
  BY <1>3 DEF SameRecord
<1>5. SameRecord(p, i) /\ SameRecord(p, s) /\ SameRecord(p, c)
  BY <1>1, <1>4, SameRecords
<1>6. SameRecord(s, t)
  <2>1. s = SameImport(s)
    BY <1>5 DEF SameRecord
  <2> QED
    BY <1>1, <2>1, SameRecords
<1>7. \A d \in {p, i, s, c, t, g} : SameRecord(q, d)
  BY <1>3, <1>5, <1>6, SameRecordsChain
<1>8. \E d \in {p, i, s, c, t, g} : Transfer!Goes(u, d)
  BY <1>1
<1>9. PICK d : Transfer!Goes(u, d) /\ SameRecord(q, d)
  BY <1>7, <1>8
<1> QED
  BY <1>1, <1>9, CountsKept

LEMMA ChannelCounts ==
  ASSUME TransferInv, CountsRight, NEW u \in Uploads,
         \/ Transfer!PassChannel(u) \/ Transfer!ReuseChannel(u) \/ Transfer!InsertChannel(u)
         \/ Transfer!EndChannels(u) \/ Transfer!EndMonitors(u) \/ Transfer!ApplySettings(u)
  PROVE  CountsRight'
<1>1. PICK p, q : p = Transfer!Passed(u) /\ q = upload[u]
  OBVIOUS
<1>2. CASE Transfer!PassChannel(u)
  <2>1. Transfer!Goes(u, p) /\ counting' = counting /\ storedMonitors' = storedMonitors
    BY <1>1, <1>2 DEF Transfer!PassChannel, Transfer!stored
  <2> QED
    BY <1>1, <2>1, SettledCounts
<1>3. CASE Transfer!ReuseChannel(u)
  <2>1. PICK x : x = Transfer!With(p.ids, Transfer!Channel(u).name,
                       Transfer!Oldest(Transfer!Named(storedChannels, Transfer!Channel(u).name)))
    OBVIOUS
  <2>2. Transfer!Goes(u, [p EXCEPT !.ids = x]) /\ counting' = counting /\ storedMonitors' = storedMonitors
    BY <1>1, <1>3, <2>1 DEF Transfer!ReuseChannel, Transfer!Settled, Transfer!stored
  <2> QED
    BY <1>1, <2>2, SettledCounts
<1>4. CASE Transfer!InsertChannel(u)
  <2>1. PICK x : x = Transfer!With(p.ids, Transfer!Channel(u).name, Len(storedChannels) + 1)
    OBVIOUS
  <2>2. /\ Transfer!Goes(u, [p EXCEPT !.ids = x]) \/ Transfer!Goes(u, [p EXCEPT !.clean = FALSE])
        /\ counting' = counting /\ storedMonitors' = storedMonitors
    BY <1>1, <1>4, <2>1 DEF Transfer!InsertChannel, Transfer!Settled
  <2> QED
    BY <1>1, <2>2, SettledCounts
<1>5. CASE Transfer!EndChannels(u) \/ Transfer!EndMonitors(u)
  <2>1. PICK x : /\ Transfer!Goes(u, [upload[u] EXCEPT !.stage = x])
                 /\ counting' = counting /\ storedMonitors' = storedMonitors
    BY <1>5 DEF Transfer!EndChannels, Transfer!EndMonitors, Transfer!Moves, Transfer!stored
  <2> QED
    BY <1>1, <2>1, SettledCounts
<1>6. CASE Transfer!ApplySettings(u)
  <2>1. PICK x : x = IF q.settled - Len(q.file.channels) + 1 = Len(Transfer!SettingItems) THEN "done" ELSE p.stage
    OBVIOUS
  <2>2. /\ \/ Transfer!Goes(u, [p EXCEPT !.stage = x])
           \/ Transfer!Goes(u, [[p EXCEPT !.stage = x] EXCEPT !.clean = FALSE])
        /\ counting' = counting /\ storedMonitors' = storedMonitors
    BY <1>1, <1>6, <2>1 DEF Transfer!ApplySettings
  <2> QED
    BY <1>1, <2>2, SettledCounts
<1> QED
  BY <1>2, <1>3, <1>4, <1>5, <1>6

\* The entries of a configuration.
LEMMA ConfigCounts ==
  ASSUME TransferInv, CountsRight, NEW u \in Uploads,
         Transfer!PassEntry(u) \/ Transfer!RewriteMonitor(u) \/ Transfer!InsertMonitor(u)
  PROVE  CountsRight'
<1>1. CASE Transfer!PassEntry(u)
  <2>1. PICK o : /\ Transfer!Goes(u, Transfer!Recorded(u, o)) /\ o # "update"
                 /\ counting' = counting /\ storedMonitors' = storedMonitors
    BY <1>1 DEF Transfer!PassEntry, Transfer!Records, Transfer!stored
  <2> QED
    BY <2>1, EntryCounts
<1>2. CASE Transfer!RewriteMonitor(u)
  <2>1. DOMAIN storedMonitors' = DOMAIN storedMonitors
    BY <1>2 DEF Transfer!RewriteMonitor, Transfer!Rewritten
  <2>2. CASE Transfer!Spoilt(u, "update") /\ counting' = counting
    BY <2>1, <2>2, SpoiltCounts
  <2>3. CASE Transfer!Spoilt(u, "failed") /\ counting' = counting
    BY <2>1, <2>3, SpoiltCounts
  <2>4. CASE /\ counting' = IF Transfer!Entry(u).enabled THEN counting ELSE counting \ {Transfer!Planned(u).existing}
             /\ Transfer!Records(u, "update")
    <3>1. PICK o : o = "update" /\ Transfer!Goes(u, Transfer!Recorded(u, o))
      BY <2>4 DEF Transfer!Records
    <3>2. counting' \subseteq counting /\ (~Transfer!Entry(u).enabled => Transfer!Planned(u).existing \notin counting')
      BY <2>4
    <3> QED
      BY <2>1, <3>1, <3>2, EntryCounts
  <2> QED
    BY <1>2, <2>2, <2>3, <2>4 DEF Transfer!RewriteMonitor
<1>3. CASE Transfer!InsertMonitor(u)
  <2>1. counting' = counting
    BY <1>3 DEF Transfer!InsertMonitor
  <2>2. \/ storedMonitors' = storedMonitors
        \/ \E row : storedMonitors' = Append(storedMonitors, row)
    BY <1>3 DEF Transfer!InsertMonitor
  <2>3. DOMAIN storedMonitors \subseteq DOMAIN storedMonitors'
    BY <2>2, ListAppend DEF TransferInv, RowsRight
  <2>4. Transfer!Records(u, "create") \/ Transfer!Spoilt(u, "failed")
    BY <1>3 DEF Transfer!InsertMonitor
  <2>5. CASE Transfer!Records(u, "create")
    BY <2>1, <2>3, <2>5, EntryCounts DEF Transfer!Records
  <2> QED
    BY <2>1, <2>3, <2>4, <2>5, SpoiltCounts
<1> QED
  BY <1>1, <1>2, <1>3

\* The entries of an Uptime Kuma.
LEMMA KumaCounts ==
  ASSUME TransferInv, CountsRight, NEW u \in Uploads,
         \/ Transfer!KumaPass(u) \/ Transfer!KumaCreate(u) \/ Transfer!KumaRewrite(u) \/ Transfer!KumaSync(u)
  PROVE  CountsRight'
<1>1. upload[u].kind = "kuma" /\ counting' = counting
  BY DEF Transfer!KumaPass, Transfer!KumaCreate, Transfer!KumaRewrite, Transfer!KumaSync, Transfer!NextEntry
<1>2. DOMAIN storedMonitors \subseteq DOMAIN storedMonitors'
  <2>1. \/ storedMonitors' = storedMonitors
        \/ \E row : storedMonitors' = Append(storedMonitors, row)
        \/ \E i, row : storedMonitors' = [storedMonitors EXCEPT ![i] = row]
    <3>1. Transfer!KumaPass(u) => storedMonitors' = storedMonitors
      BY DEF Transfer!KumaPass, Transfer!stored
    <3>2. Transfer!KumaCreate(u) =>
            storedMonitors' = storedMonitors \/ \E row : storedMonitors' = Append(storedMonitors, row)
      BY DEF Transfer!KumaCreate
    <3>3. Transfer!KumaRewrite(u) =>
            storedMonitors' = storedMonitors \/ \E i, row : storedMonitors' = [storedMonitors EXCEPT ![i] = row]
      BY DEF Transfer!KumaRewrite
    <3>4. Transfer!KumaSync(u) =>
            storedMonitors' = storedMonitors \/ \E i, row : storedMonitors' = [storedMonitors EXCEPT ![i] = row]
      BY DEF Transfer!KumaSync
    <3> QED
      BY <3>1, <3>2, <3>3, <3>4
  <2> QED
    BY <2>1, ListAppend DEF TransferInv, RowsRight
<1>3. \/ Transfer!Spoilt(u, "failed")
      \/ \E o : Transfer!Records(u, o)
      \/ \E o, id, to, on_ : Transfer!Knows(u, id, to, on_, o)
  BY DEF Transfer!KumaPass, Transfer!KumaCreate, Transfer!KumaRewrite, Transfer!KumaSync
<1>4. CASE Transfer!Spoilt(u, "failed")
  BY <1>1, <1>2, <1>4, SpoiltCounts
<1>5. ASSUME NEW o, Transfer!Records(u, o) PROVE CountsRight'
  BY <1>1, <1>2, <1>5, EntryCounts DEF Transfer!Records
<1>6. ASSUME NEW o, NEW id, NEW to, NEW on_, Transfer!Knows(u, id, to, on_, o) PROVE CountsRight'
  <2>1. PICK p : p = Transfer!Recorded(u, o)
    OBVIOUS
  <2>2. PICK x, d : /\ x = Transfer!With(p.known, Transfer!Key(Transfer!Entry(u)), [id |-> id, routes |-> to, enabled |-> on_])
                    /\ d = [p EXCEPT !.known = x]
    OBVIOUS
  <2>3. Transfer!Goes(u, d)
    BY <1>6, <2>1, <2>2 DEF Transfer!Knows
  <2>4. upload[u] = SameImport(upload[u]) /\ IsList(upload[u].outcomes) /\ CountsAnew(upload[u], counting)
    BY DEF TransferInv, ImportTyped, CountsRight
  <2>5. p = SameImport(p)
    BY <1>1, <2>1, <2>4, RecordedCounts
  <2>6. SameRecord(p, d)
    BY <2>2, <2>5, SameRecords
  <2> QED
    BY <1>1, <1>2, <2>1, <2>3, <2>6, EntryCounts
<1> QED
  BY <1>3, <1>4, <1>5, <1>6

LEMMA CountsStay ==
  ASSUME TransferInv, CountsRight, [Transfer!Next]_transferVars
  PROVE  CountsRight'
<1>1. CASE UNCHANGED transferVars
  <2>1. storedMonitors' = storedMonitors /\ upload' = upload /\ counting' = counting
    BY <1>1 DEF transferVars
  <2> QED
    BY <2>1 DEF CountsRight
<1>2. CASE Transfer!Next
  BY <1>2, StartCounts, ChannelCounts, ConfigCounts, KumaCounts
     DEF Transfer!Next, Transfer!ConfigImport, Transfer!KumaImport
<1> QED
  BY <1>1, <1>2

LEMMA CountsStart ==
  ASSUME Init
  PROVE  CountsRight
<1>1. Transfer!Init
  BY DEF Init
<1>2. counting = DOMAIN storedMonitors /\ \A u \in Uploads : upload[u] = Transfer!Unused
  BY <1>1 DEF Transfer!Init
<1>3. Transfer!Unused.outcomes = <<>>
  BY UnusedParts
<1> QED
  BY <1>2, <1>3 DEF CountsRight, CountsAnew

LEMMA TransferIsTyped ==
  ASSUME TransferInv, CountsRight
  PROVE  Transfer!TypeOK
<1>1. \A i \in DOMAIN storedMonitors : /\ storedMonitors[i].routes \subseteq DOMAIN storedChannels
                                       /\ storedMonitors[i].token \in 0..minted
                                       /\ storedMonitors[i].enabled \in BOOLEAN
  BY DEF TransferInv, RowsRight, IsRow
<1>2. ASSUME NEW u \in Uploads
      PROVE  /\ upload[u].stage \in {"new", "channels", "monitors", "settings", "done"}
             /\ Transfer!Range(upload[u].outcomes) \subseteq Transfer!Statuses
             /\ \A n \in DOMAIN upload[u].ids : /\ upload[u].ids[n] \in DOMAIN storedChannels
                                                /\ storedChannels[upload[u].ids[n]].name = n
  <2>1. ImportTyped(upload[u], storedMonitors, storedChannels)
    BY DEF TransferInv
  <2> QED
    BY <2>1 DEF ImportTyped, StageRight, Transfer!Range
<1> QED
  BY <1>1, <1>2 DEF Transfer!TypeOK, TransferInv, CountsRight

-----------------------------------------------------------------------------
(* What an undisturbed import has done when it is done.                    *)

\* An import that is done, with what is true of it.
Finished(q) ==
  /\ q.stage = "done" /\ q.before # <<>> /\ q.kind \in {"config", "kuma"}
  /\ ImportTyped(q, storedMonitors, storedChannels) /\ ImportRight(q, storedMonitors, storedChannels)
  /\ IsList(storedMonitors) /\ IsList(storedChannels)

LEMMA FinishedParts ==
  ASSUME NEW q, Finished(q)
  PROVE  /\ Handled(q) = DOMAIN q.file.monitors
         /\ DOMAIN q.outcomes = DOMAIN q.file.monitors
         /\ Len(q.before[2]) + 1 .. Len(storedMonitors) = New(q.before[2], storedMonitors)
         /\ Len(q.before[1]) + 1 .. Len(storedChannels) = New(q.before[1], storedChannels)
         /\ q.kind = "config" => Tried(q) = DOMAIN q.file.channels
         /\ Transfer!Fit(q.file) \subseteq DOMAIN q.file.monitors
         /\ OldKept(q, storedMonitors)
<1>1. /\ ImportTyped(q, storedMonitors, storedChannels) /\ ImportRight(q, storedMonitors, storedChannels)
      /\ IsList(storedMonitors) /\ IsList(storedChannels) /\ q.stage = "done" /\ q.before # <<>>
      /\ q.kind \in {"config", "kuma"}
  BY DEF Finished
<1>2. /\ IsList(q.outcomes) /\ IsList(q.file.monitors) /\ IsList(q.file.channels) /\ StageRight(q)
  BY <1>1 DEF ImportTyped, IsFile
<1>3. /\ IsList(q.before[2]) /\ IsList(q.before[1])
      /\ Len(q.before[2]) <= Len(storedMonitors) /\ Len(q.before[1]) <= Len(storedChannels)
      /\ OldKept(q, storedMonitors)
  BY <1>1 DEF ImportRight, RowsRight
<1>4. /\ Len(q.outcomes) = Len(q.file.monitors) /\ q.settled \in Nat
      /\ q.kind = "config" => q.settled >= Len(q.file.channels)
  BY <1>1, <1>2 DEF StageRight
<1>5. /\ Len(q.outcomes) \in Nat /\ DOMAIN q.outcomes = 1..Len(q.outcomes)
      /\ Len(q.file.monitors) \in Nat /\ DOMAIN q.file.monitors = 1..Len(q.file.monitors)
      /\ Len(q.file.channels) \in Nat /\ DOMAIN q.file.channels = 1..Len(q.file.channels)
      /\ Len(q.before[1]) \in Nat /\ DOMAIN q.before[1] = 1..Len(q.before[1])
      /\ Len(q.before[2]) \in Nat /\ DOMAIN q.before[2] = 1..Len(q.before[2])
      /\ Len(storedMonitors) \in Nat /\ DOMAIN storedMonitors = 1..Len(storedMonitors)
      /\ Len(storedChannels) \in Nat /\ DOMAIN storedChannels = 1..Len(storedChannels)
  BY <1>1, <1>2, <1>3, ListParts
<1>6. Handled(q) = DOMAIN q.file.monitors /\ DOMAIN q.outcomes = DOMAIN q.file.monitors
  BY <1>4, <1>5 DEF Handled
<1>7. /\ Len(q.before[2]) + 1 .. Len(storedMonitors) = New(q.before[2], storedMonitors)
      /\ Len(q.before[1]) + 1 .. Len(storedChannels) = New(q.before[1], storedChannels)
  BY <1>3, <1>5 DEF New
<1>8. q.kind = "config" => Tried(q) = DOMAIN q.file.channels
  BY <1>4, <1>5 DEF Tried
<1> QED
  BY <1>3, <1>6, <1>7, <1>8 DEF Transfer!Fit

LEMMA RowsAreRight ==
  ASSUME NEW q, Finished(q)
  PROVE  Transfer!OldRowsAreKept(q) /\ Transfer!NewRowsAreTheFiles(q)
<1>1. /\ Handled(q) = DOMAIN q.file.monitors
      /\ Len(q.before[2]) + 1 .. Len(storedMonitors) = New(q.before[2], storedMonitors)
      /\ Transfer!Fit(q.file) \subseteq DOMAIN q.file.monitors /\ OldKept(q, storedMonitors)
  BY FinishedParts
<1>2. Transfer!OldRowsAreKept(q)
  BY <1>1 DEF OldKept, Transfer!OldRowsAreKept
<1>3. ImportRight(q, storedMonitors, storedChannels) /\ q.before # <<>> /\ q.kind \in {"config", "kuma"}
  BY DEF Finished
<1>4. PICK new : new = New(q.before[2], storedMonitors)
  OBVIOUS
<1>5. PICK keys : keys = {Transfer!Key(q.file.monitors[e]) : e \in Transfer!Fit(q.file)}
                           \ {Transfer!Key(q.before[2][i]) : i \in DOMAIN q.before[2]}
  OBVIOUS
<1>6. ASSUME NEW i \in new PROVE Transfer!Key(storedMonitors[i]) \in keys
  <2>1. PICK key : key = Transfer!Key(storedMonitors[i])
    OBVIOUS
  <2>2. ~HasKey(q.before[2], key) /\ \E e \in Transfer!Fit(q.file) : key = Transfer!Key(q.file.monitors[e])
    <3>1. CASE q.kind = "config"
      <4>1. PlanRight(q) /\ RowsMade(q, storedMonitors, storedChannels)
        BY <1>3, <3>1 DEF ImportRight
      <4>2. PICK e \in Handled(q) : MadeOf(q, e, storedMonitors[i], storedChannels)
        BY <1>4, <1>6, <4>1 DEF RowsMade
      <4>3. q.plan.monitors[e].status = "create" /\ key = Transfer!Key(q.file.monitors[e])
        BY <2>1, <4>2 DEF MadeOf
      <4>4. EntryPlanned(q, e)
        BY <1>1, <4>1 DEF PlanRight
      <4>5. e \in Transfer!Fit(q.file) /\ ~HasKey(q.before[2], Transfer!Key(q.file.monitors[e]))
        BY <4>3, <4>4 DEF EntryPlanned
      <4> QED
        BY <4>3, <4>5
    <3>2. CASE q.kind = "kuma"
      <4>1. KumaRight(q, storedMonitors, storedChannels)
        BY <1>3, <3>2 DEF ImportRight
      <4> QED
        BY <1>4, <1>6, <2>1, <4>1 DEF KumaRight
    <3> QED
      BY <1>3, <3>1, <3>2
  <2> QED
    BY <1>5, <2>1, <2>2 DEF HasKey
<1>7. \A i, j \in new : i # j => Transfer!Key(storedMonitors[i]) # Transfer!Key(storedMonitors[j])
  BY <1>3, <1>4 DEF ImportRight
<1>8. ASSUME q.clean, NEW k \in keys PROVE \E i \in new : Transfer!Key(storedMonitors[i]) = k
  <2>1. PICK e \in Transfer!Fit(q.file) : k = Transfer!Key(q.file.monitors[e])
    BY <1>5
  <2>2. HasKey(storedMonitors, k)
    BY <1>1, <1>3, <1>8, <2>1 DEF ImportRight
  <2>3. PICK i \in DOMAIN storedMonitors : Transfer!Key(storedMonitors[i]) = k
    BY <2>2 DEF HasKey
  <2>4. i \notin DOMAIN q.before[2]
    BY <1>1, <1>5, <2>3 DEF OldKept
  <2> QED
    BY <1>4, <2>3, <2>4 DEF New
<1>9. {Transfer!Key(storedMonitors[i]) : i \in new} \subseteq keys
  BY <1>6
<1>10. Transfer!NewRowsAreTheFiles(q)
  BY <1>1, <1>4, <1>5, <1>7, <1>8, <1>9 DEF Transfer!NewRowsAreTheFiles
<1> QED
  BY <1>2, <1>10

LEMMA ChannelsAreRight ==
  ASSUME NEW q, Finished(q)
  PROVE  Transfer!NewChannelsAreTheFiles(q)
<1>1. /\ Handled(q) = DOMAIN q.file.monitors
      /\ Len(q.before[2]) + 1 .. Len(storedMonitors) = New(q.before[2], storedMonitors)
      /\ Len(q.before[1]) + 1 .. Len(storedChannels) = New(q.before[1], storedChannels)
      /\ q.kind = "config" => Tried(q) = DOMAIN q.file.channels
  BY FinishedParts
<1>2. /\ ImportRight(q, storedMonitors, storedChannels) /\ ImportTyped(q, storedMonitors, storedChannels)
      /\ q.before # <<>> /\ q.kind \in {"config", "kuma"}
  BY DEF Finished
<1>3. PICK old, new, names, fits :
        /\ old = q.before[1] /\ new = New(q.before[1], storedChannels) /\ fits = Transfer!FitChannels(q.file)
        /\ names = fits \ {old[c].name : c \in DOMAIN old}
  OBVIOUS
<1>4. ASSUME NEW n PROVE n \in fits <=> \E i \in DOMAIN q.file.channels : FitChannel(q, i, n)
  BY <1>3 DEF Transfer!FitChannels, FitChannel
<1>5. ASSUME NEW n PROVE Transfer!Named(old, n) = {} <=> n \notin {old[c].name : c \in DOMAIN old}
  BY DEF Transfer!Named
<1>6. CASE q.kind = "kuma"
  <2>1. storedChannels = old
    BY <1>2, <1>3, <1>6 DEF ImportRight, KumaRight
  <2>2. new = {}
    BY <1>3, <2>1 DEF New
  <2> QED
    BY <1>1, <1>3, <1>6, <2>1, <2>2 DEF Transfer!NewChannelsAreTheFiles
<1>7. CASE q.kind = "config"
  <2>1. PlanRight(q) /\ ChannelsRight(q, storedChannels) /\ RowsMade(q, storedMonitors, storedChannels)
    BY <1>2, <1>7 DEF ImportRight
  <2>2. /\ \A c \in DOMAIN old : c \in DOMAIN storedChannels /\ storedChannels[c] = old[c]
        /\ \A c \in new : /\ Transfer!Named(old, storedChannels[c].name) = {}
                          /\ \E i \in Tried(q) : FitChannel(q, i, storedChannels[c].name)
        /\ \A c, d \in new : c # d => storedChannels[c].name # storedChannels[d].name
        /\ q.clean => \A i \in Tried(q) : q.file.channels[i].fit => q.file.channels[i].name \in DOMAIN q.ids
    BY <1>3, <2>1 DEF ChannelsRight
  <2>3. \A c \in new : storedChannels[c].name \in names
    BY <1>1, <1>3, <1>4, <1>5, <1>7, <2>2
  <2>4. ASSUME q.clean, NEW n \in names PROVE \E c \in new : storedChannels[c].name = n
    <3>1. PICK i \in DOMAIN q.file.channels : FitChannel(q, i, n)
      BY <1>3, <1>4
    <3>2. n \in DOMAIN q.ids
      BY <1>1, <1>7, <2>2, <2>4, <3>1 DEF FitChannel
    <3>3. q.ids[n] \in DOMAIN storedChannels /\ storedChannels[q.ids[n]].name = n
      BY <1>2, <3>2 DEF ImportTyped
    <3>4. q.ids[n] \notin DOMAIN old
      BY <1>3, <2>2, <3>3
    <3> QED
      BY <1>3, <3>3, <3>4 DEF New
  <2>5. q.clean => {storedChannels[c].name : c \in new} = names
    BY <2>3, <2>4
  <2>6. ASSUME q.clean, NEW i \in New(q.before[2], storedMonitors)
        PROVE  \E e \in Transfer!Fit(q.file) :
                 /\ Transfer!Key(q.file.monitors[e]) = Transfer!Key(storedMonitors[i])
                 /\ {storedChannels[c].name : c \in storedMonitors[i].routes} = q.file.monitors[e].names \cap fits
    <3>1. PICK e \in Handled(q) : MadeOf(q, e, storedMonitors[i], storedChannels)
      BY <2>1, <2>6 DEF RowsMade
    <3>2. EntryPlanned(q, e)
      BY <1>1, <2>1, <3>1 DEF PlanRight
    <3>3. e \in Transfer!Fit(q.file)
      BY <3>1, <3>2 DEF MadeOf, EntryPlanned
    <3>4. Transfer!Key(storedMonitors[i]) = Transfer!Key(q.file.monitors[e]) /\ Wired(q, e, storedMonitors[i], storedChannels)
      BY <2>6, <3>1 DEF MadeOf
    <3> QED
      BY <1>3, <3>3, <3>4 DEF Wired
  <2>7. Len(old) + 1 .. Len(storedChannels) = new
    BY <1>1, <1>3
  <2>8. \A c \in DOMAIN old : storedChannels[c] = old[c]
    BY <2>2
  <2>9. {storedChannels[c].name : c \in new} \subseteq names
    BY <2>3
  <2>10. \A c, d \in new : c # d => storedChannels[c].name # storedChannels[d].name
    BY <2>2
  <2>11. q.clean =>
           /\ {storedChannels[c].name : c \in new} = names
           /\ \A i \in Len(q.before[2]) + 1 .. Len(storedMonitors) :
                \E e \in Transfer!Fit(q.file) :
                  /\ Transfer!Key(q.file.monitors[e]) = Transfer!Key(storedMonitors[i])
                  /\ {storedChannels[c].name : c \in storedMonitors[i].routes} =
                       q.file.monitors[e].names \cap Transfer!FitChannels(q.file)
    BY <1>1, <1>3, <2>5, <2>6
  <2>12. Transfer!FitChannels(q.file) \ {q.before[1][c].name : c \in DOMAIN q.before[1]} = names
    BY <1>3
  <2>13. Len(q.before[1]) + 1 .. Len(storedChannels) = new
    BY <1>3, <2>7
  <2>14. \A c \in DOMAIN q.before[1] : storedChannels[c] = q.before[1][c]
    BY <1>3, <2>8
  <2> QED
    BY <2>9, <2>10, <2>11, <2>12, <2>13, <2>14 DEF Transfer!NewChannelsAreTheFiles
<1> QED
  BY <1>2, <1>6, <1>7

LEMMA TokensAreRight ==
  ASSUME NEW q, Finished(q)
  PROVE  Transfer!TokensAreBrought(q)
<1>1. /\ Handled(q) = DOMAIN q.file.monitors /\ Transfer!Fit(q.file) \subseteq DOMAIN q.file.monitors
  BY FinishedParts
<1>2. ImportRight(q, storedMonitors, storedChannels) /\ q.before # <<>>
  BY DEF Finished
<1>3. ASSUME NEW e \in Transfer!Fit(q.file), q.kind = "config", q.outcomes[e] = "create",
             q.file.monitors[e].token \notin TokensBefore(q, e) \cup {0}
      PROVE  \E i \in DOMAIN storedMonitors : /\ Transfer!Key(storedMonitors[i]) = Transfer!Key(q.file.monitors[e])
                                              /\ storedMonitors[i].token = q.file.monitors[e].token
  <2>1. PlanRight(q) /\ RowsMade(q, storedMonitors, storedChannels)
    BY <1>2, <1>3 DEF ImportRight
  <2>2. EntryPlanned(q, e)
    BY <1>1, <2>1 DEF PlanRight
  <2>3. q.plan.monitors[e].token = q.file.monitors[e].token /\ q.plan.monitors[e].token # 0
    BY <1>3, <2>2 DEF EntryPlanned
  <2>4. PICK i \in New(q.before[2], storedMonitors) :
             /\ Transfer!Key(storedMonitors[i]) = Transfer!Key(q.file.monitors[e])
             /\ q.plan.monitors[e].token # 0 => storedMonitors[i].token = q.plan.monitors[e].token
    BY <1>1, <1>3, <2>1 DEF RowsMade
  <2> QED
    BY <2>3, <2>4 DEF New
<1> QED
  BY <1>3 DEF Transfer!TokensAreBrought, TokensBefore

LEMMA NothingIsLeft ==
  ASSUME NEW q, Finished(q), q.clean, NEW e \in DOMAIN q.file.monitors
  PROVE  Transfer!MonitorStatus(q.file, FALSE, e) # "create"
<1>1. Handled(q) = DOMAIN q.file.monitors /\ ImportRight(q, storedMonitors, storedChannels) /\ q.before # <<>>
  BY FinishedParts DEF Finished
<1>2. PICK f, m, w : f = q.file /\ m = q.file.monitors[e] /\ w = FALSE
  OBVIOUS
<1>3. CASE m.fit # "ok"
  <2>1. Transfer!MonitorStatus(f, w, e) = "invalid"
    BY <1>2, <1>3 DEF Transfer!MonitorStatus
  <2> QED
    BY <1>2, <2>1
<1>4. CASE m.fit = "ok"
  <2>1. e \in Handled(q) \cap Transfer!Fit(q.file)
    BY <1>1, <1>2, <1>4 DEF Transfer!Fit
  <2>2. HasKey(storedMonitors, Transfer!Key(m))
    BY <1>1, <1>2, <2>1 DEF ImportRight
  <2>3. Transfer!Alike(storedMonitors, m) # {}
    BY <2>2 DEF HasKey, Transfer!Alike
  <2>4. Transfer!MonitorStatus(f, w, e) \in {"update", "duplicate"}
    BY <1>2, <1>4, <2>3 DEF Transfer!MonitorStatus
  <2> QED
    BY <1>2, <2>4
<1> QED
  BY <1>3, <1>4

LEMMA TransferIsRight ==
  ASSUME TransferInv, CountsRight
  PROVE  Transfer!ImportsAreFaithful
<1>1. ASSUME NEW u \in Uploads, Transfer!Alone(u)
      PROVE  /\ Transfer!OldRowsAreKept(upload[u]) /\ Transfer!NewRowsAreTheFiles(upload[u])
             /\ Transfer!NewChannelsAreTheFiles(upload[u]) /\ Transfer!TokensAreBrought(upload[u])
             /\ upload[u].clean => \A e \in DOMAIN upload[u].file.monitors :
                                     Transfer!MonitorStatus(upload[u].file, FALSE, e) # "create"
  <2>1. PICK q : q = upload[u]
    OBVIOUS
  <2>2. q.stage = "done" /\ q.before # <<>>
    BY <1>1, <2>1 DEF Transfer!Alone
  <2>3. /\ ImportTyped(q, storedMonitors, storedChannels) /\ ImportRight(q, storedMonitors, storedChannels)
        /\ IsList(storedMonitors) /\ IsList(storedChannels)
    BY <2>1 DEF TransferInv, RowsRight
  <2>4. Finished(q)
    BY <2>2, <2>3 DEF Finished, ImportTyped
  <2>5. /\ Transfer!OldRowsAreKept(q) /\ Transfer!NewRowsAreTheFiles(q)
        /\ Transfer!NewChannelsAreTheFiles(q) /\ Transfer!TokensAreBrought(q)
    BY <2>4, RowsAreRight, ChannelsAreRight, TokensAreRight
  <2>6. q.clean => \A e \in DOMAIN q.file.monitors : Transfer!MonitorStatus(q.file, FALSE, e) # "create"
    BY <2>4, NothingIsLeft
  <2> QED
    BY <2>1, <2>5, <2>6
<1>2. \A u \in Uploads : Transfer!PausedCountAnew(upload[u])
  BY DEF CountsRight, CountsAnew, Transfer!PausedCountAnew
<1> QED
  BY <1>1, <1>2 DEF Transfer!ImportsAreFaithful

\* An import of a configuration or of an Uptime Kuma that nothing disturbs does what its
\* preview says: one row for every new key of the file, old rows rewritten only where it may,
\* missing channels made once, tokens brought along, and nothing left for a second run
\* (API.configImport, API.kumaImport); and that a row it has paused counts bad rounds anew; whatever the files, the rows and the imports.
THEOREM ImportsCorrect == Spec => []ImportsAreFaithful
<1>1. Init => TransferInv /\ CountsRight
  BY TransferStarts, CountsStart
<1>2. TransferInv /\ CountsRight /\ [Next]_<<part, vars>> => TransferInv' /\ CountsRight'
  BY TransferAlone, TransferStays, TransferRests, CountsStay
<1>3. TransferInv /\ CountsRight => ImportsAreFaithful
  BY TransferIsRight DEF ImportsAreFaithful
<1> QED
  BY <1>1, <1>2, <1>3, PTL DEF Spec
=============================================================================
