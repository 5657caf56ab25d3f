----------------------------- MODULE ProbeRound -----------------------------
(***************************************************************************)
(* The life of the probe rounds of one monitor, from creation to the       *)
(* booked result, as the dashboard runs it                                 *)
(* (dashboard/internal/scheduler/{scheduler,round}.go, store/rounds.go,    *)
(* store/stats.go).                                                        *)
(*                                                                         *)
(* Three kinds of goroutine touch a round:                                 *)
(*   - the scheduler goroutine (Sched) creates rounds, dispatches their    *)
(*     tasks and finalizes the rounds whose deadline has passed; at        *)
(*     start-up it first closes the rounds a crash left OPEN;              *)
(*   - the read loop of each node's session (a member of Agents) takes the *)
(*     results the node reports and finalizes a round when nothing is      *)
(*     pending any more;                                                   *)
(*   - the session goroutine of a node that has just (re)connected runs    *)
(*     AgentOnline, which re-dispatches the tasks the node never got.      *)
(* The memory of the process (everything but db, rows, hourly) is lost in  *)
(* a crash.                                                                *)
(***************************************************************************)
EXTENDS RoundAggregate, Sequences, FiniteSetsExt

CONSTANTS Sched,      \* the scheduler goroutine
          NoRound,    \* no round
          NoAgent,    \* no node
          MaxFaults,  \* bound: failing database writes
          MaxCrashes, \* bound: crashes of the dashboard
          MaxDrops    \* bound: dropped sessions, refused frames, unanswered pings

ASSUME ThreadAssumption == Sched \notin Agents /\ NoRound \notin Rounds /\ NoAgent \notin Agents
ASSUME BoundAssumption ==
  MaxFaults \in Nat /\ MaxCrashes \in Nat /\ MaxDrops \in Nat

Threads == {Sched} \cup Agents

VARIABLES
  up,         \* the dashboard process is running
  conn,       \* nodes with a registered hub connection
  time,       \* how far each round's deadline is
  flights,    \* Scheduler.rounds: the in-flight rounds
  results,    \* InFlightRound.results, per round and node
  dispatched, \* InFlightRound.dispatched, per round
  closed,     \* rounds whose InFlightRound.closed is set
  agg,        \* InFlightRound.agg of the closed rounds
  tasks,      \* task frames each node holds and has not answered
  pc,         \* where each thread is
  round,      \* the round each thread works on
  todo,       \* nodes the thread still has to send to, or to ping
  dead,       \* finalize's dead set
  undisp,     \* finalize's undispatched set
  row,        \* the result row a read loop is about to insert
  sending,    \* the node whose task has left and is not marked yet
  online,     \* AgentOnline of each node: where it is and what it has left
  orphans,    \* rounds CloseOrphanOpenRounds still has to recount
  db,         \* table rounds: state "none" before the INSERT, then "OPEN", then decided
  rows,       \* table results
  hourly,     \* table hourly_stats: the monitor's counters
  booked,     \* history: rounds whose AddHourlyStat succeeded
  alerted,    \* history: rounds handed to applyAlert, in order
  faults, crashes, drops   \* what has been used of the bounds

memory == <<flights, results, dispatched, closed, agg>>
locals == <<pc, round, todo, dead, undisp, row, sending, orphans>>
store  == <<db, rows, hourly, booked>>
bounds == <<faults, crashes, drops>>
vars   == <<up, conn, time, memory, tasks, locals, online, store, alerted, bounds>>

-----------------------------------------------------------------------------
Idle   == "idle"
NoRow  == [agent |-> NoAgent, ok |-> FALSE, late |-> FALSE]
Session(stage, r, left) == [pc |-> stage, round |-> r, left |-> left]
Free   == Session(Idle, NoRound, {})

Pending(r) == {a \in Agents : results[r][a] = "none"}

Decided(r) == db[r].state \in DecidedStates

\* CloseRound updates WHERE state = OPEN: only the first closer changes the row.
\* Mutant: the row is updated by its id alone.
AnyRow(r) == TRUE
StillOpen(r) == db[r].state = "OPEN"

\* AddResult takes a sample as on time. Mutant: closed is not looked at.
InFlight(r) == r \in flights
Accepts(r) == r \in flights /\ r \notin closed

\* The last pending node has reported. Mutant: one node too early.
AlmostComplete(r) == Cardinality(Pending(r)) <= 1
Complete(r) == Pending(r) = {}

\* cycle() finalizes the round. Mutant: only when no other is in flight.
DueAlone(r) == flights = {r} /\ r \notin closed /\ time[r] = "past"
Due(r) == r \in flights /\ r \notin closed /\ time[r] = "past"

\* The node was handed the round's task. Mutant: it is connected now.
IsReachable(r, a) == a \in conn
WasHanded(r, a) == a \in dispatched[r]

\* The result of a database write that may fail.
Fails == faults < MaxFaults /\ faults' = faults + 1
Works == UNCHANGED faults

\* Something the network does to us that nobody can rule out.
Drop == drops < MaxDrops /\ drops' = drops + 1

Goto(t, label) == pc' = [pc EXCEPT ![t] = label]

\* A thread is done: its locals are dropped.
Finish(t) ==
  /\ Goto(t, Idle)
  /\ round'  = [round  EXCEPT ![t] = NoRound]
  /\ todo'   = [todo   EXCEPT ![t] = {}]
  /\ dead'   = [dead   EXCEPT ![t] = {}]
  /\ undisp' = [undisp EXCEPT ![t] = {}]
  /\ row'    = [row    EXCEPT ![t] = NoRow]

\* finalize(): take the list of nodes to ping.
EnterFinalize(t, r) ==
  /\ Goto(t, "ping")
  /\ round'  = [round  EXCEPT ![t] = r]
  /\ todo'   = [todo   EXCEPT ![t] = Pending(r)]
  /\ dead'   = [dead   EXCEPT ![t] = {}]
  /\ undisp' = [undisp EXCEPT ![t] = {}]
  /\ row'    = [row    EXCEPT ![t] = NoRow]

-----------------------------------------------------------------------------
(* The network and the clock.                                              *)

Connect(a) ==
  /\ up /\ a \notin conn /\ online[a].pc = Idle
  /\ conn' = conn \cup {a}
  /\ online' = [online EXCEPT ![a] = Session("begin", NoRound, {})]
  /\ UNCHANGED <<up, time, memory, tasks, locals, store, alerted, bounds>>

Disconnect(a) ==
  /\ a \in conn
  /\ Drop
  /\ conn' = conn \ {a}
  /\ UNCHANGED <<up, time, memory, tasks, locals, online, store, alerted, faults, crashes>>

\* A task, or the result that answers it, dies with its connection: the node
\* drops the result of a task that came over an earlier connection.
LoseTask(r, a) ==
  /\ tasks[r][a] > 0
  /\ Drop
  /\ tasks' = [tasks EXCEPT ![r][a] = @ - 1]
  /\ UNCHANGED <<up, conn, time, memory, locals, online, store, alerted, faults, crashes>>

\* Less than one probe timeout is left; then the deadline has passed.
Tighten(r) ==
  /\ r \in flights /\ time[r] = "ample"
  /\ time' = [time EXCEPT ![r] = "tight"]
  /\ UNCHANGED <<up, conn, memory, tasks, locals, online, store, alerted, bounds>>

Expire(r) ==
  /\ r \in flights /\ time[r] = "tight"
  /\ time' = [time EXCEPT ![r] = "past"]
  /\ UNCHANGED <<up, conn, memory, tasks, locals, online, store, alerted, bounds>>

-----------------------------------------------------------------------------
(* The scheduler goroutine creates a round and sends its tasks one by one. *)

\* The nodes still to send to; with none left createRound returns.
SendNext(r, nodes) ==
  /\ Goto(Sched, IF nodes = {} THEN Idle ELSE "send")
  /\ round' = [round EXCEPT ![Sched] = IF nodes = {} THEN NoRound ELSE r]
  /\ todo' = [todo EXCEPT ![Sched] = nodes]

CreateRound(r) ==
  /\ up /\ pc[Sched] = Idle
  /\ db[r].state = "none"
  /\ \/ /\ Works
        /\ db' = [db EXCEPT ![r] = Blank("OPEN")]
        /\ flights' = flights \cup {r}
        /\ SendNext(r, Agents)
     \/ Fails /\ UNCHANGED <<db, flights, pc, round, todo>>
  /\ UNCHANGED <<up, conn, time, results, dispatched, closed, agg, tasks, dead, undisp, row,
                 online, sending, orphans, rows, hourly, booked, alerted, crashes, drops>>

\* SendToAgent: the frame is queued when the node is connected and its send
\* buffer is not full; otherwise the next node is tried.
SendTask(a) ==
  LET r == round[Sched] IN
  /\ up /\ pc[Sched] = "send" /\ a \in todo[Sched]
  /\ \/ /\ a \in conn
        /\ tasks' = [tasks EXCEPT ![r][a] = @ + 1]
        /\ sending' = a
        /\ Goto(Sched, "mark")
        /\ UNCHANGED <<round, todo, drops>>
     \/ /\ \/ a \notin conn /\ UNCHANGED drops
           \/ a \in conn /\ Drop
        /\ SendNext(r, todo[Sched] \ {a})
        /\ UNCHANGED <<tasks, sending>>
  /\ UNCHANGED <<up, conn, time, memory, dead, undisp, row, online, orphans, store,
                 alerted, faults, crashes>>

\* MarkDispatched happens after the frame has left: a result, or the node's
\* AgentOnline, can get in between.
MarkSent ==
  LET r == round[Sched] IN
  /\ up /\ pc[Sched] = "mark"
  /\ dispatched' = [dispatched EXCEPT ![r] = @ \cup {sending}]
  /\ sending' = NoAgent
  /\ SendNext(r, todo[Sched] \ {sending})
  /\ UNCHANGED <<up, conn, time, flights, results, closed, agg, tasks, dead, undisp, row,
                 online, orphans, store, alerted, bounds>>

-----------------------------------------------------------------------------
(* AgentOnline: re-dispatch to a node that has just connected.             *)

\* The rounds still to look at; the session goes on to read when none is left.
ScanNext(a, left) ==
  online' = [online EXCEPT ![a] =
    IF left = {} THEN Free ELSE Session("scan", NoRound, left)]

\* The snapshot of the in-flight rounds; "now" is read here too, so a round
\* that has ample time left now is re-dispatched even if checked later.
OnlineBegin(a) ==
  /\ up /\ online[a].pc = "begin"
  /\ ScanNext(a, {r \in flights : time[r] = "ample"})
  /\ UNCHANGED <<up, conn, time, memory, tasks, locals, store, alerted, bounds>>

OnlineCheck(a, r) ==
  /\ up /\ online[a].pc = "scan" /\ r \in online[a].left
  /\ IF r \in closed \/ a \in dispatched[r] \/ results[r][a] # "none"
       THEN ScanNext(a, online[a].left \ {r})
       ELSE online' = [online EXCEPT ![a] = Session("send", r, online[a].left)]
  /\ UNCHANGED <<up, conn, time, memory, tasks, locals, store, alerted, bounds>>

\* The monitor was looked up in between; Closed() is checked once more.
OnlineSend(a) ==
  LET r == online[a].round IN
  /\ up /\ online[a].pc = "send"
  /\ \/ /\ r \notin closed /\ a \in conn
        /\ tasks' = [tasks EXCEPT ![r][a] = @ + 1]
        /\ online' = [online EXCEPT ![a] = Session("mark", r, online[a].left)]
        /\ UNCHANGED drops
     \/ /\ \/ (r \in closed \/ a \notin conn) /\ UNCHANGED drops
           \/ Drop
        /\ ScanNext(a, online[a].left \ {r})
        /\ UNCHANGED tasks
  /\ UNCHANGED <<up, conn, time, memory, locals, store, alerted, faults, crashes>>

OnlineMark(a) ==
  LET r == online[a].round IN
  /\ up /\ online[a].pc = "mark"
  /\ dispatched' = [dispatched EXCEPT ![r] = @ \cup {a}]
  /\ ScanNext(a, online[a].left \ {r})
  /\ UNCHANGED <<up, conn, time, flights, results, closed, agg, tasks, locals, store,
                 alerted, bounds>>

-----------------------------------------------------------------------------
(* handleResult: the read loop of node a takes a result frame.             *)

\* AddResult: refused once the round is closed; only the first report of a
\* node counts, a second one is accepted without effect. The frame may come
\* from the session that a reconnect has just replaced, so a need not be
\* connected. A round that has left s.rounds has no Invert snapshot any more.
Report(r, a, ok) ==
  LET onTime == Accepts(r)
  IN /\ up /\ pc[a] = Idle /\ tasks[r][a] > 0
     /\ tasks' = [tasks EXCEPT ![r][a] = @ - 1]
     /\ results' = IF onTime /\ results[r][a] = "none"
                     THEN [results EXCEPT ![r][a] = Verdict(ok)]
                     ELSE results
     /\ row' = [row EXCEPT ![a] =
                  [agent |-> a, late |-> ~onTime,
                   ok    |-> IF r \in flights THEN EffOK(r, ok) ELSE ok]]
     /\ round' = [round EXCEPT ![a] = r]
     /\ Goto(a, "insert")
     /\ UNCHANGED <<up, conn, time, flights, dispatched, closed, agg, todo, dead, undisp,
                    online, sending, orphans, store, alerted, bounds>>

\* InsertResult; an on-time result that leaves nothing pending finalizes the
\* round, a failed insert returns without doing so.
InsertResult(a) ==
  LET r == round[a] IN
  /\ up /\ pc[a] = "insert"
  /\ \/ /\ Works
        /\ rows' = [rows EXCEPT ![r] = @ \cup
                      {[agent |-> a, ok |-> row[a].ok, late |-> row[a].late,
                        id |-> Cardinality(@)]}]
        /\ IF ~row[a].late /\ Complete(r) THEN EnterFinalize(a, r) ELSE Finish(a)
     \/ /\ Fails
        /\ Finish(a)
        /\ UNCHANGED rows
  /\ UNCHANGED <<up, conn, time, memory, tasks, online, sending, orphans, db, hourly, booked,
                 alerted, crashes, drops>>

-----------------------------------------------------------------------------
(* finalize, on any thread.                                                *)

\* cycle(): the deadline of an in-flight round has passed.
FinalizeDue(r) ==
  /\ up /\ pc[Sched] = Idle /\ Due(r)
  /\ EnterFinalize(Sched, r)
  /\ UNCHANGED <<up, conn, time, memory, tasks, online, sending, orphans, store, alerted, bounds>>

\* Ping a pending node: no answer means dead; an answer from a node that was
\* never handed the task means undispatched; otherwise it is alive and mute.
PingAgent(t, a) ==
  LET r == round[t] IN
  /\ up /\ pc[t] = "ping" /\ a \in todo[t]
  /\ todo' = [todo EXCEPT ![t] = @ \ {a}]
  /\ \/ /\ \/ a \notin conn /\ UNCHANGED drops
           \/ a \in conn /\ Drop
        /\ dead' = [dead EXCEPT ![t] = @ \cup {a}]
        /\ UNCHANGED undisp
     \/ /\ a \in conn /\ UNCHANGED drops
        /\ undisp' = [undisp EXCEPT ![t] =
                        IF WasHanded(r, a) THEN @ ELSE @ \cup {a}]
        /\ UNCHANGED dead
  /\ UNCHANGED <<up, conn, time, memory, tasks, pc, round, row, online, sending, orphans, store,
                 alerted, faults, crashes>>

\* InFlightRound.Close: the first closer fixes the aggregation.
CloseFlight(t) ==
  LET r == round[t] IN
  /\ up /\ pc[t] = "ping" /\ todo[t] = {}
  /\ IF r \in closed
       THEN UNCHANGED <<closed, agg>>
       ELSE /\ closed' = closed \cup {r}
            /\ agg' = [agg EXCEPT ![r] = Aggregate(r, results[r], dead[t], undisp[t])]
  /\ Goto(t, "persist")
  /\ UNCHANGED <<up, conn, time, flights, results, dispatched, tasks, round, todo, dead,
                 undisp, row, online, sending, orphans, store, alerted, bounds>>

\* Leave s.rounds, then CloseRound: UPDATE ... WHERE state = OPEN. Whoever
\* updates the row goes on to the hourly statistics and the alert.
CloseRound(t) ==
  LET r == round[t] IN
  /\ up /\ pc[t] = "persist"
  /\ flights' = flights \ {r}
  /\ \/ /\ StillOpen(r) /\ Works
        /\ db' = [db EXCEPT ![r] = agg[r]]
        /\ Goto(t, "hourly")
        /\ UNCHANGED <<round, todo, dead, undisp, row>>
     \/ /\ (~StillOpen(r) /\ Works) \/ Fails
        /\ Finish(t)
        /\ UNCHANGED db
  /\ UNCHANGED <<up, conn, time, results, dispatched, closed, agg, tasks, online, sending, orphans,
                 rows, hourly, booked, alerted, crashes, drops>>

\* Mutant: a round without samples is not booked, as the recount does it.
BookSampled(r, out) ==
  IF out.valid = 0
    THEN UNCHANGED <<hourly, booked>>
    ELSE /\ hourly' = [rounds |-> hourly.rounds + 1, valid |-> hourly.valid + out.valid,
                       success |-> hourly.success + out.success]
         /\ booked' = booked \cup {r}

\* AddHourlyStat(1, valid, success).
Book(r, out) ==
  /\ hourly' = [rounds |-> hourly.rounds + 1,
                valid |-> hourly.valid + out.valid,
                success |-> hourly.success + out.success]
  /\ booked' = booked \cup {r}

AddHourlyStat(t) ==
  LET r == round[t] IN
  /\ up /\ pc[t] = "hourly"
  /\ \/ Works /\ Book(r, agg[r])
     \/ Fails /\ UNCHANGED <<hourly, booked>>
  /\ Goto(t, "alert")
  /\ UNCHANGED <<up, conn, time, memory, tasks, round, todo, dead, undisp, row, online,
                 sending, orphans, db, rows, alerted, crashes, drops>>

\* applyAlert is called; what it does is the subject of AlertFlow.
ApplyAlert(t) ==
  /\ up /\ pc[t] = "alert"
  /\ alerted' = Append(alerted, round[t])
  /\ Finish(t)
  /\ UNCHANGED <<up, conn, time, memory, tasks, online, sending, orphans, store, bounds>>

-----------------------------------------------------------------------------
(* A crash, and the start-up that follows it.                              *)

EmptyResults == [r \in Rounds |-> [a \in Agents |-> "none"]]
NoTasks      == [r \in Rounds |-> [a \in Agents |-> 0]]

Crash ==
  /\ up /\ crashes < MaxCrashes
  /\ crashes' = crashes + 1
  /\ up' = FALSE
  /\ conn' = {} /\ flights' = {} /\ closed' = {}
  /\ results' = EmptyResults
  /\ dispatched' = [r \in Rounds |-> {}]
  /\ agg' = [r \in Rounds |-> Swept]
  /\ tasks' = NoTasks
  /\ pc' = [t \in Threads |-> Idle]
  /\ round' = [t \in Threads |-> NoRound]
  /\ todo' = [t \in Threads |-> {}]
  /\ dead' = [t \in Threads |-> {}]
  /\ undisp' = [t \in Threads |-> {}]
  /\ row' = [t \in Threads |-> NoRow]
  /\ sending' = NoAgent
  /\ online' = [a \in Agents |-> Free]
  /\ orphans' = {}
  /\ UNCHANGED <<time, store, alerted, faults, drops>>

\* Mutant: the process goes straight to the scheduling loop.
RestartAtOnce ==
  /\ ~up
  /\ up' = TRUE
  /\ UNCHANGED <<conn, time, memory, tasks, locals, online, store, alerted, bounds>>

\* Run: CloseOrphanOpenRounds starts with the list of OPEN rounds; if even the
\* list cannot be read every OPEN round is swept.
Restart ==
  /\ ~up
  /\ up' = TRUE
  /\ \/ Works /\ orphans' = {r \in Rounds : db[r].state = "OPEN"}
     \/ Fails /\ orphans' = {}
  /\ Goto(Sched, "recover")
  /\ UNCHANGED <<conn, time, memory, tasks, round, todo, dead, undisp, row, sending, online, store,
                 alerted, crashes, drops>>

\* recoverOrphanRound: recount the stored rows, CloseRound, and book a round
\* that has at least one sample.
RecoverRound(r) ==
  LET out == Recount(rows[r]) IN
  /\ up /\ pc[Sched] = "recover" /\ r \in orphans
  /\ orphans' = orphans \ {r}
  /\ \/ /\ Works
        /\ db' = [db EXCEPT ![r] = out]
        /\ IF out.valid > 0
             THEN Goto(Sched, "rebook") /\ round' = [round EXCEPT ![Sched] = r]
             ELSE UNCHANGED <<pc, round>>
     \/ /\ Fails
        /\ UNCHANGED <<db, pc, round>>
  /\ UNCHANGED <<up, conn, time, memory, tasks, todo, dead, undisp, row, sending, online, rows,
                 hourly, booked, alerted, crashes, drops>>

RecoverBook ==
  LET r == round[Sched] IN
  /\ up /\ pc[Sched] = "rebook"
  /\ \/ Works /\ Book(r, db[r])
     \/ Fails /\ UNCHANGED <<hourly, booked>>
  /\ Goto(Sched, "recover")
  /\ round' = [round EXCEPT ![Sched] = NoRound]
  /\ UNCHANGED <<up, conn, time, memory, tasks, todo, dead, undisp, row, online, sending, orphans,
                 db, rows, alerted, crashes, drops>>

\* forceCloseOpenRounds: what is still OPEN is closed without a recount.
SweepOpen ==
  /\ up /\ pc[Sched] = "recover" /\ orphans = {}
  /\ \/ Works /\ db' = [r \in Rounds |-> IF db[r].state = "OPEN" THEN Swept ELSE db[r]]
     \/ Fails /\ UNCHANGED db
  /\ Goto(Sched, Idle)
  /\ UNCHANGED <<up, conn, time, memory, tasks, round, todo, dead, undisp, row, online,
                 sending, orphans, rows, hourly, booked, alerted, crashes, drops>>

-----------------------------------------------------------------------------
Init ==
  /\ up = TRUE
  /\ conn = {}
  /\ time = [r \in Rounds |-> "ample"]
  /\ flights = {} /\ closed = {}
  /\ results = EmptyResults
  /\ dispatched = [r \in Rounds |-> {}]
  /\ agg = [r \in Rounds |-> Swept]
  /\ tasks = NoTasks
  /\ pc = [t \in Threads |-> Idle]
  /\ round = [t \in Threads |-> NoRound]
  /\ todo = [t \in Threads |-> {}]
  /\ dead = [t \in Threads |-> {}]
  /\ undisp = [t \in Threads |-> {}]
  /\ row = [t \in Threads |-> NoRow]
  /\ sending = NoAgent
  /\ online = [a \in Agents |-> Free]
  /\ orphans = {}
  /\ db = [r \in Rounds |-> Blank("none")]
  /\ rows = [r \in Rounds |-> {}]
  /\ hourly = [rounds |-> 0, valid |-> 0, success |-> 0]
  /\ booked = {}
  /\ alerted = <<>>
  /\ faults = 0 /\ crashes = 0 /\ drops = 0

Dispatching == (\E r \in Rounds : CreateRound(r)) \/ (\E a \in Agents : SendTask(a)) \/ MarkSent

Redispatching(a) ==
  \/ OnlineBegin(a) \/ OnlineSend(a) \/ OnlineMark(a)
  \/ \E r \in Rounds : OnlineCheck(a, r)

Finalizing(t) ==
  (\E a \in Agents : PingAgent(t, a)) \/ CloseFlight(t) \/ CloseRound(t) \/ AddHourlyStat(t) \/ ApplyAlert(t)

Recovering == (\E r \in Rounds : RecoverRound(r)) \/ RecoverBook \/ SweepOpen

Network ==
  \/ \E a \in Agents : Connect(a) \/ Disconnect(a)
  \/ \E r \in Rounds, a \in Agents : LoseTask(r, a)
  \/ \E r \in Rounds : Tighten(r) \/ Expire(r)

Next ==
  \/ Network
  \/ Dispatching
  \/ \E a \in Agents : Redispatching(a)
  \/ \E r \in Rounds, a \in Agents, ok \in BOOLEAN : Report(r, a, ok)
  \/ \E a \in Agents : InsertResult(a)
  \/ \E r \in Rounds : FinalizeDue(r)
  \/ \E t \in Threads : Finalizing(t)
  \/ Crash \/ Restart \/ Recovering

Safe == Init /\ [][Next]_vars

(* The scheduler goroutine and the sessions keep running, the clock moves, *)
(* and a crashed dashboard is started again by its supervisor. Nothing is  *)
(* assumed of the nodes or of the network.                                 *)
Fairness ==
  /\ WF_vars((\E a \in Agents : SendTask(a)) \/ MarkSent)
  /\ \A r \in Rounds : WF_vars(Tighten(r)) /\ WF_vars(Expire(r)) /\ SF_vars(FinalizeDue(r))
  /\ \A t \in Threads : WF_vars(Finalizing(t))
  /\ \A a \in Agents : WF_vars(InsertResult(a))
  /\ WF_vars(Restart) /\ WF_vars(Recovering)

Spec == Safe /\ Fairness
-----------------------------------------------------------------------------
(* Properties.                                                             *)

Labels == {Idle, "send", "mark", "insert", "ping", "persist", "hourly", "alert", "recover", "rebook"}

Rows == [agent : Agents \cup {NoAgent}, ok : BOOLEAN, late : BOOLEAN]
StoredRows == [agent : Agents \cup {NoAgent}, ok : BOOLEAN, late : BOOLEAN, id : Nat]
StoredRounds == [state : {"none", "OPEN"} \cup DecidedStates, valid : Nat, success : Nat,
                 alive : SUBSET Agents, dead : SUBSET Agents, undisp : SUBSET Agents]
Sessions == [pc : {Idle, "begin", "scan", "send", "mark"},
             round : Rounds \cup {NoRound}, left : SUBSET Rounds]

TypeNetwork ==
  /\ up \in BOOLEAN /\ conn \in SUBSET Agents
  /\ time \in [Rounds -> {"ample", "tight", "past"}]
  /\ tasks \in [Rounds -> [Agents -> Nat]]
  /\ online \in [Agents -> Sessions]

TypeMemory ==
  /\ flights \in SUBSET Rounds /\ closed \in SUBSET Rounds
  /\ results \in [Rounds -> [Agents -> Samples]]
  /\ dispatched \in [Rounds -> SUBSET Agents]
  /\ agg \in [Rounds -> Outcome]

TypeLocals ==
  /\ pc \in [Threads -> Labels]
  /\ round \in [Threads -> Rounds \cup {NoRound}]
  /\ todo \in [Threads -> SUBSET Agents]
  /\ dead \in [Threads -> SUBSET Agents]
  /\ undisp \in [Threads -> SUBSET Agents]
  /\ row \in [Threads -> Rows]
  /\ sending \in Agents \cup {NoAgent}
  /\ orphans \in SUBSET Rounds

TypeStore ==
  /\ db \in [Rounds -> StoredRounds]
  /\ rows \in [Rounds -> SUBSET StoredRows]
  /\ \A r \in Rounds : IsFiniteSet(rows[r])
  /\ hourly \in [rounds : Nat, valid : Nat, success : Nat]
  /\ booked \in SUBSET Rounds
  /\ alerted \in Seq(Rounds)

TypeBounds == faults \in Nat /\ crashes \in Nat /\ drops \in Nat

\* The type of every variable.
TypeOK == TypeNetwork /\ TypeMemory /\ TypeLocals /\ TypeStore /\ TypeBounds

OnTime(r) == {w \in rows[r] : ~w.late}
Missing(out) == out.alive \cup out.dead \cup out.undisp
At(t, label, r) == pc[t] = label /\ round[t] = r

\* The hourly counters behind the availability figures are exactly the sum of
\* the stored outcomes of the rounds that were booked, each booked once:
\* neither two threads finalizing the same round (read loop and scheduler) nor
\* a recount after a crash adds a round twice or with other numbers than the
\* round shows ("avoid double counting", scheduler.go finalize).
HourlyIsSumOfRounds ==
  /\ booked \subseteq {r \in Rounds : Decided(r)}
  /\ hourly.rounds = Cardinality(booked)
  /\ hourly.valid = MapThenSumSet(LAMBDA r : db[r].valid, booked)
  /\ hourly.success = MapThenSumSet(LAMBDA r : db[r].success, booked)

\* Nothing gets lost between CloseRound and AddHourlyStat as long as no write
\* fails and the process lives: a decided round is booked, or the one thread
\* that decided it is about to book it.
NothingUnbooked ==
  faults = 0 /\ crashes = 0 =>
    \A r \in Rounds : Decided(r) =>
      r \in booked \/ \E t \in Threads : At(t, "hourly", r)

\* A node is counted as a failed sample only if it was really handed the task
\* (the restart-first-round incident told in finalize's comment): dispatch,
\* re-dispatch on reconnect and the pings of finalize interleave freely.
NeverSentNeverBlamed ==
  \A r \in closed : agg[r].alive \subseteq dispatched[r]

\* A sample that AddResult accepted is never lost from the aggregation and
\* never counted twice: the nodes of a closed round split into those that
\* reported and those listed missing, and the counters follow the split.
AcceptedIsAggregated ==
  \A r \in closed :
    /\ Reported(results[r]) = Agents \ Missing(agg[r])
    /\ agg[r].valid + Cardinality(agg[r].dead \cup agg[r].undisp) = Cardinality(Agents)
    /\ agg[r].success <= Cardinality(Reported(results[r]))

\* "The round says there was no valid sample while its node list shows a 200"
\* (CloseOrphanOpenRounds' comment): without failing writes a node with a
\* stored on-time row is never listed as missing, and an UNKNOWN round has no
\* on-time row, crash or not.
StoredSampleIsCounted ==
  faults = 0 =>
    \A r \in Rounds : Decided(r) =>
      \A w \in OnTime(r) : db[r].state = "CLOSED" /\ w.agent \notin Missing(db[r])

\* The stored rows explain the stored success count, for inverted rounds too:
\* EffOK is applied once on the way to the rows and once in the aggregation,
\* and not again by the recount.
RowsExplainSuccess ==
  faults = 0 => \A r \in Rounds :
    Decided(r) /\ Cardinality({w.agent : w \in OnTime(r)}) = Cardinality(OnTime(r))
               /\ {w.agent : w \in OnTime(r)} = Agents \ Missing(db[r])
      => db[r].success = Cardinality({w \in OnTime(r) : w.ok})

\* Finalizing before the deadline is only for rounds in which every node has
\* reported: a round closed with a missing node is past its deadline. (A read
\* loop that finalized an incomplete round would ping the missing nodes, and
\* only a read loop can deliver the pongs.)
EarlyOnlyIfComplete ==
  \A r \in closed : Missing(agg[r]) # {} => time[r] = "past"

\* The alert state machine sees a round at most once, after its decision.
AlertAtMostOnce ==
  /\ \A i, j \in DOMAIN alerted : alerted[i] = alerted[j] => i = j
  /\ \A i \in DOMAIN alerted : Decided(alerted[i])

\* "No OPEN round is left after start-up": outside the start-up itself an OPEN
\* round is in flight, or in the hands of the thread that is storing it.
OpenIsInFlight ==
  faults = 0 /\ up /\ pc[Sched] \notin {"recover", "rebook"} =>
    \A r \in Rounds : db[r].state = "OPEN" =>
      r \in flights \/ \E t \in Threads : At(t, "persist", r)

\* The rounds, the counters and the alerts behave like the ledger of
\* RoundLedger: one outcome per round, never changed, booked at most once with
\* the numbers stored, handed to the alert at most once.
Ledger == INSTANCE RoundLedger WITH
  None     <- Blank("none"),
  Opened   <- Blank("OPEN"),
  Outcomes <- Outcome,
  outcome  <- db,
  total    <- hourly,
  notified <- {alerted[i] : i \in DOMAIN alerted}
LedgerSpec == Ledger!Spec

\* Every round gets its outcome, whatever the nodes and the network do and
\* across crashes, as long as no write fails.
EveryRoundIsDecided ==
  \A r \in Rounds : db[r].state = "OPEN" ~> Decided(r)

\* What recoverOrphanRound's comment claims of its recount ("the same rule as
\* aggregate: valid = assigned nodes that reported on time"): the samples and
\* the nodes left out make up the nodes of the round.
OneSamplePerNode ==
  \A r \in Rounds : db[r].state = "CLOSED" =>
    db[r].valid + Cardinality(db[r].dead \cup db[r].undisp) = Cardinality(Agents)
=============================================================================
