-------------------------- MODULE ProbeRoundProofs --------------------------
(***************************************************************************)
(* What TLAPS proves of ProbeRound, for any number of nodes and rounds and *)
(* any bounds on crashes, drops and failing writes: its types, the ledger  *)
(* of the rounds (every round has one outcome, booked and handed to the    *)
(* alert at most once), the fairness of an outcome towards the nodes, and  *)
(* the records: the row of table rounds, the result rows and the booking   *)
(* agree with what the memory of the process took in.                      *)
(***************************************************************************)
EXTENDS ProbeRound, FiniteSums

-----------------------------------------------------------------------------
(* The types.                                                              *)

\* A thread that works on a round has one, and so has a session that sends.
Working == {"send", "mark", "insert", "ping", "persist", "hourly", "alert", "rebook"}
Shape ==
  /\ \A t \in Threads : pc[t] \in Working => round[t] \in Rounds
  /\ pc[Sched] = "mark" => sending \in Agents
  /\ \A a \in Agents : online[a].pc \in {"send", "mark"} => online[a].round \in Rounds

\* The decision table yields an outcome: its state is a decided one and its
\* counters are natural numbers.
LEMMA AggregateType ==
  ASSUME NEW r \in Rounds, NEW res \in [Agents -> Samples],
         NEW D \in SUBSET Agents, NEW U \in SUBSET Agents
  PROVE  Aggregate(r, res, D, U) \in Outcome
<1> DEFINE silent == Agents \ Reported(res)
           mute   == silent \ (D \cup U)
           valid  == Cardinality(Reported(res) \cup mute)
<1>1. Reported(res) \cup mute \subseteq Agents /\ Succeeded(r, res) \subseteq Agents
  BY DEF Reported, Succeeded
<1>2. valid \in Nat /\ Cardinality(Succeeded(r, res)) \in Nat
  BY <1>1, AgentsAssumption, FS_Subset, FS_CardinalityType
<1>3. StateOf(valid) \in DecidedStates
  BY DEF StateOf, DecidedStates
<1> QED
  BY <1>2, <1>3 DEF Aggregate, Outcome

\* So does the recount of any finite set of stored rows.
LEMMA RecountType ==
  ASSUME NEW S, IsFiniteSet(S)
  PROVE  Recount(S) \in Outcome
<1> DEFINE onTime == {w \in S : ~w.late /\ w.agent \in Agents}
           good   == {w \in onTime : w.ok}
<1>1. IsFiniteSet(onTime) /\ IsFiniteSet(good)
  BY FS_Subset
<1>2. Cardinality(onTime) \in Nat /\ Cardinality(good) \in Nat
  BY <1>1, FS_CardinalityType
<1>3. StateOf(Cardinality(onTime)) \in DecidedStates
  BY DEF StateOf, DecidedStates
<1> QED
  BY <1>2, <1>3 DEF Recount, Outcome

LEMMA SweptType == Swept \in Outcome /\ Outcome \subseteq StoredRounds
  BY DEF Swept, Blank, StoredRounds, Outcome, DecidedStates

LEMMA TypeInit == Init => TypeOK
<1> SUFFICES ASSUME Init PROVE TypeOK
  OBVIOUS
<1>1. \A r \in Rounds : IsFiniteSet(rows[r])
  BY FS_EmptySet DEF Init
<1>2. alerted \in Seq(Rounds)
  BY DEF Init
<1> QED
  <2>1. TypeNetwork
    BY DEF Init, TypeNetwork, NoTasks, Free, Session, Sessions
  <2>2. TypeMemory
    BY SweptType DEF Init, TypeMemory, EmptyResults, Samples
  <2>3. TypeLocals
    BY DEF Init, TypeLocals, NoRow, Labels, Idle, Rows
  <2>4. TypeStore
    BY <1>1, <1>2 DEF Init, TypeStore, Blank, StoredRounds
  <2> QED
    BY <2>1, <2>2, <2>3, <2>4 DEF Init, TypeOK, TypeBounds

LEMMA TypeNetworkNext == TypeOK /\ Shape /\ [Next]_vars => TypeNetwork'
<1> SUFFICES ASSUME TypeOK, Shape, [Next]_vars PROVE TypeNetwork'
  OBVIOUS
<1>1. ASSUME NEW a \in Agents, Connect(a)
      PROVE  TypeNetwork'
  BY <1>1 DEF TypeOK, TypeNetwork, TypeMemory, TypeLocals, Connect, Free, Session, Sessions,
     Idle
<1>2. ASSUME NEW a \in Agents, Disconnect(a)
      PROVE  TypeNetwork'
  BY <1>2 DEF TypeOK, TypeNetwork, TypeMemory, TypeLocals, Disconnect, Drop, Sessions, Idle
<1>3. ASSUME NEW r \in Rounds, NEW a \in Agents, LoseTask(r, a)
      PROVE  TypeNetwork'
  BY <1>3 DEF TypeOK, TypeNetwork, TypeMemory, TypeLocals, LoseTask, Drop, Sessions, Idle
<1>4. ASSUME NEW r \in Rounds, Tighten(r)
      PROVE  TypeNetwork'
  BY <1>4 DEF TypeOK, TypeNetwork, TypeMemory, TypeLocals, Tighten, Sessions, Idle
<1>5. ASSUME NEW r \in Rounds, Expire(r)
      PROVE  TypeNetwork'
  BY <1>5 DEF TypeOK, TypeNetwork, TypeMemory, TypeLocals, Expire, Sessions, Idle
<1>6. ASSUME NEW a \in Agents, SendTask(a)
      PROVE  TypeNetwork'
  <2>1. round[Sched] \in Rounds
    BY <1>6 DEF TypeOK, Shape, Working, SendTask, Threads
  <2>2. tasks' \in [Rounds -> [Agents -> Nat]]
    BY <1>6, <2>1 DEF TypeOK, TypeNetwork, SendTask
  <2> QED
    BY <1>6, <2>2 DEF TypeOK, TypeNetwork, SendTask
<1>7. ASSUME NEW a \in Agents, OnlineBegin(a)
      PROVE  TypeNetwork'
  BY <1>7 DEF TypeOK, TypeNetwork, TypeMemory, TypeLocals, OnlineBegin, ScanNext, Free,
     Session, Sessions, Idle
<1>8. ASSUME NEW a \in Agents, NEW r \in Rounds, OnlineCheck(a, r)
      PROVE  TypeNetwork'
  <2>1. Session("send", r, online[a].left) \in Sessions
    BY DEF TypeOK, TypeNetwork, Session, Sessions
  <2>2. ScanNext(a, online[a].left \ {r}) => online' \in [Agents -> Sessions]
    BY DEF TypeOK, TypeNetwork, ScanNext, Free, Session, Sessions
  <2>3. online' \in [Agents -> Sessions]
    BY <1>8, <2>1, <2>2 DEF TypeOK, TypeNetwork, OnlineCheck
  <2> QED
    BY <1>8, <2>3 DEF TypeOK, TypeNetwork, OnlineCheck
<1>9. ASSUME NEW a \in Agents, OnlineSend(a)
      PROVE  TypeNetwork'
  <2> DEFINE r == online[a].round
  <2>1. r \in Rounds
    BY <1>9 DEF Shape, OnlineSend
  <2>2. Session("mark", r, online[a].left) \in Sessions
    BY <2>1 DEF TypeOK, TypeNetwork, Session, Sessions
  <2>3. ScanNext(a, online[a].left \ {r}) => online' \in [Agents -> Sessions]
    BY DEF TypeOK, TypeNetwork, ScanNext, Free, Session, Sessions
  <2>4. online' \in [Agents -> Sessions]
    BY <1>9, <2>2, <2>3 DEF TypeOK, TypeNetwork, OnlineSend
  <2>5. tasks' \in [Rounds -> [Agents -> Nat]]
    BY <1>9, <2>1 DEF TypeOK, TypeNetwork, OnlineSend
  <2> QED
    BY <1>9, <2>4, <2>5 DEF TypeOK, TypeNetwork, OnlineSend
<1>10. ASSUME NEW a \in Agents, OnlineMark(a)
      PROVE  TypeNetwork'
  BY <1>10 DEF TypeOK, TypeNetwork, TypeMemory, TypeLocals, OnlineMark, ScanNext, Free,
     Session, Sessions, Idle
<1>11. ASSUME NEW r \in Rounds, NEW a \in Agents, NEW ok \in BOOLEAN, Report(r, a, ok)
      PROVE  TypeNetwork'
  BY <1>11 DEF TypeOK, TypeNetwork, TypeMemory, TypeLocals, Report, Accepts, EffOK, Verdict,
     Goto, Sessions, Idle
<1>12. CASE Crash
  BY <1>12 DEF TypeOK, TypeNetwork, TypeMemory, TypeLocals, Crash, EmptyResults, NoTasks,
     NoRow, Free, Session, Swept, Blank, Sessions, Idle
<1>13. CASE Restart
  BY <1>13 DEF TypeOK, TypeNetwork, TypeMemory, TypeLocals, Restart, Goto, Works, Fails,
     Sessions, Idle
<1>14. CASE UNCHANGED <<up, conn, time, tasks, online>>
  BY <1>14 DEF TypeOK, TypeNetwork, memory, locals, store, bounds
<1> QED
  BY <1>1, <1>2, <1>3, <1>4, <1>5, <1>6, <1>7, <1>8, <1>9, <1>10, <1>11, <1>12, <1>13, <1>14
     DEF Next, Network, Dispatching, Redispatching, Finalizing, Recovering, vars, memory,
     locals, store, bounds, CreateRound, MarkSent, InsertResult, FinalizeDue, PingAgent,
     CloseFlight, CloseRound, AddHourlyStat, ApplyAlert, RecoverRound, RecoverBook, SweepOpen

LEMMA TypeMemoryNext == TypeOK /\ Shape /\ [Next]_vars => TypeMemory'
<1> SUFFICES ASSUME TypeOK, Shape, [Next]_vars PROVE TypeMemory'
  OBVIOUS
<1>1. ASSUME NEW r \in Rounds, CreateRound(r)
      PROVE  TypeMemory'
  BY <1>1 DEF TypeOK, TypeMemory, TypeLocals, CreateRound, SendNext, Goto, Works, Fails,
     Blank, Samples
<1>2. CASE MarkSent
  BY <1>2 DEF TypeOK, TypeMemory, TypeLocals, MarkSent, SendNext, Goto, Samples, Shape,
     Working
<1>3. ASSUME NEW a \in Agents, OnlineMark(a)
      PROVE  TypeMemory'
  BY <1>3 DEF TypeOK, TypeMemory, TypeLocals, OnlineMark, ScanNext, Free, Session, Samples,
     Shape, Working
<1>4. ASSUME NEW r \in Rounds, NEW a \in Agents, NEW ok \in BOOLEAN, Report(r, a, ok)
      PROVE  TypeMemory'
  BY <1>4 DEF TypeOK, TypeMemory, TypeLocals, Report, Accepts, EffOK, Verdict, Goto, Samples
<1>5. ASSUME NEW t \in Threads, CloseFlight(t)
      PROVE  TypeMemory'
  BY SMTT(60), <1>5, AggregateType DEF TypeOK, TypeMemory, TypeLocals, CloseFlight, Goto, Samples,
     Shape, Working
<1>6. ASSUME NEW t \in Threads, CloseRound(t)
      PROVE  TypeMemory'
  BY <1>6 DEF TypeOK, TypeMemory, TypeLocals, CloseRound, StillOpen, Finish, Goto, Works,
     Fails, NoRow, Samples
<1>7. CASE Crash
  BY <1>7, SweptType DEF TypeOK, TypeMemory, TypeLocals, Crash, EmptyResults, NoTasks, NoRow,
     Free, Session, Swept, Blank, Samples
<1>8. CASE UNCHANGED <<memory>>
  BY <1>8 DEF TypeOK, TypeMemory, memory, locals, store, bounds
<1> QED
  BY <1>1, <1>2, <1>3, <1>4, <1>5, <1>6, <1>7, <1>8 DEF Next, Network, Dispatching,
     Redispatching, Finalizing, Recovering, vars, memory, locals, store, bounds, Connect,
     Disconnect, LoseTask, Tighten, Expire, SendTask, OnlineBegin, OnlineCheck, OnlineSend,
     InsertResult, FinalizeDue, PingAgent, AddHourlyStat, ApplyAlert, Restart, RecoverRound,
     RecoverBook, SweepOpen

LEMMA TypeLocalsNext == TypeOK /\ Shape /\ [Next]_vars => TypeLocals'
<1> SUFFICES ASSUME TypeOK, Shape, [Next]_vars PROVE TypeLocals'
  OBVIOUS
<1>1. ASSUME NEW r \in Rounds, CreateRound(r)
      PROVE  TypeLocals'
  BY <1>1 DEF TypeOK, TypeMemory, TypeLocals, CreateRound, SendNext, Goto, Works, Fails,
     Blank, Labels, Threads, Idle, Rows
<1>2. ASSUME NEW a \in Agents, SendTask(a)
      PROVE  TypeLocals'
  BY <1>2 DEF TypeOK, TypeMemory, TypeLocals, SendTask, SendNext, Goto, Drop, Labels, Threads,
     Idle, Rows
<1>3. CASE MarkSent
  BY <1>3 DEF TypeOK, TypeMemory, TypeLocals, MarkSent, SendNext, Goto, Labels, Threads, Idle,
     Rows
<1>4. ASSUME NEW r \in Rounds, NEW a \in Agents, NEW ok \in BOOLEAN, Report(r, a, ok)
      PROVE  TypeLocals'
  BY <1>4 DEF TypeOK, TypeMemory, TypeLocals, Report, Accepts, EffOK, Verdict, Goto, Labels,
     Threads, Idle, Rows
<1>5. ASSUME NEW a \in Agents, InsertResult(a)
      PROVE  TypeLocals'
  <2>1. EnterFinalize(a, round[a]) /\ UNCHANGED <<sending, orphans>> => TypeLocals'
    BY <1>5 DEF TypeOK, TypeMemory, TypeLocals, Shape, Working, InsertResult, EnterFinalize, Goto,
       Pending, NoRow, Labels, Threads, Idle, Rows
  <2>2. Finish(a) /\ UNCHANGED <<sending, orphans>> => TypeLocals'
    BY DEF TypeOK, TypeLocals, Finish, Goto, NoRow, Labels, Threads, Idle, Rows
  <2> QED
    BY <1>5, <2>1, <2>2 DEF InsertResult
<1>6. ASSUME NEW r \in Rounds, FinalizeDue(r)
      PROVE  TypeLocals'
  BY <1>6 DEF TypeOK, TypeMemory, TypeLocals, FinalizeDue, EnterFinalize, Goto, Pending,
     NoRow, Labels, Threads, Idle, Rows
<1>7. ASSUME NEW t \in Threads, NEW a \in Agents, PingAgent(t, a)
      PROVE  TypeLocals'
  BY <1>7 DEF TypeOK, TypeMemory, TypeLocals, PingAgent, WasHanded, Drop, Labels, Threads,
     Idle, Rows
<1>8. ASSUME NEW t \in Threads, CloseFlight(t)
      PROVE  TypeLocals'
  BY <1>8 DEF TypeOK, TypeMemory, TypeLocals, CloseFlight, Goto, Labels, Threads, Idle, Rows
<1>9. ASSUME NEW t \in Threads, CloseRound(t)
      PROVE  TypeLocals'
  <2>1. Finish(t) /\ UNCHANGED <<sending, orphans>> => TypeLocals'
    BY DEF TypeOK, TypeLocals, Finish, Goto, NoRow, Labels, Threads, Idle, Rows
  <2>2. Goto(t, "hourly") /\ UNCHANGED <<round, todo, dead, undisp, row, sending, orphans>>
        => TypeLocals'
    BY DEF TypeOK, TypeLocals, Goto, Labels
  <2> QED
    BY <1>9, <2>1, <2>2 DEF CloseRound
<1>10. ASSUME NEW t \in Threads, AddHourlyStat(t)
      PROVE  TypeLocals'
  BY <1>10 DEF TypeOK, TypeMemory, TypeLocals, AddHourlyStat, Book, Goto, Works, Fails,
     Labels, Threads, Idle, Rows
<1>11. ASSUME NEW t \in Threads, ApplyAlert(t)
      PROVE  TypeLocals'
  BY <1>11 DEF TypeOK, TypeMemory, TypeLocals, ApplyAlert, Finish, Goto, NoRow, Labels,
     Threads, Idle, Rows
<1>12. CASE Crash
  BY <1>12 DEF TypeOK, TypeMemory, TypeLocals, Crash, EmptyResults, NoTasks, NoRow, Free,
     Session, Swept, Blank, Labels, Threads, Idle, Rows
<1>13. CASE Restart
  BY <1>13 DEF TypeOK, TypeMemory, TypeLocals, Restart, Goto, Works, Fails, Labels, Threads,
     Idle, Rows
<1>14. ASSUME NEW r \in Rounds, RecoverRound(r)
      PROVE  TypeLocals'
  BY <1>14 DEF TypeOK, TypeMemory, TypeLocals, RecoverRound, Goto, Works, Fails, Labels,
     Threads, Idle, Rows
<1>15. CASE RecoverBook
  BY <1>15 DEF TypeOK, TypeMemory, TypeLocals, RecoverBook, Book, Goto, Works, Fails, Labels,
     Threads, Idle, Rows
<1>16. CASE SweepOpen
  BY <1>16 DEF TypeOK, TypeMemory, TypeLocals, SweepOpen, Goto, Works, Fails, Labels, Threads,
     Idle, Rows
<1>17. CASE UNCHANGED <<locals>>
  BY <1>17 DEF TypeOK, TypeLocals, memory, locals, store, bounds
<1> QED
  BY <1>1, <1>2, <1>3, <1>4, <1>5, <1>6, <1>7, <1>8, <1>9, <1>10, <1>11, <1>12, <1>13, <1>14,
     <1>15, <1>16, <1>17 DEF Next, Network, Dispatching, Redispatching, Finalizing,
     Recovering, vars, memory, locals, store, bounds, Connect, Disconnect, LoseTask, Tighten,
     Expire, OnlineBegin, OnlineCheck, OnlineSend, OnlineMark

LEMMA TypeStoreNext == TypeOK /\ Shape /\ [Next]_vars => TypeStore'
<1> SUFFICES ASSUME TypeOK, Shape, [Next]_vars PROVE TypeStore'
  OBVIOUS
<1>1. ASSUME NEW r \in Rounds, CreateRound(r)
      PROVE  TypeStore'
  <2>1. Blank("OPEN") \in StoredRounds
    BY DEF Blank, StoredRounds
  <2> QED
    BY <1>1, <2>1 DEF TypeOK, TypeStore, CreateRound
<1>2. ASSUME NEW a \in Agents, InsertResult(a)
      PROVE  TypeStore'
  <2> DEFINE r == round[a]
             w == [agent |-> a, ok |-> row[a].ok, late |-> row[a].late, id |-> Cardinality(rows[r])]
  <2>1. r \in Rounds /\ row[a] \in Rows
    BY <1>2 DEF TypeOK, TypeLocals, Shape, Working, InsertResult, Threads
  <2>2. w \in StoredRows
    BY <2>1, FS_CardinalityType DEF TypeOK, TypeStore, Rows, StoredRows
  <2>3. IsFiniteSet(rows[r] \cup {w})
    BY <2>1, FS_AddElement DEF TypeOK, TypeStore
  <2>4. rows' = rows \/ rows' = [rows EXCEPT ![r] = rows[r] \cup {w}]
    BY <1>2, <2>1 DEF TypeOK, TypeStore, InsertResult
  <2>5. rows' \in [Rounds -> SUBSET StoredRows] /\ \A q \in Rounds : IsFiniteSet(rows'[q])
    <3>1. rows \in [Rounds -> SUBSET StoredRows] /\ \A q \in Rounds : IsFiniteSet(rows[q])
      BY DEF TypeOK, TypeStore
    <3> HIDE DEF r, w
    <3>2. CASE rows' = [rows EXCEPT ![r] = rows[r] \cup {w}]
      <4>1. rows[r] \cup {w} \in SUBSET StoredRows
        BY <2>1, <2>2, <3>1
      <4> QED
        BY <2>1, <2>3, <3>1, <3>2, <4>1
    <3> QED
      BY <2>4, <3>1, <3>2
  <2>6. UNCHANGED <<db, hourly, booked, alerted>>
    BY <1>2 DEF InsertResult
  <2> QED
    BY <2>5, <2>6 DEF TypeOK, TypeStore
<1>3. ASSUME NEW t \in Threads, CloseRound(t)
      PROVE  TypeStore'
  <2>1. UNCHANGED <<rows, hourly, booked, alerted>>
    BY <1>3 DEF CloseRound
  <2>2. db' = db \/ db' = [db EXCEPT ![round[t]] = agg[round[t]]]
    BY <1>3 DEF CloseRound
  <2>3. round[t] \in Rounds
    BY <1>3 DEF Shape, Working, CloseRound
  <2>4. agg[round[t]] \in StoredRounds
    BY <2>3, SweptType DEF TypeOK, TypeMemory
  <2>5. db' \in [Rounds -> StoredRounds]
    BY <2>2, <2>3, <2>4 DEF TypeOK, TypeStore
  <2> QED
    BY <2>1, <2>5 DEF TypeOK, TypeStore
<1>4. ASSUME NEW t \in Threads, AddHourlyStat(t)
      PROVE  TypeStore'
  BY SMTT(60), <1>4 DEF TypeOK, TypeMemory, TypeLocals, TypeStore, AddHourlyStat, Book, Goto, Works,
     Fails, StoredRows, StoredRounds, Outcome, DecidedStates, Shape, Working
<1>5. ASSUME NEW t \in Threads, ApplyAlert(t)
      PROVE  TypeStore'
  <2>1. round[t] \in Rounds
    BY <1>5 DEF Shape, Working, ApplyAlert
  <2>2. alerted' \in Seq(Rounds)
    BY <1>5, <2>1 DEF TypeOK, TypeStore, ApplyAlert
  <2> QED
    BY <1>5, <2>2 DEF TypeOK, TypeStore, ApplyAlert, store
<1>6. ASSUME NEW r \in Rounds, RecoverRound(r)
      PROVE  TypeStore'
  <2>1. Recount(rows[r]) \in StoredRounds
    BY RecountType, SweptType DEF TypeOK, TypeStore
  <2> QED
    BY <1>6, <2>1 DEF TypeOK, TypeStore, RecoverRound
<1>7. CASE RecoverBook
  <2> DEFINE r == round[Sched]
  <2>1. r \in Rounds
    BY <1>7 DEF Shape, Working, RecoverBook, Threads
  <2>2. db[r].valid \in Nat /\ db[r].success \in Nat
    BY <2>1 DEF TypeOK, TypeStore, StoredRounds
  <2>3. /\ hourly' \in [rounds : Nat, valid : Nat, success : Nat]
        /\ booked' \in SUBSET Rounds
    BY SMTT(60), <1>7, <2>1, <2>2 DEF TypeOK, TypeStore, RecoverBook, Book
  <2> QED
    BY <1>7, <2>3 DEF TypeOK, TypeStore, RecoverBook
<1>8. CASE SweepOpen
  <2>1. db' \in [Rounds -> StoredRounds]
    BY <1>8, SweptType DEF TypeOK, TypeStore, SweepOpen
  <2> QED
    BY <1>8, <2>1 DEF TypeOK, TypeStore, SweepOpen
<1>9. CASE UNCHANGED <<store, alerted>>
  BY <1>9 DEF TypeOK, TypeStore, memory, locals, store, bounds
<1> QED
  BY <1>1, <1>2, <1>3, <1>4, <1>5, <1>6, <1>7, <1>8, <1>9 DEF Next, Network, Dispatching,
     Redispatching, Finalizing, Recovering, vars, memory, locals, store, bounds, Connect,
     Disconnect, LoseTask, Tighten, Expire, SendTask, MarkSent, OnlineBegin, OnlineCheck,
     OnlineSend, OnlineMark, Report, FinalizeDue, PingAgent, CloseFlight, Crash, Restart

LEMMA TypeBoundsNext == TypeOK /\ Shape /\ [Next]_vars => TypeBounds'
<1> SUFFICES ASSUME TypeOK, Shape, [Next]_vars PROVE TypeBounds'
  OBVIOUS
<1>1. ASSUME NEW a \in Agents, Disconnect(a)
      PROVE  TypeBounds'
  BY <1>1 DEF TypeOK, TypeBounds, Disconnect, Drop
<1>2. ASSUME NEW r \in Rounds, NEW a \in Agents, LoseTask(r, a)
      PROVE  TypeBounds'
  BY <1>2 DEF TypeOK, TypeBounds, LoseTask, Drop
<1>3. ASSUME NEW r \in Rounds, CreateRound(r)
      PROVE  TypeBounds'
  BY <1>3 DEF TypeOK, TypeBounds, CreateRound, SendNext, Goto, Works, Fails, Blank
<1>4. ASSUME NEW a \in Agents, SendTask(a)
      PROVE  TypeBounds'
  BY <1>4 DEF TypeOK, TypeBounds, SendTask, SendNext, Goto, Drop
<1>5. ASSUME NEW a \in Agents, OnlineSend(a)
      PROVE  TypeBounds'
  BY <1>5 DEF TypeOK, TypeBounds, OnlineSend, ScanNext, Free, Session, Drop
<1>6. ASSUME NEW a \in Agents, InsertResult(a)
      PROVE  TypeBounds'
  BY <1>6 DEF TypeOK, TypeBounds, InsertResult, Complete, EnterFinalize, Finish, Goto, Works,
     Fails, Pending, NoRow
<1>7. ASSUME NEW t \in Threads, NEW a \in Agents, PingAgent(t, a)
      PROVE  TypeBounds'
  BY <1>7 DEF TypeOK, TypeBounds, PingAgent, WasHanded, Drop
<1>8. ASSUME NEW t \in Threads, CloseRound(t)
      PROVE  TypeBounds'
  BY <1>8 DEF TypeOK, TypeBounds, CloseRound, StillOpen, Finish, Goto, Works, Fails, NoRow
<1>9. ASSUME NEW t \in Threads, AddHourlyStat(t)
      PROVE  TypeBounds'
  BY <1>9 DEF TypeOK, TypeBounds, AddHourlyStat, Book, Goto, Works, Fails
<1>10. CASE Crash
  BY <1>10 DEF TypeOK, TypeBounds, Crash, EmptyResults, NoTasks, NoRow, Free, Session, Swept,
     Blank
<1>11. CASE Restart
  BY <1>11 DEF TypeOK, TypeBounds, Restart, Goto, Works, Fails
<1>12. ASSUME NEW r \in Rounds, RecoverRound(r)
      PROVE  TypeBounds'
  BY <1>12 DEF TypeOK, TypeBounds, RecoverRound, Goto, Works, Fails
<1>13. CASE RecoverBook
  BY <1>13 DEF TypeOK, TypeBounds, RecoverBook, Book, Goto, Works, Fails
<1>14. CASE SweepOpen
  BY <1>14 DEF TypeOK, TypeBounds, SweepOpen, Goto, Works, Fails
<1>15. CASE UNCHANGED <<bounds>>
  BY <1>15 DEF TypeOK, TypeBounds, memory, locals, store, bounds
<1> QED
  BY <1>1, <1>2, <1>3, <1>4, <1>5, <1>6, <1>7, <1>8, <1>9, <1>10, <1>11, <1>12, <1>13, <1>14,
     <1>15 DEF Next, Network, Dispatching, Redispatching, Finalizing, Recovering, vars,
     memory, locals, store, bounds, Connect, Tighten, Expire, MarkSent, OnlineBegin,
     OnlineCheck, OnlineMark, Report, FinalizeDue, CloseFlight, ApplyAlert

LEMMA ShapeInit == Init => Shape
  BY DEF Init, Shape, Working, Free, Session, Idle, Threads

LEMMA ShapeNext == TypeOK /\ Shape /\ [Next]_vars => Shape'
<1> SUFFICES ASSUME TypeOK, Shape, [Next]_vars PROVE Shape'
  OBVIOUS
<1> USE DEF Shape, Working, Threads
<1>1. ASSUME NEW a \in Agents, Connect(a)
      PROVE  Shape'
  BY <1>1 DEF TypeOK, TypeNetwork, TypeLocals, Idle, Connect, Free, Session, memory, locals,
     store
<1>2. ASSUME NEW r \in Rounds, CreateRound(r)
      PROVE  Shape'
  BY <1>2 DEF TypeOK, TypeNetwork, TypeLocals, Idle, CreateRound, SendNext, Goto, Works,
     Fails, Blank, memory, locals, store
<1>3. ASSUME NEW a \in Agents, SendTask(a)
      PROVE  Shape'
  BY <1>3 DEF TypeOK, TypeNetwork, TypeLocals, Idle, SendTask, SendNext, Goto, Drop, memory,
     locals, store
<1>4. CASE MarkSent
  BY <1>4 DEF TypeOK, TypeNetwork, TypeLocals, Idle, MarkSent, SendNext, Goto, memory, locals,
     store
<1>5. ASSUME NEW a \in Agents, OnlineBegin(a)
      PROVE  Shape'
  BY <1>5 DEF TypeOK, TypeNetwork, TypeLocals, Idle, OnlineBegin, ScanNext, Free, Session,
     memory, locals, store
<1>6. ASSUME NEW a \in Agents, NEW r \in Rounds, OnlineCheck(a, r)
      PROVE  Shape'
  BY SMTT(60), <1>6 DEF TypeOK, TypeNetwork, TypeLocals, Idle, OnlineCheck, ScanNext, Free, Session,
     memory, locals, store
<1>7. ASSUME NEW a \in Agents, OnlineSend(a)
      PROVE  Shape'
  BY SMTT(60), <1>7 DEF TypeOK, TypeNetwork, TypeLocals, Idle, OnlineSend, ScanNext, Free, Session,
     Drop, memory, locals, store
<1>8. ASSUME NEW a \in Agents, OnlineMark(a)
      PROVE  Shape'
  BY <1>8 DEF TypeOK, TypeNetwork, TypeLocals, Idle, OnlineMark, ScanNext, Free, Session,
     memory, locals, store
<1>9. ASSUME NEW r \in Rounds, NEW a \in Agents, NEW ok \in BOOLEAN, Report(r, a, ok)
      PROVE  Shape'
  BY <1>9 DEF TypeOK, TypeNetwork, TypeLocals, Idle, Report, Accepts, EffOK, Verdict, Goto,
     memory, locals, store
<1>10. ASSUME NEW a \in Agents, InsertResult(a)
      PROVE  Shape'
  BY <1>10 DEF TypeOK, TypeNetwork, TypeLocals, Idle, InsertResult, Complete, EnterFinalize,
     Finish, Goto, Works, Fails, Pending, NoRow, memory, locals, store
<1>11. ASSUME NEW r \in Rounds, FinalizeDue(r)
      PROVE  Shape'
  BY <1>11 DEF TypeOK, TypeNetwork, TypeLocals, Idle, FinalizeDue, EnterFinalize, Goto,
     Pending, NoRow, memory, locals, store
<1>12. ASSUME NEW t \in Threads, NEW a \in Agents, PingAgent(t, a)
      PROVE  Shape'
  BY <1>12 DEF TypeOK, TypeNetwork, TypeLocals, Idle, PingAgent, WasHanded, Drop, memory,
     locals, store
<1>13. ASSUME NEW t \in Threads, CloseFlight(t)
      PROVE  Shape'
  BY <1>13 DEF TypeOK, TypeNetwork, TypeLocals, Idle, CloseFlight, Goto, memory, locals, store
<1>14. ASSUME NEW t \in Threads, CloseRound(t)
      PROVE  Shape'
  BY <1>14 DEF TypeOK, TypeNetwork, TypeLocals, Idle, CloseRound, StillOpen, Finish, Goto,
     Works, Fails, NoRow, memory, locals, store
<1>15. ASSUME NEW t \in Threads, AddHourlyStat(t)
      PROVE  Shape'
  BY <1>15 DEF TypeOK, TypeNetwork, TypeLocals, Idle, AddHourlyStat, Book, Goto, Works, Fails,
     memory, locals, store
<1>16. ASSUME NEW t \in Threads, ApplyAlert(t)
      PROVE  Shape'
  BY <1>16 DEF TypeOK, TypeNetwork, TypeLocals, Idle, ApplyAlert, Finish, Goto, NoRow, memory,
     locals, store
<1>17. CASE Crash
  BY <1>17 DEF TypeOK, TypeNetwork, TypeLocals, Idle, Crash, EmptyResults, NoTasks, NoRow,
     Free, Session, Swept, Blank, memory, locals, store
<1>18. CASE Restart
  BY <1>18 DEF TypeOK, TypeNetwork, TypeLocals, Idle, Restart, Goto, Works, Fails, memory,
     locals, store
<1>19. ASSUME NEW r \in Rounds, RecoverRound(r)
      PROVE  Shape'
  BY <1>19 DEF TypeOK, TypeNetwork, TypeLocals, Idle, RecoverRound, Goto, Works, Fails,
     memory, locals, store
<1>20. CASE RecoverBook
  BY <1>20 DEF TypeOK, TypeNetwork, TypeLocals, Idle, RecoverBook, Book, Goto, Works, Fails,
     memory, locals, store
<1>21. CASE SweepOpen
  BY <1>21 DEF TypeOK, TypeNetwork, TypeLocals, Idle, SweepOpen, Goto, Works, Fails, memory,
     locals, store
<1>22. CASE UNCHANGED <<pc, round, sending, online>>
  BY <1>22
<1> QED
  BY <1>1, <1>2, <1>3, <1>4, <1>5, <1>6, <1>7, <1>8, <1>9, <1>10, <1>11, <1>12, <1>13, <1>14,
     <1>15, <1>16, <1>17, <1>18, <1>19, <1>20, <1>21, <1>22 DEF Next, Network, Dispatching,
     Redispatching, Finalizing, Recovering, vars, locals, Disconnect, LoseTask, Tighten,
     Expire

-----------------------------------------------------------------------------
\* The shape of the state and the type of every variable hold together.
TypeInv == TypeOK /\ Shape

LEMMA TypeInvInductive == (Init => TypeInv) /\ (TypeInv /\ [Next]_vars => TypeInv')
<1>1. TypeOK /\ Shape /\ [Next]_vars => TypeOK'
  BY TypeNetworkNext, TypeMemoryNext, TypeLocalsNext, TypeStoreNext, TypeBoundsNext
     DEF TypeOK
<1> QED
  BY <1>1, TypeInit, ShapeInit, ShapeNext DEF TypeInv

\* Every variable keeps its type, for any set of nodes, any set of rounds and
\* any bounds: no handler stores an outcome that is not one, and no counter
\* becomes negative.
THEOREM TypeCorrect == Safe => []TypeOK
<1>1. Init => TypeInv
  BY TypeInvInductive
<1>2. TypeInv /\ [Next]_vars => TypeInv'
  BY TypeInvInductive
<1>3. TypeInv => TypeOK
  BY DEF TypeInv
<1> QED
  BY <1>1, <1>2, <1>3, PTL DEF Safe

-----------------------------------------------------------------------------
(* The ledger and the blame.                                               *)

\* While the dashboard is down or starts up no round is in flight, so that no
\* thread can close one: the reports that arrive are late.
Quiet ==
  /\ ~up => \A t \in Threads : pc[t] = Idle
  /\ ~up \/ pc[Sched] \in {"recover", "rebook"} =>
       /\ flights = {}
       /\ \A a \in Agents : pc[a] = Idle \/ (pc[a] = "insert" /\ row[a].late)
  /\ orphans # {} => pc[Sched] \in {"recover", "rebook"}

\* A round without outcome has no counters; only OPEN rounds are recounted.
Undecided ==
  \A r \in Rounds :
    /\ db[r].state = "none" => db[r] = Blank("none")
    /\ db[r].state = "OPEN" => db[r] = Blank("OPEN")
    /\ r \in orphans => db[r].state = "OPEN"

\* The thread whose UPDATE closed the row is the only one to book the round
\* and to hand it to the alert, and it does so once.
Won == {"hourly", "alert"}
ClosingIsClosed ==
  \A t \in Threads : pc[t] \in {"persist", "hourly", "alert"} => round[t] \in closed
WonIsNew ==
  \A t \in Threads : pc[t] \in Won =>
    Decided(round[t]) /\ \A i \in DOMAIN alerted : alerted[i] # round[t]
HourlyIsNew ==
  \A t \in Threads : pc[t] = "hourly" =>
    db[round[t]] = agg[round[t]] /\ round[t] \notin booked
OneWinner ==
  \A t, u \in Threads : pc[t] \in Won /\ pc[u] \in Won /\ round[t] = round[u] => t = u
RebookIsNew == pc[Sched] = "rebook" => Decided(round[Sched]) /\ round[Sched] \notin booked
BookedIsDecided == \A r \in booked : Decided(r)

Winner ==
  /\ ClosingIsClosed /\ WonIsNew /\ HourlyIsNew /\ OneWinner
  /\ RebookIsNew /\ BookedIsDecided /\ AlertAtMostOnce

LedgerInv == TypeInv /\ Quiet /\ Undecided /\ Winner

\* A thread that pings knows of every silent node: still to ping, dead, never
\* handed the task, or handed it.
Accounted ==
  \A t \in Threads : pc[t] = "ping" =>
    \A a \in Agents : results[round[t]][a] = "none" /\ a \notin dispatched[round[t]] =>
      a \in todo[t] \cup dead[t] \cup undisp[t]

BlameInv == TypeInv /\ Accounted /\ NeverSentNeverBlamed

\* The stored aggregation is the decision table applied to the samples the
\* round holds now: none is accepted after the round has closed.
Aggregated ==
  \A r \in closed : \E D, U \in SUBSET Agents : agg[r] = Aggregate(r, results[r], D, U)

AcceptInv == TypeInv /\ Aggregated
-----------------------------------------------------------------------------
(* The ledger.                                                             *)

LEMMA QuietInit == Init => Quiet
  BY DEF Init, Quiet, Idle, Threads

LEMMA QuietNext == TypeInv /\ Quiet /\ [Next]_vars => Quiet'
<1> SUFFICES ASSUME TypeInv, Quiet, [Next]_vars PROVE Quiet'
  OBVIOUS
<1> USE DEF Quiet, Threads, Idle
<1>1. ASSUME NEW r \in Rounds, CreateRound(r)
      PROVE  Quiet'
  BY <1>1 DEF CreateRound, SendNext, Goto, Works, Fails, Blank, TypeInv, TypeOK, TypeMemory,
     TypeLocals, memory, locals, store
<1>2. ASSUME NEW a \in Agents, SendTask(a)
      PROVE  Quiet'
  BY <1>2 DEF SendTask, SendNext, Goto, Drop, TypeInv, TypeOK, TypeMemory, TypeLocals, memory,
     locals, store
<1>3. CASE MarkSent
  BY <1>3 DEF MarkSent, SendNext, Goto, TypeInv, TypeOK, TypeMemory, TypeLocals, memory,
     locals, store
<1>4. ASSUME NEW r \in Rounds, NEW a \in Agents, NEW ok \in BOOLEAN, Report(r, a, ok)
      PROVE  Quiet'
  BY <1>4 DEF Report, Accepts, EffOK, Verdict, Goto, TypeInv, TypeOK, TypeMemory, TypeLocals,
     memory, locals, store
<1>5. ASSUME NEW a \in Agents, InsertResult(a)
      PROVE  Quiet'
  BY <1>5 DEF InsertResult, Complete, EnterFinalize, Finish, Goto, Works, Fails, Pending,
     NoRow, TypeInv, TypeOK, TypeMemory, TypeLocals, memory, locals, store
<1>6. ASSUME NEW r \in Rounds, FinalizeDue(r)
      PROVE  Quiet'
  BY <1>6 DEF FinalizeDue, EnterFinalize, Goto, Pending, NoRow, TypeInv, TypeOK, TypeMemory,
     TypeLocals, memory, locals, store
<1>7. ASSUME NEW t \in Threads, NEW a \in Agents, PingAgent(t, a)
      PROVE  Quiet'
  BY <1>7 DEF PingAgent, WasHanded, Drop, TypeInv, TypeOK, TypeMemory, TypeLocals, memory,
     locals, store
<1>8. ASSUME NEW t \in Threads, CloseFlight(t)
      PROVE  Quiet'
  BY <1>8 DEF CloseFlight, Goto, TypeInv, TypeOK, TypeMemory, TypeLocals, memory, locals,
     store
<1>9. ASSUME NEW t \in Threads, CloseRound(t)
      PROVE  Quiet'
  BY <1>9 DEF CloseRound, StillOpen, Finish, Goto, Works, Fails, NoRow, TypeInv, TypeOK,
     TypeMemory, TypeLocals, memory, locals, store
<1>10. ASSUME NEW t \in Threads, AddHourlyStat(t)
      PROVE  Quiet'
  BY <1>10 DEF AddHourlyStat, Book, Goto, Works, Fails, TypeInv, TypeOK, TypeMemory,
     TypeLocals, memory, locals, store
<1>11. ASSUME NEW t \in Threads, ApplyAlert(t)
      PROVE  Quiet'
  BY <1>11 DEF ApplyAlert, Finish, Goto, NoRow, TypeInv, TypeOK, TypeMemory, TypeLocals,
     memory, locals, store
<1>12. CASE Crash
  BY <1>12 DEF Crash, EmptyResults, NoTasks, NoRow, Free, Session, Swept, Blank, TypeInv,
     TypeOK, TypeMemory, TypeLocals, memory, locals, store
<1>13. CASE Restart
  BY <1>13, ThreadAssumption DEF Restart, Goto, Works, Fails, TypeInv, TypeOK, TypeMemory,
     TypeLocals, memory, locals, store
<1>14. ASSUME NEW r \in Rounds, RecoverRound(r)
      PROVE  Quiet'
  BY <1>14 DEF RecoverRound, Goto, Works, Fails, TypeInv, TypeOK, TypeMemory, TypeLocals,
     memory, locals, store
<1>15. CASE RecoverBook
  BY <1>15 DEF RecoverBook, Book, Goto, Works, Fails, TypeInv, TypeOK, TypeMemory, TypeLocals,
     memory, locals, store
<1>16. CASE SweepOpen
  BY <1>16 DEF SweepOpen, Goto, Works, Fails, TypeInv, TypeOK, TypeMemory, TypeLocals, memory,
     locals, store
<1>17. CASE UNCHANGED <<up, flights, pc, row, orphans>>
  BY <1>17
<1> QED
  BY <1>1, <1>2, <1>3, <1>4, <1>5, <1>6, <1>7, <1>8, <1>9, <1>10, <1>11, <1>12, <1>13, <1>14,
     <1>15, <1>16, <1>17 DEF Next, Network, Dispatching, Redispatching, Finalizing,
     Recovering, vars, memory, locals, store, Connect, Disconnect, LoseTask, Tighten, Expire,
     OnlineBegin, OnlineCheck, OnlineSend, OnlineMark

LEMMA UndecidedInit == Init => Undecided
  BY DEF Init, Undecided, Blank

LEMMA UndecidedNext == TypeInv /\ Quiet /\ Undecided /\ [Next]_vars => Undecided'
<1> SUFFICES ASSUME TypeInv, Quiet, Undecided, [Next]_vars PROVE Undecided'
  OBVIOUS
<1> USE DEF Undecided
<1>1. ASSUME NEW r \in Rounds, CreateRound(r)
      PROVE  Undecided'
  <2>1. Blank("OPEN").state = "OPEN"
    BY DEF Blank
  <2> QED
    BY <1>1, <2>1 DEF CreateRound, TypeInv, TypeOK, TypeStore, Quiet, Works, Fails
<1>2. ASSUME NEW t \in Threads, CloseRound(t)
      PROVE  Undecided'
  <2> DEFINE r == round[t]
  <2>1. r \in Rounds /\ r \notin orphans
    BY <1>2, ThreadAssumption DEF CloseRound, TypeInv, TypeOK, TypeLocals, Shape, Working, Quiet, Threads, Idle
  <2>2. agg[r].state \notin {"none", "OPEN"}
    BY <2>1 DEF TypeInv, TypeOK, TypeMemory, Outcome, DecidedStates
  <2>3. db' = db \/ db' = [db EXCEPT ![r] = agg[r]]
    BY <1>2 DEF CloseRound
  <2>4. orphans' = orphans
    BY <1>2 DEF CloseRound
  <2> QED
    BY <2>1, <2>2, <2>3, <2>4 DEF TypeInv, TypeOK, TypeStore
<1>3. CASE Crash
  BY <1>3 DEF Crash, EmptyResults, NoTasks, NoRow, Free, Session, Swept, Blank, TypeInv,
     TypeOK, TypeMemory, TypeStore, memory, locals, store
<1>4. CASE Restart
  BY <1>4 DEF Restart, Goto, Works, Fails, TypeInv, TypeOK, TypeMemory, TypeStore, memory,
     locals, store
<1>5. ASSUME NEW r \in Rounds, RecoverRound(r)
      PROVE  Undecided'
  <2>1. Recount(rows[r]).state \notin {"none", "OPEN"}
    BY RecountType DEF TypeInv, TypeOK, TypeStore, Outcome, DecidedStates
  <2>2. db' = db \/ db' = [db EXCEPT ![r] = Recount(rows[r])]
    BY <1>5 DEF RecoverRound
  <2>3. orphans' = orphans \ {r}
    BY <1>5 DEF RecoverRound
  <2> QED
    BY <2>1, <2>2, <2>3 DEF TypeInv, TypeOK, TypeStore
<1>6. CASE SweepOpen
  <2>1. Swept.state = "UNKNOWN"
    BY DEF Swept, Blank
  <2>2. orphans' = {}
    BY <1>6 DEF SweepOpen
  <2> QED
    BY <1>6, <2>1, <2>2 DEF SweepOpen, TypeInv, TypeOK, TypeStore
<1>7. CASE UNCHANGED <<db, orphans>>
  BY <1>7
<1> QED
  BY <1>1, <1>2, <1>3, <1>4, <1>5, <1>6, <1>7 DEF Next, Network, Dispatching, Redispatching,
     Finalizing, Recovering, vars, memory, locals, store, Connect, Disconnect, LoseTask,
     Tighten, Expire, SendTask, MarkSent, OnlineBegin, OnlineCheck, OnlineSend, OnlineMark,
     Report, InsertResult, FinalizeDue, PingAgent, CloseFlight, AddHourlyStat, ApplyAlert,
     RecoverBook

\* A decided round keeps its outcome.
LEMMA DecidedIsFinal ==
  ASSUME LedgerInv, [Next]_vars, NEW r \in Rounds, Decided(r)
  PROVE  db'[r] = db[r]
<1>1. db[r].state \notin {"none", "OPEN"}
  BY DEF Decided, DecidedStates
<1>2. r \notin orphans
  BY <1>1 DEF LedgerInv, Undecided
<1> USE DEF LedgerInv, TypeInv, TypeOK, TypeStore
<1>3. ASSUME NEW q \in Rounds, CreateRound(q) PROVE db'[r] = db[r]
  BY <1>1, <1>3 DEF CreateRound
<1>4. ASSUME NEW t \in Threads, CloseRound(t) PROVE db'[r] = db[r]
  BY <1>1, <1>4 DEF CloseRound, StillOpen
<1>5. ASSUME NEW q \in Rounds, RecoverRound(q) PROVE db'[r] = db[r]
  BY <1>2, <1>5 DEF RecoverRound
<1>6. CASE SweepOpen
  BY <1>1, <1>6 DEF SweepOpen
<1>7. CASE UNCHANGED db
  BY <1>7
<1> QED
  BY <1>3, <1>4, <1>5, <1>6, <1>7
     DEF Next, Network, Dispatching, Redispatching, Finalizing, Recovering, vars, store,
        Connect, Disconnect, LoseTask, Tighten, Expire, SendTask, MarkSent, OnlineBegin,
        OnlineCheck, OnlineSend, OnlineMark, Report, InsertResult, FinalizeDue, PingAgent,
        CloseFlight, AddHourlyStat, ApplyAlert, Crash, Restart, RecoverBook

\* A step that starts no thread on closing or booking a round, and books and
\* alerts nothing, keeps the winners.
LEMMA HarmlessStep ==
  ASSUME LedgerInv, [Next]_vars, UNCHANGED <<agg, closed, booked, alerted>>,
         \A t \in Threads : pc'[t] \in {"persist", "hourly", "alert", "rebook"}
            => pc'[t] = pc[t] /\ round'[t] = round[t]
  PROVE  Winner'
<1>1. \A q \in Rounds : Decided(q) => db'[q] = db[q] /\ Decided(q)'
  BY DecidedIsFinal DEF Decided
<1>2. \A t \in Threads : pc[t] \in {"hourly", "alert", "rebook"} => round[t] \in Rounds
  BY DEF LedgerInv, TypeInv, Shape, Working
<1>3. booked \subseteq Rounds /\ \A i \in DOMAIN alerted : alerted[i] \in Rounds
  BY DEF LedgerInv, TypeInv, TypeOK, TypeStore
<1> USE DEF LedgerInv, Winner, Won, Threads
<1>4. ClosingIsClosed'
  BY DEF ClosingIsClosed
<1>5. WonIsNew'
  BY <1>1, <1>2 DEF WonIsNew
<1>6. HourlyIsNew'
  BY <1>1, <1>2 DEF WonIsNew, HourlyIsNew
<1>7. OneWinner'
  BY DEF OneWinner
<1>8. RebookIsNew'
  BY <1>1, <1>2 DEF RebookIsNew
<1>9. BookedIsDecided'
  BY <1>1, <1>3 DEF BookedIsDecided
<1>10. AlertAtMostOnce'
  BY <1>1, <1>3 DEF AlertAtMostOnce
<1> QED
  BY <1>4, <1>5, <1>6, <1>7, <1>8, <1>9, <1>10

LEMMA WinnerCloseRound ==
  ASSUME LedgerInv, [Next]_vars, NEW t \in Threads, CloseRound(t)
  PROVE  Winner'
<1> DEFINE r == round[t]
<1>1. r \in Rounds /\ r \in closed /\ pc \in [Threads -> Labels]
  BY DEF CloseRound, LedgerInv, TypeInv, TypeOK, TypeLocals, Shape, Working, Winner,
     ClosingIsClosed
<1>2. UNCHANGED <<agg, closed, booked, alerted>>
  BY DEF CloseRound
<1>3. CASE Finish(t)
  <2>1. \A u \in Threads : u # t => pc'[u] = pc[u] /\ round'[u] = round[u]
    BY <1>3 DEF Finish, Goto, LedgerInv, TypeInv, TypeOK, TypeLocals
  <2>2. pc'[t] = Idle
    BY <1>1, <1>3 DEF Finish, Goto
  <2> QED
    BY <1>2, <2>1, <2>2, HarmlessStep DEF Idle
<1>4. CASE ~Finish(t)
  <2>1. /\ db[r].state = "OPEN" /\ db' = [db EXCEPT ![r] = agg[r]]
        /\ pc' = [pc EXCEPT ![t] = "hourly"] /\ round' = round
    BY <1>4 DEF CloseRound, StillOpen, Goto
  <2>2. db'[r] = agg[r] /\ Decided(r)' /\ ~Decided(r)
    BY <1>1, <2>1 DEF LedgerInv, TypeInv, TypeOK, TypeStore, TypeMemory, Outcome, Decided,
       DecidedStates
  <2>3. \A q \in Rounds : Decided(q) => db'[q] = db[q] /\ Decided(q)'
    BY DecidedIsFinal DEF Decided
  <2>4. \A u \in Threads : pc[u] \in {"hourly", "alert", "rebook"} => round[u] \in Rounds
    BY DEF LedgerInv, TypeInv, Shape, Working
  <2>5. booked \subseteq Rounds /\ \A i \in DOMAIN alerted : alerted[i] \in Rounds
    BY DEF LedgerInv, TypeInv, TypeOK, TypeStore
  <2>6. \A u \in Threads : u # t => pc'[u] = pc[u]
    BY <1>1, <2>1
  <2>7. pc'[t] = "hourly"
    BY <1>1, <2>1
  <2> USE DEF LedgerInv, Winner, Won, Threads
  <2>8. r \notin booked /\ \A i \in DOMAIN alerted : alerted[i] # r
    BY <2>2 DEF BookedIsDecided, AlertAtMostOnce
  <2>9. \A u \in Threads : pc[u] \in Won => round[u] # r
    BY <2>2 DEF WonIsNew
  <2>10. ClosingIsClosed'
    BY <1>1, <1>2, <2>1, <2>6 DEF ClosingIsClosed
  <2>11. WonIsNew'
    BY <1>2, <2>1, <2>2, <2>3, <2>4, <2>6, <2>8 DEF WonIsNew
  <2>12. HourlyIsNew'
    BY <1>2, <2>1, <2>2, <2>3, <2>4, <2>6, <2>8 DEF WonIsNew, HourlyIsNew
  <2>13. OneWinner'
    BY <2>1, <2>6, <2>9 DEF OneWinner
  <2>14. RebookIsNew'
    BY <1>2, <2>1, <2>3, <2>4, <2>6, <2>7 DEF RebookIsNew
  <2>15. BookedIsDecided'
    BY <1>2, <2>3, <2>5 DEF BookedIsDecided
  <2>16. AlertAtMostOnce'
    BY <1>2, <2>3, <2>5 DEF AlertAtMostOnce
  <2> QED
    BY <2>10, <2>11, <2>12, <2>13, <2>14, <2>15, <2>16
<1> QED
  BY <1>3, <1>4

\* The booking threads; the round is new to the counters and stays decided.
LEMMA WinnerAddHourlyStat ==
  ASSUME LedgerInv, [Next]_vars, NEW t \in Threads, AddHourlyStat(t)
  PROVE  Winner'
<1> DEFINE r == round[t]
<1>1. /\ pc[t] = "hourly" /\ pc' = [pc EXCEPT ![t] = "alert"]
      /\ booked' = booked \/ booked' = booked \cup {r}
      /\ UNCHANGED <<db, agg, closed, alerted, round>>
  BY DEF AddHourlyStat, Book, Goto, memory
<1>2. pc \in [Threads -> Labels]
  BY DEF LedgerInv, TypeInv, TypeOK, TypeLocals
<1>3. pc'[t] = "alert" /\ \A u \in Threads : u # t => pc'[u] = pc[u]
  BY <1>1, <1>2
<1> USE DEF LedgerInv, Winner, Won, Threads
<1>4. Decided(r)
  BY <1>1 DEF WonIsNew
<1>5. \A u \in Threads : pc[u] \in Won /\ u # t => round[u] # r
  BY <1>1 DEF OneWinner
<1>6. pc'[Sched] # "rebook" \/ pc[Sched] = "rebook"
  BY <1>1, <1>3
<1>7. t = Sched \/ ~(pc[Sched] = "rebook")
  BY <1>1, ThreadAssumption DEF Quiet, Idle
<1>8. ClosingIsClosed'
  BY <1>1, <1>3 DEF ClosingIsClosed
<1>9. WonIsNew'
  BY <1>1, <1>3 DEF WonIsNew, Decided
<1>10. HourlyIsNew'
  BY <1>1, <1>3, <1>5 DEF HourlyIsNew
<1>11. OneWinner'
  BY <1>1, <1>3 DEF OneWinner
<1>12. RebookIsNew'
  BY <1>3, <1>7 DEF RebookIsNew
<1>13. BookedIsDecided'
  BY <1>1, <1>4 DEF BookedIsDecided, Decided
<1>14. AlertAtMostOnce'
  BY <1>1 DEF AlertAtMostOnce, Decided
<1> QED
  BY <1>8, <1>9, <1>10, <1>11, <1>12, <1>13, <1>14

LEMMA WinnerApplyAlert ==
  ASSUME LedgerInv, [Next]_vars, NEW t \in Threads, ApplyAlert(t)
  PROVE  Winner'
<1> DEFINE r == round[t]
<1>1. /\ pc[t] = "alert" /\ pc' = [pc EXCEPT ![t] = Idle] /\ round' = [round EXCEPT ![t] = NoRound]
      /\ alerted' = Append(alerted, r)
      /\ UNCHANGED <<db, booked, agg, closed>>
  BY DEF ApplyAlert, Finish, Goto, memory, store
<1>2. pc \in [Threads -> Labels] /\ round \in [Threads -> Rounds \cup {NoRound}]
  BY DEF LedgerInv, TypeInv, TypeOK, TypeLocals
<1>3. pc'[t] = Idle /\ \A u \in Threads : u # t => pc'[u] = pc[u] /\ round'[u] = round[u]
  BY <1>1, <1>2
<1>4. r \in Rounds /\ alerted \in Seq(Rounds)
  BY <1>1 DEF LedgerInv, TypeInv, TypeOK, TypeStore, Shape, Working
<1>5. /\ Len(alerted) \in Nat /\ DOMAIN alerted = 1 .. Len(alerted)
      /\ DOMAIN alerted' = 1 .. Len(alerted) + 1
      /\ alerted'[Len(alerted) + 1] = r
      /\ \A i \in DOMAIN alerted : alerted'[i] = alerted[i]
  BY <1>1, <1>4
<1> USE DEF LedgerInv, Winner, Won, Threads, Idle
<1>6. Decided(r) /\ \A i \in DOMAIN alerted : alerted[i] # r
  BY <1>1 DEF WonIsNew
<1>7. \A u \in Threads : pc[u] \in Won /\ u # t => round[u] # r
  BY <1>1 DEF OneWinner
<1>8. \A i \in DOMAIN alerted' : i \in DOMAIN alerted \/ alerted'[i] = r
  BY <1>5
<1>9. ClosingIsClosed'
  BY <1>1, <1>3 DEF ClosingIsClosed
<1>10. WonIsNew'
  BY <1>1, <1>3, <1>5, <1>7, <1>8 DEF WonIsNew, Decided
<1>11. HourlyIsNew'
  BY <1>1, <1>3 DEF HourlyIsNew
<1>12. OneWinner'
  BY <1>3 DEF OneWinner
<1>13. RebookIsNew'
  BY <1>1, <1>3 DEF RebookIsNew, Decided
<1>14. BookedIsDecided'
  BY <1>1 DEF BookedIsDecided, Decided
<1>15. \A i \in DOMAIN alerted' : db'[alerted'[i]].state \in DecidedStates
  BY <1>1, <1>5, <1>6, <1>8 DEF AlertAtMostOnce, Decided
<1>16. \A i, j \in DOMAIN alerted' : alerted'[i] = alerted'[j] => i = j
  BY <1>5, <1>6 DEF AlertAtMostOnce
<1>17. AlertAtMostOnce'
  BY <1>15, <1>16 DEF AlertAtMostOnce, Decided
<1> QED
  BY <1>9, <1>10, <1>11, <1>12, <1>13, <1>14, <1>17

\* A recounted round was OPEN, hence booked nowhere, and nobody closes rounds
\* while the recount runs.
LEMMA WinnerRecoverRound ==
  ASSUME LedgerInv, [Next]_vars, NEW r \in Rounds, RecoverRound(r)
  PROVE  Winner'
<1>1. pc[Sched] = "recover" /\ UNCHANGED <<agg, closed, booked, alerted>>
  BY DEF RecoverRound, memory
<1>2. CASE UNCHANGED <<pc, round>>
  BY <1>1, <1>2, HarmlessStep
<1>3. CASE ~UNCHANGED <<pc, round>>
  <2>1. /\ db' = [db EXCEPT ![r] = Recount(rows[r])]
        /\ pc' = [pc EXCEPT ![Sched] = "rebook"] /\ round' = [round EXCEPT ![Sched] = r]
    BY <1>3 DEF RecoverRound, Goto
  <2>2. pc \in [Threads -> Labels] /\ round \in [Threads -> Rounds \cup {NoRound}]
    BY DEF LedgerInv, TypeInv, TypeOK, TypeLocals
  <2>3. pc'[Sched] = "rebook" /\ round'[Sched] = r
    BY <2>1, <2>2 DEF Threads
  <2>4. \A u \in Threads : u # Sched => pc'[u] = pc[u] /\ pc[u] \in {Idle, "insert"}
    BY <1>1, <2>1, <2>2 DEF LedgerInv, Quiet, Threads
  <2>5. \A q \in Rounds : Decided(q) => db'[q] = db[q] /\ Decided(q)'
    BY DecidedIsFinal DEF Decided
  <2>6. Decided(r)'
    BY <2>1, RecountType DEF LedgerInv, TypeInv, TypeOK, TypeStore, Outcome, Decided
  <2>7. ~Decided(r)
    BY DEF RecoverRound, LedgerInv, Undecided, Decided, DecidedStates
  <2>8. booked \subseteq Rounds /\ \A i \in DOMAIN alerted : alerted[i] \in Rounds
    BY DEF LedgerInv, TypeInv, TypeOK, TypeStore
  <2> USE DEF LedgerInv, Winner, Won, Idle
  <2>9. \A u \in Threads : pc'[u] \notin {"persist", "hourly", "alert"}
    BY <2>3, <2>4
  <2>10. r \notin booked
    BY <2>7 DEF BookedIsDecided
  <2>11. ClosingIsClosed' /\ WonIsNew' /\ HourlyIsNew' /\ OneWinner'
    BY <2>9 DEF ClosingIsClosed, WonIsNew, HourlyIsNew, OneWinner
  <2>12. RebookIsNew'
    BY <1>1, <2>3, <2>6, <2>10 DEF RebookIsNew
  <2>13. BookedIsDecided'
    BY <1>1, <2>5, <2>8 DEF BookedIsDecided
  <2>14. AlertAtMostOnce'
    BY <1>1, <2>5, <2>8 DEF AlertAtMostOnce
  <2> QED
    BY <2>11, <2>12, <2>13, <2>14
<1> QED
  BY <1>2, <1>3

LEMMA WinnerRecoverBook ==
  ASSUME LedgerInv, [Next]_vars, RecoverBook
  PROVE  Winner'
<1> DEFINE r == round[Sched]
<1>1. /\ pc[Sched] = "rebook" /\ pc' = [pc EXCEPT ![Sched] = "recover"]
      /\ booked' = booked \/ booked' = booked \cup {r}
      /\ UNCHANGED <<db, agg, closed, alerted>>
  BY DEF RecoverBook, Book, Goto, memory
<1>2. pc \in [Threads -> Labels]
  BY DEF LedgerInv, TypeInv, TypeOK, TypeLocals
<1>3. pc'[Sched] = "recover"
  BY <1>1, <1>2 DEF Threads
<1>4. \A u \in Threads : u # Sched => pc'[u] = pc[u] /\ pc[u] \in {Idle, "insert"}
  BY <1>1, <1>2 DEF LedgerInv, Quiet, Threads
<1> USE DEF LedgerInv, Winner, Won, Idle
<1>5. \A u \in Threads : pc'[u] \notin {"persist", "hourly", "alert"}
  BY <1>3, <1>4
<1>6. ClosingIsClosed' /\ WonIsNew' /\ HourlyIsNew' /\ OneWinner'
  BY <1>5 DEF ClosingIsClosed, WonIsNew, HourlyIsNew, OneWinner
<1>7. RebookIsNew'
  BY <1>3 DEF RebookIsNew
<1>8. BookedIsDecided'
  BY <1>1 DEF RebookIsNew, BookedIsDecided, Decided
<1>9. AlertAtMostOnce'
  BY <1>1 DEF AlertAtMostOnce, Decided
<1> QED
  BY <1>6, <1>7, <1>8, <1>9

LEMMA WinnerCloseFlight ==
  ASSUME LedgerInv, [Next]_vars, NEW t \in Threads, CloseFlight(t)
  PROVE  Winner'
<1> DEFINE r == round[t]
<1>1. /\ pc[t] = "ping" /\ pc' = [pc EXCEPT ![t] = "persist"]
      /\ closed' = closed \cup {r}
      /\ UNCHANGED <<db, booked, alerted, round>>
  BY DEF CloseFlight, Goto, store
<1>2. /\ pc \in [Threads -> Labels]
      /\ \A q \in closed : agg'[q] = agg[q]
  BY DEF CloseFlight, LedgerInv, TypeInv, TypeOK, TypeLocals, TypeMemory
<1>3. pc'[t] = "persist" /\ \A u \in Threads : u # t => pc'[u] = pc[u]
  BY <1>1, <1>2
<1> USE DEF LedgerInv, Winner, Won, Threads
<1>4. ClosingIsClosed'
  BY <1>1, <1>3 DEF ClosingIsClosed
<1>5. WonIsNew'
  BY <1>1, <1>3 DEF WonIsNew, Decided
<1>6. HourlyIsNew'
  BY <1>1, <1>2, <1>3 DEF HourlyIsNew, ClosingIsClosed
<1>7. OneWinner'
  BY <1>1, <1>3 DEF OneWinner
<1>8. RebookIsNew'
  BY <1>1, <1>3 DEF RebookIsNew, Decided
<1>9. BookedIsDecided'
  BY <1>1 DEF BookedIsDecided, Decided
<1>10. AlertAtMostOnce'
  BY <1>1 DEF AlertAtMostOnce, Decided
<1> QED
  BY <1>4, <1>5, <1>6, <1>7, <1>8, <1>9, <1>10

LEMMA WinnerCrash == LedgerInv /\ Crash => Winner'
<1> SUFFICES ASSUME LedgerInv, Crash PROVE Winner'
  OBVIOUS
<1>1. \A t \in Threads : pc'[t] = Idle
  BY DEF Crash
<1>2. pc'[Sched] = Idle
  BY <1>1 DEF Threads
<1>3. ClosingIsClosed' /\ WonIsNew' /\ HourlyIsNew' /\ OneWinner' /\ RebookIsNew'
  BY <1>1, <1>2 DEF ClosingIsClosed, WonIsNew, HourlyIsNew, OneWinner, RebookIsNew, Won, Idle
<1>4. BookedIsDecided' /\ AlertAtMostOnce'
  BY DEF Crash, store, LedgerInv, Winner, BookedIsDecided, AlertAtMostOnce, Decided
<1> QED
  BY <1>3, <1>4 DEF Winner

LEMMA WinnerInit == Init => Winner
  BY DEF Init, Winner, ClosingIsClosed, WonIsNew, HourlyIsNew, OneWinner, RebookIsNew,
     BookedIsDecided, AlertAtMostOnce, Won, Idle, Threads

LEMMA WinnerNext == LedgerInv /\ [Next]_vars => Winner'
<1> SUFFICES ASSUME LedgerInv, [Next]_vars PROVE Winner'
  OBVIOUS
<1> DEFINE Harmless ==
      /\ UNCHANGED <<agg, closed, booked, alerted>>
      /\ \A t \in Threads : pc'[t] \in {"persist", "hourly", "alert", "rebook"}
           => pc'[t] = pc[t] /\ round'[t] = round[t]
<1>0. /\ pc \in [Threads -> Labels] /\ round \in [Threads -> Rounds \cup {NoRound}]
  BY DEF LedgerInv, TypeInv, TypeOK, TypeLocals
<1>1. CASE UNCHANGED <<pc, round, agg, closed, booked, alerted>>
  BY <1>1, HarmlessStep
<1>2. ASSUME NEW r \in Rounds, CreateRound(r) PROVE Winner'
  <2> Harmless
    BY <1>0, <1>2 DEF CreateRound, SendNext, Goto, Idle
  <2> QED
    BY HarmlessStep
<1>3. ASSUME NEW a \in Agents, SendTask(a) PROVE Winner'
  <2> Harmless
    BY <1>0, <1>3 DEF SendTask, SendNext, Goto, Idle, memory, store
  <2> QED
    BY HarmlessStep
<1>4. CASE MarkSent
  <2> Harmless
    BY <1>0, <1>4 DEF MarkSent, SendNext, Goto, Idle, store
  <2> QED
    BY HarmlessStep
<1>5. ASSUME NEW r \in Rounds, NEW a \in Agents, NEW ok \in BOOLEAN, Report(r, a, ok) PROVE Winner'
  <2> Harmless
    BY <1>0, <1>5 DEF Report, Goto, store
  <2> QED
    BY HarmlessStep
<1>6. ASSUME NEW a \in Agents, InsertResult(a) PROVE Winner'
  <2>1. UNCHANGED <<agg, closed, booked, alerted>>
    BY <1>6 DEF InsertResult, memory
  <2>2. EnterFinalize(a, round[a]) \/ Finish(a)
    BY <1>6 DEF InsertResult
  <2>3. Harmless
    BY <1>0, <2>1, <2>2 DEF EnterFinalize, Finish, Goto, Idle
  <2> QED
    BY <2>3, HarmlessStep
<1>7. ASSUME NEW r \in Rounds, FinalizeDue(r) PROVE Winner'
  <2> Harmless
    BY <1>0, <1>7 DEF FinalizeDue, EnterFinalize, Goto, memory, store
  <2> QED
    BY HarmlessStep
<1>8. CASE Restart
  <2> Harmless
    BY <1>0, <1>8 DEF Restart, Goto, memory, store
  <2> QED
    BY HarmlessStep
<1>9. CASE SweepOpen
  <2> Harmless
    BY <1>0, <1>9 DEF SweepOpen, Goto, Idle, memory
  <2> QED
    BY HarmlessStep
<1>10. ASSUME NEW t \in Threads, Finalizing(t) PROVE Winner'
  <2>1. ASSUME NEW a \in Agents, PingAgent(t, a) PROVE Winner'
    BY <2>1, HarmlessStep DEF PingAgent, memory, store
  <2> QED
    BY <1>10, <2>1, WinnerCloseFlight, WinnerCloseRound, WinnerAddHourlyStat, WinnerApplyAlert
       DEF Finalizing
<1> QED
  BY <1>1, <1>2, <1>3, <1>4, <1>5, <1>6, <1>7, <1>8, <1>9, <1>10, WinnerCrash, WinnerRecoverRound,
     WinnerRecoverBook
     DEF Next, Network, Dispatching, Redispatching, Recovering, vars, memory, locals, store,
         Connect, Disconnect, LoseTask, Tighten, Expire, OnlineBegin, OnlineCheck, OnlineSend,
         OnlineMark

LEMMA LedgerInvInductive ==
  (Init => LedgerInv) /\ (LedgerInv /\ [Next]_vars => LedgerInv')
  BY TypeInvInductive, QuietInit, QuietNext, UndecidedInit, UndecidedNext, WinnerInit, WinnerNext
     DEF LedgerInv

\* The alert state machine sees a round at most once and never before the
\* round is decided, however many threads finalize it and whatever the crashes.
THEOREM AlertCorrect == Safe => []AlertAtMostOnce
<1>1. LedgerInv => AlertAtMostOnce
  BY DEF LedgerInv, Winner
<1> QED
  BY <1>1, LedgerInvInductive, PTL DEF Safe

-----------------------------------------------------------------------------
(* The refinement: every step of the rounds is a step of the ledger.       *)

\* A step that only gives outcomes to OPEN rounds decides them.
LEMMA StepDecide ==
  ASSUME LedgerInv, db' = [r \in Rounds |-> db'[r]],
         \A r \in Rounds : db'[r] = db[r] \/ (db[r].state = "OPEN" /\ db'[r] \in Outcome),
         UNCHANGED <<hourly, booked, alerted>>
  PROVE  Ledger!Decide
<1>1. \A r \in Rounds : db[r].state = "OPEN" => db[r] = Blank("OPEN")
  BY DEF LedgerInv, Undecided
<1>2. ASSUME NEW r \in Rounds PROVE db[r] \in {Blank("none"), Blank("OPEN")} \cup Outcome
  <2>1. db[r] \in StoredRounds
    BY DEF LedgerInv, TypeInv, TypeOK, TypeStore
  <2>2. CASE db[r].state \in {"none", "OPEN"}
    BY <2>2 DEF LedgerInv, Undecided
  <2>3. CASE db[r].state \in DecidedStates
    BY <2>1, <2>3 DEF StoredRounds, Outcome
  <2> QED
    BY <2>1, <2>2, <2>3 DEF StoredRounds
<1>3. db' \in [Rounds -> {Blank("none"), Blank("OPEN")} \cup Outcome]
  BY <1>2
<1>4. \A r \in Rounds : db'[r] # db[r] => db[r] = Blank("OPEN") /\ db'[r] \in Outcome
  BY <1>1
<1> QED
  BY <1>3, <1>4 DEF Ledger!Decide

LEMMA LedgerDecides ==
  ASSUME LedgerInv, \/ \E t \in Threads : CloseRound(t)
                    \/ \E r \in Rounds : RecoverRound(r)
                    \/ SweepOpen
  PROVE  Ledger!Decide
<1>1. db \in [Rounds -> StoredRounds] /\ agg \in [Rounds -> Outcome]
  BY DEF LedgerInv, TypeInv, TypeOK, TypeStore, TypeMemory
<1>2. \A r \in Rounds : Recount(rows[r]) \in Outcome
  BY RecountType DEF LedgerInv, TypeInv, TypeOK, TypeStore
<1>3. ASSUME NEW t \in Threads, CloseRound(t) PROVE Ledger!Decide
  <2>1. UNCHANGED <<hourly, booked, alerted>> /\ round[t] \in Rounds
    BY <1>3 DEF CloseRound, LedgerInv, TypeInv, Shape, Working
  <2>2. db' = db \/ (db[round[t]].state = "OPEN" /\ db' = [db EXCEPT ![round[t]] = agg[round[t]]])
    BY <1>3 DEF CloseRound, StillOpen
  <2>3. db' = [r \in Rounds |-> db'[r]]
    BY <1>1, <2>2
  <2>4. \A r \in Rounds : db'[r] = db[r] \/ (db[r].state = "OPEN" /\ db'[r] \in Outcome)
    BY <1>1, <2>1, <2>2
  <2> QED
    BY <2>1, <2>3, <2>4, StepDecide
<1>4. ASSUME NEW q \in Rounds, RecoverRound(q) PROVE Ledger!Decide
  <2>1. UNCHANGED <<hourly, booked, alerted>> /\ db[q].state = "OPEN"
    BY <1>4 DEF RecoverRound, LedgerInv, Undecided
  <2>2. db' = db \/ db' = [db EXCEPT ![q] = Recount(rows[q])]
    BY <1>4 DEF RecoverRound
  <2>3. db' = [r \in Rounds |-> db'[r]]
    BY <1>1, <2>2
  <2>4. \A r \in Rounds : db'[r] = db[r] \/ (db[r].state = "OPEN" /\ db'[r] \in Outcome)
    BY <1>1, <1>2, <2>1, <2>2
  <2> QED
    BY <2>1, <2>3, <2>4, StepDecide
<1>5. CASE SweepOpen
  <2>1. UNCHANGED <<hourly, booked, alerted>>
    BY <1>5 DEF SweepOpen
  <2>2. db' = db \/ db' = [r \in Rounds |-> IF db[r].state = "OPEN" THEN Swept ELSE db[r]]
    BY <1>5 DEF SweepOpen
  <2>3. db' = [r \in Rounds |-> db'[r]]
    BY <1>1, <2>2
  <2>4. \A r \in Rounds : db'[r] = db[r] \/ (db[r].state = "OPEN" /\ db'[r] \in Outcome)
    BY <1>1, <2>2, SweptType
  <2> QED
    BY <2>1, <2>3, <2>4, StepDecide
<1> QED
  BY <1>3, <1>4, <1>5

LEMMA LedgerBooks ==
  ASSUME LedgerInv, \/ \E t \in Threads : AddHourlyStat(t)
                    \/ RecoverBook
  PROVE  (\E r \in Rounds : Ledger!Book(r)) \/ UNCHANGED Ledger!lvars
<1>1. ASSUME NEW t \in Threads, AddHourlyStat(t)
      PROVE  (\E r \in Rounds : Ledger!Book(r)) \/ UNCHANGED Ledger!lvars
  <2> DEFINE r == round[t]
  <2>1. r \in Rounds
    BY <1>1 DEF AddHourlyStat, LedgerInv, TypeInv, Shape, Working
  <2>2. db[r] = agg[r] /\ r \notin booked
    BY <1>1 DEF AddHourlyStat, LedgerInv, Winner, HourlyIsNew
  <2>3. db[r] \in Outcome
    BY <2>1, <2>2 DEF LedgerInv, TypeInv, TypeOK, TypeMemory
  <2>4. UNCHANGED <<db, alerted>>
    BY <1>1 DEF AddHourlyStat
  <2>5. UNCHANGED <<hourly, booked>> \/ Book(r, agg[r])
    BY <1>1 DEF AddHourlyStat
  <2>6. Book(r, agg[r]) => Ledger!Book(r)
    BY <2>2, <2>3, <2>4 DEF Book, Ledger!Book, Ledger!IsDecided
  <2> QED
    BY <2>1, <2>4, <2>5, <2>6 DEF Ledger!lvars
<1>2. ASSUME RecoverBook
      PROVE  (\E r \in Rounds : Ledger!Book(r)) \/ UNCHANGED Ledger!lvars
  <2> DEFINE r == round[Sched]
  <2>1. r \in Rounds
    BY <1>2 DEF RecoverBook, LedgerInv, TypeInv, Shape, Working, Threads
  <2>2. Decided(r) /\ r \notin booked
    BY <1>2 DEF RecoverBook, LedgerInv, Winner, RebookIsNew
  <2>3. db[r] \in Outcome
    BY <2>1, <2>2 DEF LedgerInv, TypeInv, TypeOK, TypeStore, StoredRounds, Outcome, Decided
  <2>4. UNCHANGED <<db, alerted>>
    BY <1>2 DEF RecoverBook
  <2>5. UNCHANGED <<hourly, booked>> \/ Book(r, db[r])
    BY <1>2 DEF RecoverBook
  <2>6. Book(r, db[r]) => Ledger!Book(r)
    BY <2>2, <2>3, <2>4 DEF Book, Ledger!Book, Ledger!IsDecided
  <2> QED
    BY <2>1, <2>4, <2>5, <2>6 DEF Ledger!lvars
<1> QED
  BY <1>1, <1>2

LEMMA LedgerNotifies ==
  ASSUME LedgerInv, NEW t \in Threads, ApplyAlert(t)
  PROVE  \E r \in Rounds : Ledger!Notify(r)
<1>0. PICK r : r = round[t]
  OBVIOUS
<1>1. r \in Rounds /\ alerted \in Seq(Rounds)
  BY <1>0 DEF ApplyAlert, LedgerInv, TypeInv, TypeOK, TypeStore, Shape, Working
<1>2. Decided(r) /\ \A i \in DOMAIN alerted : alerted[i] # r
  BY <1>0 DEF ApplyAlert, LedgerInv, Winner, WonIsNew, Won
<1>3. alerted' = Append(alerted, r) /\ UNCHANGED <<db, hourly, booked>>
  BY <1>0 DEF ApplyAlert, store
<1>4. /\ Len(alerted) \in Nat /\ DOMAIN alerted = 1 .. Len(alerted)
      /\ DOMAIN alerted' = 1 .. Len(alerted) + 1
      /\ alerted'[Len(alerted) + 1] = r
      /\ \A i \in DOMAIN alerted : alerted'[i] = alerted[i]
  BY <1>1, <1>3
<1>5. DOMAIN alerted' = DOMAIN alerted \cup {Len(alerted) + 1}
  BY <1>4
<1>6. {alerted'[i] : i \in DOMAIN alerted'} = {alerted[i] : i \in DOMAIN alerted} \cup {r}
  BY <1>4, <1>5
<1>7. db[r] \in Outcome
  BY <1>1, <1>2 DEF LedgerInv, TypeInv, TypeOK, TypeStore, StoredRounds, Outcome, Decided
<1>8. Ledger!Notify(r)
  BY <1>2, <1>3, <1>6, <1>7 DEF Ledger!Notify, Ledger!IsDecided
<1> QED
  BY <1>1, <1>8

LEMMA LedgerOpens ==
  ASSUME LedgerInv, NEW r \in Rounds, CreateRound(r)
  PROVE  Ledger!Open(r) \/ UNCHANGED Ledger!lvars
<1>1. db[r] = Blank("none") /\ UNCHANGED <<hourly, booked, alerted>>
  BY DEF CreateRound, LedgerInv, Undecided
<1>2. db' = db \/ db' = [db EXCEPT ![r] = Blank("OPEN")]
  BY DEF CreateRound
<1> QED
  BY <1>1, <1>2 DEF Ledger!Open, Ledger!lvars

LEMMA LedgerStep == LedgerInv /\ [Next]_vars => [Ledger!Next]_(Ledger!lvars)
<1> SUFFICES ASSUME LedgerInv, [Next]_vars PROVE Ledger!Next \/ UNCHANGED Ledger!lvars
  OBVIOUS
<1>1. CASE UNCHANGED <<db, hourly, booked, alerted>>
  BY <1>1 DEF Ledger!lvars
<1>2. CASE \E r \in Rounds : CreateRound(r)
  BY <1>2, LedgerOpens DEF Ledger!Next
<1>3. CASE (\E t \in Threads : CloseRound(t)) \/ (\E r \in Rounds : RecoverRound(r)) \/ SweepOpen
  BY <1>3, LedgerDecides DEF Ledger!Next
<1>4. CASE (\E t \in Threads : AddHourlyStat(t)) \/ RecoverBook
  BY <1>4, LedgerBooks DEF Ledger!Next
<1>5. CASE \E t \in Threads : ApplyAlert(t)
  BY <1>5, LedgerNotifies DEF Ledger!Next
<1>6. CASE \E a \in Agents : InsertResult(a)
  BY <1>1, <1>6 DEF InsertResult
<1> QED
  BY <1>1, <1>2, <1>3, <1>4, <1>5, <1>6
     DEF Next, Network, Dispatching, Redispatching, Finalizing, Recovering, vars, store,
         Connect, Disconnect, LoseTask, Tighten, Expire, SendTask, MarkSent, OnlineBegin,
         OnlineCheck, OnlineSend, OnlineMark, Report, FinalizeDue, PingAgent, CloseFlight,
         Crash, Restart

LEMMA LedgerStart == Init => Ledger!Init
  BY DEF Init, Ledger!Init

\* ProbeRound implements RoundLedger: with any number of nodes, rounds,
\* finalizing threads, crashes and failing writes a round gets one outcome that
\* never changes, the hourly counters grow by exactly that outcome and at most
\* once, and the alert sees the round at most once.
THEOREM LedgerImplemented == Safe => LedgerSpec
  BY LedgerStart, LedgerStep, LedgerInvInductive, PTL DEF Safe, LedgerSpec, Ledger!Spec

-----------------------------------------------------------------------------
(* Who is blamed, and which samples count.                                 *)

\* What the decision table says of its own parts.
Splits(res, out) ==
  /\ Reported(res) = Agents \ Missing(out)
  /\ out.valid + Cardinality(out.dead \cup out.undisp) = Cardinality(Agents)
  /\ out.success <= Cardinality(Reported(res))

LEMMA AggregateSplits ==
  ASSUME NEW r \in Rounds, NEW res \in [Agents -> Samples],
         NEW D \in SUBSET Agents, NEW U \in SUBSET Agents
  PROVE  /\ Splits(res, Aggregate(r, res, D, U))
         /\ Aggregate(r, res, D, U).alive = {a \in Agents : res[a] = "none"} \ (D \cup U)
<1>0. PICK out : out = Aggregate(r, res, D, U)
  OBVIOUS
<1> DEFINE silent == Agents \ Reported(res)
           mute   == silent \ (D \cup U)
           rest   == out.dead \cup out.undisp
           counted == Reported(res) \cup mute
<1>1. /\ out.alive = mute /\ out.dead = silent \cap D /\ out.undisp = (silent \ D) \cap U
      /\ out.valid = Cardinality(counted)
      /\ out.success = Cardinality(Succeeded(r, res))
  BY <1>0 DEF Aggregate
<1>2. Reported(res) = Agents \ Missing(out)
  BY <1>1 DEF Missing, Reported
<1>3. counted \cup rest = Agents /\ counted \cap rest = {}
  BY <1>1 DEF Reported
<1>4. IsFiniteSet(counted) /\ IsFiniteSet(rest) /\ IsFiniteSet(Reported(res))
  <2>1. counted \subseteq Agents /\ rest \subseteq Agents /\ Reported(res) \subseteq Agents
    BY <1>3 DEF Reported
  <2> QED
    BY <2>1, AgentsAssumption, FS_Subset
<1>5. Cardinality(counted \cup rest)
        = Cardinality(counted) + Cardinality(rest) - Cardinality(counted \cap rest)
  BY <1>4, FS_Union
<1>6. Cardinality(counted \cap rest) = 0
  BY <1>3, FS_EmptySet
<1>7. Cardinality(counted) \in Nat /\ Cardinality(rest) \in Nat
  BY <1>4, FS_CardinalityType
<1>8. out.valid + Cardinality(rest) = Cardinality(Agents)
  <2> HIDE DEF counted, rest
  <2>1. Cardinality(counted \cup rest) = Cardinality(Agents)
    BY <1>3, Zenon
  <2>2. Cardinality(Agents) = Cardinality(counted) + Cardinality(rest)
    BY <1>5, <1>6, <1>7, <2>1
  <2> QED
    BY <1>1, <2>2
<1>9. Succeeded(r, res) \subseteq Reported(res)
  BY DEF Succeeded
<1>10. out.success <= Cardinality(Reported(res))
  BY <1>1, <1>4, <1>9, FS_Subset
<1>11. out.alive = {a \in Agents : res[a] = "none"} \ (D \cup U)
  BY <1>1 DEF Reported
<1> QED
  BY <1>0, <1>2, <1>8, <1>10, <1>11 DEF Splits

LEMMA AggregatedNext == TypeInv /\ Aggregated /\ [Next]_vars => Aggregated'
<1> SUFFICES ASSUME TypeInv, Aggregated, [Next]_vars PROVE Aggregated'
  OBVIOUS
<1> USE DEF Aggregated
<1>1. ASSUME NEW r \in Rounds, NEW a \in Agents, NEW ok \in BOOLEAN, Report(r, a, ok)
      PROVE  Aggregated'
  <2>1. \A q \in closed : results'[q] = results[q]
    BY <1>1 DEF Report, Accepts, TypeInv, TypeOK, TypeMemory
  <2>2. UNCHANGED <<closed, agg>>
    BY <1>1 DEF Report
  <2> QED
    BY <2>1, <2>2
<1>2. ASSUME NEW t \in Threads, CloseFlight(t)
      PROVE  Aggregated'
  <2> DEFINE r == round[t]
  <2>1. r \in Rounds /\ dead[t] \in SUBSET Agents /\ undisp[t] \in SUBSET Agents
    BY <1>2 DEF CloseFlight, TypeInv, TypeOK, TypeLocals, Shape, Working
  <2>2. UNCHANGED results
    BY <1>2 DEF CloseFlight
  <2>3. CASE r \in closed
    BY <1>2, <2>2, <2>3 DEF CloseFlight
  <2>4. CASE r \notin closed
    <3>1. closed' = closed \cup {r}
      BY <1>2, <2>4 DEF CloseFlight
    <3>2. agg' = [agg EXCEPT ![r] = Aggregate(r, results[r], dead[t], undisp[t])]
      BY <1>2, <2>4 DEF CloseFlight
    <3>3. agg'[r] = Aggregate(r, results[r], dead[t], undisp[t])
      BY <2>1, <3>2 DEF TypeInv, TypeOK, TypeMemory
    <3>4. \A q \in closed : agg'[q] = agg[q]
      BY <2>4, <3>2 DEF TypeInv, TypeOK, TypeMemory
    <3> QED
      BY <2>1, <2>2, <3>1, <3>3, <3>4
  <2> QED
    BY <2>3, <2>4
<1>3. CASE Crash
  BY <1>3 DEF Crash
<1>4. CASE UNCHANGED <<closed, results, agg>>
  BY <1>4
<1> QED
  BY <1>1, <1>2, <1>3, <1>4
     DEF Next, Network, Dispatching, Redispatching, Finalizing, Recovering, vars, memory, Connect,
         Disconnect, LoseTask, Tighten, Expire, CreateRound, SendTask, MarkSent, OnlineBegin,
         OnlineCheck, OnlineSend, OnlineMark, InsertResult, FinalizeDue, PingAgent, CloseRound,
         AddHourlyStat, ApplyAlert, Restart, RecoverRound, RecoverBook, SweepOpen

\* Every sample AddResult accepted is in the aggregation of its round, and the
\* counters follow the split of the nodes into reported and missing.
THEOREM SamplesCorrect == Safe => []AcceptedIsAggregated
<1>1. Init => AcceptInv
  BY TypeInvInductive DEF AcceptInv, Aggregated, Init
<1>2. AcceptInv /\ [Next]_vars => AcceptInv'
  BY TypeInvInductive, AggregatedNext DEF AcceptInv
<1>3. AcceptInv => AcceptedIsAggregated
  <2> SUFFICES ASSUME AcceptInv, NEW r \in closed
               PROVE  /\ Reported(results[r]) = Agents \ Missing(agg[r])
                      /\ agg[r].valid + Cardinality(agg[r].dead \cup agg[r].undisp)
                           = Cardinality(Agents)
                      /\ agg[r].success <= Cardinality(Reported(results[r]))
    BY DEF AcceptedIsAggregated
  <2>1. r \in Rounds /\ results[r] \in [Agents -> Samples]
    BY DEF AcceptInv, TypeInv, TypeOK, TypeMemory
  <2>2. PICK D \in SUBSET Agents, U \in SUBSET Agents : agg[r] = Aggregate(r, results[r], D, U)
    BY DEF AcceptInv, Aggregated
  <2>3. PICK res : res = results[r]
    OBVIOUS
  <2>4. res \in [Agents -> Samples] /\ agg[r] = Aggregate(r, res, D, U)
    BY <2>1, <2>2, <2>3
  <2>5. Splits(res, Aggregate(r, res, D, U))
    BY <2>1, <2>4, AggregateSplits
  <2>6. Splits(res, agg[r])
    BY <2>4, <2>5
  <2> QED
    BY <2>3, <2>6 DEF Splits
<1> QED
  BY <1>1, <1>2, <1>3, PTL DEF Safe

LEMMA BlameNext == BlameInv /\ AcceptInv /\ [Next]_vars => Accounted' /\ NeverSentNeverBlamed'
<1> SUFFICES ASSUME BlameInv, AcceptInv, [Next]_vars
             PROVE  Accounted' /\ NeverSentNeverBlamed'
  OBVIOUS
<1>0. /\ pc \in [Threads -> Labels] /\ round \in [Threads -> Rounds \cup {NoRound}]
      /\ todo \in [Threads -> SUBSET Agents]
      /\ dead \in [Threads -> SUBSET Agents] /\ undisp \in [Threads -> SUBSET Agents]
      /\ dispatched \in [Rounds -> SUBSET Agents] /\ agg \in [Rounds -> Outcome]
      /\ results \in [Rounds -> [Agents -> Samples]] /\ closed \subseteq Rounds
      /\ \A t \in Threads : pc[t] = "ping" => round[t] \in Rounds
  BY DEF BlameInv, TypeInv, TypeOK, TypeLocals, TypeMemory, Shape, Working
<1> DEFINE Knows(t) == \A a \in Agents :
             results[round[t]][a] = "none" /\ a \notin dispatched[round[t]]
               => a \in todo[t] \cup dead[t] \cup undisp[t]
           \* dispatched and results only grow
           Grows == /\ \A q \in Rounds : dispatched[q] \subseteq dispatched'[q]
                    /\ \A q \in Rounds, a \in Agents : results'[q][a] = "none" => results[q][a] = "none"
           \* a thread enters finalize with the list of the silent nodes
           Starts(t) == /\ round'[t] \in Rounds
                        /\ todo'[t] = {a \in Agents : results'[round'[t]][a] = "none"}
           Same(t) == /\ pc'[t] = pc[t] /\ round'[t] = round[t] /\ todo'[t] = todo[t]
                      /\ dead'[t] = dead[t] /\ undisp'[t] = undisp[t]
<1>1. ASSUME Grows, \A t \in Threads : pc'[t] = "ping" => Same(t) \/ Starts(t)
      PROVE  Accounted'
  BY <1>0, <1>1 DEF Accounted, BlameInv
<1>2. ASSUME Grows, UNCHANGED <<closed, agg>>
      PROVE  NeverSentNeverBlamed'
  BY <1>0, <1>2 DEF NeverSentNeverBlamed, BlameInv
<1>3. CASE UNCHANGED <<pc, round, todo, dead, undisp, results, dispatched, closed, agg>>
  BY <1>1, <1>2, <1>3
<1>4. ASSUME NEW r \in Rounds, CreateRound(r)
      PROVE  Accounted' /\ NeverSentNeverBlamed'
  <2>1. UNCHANGED <<results, dispatched, closed, agg>>
    BY <1>4 DEF CreateRound
  <2>2. \A t \in Threads : pc'[t] = "ping" => Same(t)
    BY <1>0, <1>4 DEF CreateRound, SendNext, Goto, Idle
  <2> QED
    BY <1>1, <1>2, <2>1, <2>2
<1>5. ASSUME NEW a \in Agents, SendTask(a)
      PROVE  Accounted' /\ NeverSentNeverBlamed'
  <2>1. UNCHANGED <<results, dispatched, closed, agg>>
    BY <1>5 DEF SendTask, memory
  <2>2. \A t \in Threads : pc'[t] = "ping" => Same(t)
    BY <1>0, <1>5 DEF SendTask, SendNext, Goto, Idle
  <2> QED
    BY <1>1, <1>2, <2>1, <2>2
<1>6. CASE MarkSent
  <2>1. Grows /\ UNCHANGED <<closed, agg>>
    BY <1>0, <1>6 DEF MarkSent
  <2>2. \A t \in Threads : pc'[t] = "ping" => Same(t)
    BY <1>0, <1>6 DEF MarkSent, SendNext, Goto, Idle
  <2> QED
    BY <1>1, <1>2, <2>1, <2>2
<1>7. ASSUME NEW a \in Agents, OnlineMark(a)
      PROVE  Accounted' /\ NeverSentNeverBlamed'
  <2>1. Grows /\ UNCHANGED <<closed, agg>> /\ \A t \in Threads : Same(t)
    BY <1>0, <1>7 DEF OnlineMark, locals
  <2> QED
    BY <1>1, <1>2, <2>1
<1>8. ASSUME NEW r \in Rounds, NEW a \in Agents, NEW ok \in BOOLEAN, Report(r, a, ok)
      PROVE  Accounted' /\ NeverSentNeverBlamed'
  <2>1. Grows /\ UNCHANGED <<closed, agg>>
    BY <1>0, <1>8 DEF Report
  <2>2. \A t \in Threads : pc'[t] = "ping" => Same(t)
    BY <1>0, <1>8 DEF Report, Goto, Idle
  <2> QED
    BY <1>1, <1>2, <2>1, <2>2
<1>9. ASSUME NEW a \in Agents, InsertResult(a)
      PROVE  Accounted' /\ NeverSentNeverBlamed'
  <2>1. UNCHANGED <<results, dispatched, closed, agg>>
    BY <1>9 DEF InsertResult, memory
  <2>2. pc[a] = "insert" /\ round[a] \in Rounds /\ a \in Threads
    BY <1>9 DEF InsertResult, BlameInv, TypeInv, Shape, Working, Threads
  <2>3. CASE EnterFinalize(a, round[a])
    <3>1. \A t \in Threads : pc'[t] = "ping" => Same(t) \/ Starts(t)
      BY <1>0, <2>1, <2>2, <2>3 DEF EnterFinalize, Goto, Pending
    <3> QED
      BY <1>1, <1>2, <2>1, <3>1
  <2>4. CASE Finish(a)
    <3>1. \A t \in Threads : pc'[t] = "ping" => Same(t)
      BY <1>0, <2>2, <2>4 DEF Finish, Goto, Idle
    <3> QED
      BY <1>1, <1>2, <2>1, <3>1
  <2> QED
    BY <1>9, <2>3, <2>4 DEF InsertResult
<1>10. ASSUME NEW r \in Rounds, FinalizeDue(r)
       PROVE  Accounted' /\ NeverSentNeverBlamed'
  <2>1. UNCHANGED <<results, dispatched, closed, agg>>
    BY <1>10 DEF FinalizeDue, memory
  <2>2. \A t \in Threads : pc'[t] = "ping" => Same(t) \/ Starts(t)
    BY <1>0, <1>10, <2>1 DEF FinalizeDue, EnterFinalize, Goto, Pending
  <2> QED
    BY <1>1, <1>2, <2>1, <2>2
<1>11. ASSUME NEW t \in Threads, NEW a \in Agents, PingAgent(t, a)
       PROVE  Accounted' /\ NeverSentNeverBlamed'
  <2>1. UNCHANGED <<pc, round, results, dispatched, closed, agg>>
    BY <1>11 DEF PingAgent, memory
  <2>2. /\ todo' = [todo EXCEPT ![t] = @ \ {a}]
        /\ \A u \in Threads : dead[u] \subseteq dead'[u] /\ undisp[u] \subseteq undisp'[u]
        /\ a \in dead'[t] \/ a \in undisp'[t] \/ a \in dispatched[round[t]]
    <3>1. todo' = [todo EXCEPT ![t] = @ \ {a}]
      BY <1>11 DEF PingAgent
    <3>2. CASE dead' = [dead EXCEPT ![t] = @ \cup {a}] /\ UNCHANGED undisp
      BY <1>0, <3>1, <3>2
    <3>3. CASE /\ undisp' = [undisp EXCEPT ![t] = IF WasHanded(round[t], a) THEN @ ELSE @ \cup {a}]
               /\ UNCHANGED dead
      BY <1>0, <3>1, <3>3 DEF WasHanded
    <3> QED
      BY <1>11, <3>2, <3>3 DEF PingAgent
  <2>3. Accounted'
    <3> SUFFICES ASSUME NEW u \in Threads, pc[u] = "ping", NEW b \in Agents,
                        results[round[u]][b] = "none" /\ b \notin dispatched[round[u]]
                 PROVE  b \in todo'[u] \cup dead'[u] \cup undisp'[u]
      BY <2>1 DEF Accounted
    <3>1. b \in todo[u] \cup dead[u] \cup undisp[u]
      BY DEF Accounted, BlameInv
    <3>2. b \in todo[u] => b \in todo'[u] \/ (u = t /\ b = a)
      BY <1>0, <2>2
    <3> QED
      BY <2>2, <3>1, <3>2
  <2> QED
    BY <1>2, <2>1, <2>3
<1>12. ASSUME NEW t \in Threads, CloseFlight(t)
       PROVE  Accounted' /\ NeverSentNeverBlamed'
  <2> DEFINE r == round[t]
  <2>1. pc[t] = "ping" /\ todo[t] = {} /\ r \in Rounds /\ UNCHANGED <<results, dispatched>>
    BY <1>0, <1>12 DEF CloseFlight
  <2>2. \A u \in Threads : pc'[u] = "ping" => Same(u)
    BY <1>0, <1>12 DEF CloseFlight, Goto
  <2>3. Accounted'
    BY <1>1, <2>1, <2>2
  <2>4. CASE r \in closed
    <3>1. UNCHANGED <<closed, agg>>
      BY <1>12, <2>4 DEF CloseFlight
    <3> QED
      BY <1>2, <2>1, <2>3, <3>1
  <2>5. CASE r \notin closed
    <3>1. /\ closed' = closed \cup {r}
          /\ agg' = [agg EXCEPT ![r] = Aggregate(r, results[r], dead[t], undisp[t])]
      BY <1>12, <2>5 DEF CloseFlight
    <3>2. Aggregate(r, results[r], dead[t], undisp[t]).alive
            = {a \in Agents : results[r][a] = "none"} \ (dead[t] \cup undisp[t])
      BY <1>0, <2>1, AggregateSplits
    <3>3. \A a \in Agents : results[r][a] = "none" /\ a \notin dispatched[r]
            => a \in dead[t] \cup undisp[t]
      BY <2>1 DEF BlameInv, Accounted
    <3>4. agg'[r].alive \subseteq dispatched[r] /\ \A q \in closed : agg'[q] = agg[q]
      BY <1>0, <2>1, <2>5, <3>1, <3>2, <3>3
    <3>5. NeverSentNeverBlamed'
      BY <2>1, <3>1, <3>4 DEF BlameInv, NeverSentNeverBlamed
    <3> QED
      BY <2>3, <3>5
  <2> QED
    BY <2>3, <2>4, <2>5
<1>13. ASSUME NEW t \in Threads, CloseRound(t)
       PROVE  Accounted' /\ NeverSentNeverBlamed'
  <2>1. UNCHANGED <<results, dispatched, closed, agg>>
    BY <1>13 DEF CloseRound
  <2>2. \A u \in Threads : pc'[u] = "ping" => Same(u)
    BY <1>0, <1>13 DEF CloseRound, Finish, Goto, Idle
  <2> QED
    BY <1>1, <1>2, <2>1, <2>2
<1>14. ASSUME NEW t \in Threads, AddHourlyStat(t) \/ ApplyAlert(t)
       PROVE  Accounted' /\ NeverSentNeverBlamed'
  <2>1. UNCHANGED <<results, dispatched, closed, agg>>
    BY <1>14 DEF AddHourlyStat, ApplyAlert, memory
  <2>2. \A u \in Threads : pc'[u] = "ping" => Same(u)
    BY <1>0, <1>14 DEF AddHourlyStat, ApplyAlert, Finish, Goto, Idle
  <2> QED
    BY <1>1, <1>2, <2>1, <2>2
<1>15. CASE Crash
  <2>1. \A t \in Threads : pc'[t] = Idle
    BY <1>15 DEF Crash
  <2>2. closed' = {}
    BY <1>15 DEF Crash
  <2> QED
    BY <2>1, <2>2 DEF Accounted, NeverSentNeverBlamed, Idle
<1>16. CASE Restart \/ RecoverBook \/ SweepOpen \/ \E r \in Rounds : RecoverRound(r)
  <2>1. UNCHANGED <<results, dispatched, closed, agg>>
    BY <1>16 DEF Restart, RecoverBook, SweepOpen, RecoverRound, memory
  <2>2. \A u \in Threads : pc'[u] = "ping" => Same(u)
    BY <1>0, <1>16 DEF Restart, RecoverBook, SweepOpen, RecoverRound, Goto, Idle
  <2> QED
    BY <1>1, <1>2, <2>1, <2>2
<1> QED
  BY <1>3, <1>4, <1>5, <1>6, <1>7, <1>8, <1>9, <1>10, <1>11, <1>12, <1>13, <1>14, <1>15, <1>16
     DEF Next, Network, Dispatching, Redispatching, Finalizing, Recovering, vars, memory, locals,
         Connect, Disconnect, LoseTask, Tighten, Expire, OnlineBegin, OnlineCheck, OnlineSend

\* A node is counted as a failed sample only if the task was handed to it,
\* whatever the order of dispatch, re-dispatch, pings and reports.
THEOREM BlameCorrect == Safe => []NeverSentNeverBlamed
<1> DEFINE Inv == BlameInv /\ AcceptInv
<1>1. Init => Inv
  BY TypeInvInductive DEF BlameInv, AcceptInv, Accounted, Aggregated, NeverSentNeverBlamed, Init,
     Idle
<1>2. Inv /\ [Next]_vars => Inv'
  BY TypeInvInductive, AggregatedNext, BlameNext DEF BlameInv, AcceptInv
<1>3. Inv => NeverSentNeverBlamed
  BY DEF BlameInv
<1> QED
  BY <1>1, <1>2, <1>3, PTL DEF Safe

-----------------------------------------------------------------------------
(* The records of a round: the row of table rounds, the result rows and    *)
(* the booking agree with what the memory of the process took in, whatever *)
(* the threads, the crashes and the recounts do.                           *)

\* Without a crash the scheduler never recovers.
NeverDown == faults = 0 /\ crashes = 0 => up /\ pc[Sched] \notin {"recover", "rebook"}

\* A thread pings for a complete round or for one past its deadline.
PingsInTime ==
  \A t \in Threads : pc[t] = "ping" => Pending(round[t]) = {} \/ time[round[t]] = "past"

\* What the memory of the process knows of: in flight, or closed.
Known == flights \cup closed

\* A thread that finalizes a round, or stores an on-time sample of it, works
\* on a round the memory knows.
HeldIsKnown ==
  \A t \in Threads :
    pc[t] = "ping" \/ (pc[t] = "insert" /\ ~row[t].late) => round[t] \in Known

\* The row of table rounds of a known round: OPEN until the round is closed,
\* and then OPEN or the aggregation.
KnownIsStored ==
  /\ \A r \in flights \ closed : db[r].state = "OPEN"
  /\ \A r \in closed : db[r].state = "OPEN" \/ db[r] = agg[r]

\* Nothing is closed while the process is down or starts up.
NothingClosed == ~up \/ pc[Sched] \in {"recover", "rebook"} => closed = {}

\* Without failing operations the recount has every OPEN round on its list.
OrphansListed ==
  faults = 0 /\ pc[Sched] \in {"recover", "rebook"} =>
    \A r \in Rounds : db[r].state = "OPEN" => r \in orphans

\* The on-time sample in a read loop's hands is in memory.
HandIsReported ==
  \A a \in Agents : pc[a] = "insert" /\ ~row[a].late =>
    row[a].agent = a /\ results[round[a]][a] # "none"

\* The stored on-time rows: none before the round exists, each of a node of
\* the round, and as long as the memory knows the round a reported one.
RowsReported ==
  \A r \in Rounds : \A w \in OnTime(r) :
    /\ db[r].state # "none"
    /\ w.agent \in Agents
    /\ r \in Known => results[r][w.agent] # "none"

RecordsInv == LedgerInv /\ Aggregated /\ HeldIsKnown /\ KnownIsStored /\ NothingClosed
                /\ OrphansListed /\ HandIsReported /\ RowsReported

\* The first sample of a node is the one in memory, and its row is the first:
\* it is still in the hands of the read loop, or it is stored.
FirstInHand(r, a) ==
  /\ pc[a] = "insert" /\ ~row[a].late /\ round[a] = r
  /\ row[a].ok = EffOK(r, results[r][a] = "ok")
  /\ \A w \in OnTime(r) : w.agent # a
FirstIsStored(r, a) ==
  \E w \in OnTime(r) : w.agent = a /\ w.ok = EffOK(r, results[r][a] = "ok")
FirstKept ==
  faults = 0 => \A r \in Rounds, a \in Agents :
    results[r][a] # "none" => FirstInHand(r, a) \/ FirstIsStored(r, a)

-----------------------------------------------------------------------------
(* An OPEN round is somebody's.                                            *)

\* A failed operation stays counted, and so does a crash.
LEMMA SpentForGood ==
  ASSUME TypeInv, [Next]_vars
  PROVE  (faults' = 0 => faults = 0) /\ (crashes' = 0 => crashes = 0)
<1>1. faults \in Nat /\ crashes \in Nat
  BY DEF TypeInv, TypeOK, TypeBounds
<1>2. faults' = faults \/ faults' = faults + 1
  BY DEF Next, Network, Dispatching, Redispatching, Finalizing, Recovering, vars, bounds, Connect,
     Disconnect, LoseTask, Tighten, Expire, CreateRound, SendTask, MarkSent, OnlineBegin,
     OnlineCheck, OnlineSend, OnlineMark, Report, InsertResult, FinalizeDue, PingAgent, CloseFlight,
     CloseRound, AddHourlyStat, ApplyAlert, Crash, Restart, RecoverRound, RecoverBook, SweepOpen,
     Works, Fails
<1>3. crashes' = crashes \/ crashes' = crashes + 1
  BY DEF Next, Network, Dispatching, Redispatching, Finalizing, Recovering, vars, bounds, Connect,
     Disconnect, LoseTask, Tighten, Expire, CreateRound, SendTask, MarkSent, OnlineBegin,
     OnlineCheck, OnlineSend, OnlineMark, Report, InsertResult, FinalizeDue, PingAgent, CloseFlight,
     CloseRound, AddHourlyStat, ApplyAlert, Crash, Restart, RecoverRound, RecoverBook, SweepOpen
<1> QED
  BY <1>1, <1>2, <1>3

LEMMA OpenNext == LedgerInv /\ OpenIsInFlight /\ [Next]_vars => OpenIsInFlight'
<1> SUFFICES ASSUME LedgerInv, OpenIsInFlight, [Next]_vars,
                    faults' = 0, up', pc'[Sched] \notin {"recover", "rebook"},
                    NEW r \in Rounds, db'[r].state = "OPEN"
             PROVE  r \in flights' \/ \E t \in Threads : pc'[t] = "persist" /\ round'[t] = r
  BY DEF OpenIsInFlight, At
<1>1. /\ faults = 0 /\ faults \in Nat
      /\ db \in [Rounds -> StoredRounds] /\ agg \in [Rounds -> Outcome]
      /\ pc \in [Threads -> Labels] /\ round \in [Threads -> Rounds \cup {NoRound}]
  BY SpentForGood
  DEF LedgerInv, TypeInv, TypeOK, TypeStore, TypeMemory, TypeLocals, TypeBounds
<1> DEFINE Covered == r \in flights \/ \E t \in Threads : pc[t] = "persist" /\ round[t] = r
           Stays == \A t \in Threads : pc[t] = "persist" => pc'[t] = pc[t] /\ round'[t] = round[t]
<1>2. up /\ pc[Sched] \notin {"recover", "rebook"} /\ db[r].state = "OPEN" => Covered
  BY <1>1 DEF OpenIsInFlight, At
<1>3. ASSUME up, pc[Sched] \notin {"recover", "rebook"}, db[r].state = "OPEN",
             flights \subseteq flights', Stays
      PROVE  r \in flights' \/ \E t \in Threads : pc'[t] = "persist" /\ round'[t] = r
  BY <1>2, <1>3
<1>4. CASE UNCHANGED <<up, flights, db, pc, round>>
  BY <1>3, <1>4
<1>5. ASSUME NEW q \in Rounds, CreateRound(q)
      PROVE  r \in flights' \/ \E t \in Threads : pc'[t] = "persist" /\ round'[t] = r
  <2>1. up /\ pc[Sched] = Idle /\ Stays
    BY <1>1, <1>5 DEF CreateRound, SendNext, Goto, Idle
  <2>2. CASE db' = [db EXCEPT ![q] = Blank("OPEN")] /\ flights' = flights \cup {q}
    <3>1. r = q \/ db[r].state = "OPEN"
      BY <1>1, <2>2
    <3> QED
      BY <1>3, <2>1, <2>2, <3>1 DEF Idle
  <2>3. CASE UNCHANGED <<db, flights>>
    BY <1>3, <2>1, <2>3 DEF Idle
  <2> QED
    BY <1>5, <2>2, <2>3 DEF CreateRound
<1>6. ASSUME NEW t \in Threads, CloseRound(t)
      PROVE  r \in flights' \/ \E u \in Threads : pc'[u] = "persist" /\ round'[u] = r
  <2>1. up /\ pc[t] = "persist" /\ round[t] \in Rounds /\ flights' = flights \ {round[t]}
        /\ \A u \in Threads : u # t => pc'[u] = pc[u] /\ round'[u] = round[u]
    BY <1>1, <1>6 DEF CloseRound, Finish, Goto, LedgerInv, TypeInv, Shape, Working
  <2>2. pc[Sched] \notin {"recover", "rebook"}
    BY <2>1, ThreadAssumption DEF LedgerInv, Quiet, Threads, Idle
  <2>3. r # round[t] /\ db'[r] = db[r]
    <3>1. CASE StillOpen(round[t]) /\ db' = [db EXCEPT ![round[t]] = agg[round[t]]]
      BY <1>1, <2>1, <3>1 DEF Outcome, DecidedStates
    <3>2. CASE ~StillOpen(round[t]) /\ UNCHANGED db
      BY <1>1, <3>2 DEF StillOpen
    <3> QED
      BY <1>1, <1>6, <3>1, <3>2 DEF CloseRound, Fails
  <2> QED
    BY <1>2, <2>1, <2>2, <2>3
<1>7. CASE SweepOpen
  <2>1. db' = [q \in Rounds |-> IF db[q].state = "OPEN" THEN Swept ELSE db[q]]
    BY <1>1, <1>7 DEF SweepOpen, Fails
  <2> QED
    BY <2>1 DEF Swept, Blank
<1>8. CASE Restart \/ Crash \/ RecoverBook \/ \E q \in Rounds : RecoverRound(q)
  BY <1>1, <1>8 DEF Restart, Crash, RecoverBook, RecoverRound, Goto, Threads
<1>9. ASSUME up, pc[Sched] \notin {"recover", "rebook"}, UNCHANGED <<flights, db>>, Stays
      PROVE  r \in flights' \/ \E u \in Threads : pc'[u] = "persist" /\ round'[u] = r
  BY <1>3, <1>9
<1>10. CASE MarkSent \/ \E a \in Agents : SendTask(a)
  <2>1. Stays /\ up /\ pc[Sched] \in {"mark", "send"} /\ UNCHANGED <<flights, db>>
    BY <1>1, <1>10 DEF MarkSent, SendTask, SendNext, Goto, memory, store
  <2> QED
    BY <1>9, <2>1
<1>11. ASSUME NEW q \in Rounds, FinalizeDue(q)
       PROVE  r \in flights' \/ \E u \in Threads : pc'[u] = "persist" /\ round'[u] = r
  <2>1. Stays /\ up /\ pc[Sched] = Idle /\ UNCHANGED <<flights, db>>
    BY <1>1, <1>11 DEF FinalizeDue, EnterFinalize, Goto, memory, store, Idle
  <2> QED
    BY <1>9, <2>1 DEF Idle
<1>12. ASSUME NEW a \in Agents, InsertResult(a) \/ \E q \in Rounds, ok \in BOOLEAN : Report(q, a, ok)
       PROVE  r \in flights' \/ \E u \in Threads : pc'[u] = "persist" /\ round'[u] = r
  <2>1. /\ Stays /\ up /\ UNCHANGED <<flights, db>>
        /\ pc[a] \in {Idle, "insert"} /\ \A u \in Threads : u # a => pc'[u] = pc[u]
    BY <1>1, <1>12
    DEF InsertResult, Report, EnterFinalize, Finish, Goto, memory, store, Idle
  <2>2. pc[Sched] \notin {"recover", "rebook"}
    BY <2>1, ThreadAssumption DEF Threads
  <2> QED
    BY <1>9, <2>1, <2>2
<1>13. ASSUME NEW t \in Threads, CloseFlight(t) \/ AddHourlyStat(t) \/ ApplyAlert(t)
       PROVE  r \in flights' \/ \E u \in Threads : pc'[u] = "persist" /\ round'[u] = r
  <2>1. /\ Stays /\ up /\ UNCHANGED <<flights, db>>
        /\ pc[t] \in {"ping", "hourly", "alert"}
    BY <1>1, <1>13 DEF CloseFlight, AddHourlyStat, ApplyAlert, Finish, Goto, memory, store
  <2>2. pc[Sched] \notin {"recover", "rebook"}
    BY <2>1, ThreadAssumption DEF LedgerInv, Quiet, Threads, Idle
  <2> QED
    BY <1>9, <2>1, <2>2
<1> QED
  BY <1>4, <1>5, <1>6, <1>7, <1>8, <1>10, <1>11, <1>12, <1>13
  DEF Next, Network, Dispatching, Redispatching, Finalizing, Recovering, vars, memory, locals, store,
      Connect, Disconnect, LoseTask, Tighten, Expire, OnlineBegin, OnlineCheck, OnlineSend,
      OnlineMark, PingAgent

\* Outside the start-up an OPEN round is in flight or in the hands of the thread
\* that stores it, as long as no operation fails: nothing but a failing write
\* or a crash can leave a round OPEN for good.
THEOREM OpenCorrect == Safe => []OpenIsInFlight
<1>1. Init => OpenIsInFlight
  BY DEF Init, OpenIsInFlight, Blank
<1> QED
  BY <1>1, OpenNext, LedgerInvInductive, PTL DEF Safe

-----------------------------------------------------------------------------
(* A decided round is booked.                                              *)

\* Only a crash and a restart change whether the process runs; apart from them only
\* the recovery touches its list and its place in the code.
LEMMA OnlyRecoveryRecovers ==
  ASSUME pc \in [Threads -> Labels], Sched \in Threads, [Next]_vars, ~Crash, ~Restart
  PROVE  /\ up' = up
         /\ ~Recovering =>
              /\ orphans' = orphans
              /\ \/ pc'[Sched] = pc[Sched]
                 \/ {pc[Sched], pc'[Sched]} \cap {"recover", "rebook"} = {}
<1> DEFINE Apart == /\ up' = up /\ orphans' = orphans
                    /\ \/ pc'[Sched] = pc[Sched]
                       \/ {pc[Sched], pc'[Sched]} \cap {"recover", "rebook"} = {}
<1>1. ASSUME Network PROVE Apart
  BY <1>1 DEF Network, locals, Connect, Disconnect, LoseTask, Tighten, Expire
<1>2. ASSUME NEW r \in Rounds, CreateRound(r) PROVE Apart
  BY <1>2 DEF CreateRound, SendNext, Goto, Idle
<1>3. ASSUME NEW a \in Agents, SendTask(a) PROVE Apart
  BY <1>3 DEF SendTask, SendNext, Goto, Idle
<1>4. ASSUME MarkSent PROVE Apart
  BY <1>4 DEF MarkSent, SendNext, Goto, Idle
<1>5. ASSUME NEW a \in Agents, Redispatching(a) PROVE Apart
  BY <1>5 DEF Redispatching, OnlineBegin, OnlineCheck, OnlineSend, OnlineMark, locals
<1>6. ASSUME NEW r \in Rounds, NEW a \in Agents, NEW ok \in BOOLEAN, Report(r, a, ok) PROVE Apart
  BY <1>6 DEF Report, Goto, Idle
<1>7. ASSUME NEW a \in Agents, InsertResult(a) PROVE Apart
  <2>1. \E l \in {Idle, "ping"} : Goto(a, l)
    BY <1>7 DEF InsertResult, EnterFinalize, Finish
  <2> QED
    BY <1>7, <2>1 DEF InsertResult, Goto, Idle
<1>8. ASSUME NEW r \in Rounds, FinalizeDue(r) PROVE Apart
  BY <1>8 DEF FinalizeDue, EnterFinalize, Goto, Idle
<1>9. ASSUME NEW t \in Threads, Finalizing(t) PROVE Apart
  <2>1. ASSUME NEW a \in Agents, PingAgent(t, a) PROVE Apart
    BY <2>1 DEF PingAgent
  <2>2. ASSUME CloseFlight(t) \/ AddHourlyStat(t) PROVE Apart
    BY <2>2 DEF CloseFlight, AddHourlyStat, Goto
  <2>3. ASSUME CloseRound(t) PROVE Apart
    BY <2>3 DEF CloseRound, Finish, Goto, Idle
  <2>4. ASSUME ApplyAlert(t) PROVE Apart
    BY <2>4 DEF ApplyAlert, Finish, Goto, Idle
  <2> QED
    BY <1>9, <2>1, <2>2, <2>3, <2>4 DEF Finalizing
<1>10. ASSUME Recovering PROVE up' = up
  BY <1>10 DEF Recovering, RecoverRound, RecoverBook, SweepOpen
<1>11. ASSUME UNCHANGED vars PROVE Apart
  BY <1>11 DEF vars, locals
<1> HIDE DEF Apart
<1>12. Apart \/ Recovering
  <2>1. ASSUME Dispatching PROVE Apart
    BY <1>2, <1>3, <1>4, <2>1 DEF Dispatching
  <2> QED
    BY <1>1, <1>5, <1>6, <1>7, <1>8, <1>9, <1>11, <2>1 DEF Next
<1> QED
  BY <1>10, <1>12 DEF Apart

LEMMA NeverDownNext == LedgerInv /\ NeverDown /\ [Next]_vars => NeverDown'
<1> SUFFICES ASSUME LedgerInv, NeverDown, [Next]_vars, faults' = 0, crashes' = 0
             PROVE  up' /\ pc'[Sched] \notin {"recover", "rebook"}
  BY DEF NeverDown
<1>1. /\ faults = 0 /\ crashes = 0 /\ up = TRUE /\ pc[Sched] \notin {"recover", "rebook"}
      /\ pc \in [Threads -> Labels] /\ Sched \in Threads
  BY SpentForGood DEF NeverDown, LedgerInv, TypeInv, TypeOK, TypeNetwork, TypeLocals, Threads
<1>4. ~Crash /\ ~Restart
  BY <1>1 DEF Crash, Restart
<1>2. up' = up
  BY <1>1, <1>4, OnlyRecoveryRecovers
<1>3. pc'[Sched] \notin {"recover", "rebook"}
  <2>1. ~Recovering \/ pc'[Sched] = Idle
    BY <1>1 DEF Recovering, RecoverRound, RecoverBook, SweepOpen, Goto, Idle
  <2> QED
    BY <1>1, <1>4, <2>1, OnlyRecoveryRecovers DEF Idle
<1> QED
  BY <1>1, <1>2, <1>3

LEMMA UnbookedNext == LedgerInv /\ NeverDown /\ NothingUnbooked /\ [Next]_vars => NothingUnbooked'
<1> SUFFICES ASSUME LedgerInv, NeverDown, NothingUnbooked, [Next]_vars,
                    faults' = 0, crashes' = 0,
                    NEW r \in Rounds, Decided(r)'
             PROVE  r \in booked' \/ \E t \in Threads : pc'[t] = "hourly" /\ round'[t] = r
  BY DEF NothingUnbooked, At
<1>1. /\ faults = 0 /\ crashes = 0 /\ faults \in Nat /\ crashes \in Nat
      /\ up = TRUE /\ pc[Sched] \notin {"recover", "rebook"}
      /\ db \in [Rounds -> StoredRounds] /\ agg \in [Rounds -> Outcome]
      /\ pc \in [Threads -> Labels] /\ round \in [Threads -> Rounds \cup {NoRound}]
  BY SpentForGood
  DEF NeverDown, LedgerInv, TypeInv, TypeOK, TypeNetwork, TypeStore, TypeMemory, TypeLocals,
      TypeBounds
<1>2. Decided(r) => r \in booked \/ \E t \in Threads : pc[t] = "hourly" /\ round[t] = r
  BY <1>1 DEF NothingUnbooked, At
<1> DEFINE Stays == \A t \in Threads : pc[t] = "hourly" => pc'[t] = pc[t] /\ round'[t] = round[t]
<1>3. ASSUME Decided(r), booked' = booked, Stays
      PROVE  r \in booked' \/ \E t \in Threads : pc'[t] = "hourly" /\ round'[t] = r
  BY <1>2, <1>3
<1>4. CASE UNCHANGED <<db, booked, pc, round>>
  BY <1>3, <1>4 DEF Decided
<1>5. ASSUME NEW q \in Rounds, CreateRound(q)
      PROVE  r \in booked' \/ \E t \in Threads : pc'[t] = "hourly" /\ round'[t] = r
  <2>1. booked' = booked /\ Stays
    BY <1>1, <1>5 DEF CreateRound, SendNext, Goto, Idle
  <2>2. Decided(r)
    BY <1>1, <1>5 DEF CreateRound, Blank, Decided, DecidedStates
  <2> QED
    BY <1>3, <2>1, <2>2
<1>6. ASSUME NEW t \in Threads, CloseRound(t)
      PROVE  r \in booked' \/ \E u \in Threads : pc'[u] = "hourly" /\ round'[u] = r
  <2>1. pc[t] = "persist" /\ booked' = booked
        /\ \A u \in Threads : u # t => pc'[u] = pc[u] /\ round'[u] = round[u]
    BY <1>1, <1>6 DEF CloseRound, Finish, Goto
  <2>2. CASE db' = [db EXCEPT ![round[t]] = agg[round[t]]] /\ Goto(t, "hourly") /\ UNCHANGED round
    <3>1. r = round[t] \/ Decided(r)
      BY <1>1, <2>2 DEF Decided
    <3>2. pc'[t] = "hourly" /\ Stays
      BY <1>1, <2>1, <2>2 DEF Goto
    <3> QED
      BY <1>3, <2>1, <2>2, <3>1, <3>2
  <2>3. CASE UNCHANGED db
    BY <1>3, <2>1, <2>3 DEF Decided
  <2> QED
    BY <1>6, <2>2, <2>3 DEF CloseRound
<1>7. ASSUME NEW t \in Threads, AddHourlyStat(t)
      PROVE  r \in booked' \/ \E u \in Threads : pc'[u] = "hourly" /\ round'[u] = r
  <2>1. booked' = booked \cup {round[t]} /\ UNCHANGED <<db, round>>
    BY <1>1, <1>7 DEF AddHourlyStat, Book, Fails
  <2>2. \A u \in Threads : u # t => pc'[u] = pc[u]
    BY <1>1, <1>7 DEF AddHourlyStat, Goto
  <2> QED
    BY <1>2, <2>1, <2>2 DEF Decided
<1>8. ~Restart /\ ~Crash /\ ~RecoverBook /\ ~SweepOpen /\ \A q \in Rounds : ~RecoverRound(q)
  <2>1. ~Crash /\ ~Restart
    BY <1>1 DEF Crash, Restart
  <2> QED
    BY <1>1, <2>1 DEF RecoverBook, RecoverRound, SweepOpen
<1>9. CASE MarkSent \/ \E a \in Agents : SendTask(a)
  <2>1. Stays /\ UNCHANGED <<booked, db>>
    BY <1>1, <1>9 DEF MarkSent, SendTask, SendNext, Goto, store
  <2> QED
    BY <1>3, <2>1 DEF Decided
<1>10. ASSUME NEW q \in Rounds, FinalizeDue(q)
       PROVE  r \in booked' \/ \E u \in Threads : pc'[u] = "hourly" /\ round'[u] = r
  <2>1. Stays /\ UNCHANGED <<booked, db>>
    BY <1>1, <1>10 DEF FinalizeDue, EnterFinalize, Goto, store, Idle
  <2> QED
    BY <1>3, <2>1 DEF Decided
<1>11. ASSUME NEW a \in Agents, InsertResult(a) \/ \E q \in Rounds, ok \in BOOLEAN : Report(q, a, ok)
       PROVE  r \in booked' \/ \E u \in Threads : pc'[u] = "hourly" /\ round'[u] = r
  <2>1. Stays /\ UNCHANGED <<booked, db>>
    BY <1>1, <1>11 DEF InsertResult, Report, EnterFinalize, Finish, Goto, store, Idle
  <2> QED
    BY <1>3, <2>1 DEF Decided
<1>12. ASSUME NEW t \in Threads, CloseFlight(t) \/ ApplyAlert(t)
       PROVE  r \in booked' \/ \E u \in Threads : pc'[u] = "hourly" /\ round'[u] = r
  <2>1. Stays /\ UNCHANGED <<booked, db>>
    BY <1>1, <1>12 DEF CloseFlight, ApplyAlert, Finish, Goto, store
  <2> QED
    BY <1>3, <2>1 DEF Decided
<1> QED
  BY <1>4, <1>5, <1>6, <1>7, <1>8, <1>9, <1>10, <1>11, <1>12
  DEF Next, Network, Dispatching, Redispatching, Finalizing, Recovering, vars, memory, locals, store,
      Connect, Disconnect, LoseTask, Tighten, Expire, OnlineBegin, OnlineCheck, OnlineSend,
      OnlineMark, PingAgent

\* Unless an operation fails or the process dies, a decided round is booked or
\* the thread that decided it is about to book it.
THEOREM BookedCorrect == Safe => []NothingUnbooked
<1>1. Init => NeverDown /\ NothingUnbooked
  BY DEF Init, NeverDown, NothingUnbooked, Decided, DecidedStates, Blank, Threads, Idle
<1> QED
  BY <1>1, NeverDownNext, UnbookedNext, LedgerInvInductive, PTL DEF Safe

-----------------------------------------------------------------------------
(* Early finalization.                                                     *)

\* A thread that pings or inserts after a step did so before, on the same round
\* and with the same row, or the step is the one that made it do so.
LEMMA ThreadEnters ==
  ASSUME TypeInv, [Next]_vars, NEW t \in Threads, pc'[t] \in {"ping", "insert"}
  PROVE  \/ pc[t] = pc'[t] /\ round'[t] = round[t] /\ row'[t] = row[t]
         \/ t = Sched /\ \E r \in Rounds : FinalizeDue(r)
         \/ t \in Agents /\ InsertResult(t)
         \/ t \in Agents /\ \E r \in Rounds, ok \in BOOLEAN : Report(r, t, ok)
<1> DEFINE Goal == \/ pc[t] = pc'[t] /\ round'[t] = round[t] /\ row'[t] = row[t]
                   \/ t = Sched /\ \E r \in Rounds : FinalizeDue(r)
                   \/ t \in Agents /\ InsertResult(t)
                   \/ t \in Agents /\ \E r \in Rounds, ok \in BOOLEAN : Report(r, t, ok)
           Same(v) == pc'[v] = pc[v] /\ round'[v] = round[v] /\ row'[v] = row[v]
<1>1. /\ pc \in [Threads -> Labels] /\ round \in [Threads -> Rounds \cup {NoRound}]
      /\ row \in [Threads -> Rows]
  BY DEF TypeInv, TypeOK, TypeLocals
<1>2. ~Crash
  BY DEF Crash, Idle
<1>3. ASSUME UNCHANGED <<pc, round, row>> PROVE Goal
  BY <1>3
<1>4. ASSUME NEW u \in Threads, pc'[u] \notin {"ping", "insert"}, \A v \in Threads : v # u => Same(v)
      PROVE  Goal
  BY <1>4
<1>5. ASSUME Dispatching PROVE Goal
  <2>1. pc'[Sched] \notin {"ping", "insert"} /\ \A v \in Threads : v # Sched => Same(v)
    BY <1>1, <1>5 DEF Dispatching, CreateRound, SendTask, MarkSent, SendNext, Goto, Idle, Threads
  <2> HIDE DEF Goal
  <2> QED
    BY <1>4, <2>1 DEF Threads
<1>6. ASSUME NEW a \in Agents, InsertResult(a) \/ \E r \in Rounds, ok \in BOOLEAN : Report(r, a, ok)
       PROVE  Goal
  <2>1. \A v \in Threads : v # a => Same(v)
    BY <1>1, <1>6 DEF InsertResult, Report, EnterFinalize, Finish, Goto
  <2> QED
    BY <1>6, <2>1
<1>7. ASSUME NEW r \in Rounds, FinalizeDue(r) PROVE Goal
  <2>1. \A v \in Threads : v # Sched => Same(v)
    BY <1>1, <1>7 DEF FinalizeDue, EnterFinalize, Goto
  <2> QED
    BY <1>7, <2>1
<1>8. ASSUME NEW u \in Threads, CloseFlight(u) \/ CloseRound(u) \/ AddHourlyStat(u) \/ ApplyAlert(u)
       PROVE  Goal
  <2>1. pc'[u] \notin {"ping", "insert"} /\ \A v \in Threads : v # u => Same(v)
    BY <1>1, <1>8 DEF CloseFlight, CloseRound, AddHourlyStat, ApplyAlert, Finish, Goto, Idle
  <2> HIDE DEF Goal
  <2> QED
    BY <1>4, <2>1
<1>9. ASSUME Restart \/ Recovering PROVE Goal
  <2>1. pc'[Sched] \notin {"ping", "insert"} /\ \A v \in Threads : v # Sched => Same(v)
    BY <1>1, <1>9
    DEF Restart, Recovering, RecoverRound, RecoverBook, SweepOpen, Goto, Idle, Threads
  <2> HIDE DEF Goal
  <2> QED
    BY <1>4, <2>1 DEF Threads
<1> HIDE DEF Goal
<1>10. Goal
  BY <1>2, <1>3, <1>5, <1>6, <1>7, <1>8, <1>9
  DEF Next, Network, Redispatching, Finalizing, vars, locals, Connect, Disconnect, LoseTask,
     Tighten, Expire, OnlineBegin, OnlineCheck, OnlineSend, OnlineMark, PingAgent
<1> QED
  BY <1>10 DEF Goal

LEMMA PingsNext == TypeInv /\ Quiet /\ PingsInTime /\ [Next]_vars => PingsInTime'
<1> SUFFICES ASSUME TypeInv, Quiet, PingsInTime, [Next]_vars, NEW t \in Threads, pc'[t] = "ping"
             PROVE  Pending(round[t])' = {} \/ time'[round'[t]] = "past"
  BY DEF PingsInTime
<1>1. /\ pc \in [Threads -> Labels] /\ round \in [Threads -> Rounds \cup {NoRound}]
      /\ time \in [Rounds -> {"ample", "tight", "past"}]
      /\ results \in [Rounds -> [Agents -> Samples]]
      /\ pc[t] = "ping" => round[t] \in Rounds
  BY DEF TypeInv, TypeOK, TypeNetwork, TypeLocals, TypeMemory, Shape, Working
<1>2. ~Crash
  BY DEF Crash, Idle
<1>3. \A r \in Rounds : time[r] = "past" => time'[r] = "past"
  BY <1>1, <1>2
  DEF Next, Network, Dispatching, Redispatching, Finalizing, Recovering, vars, Connect,
     Disconnect, LoseTask, Tighten, Expire, CreateRound, SendTask, MarkSent, OnlineBegin,
     OnlineCheck, OnlineSend, OnlineMark, Report, InsertResult, FinalizeDue, PingAgent, CloseFlight,
     CloseRound, AddHourlyStat, ApplyAlert, Restart, RecoverRound, RecoverBook, SweepOpen
<1>4. \A r \in Rounds, a \in Agents : results[r][a] # "none" => results'[r][a] # "none"
  <2>1. ASSUME NEW r \in Rounds, NEW a \in Agents, NEW ok \in BOOLEAN, Report(r, a, ok)
        PROVE  \A q \in Rounds, b \in Agents : results[q][b] # "none" => results'[q][b] # "none"
    BY <1>1, <2>1 DEF Report, Verdict
  <2>2. UNCHANGED results
          => \A q \in Rounds, b \in Agents : results[q][b] # "none" => results'[q][b] # "none"
    OBVIOUS
  <2> QED
    BY <1>2, <2>1, <2>2
    DEF Next, Network, Dispatching, Redispatching, Finalizing, Recovering, vars, memory, Connect,
       Disconnect, LoseTask, Tighten, Expire, CreateRound, SendTask, MarkSent, OnlineBegin,
       OnlineCheck, OnlineSend, OnlineMark, InsertResult, FinalizeDue, PingAgent, CloseFlight,
       CloseRound, AddHourlyStat, ApplyAlert, Restart, RecoverRound, RecoverBook, SweepOpen
<1>5. CASE pc[t] = "ping" /\ round'[t] = round[t]
  <2>1. Pending(round[t]) = {} \/ time[round[t]] = "past"
    BY <1>5 DEF PingsInTime
  <2> QED
    BY <1>1, <1>3, <1>4, <1>5, <2>1 DEF Pending
<1>6. ASSUME NEW r \in Rounds, FinalizeDue(r), t = Sched
      PROVE  Pending(round[t])' = {} \/ time'[round'[t]] = "past"
  <2>1. round'[t] = r /\ time[r] = "past"
    BY <1>1, <1>6 DEF FinalizeDue, EnterFinalize, Due
  <2> QED
    BY <1>3, <2>1
<1>7. ASSUME NEW a \in Agents, InsertResult(a), t = a
      PROVE  Pending(round[t])' = {} \/ time'[round'[t]] = "past"
  <2>1. pc[a] = "insert" /\ round[a] \in Rounds
    BY <1>7 DEF InsertResult, TypeInv, Shape, Working
  <2>2. Complete(round[a]) /\ round'[a] = round[a] /\ UNCHANGED results
    BY <1>1, <1>7, <2>1 DEF InsertResult, EnterFinalize, Finish, Goto, Idle, memory
  <2> QED
    BY <1>7, <2>2 DEF Complete, Pending
<1>8. ASSUME t \in Agents, NEW r \in Rounds, NEW ok \in BOOLEAN, Report(r, t, ok) PROVE FALSE
  BY <1>1, <1>8 DEF Report, Goto
<1> QED
  BY <1>5, <1>6, <1>7, <1>8, ThreadEnters

LEMMA EarlyNext ==
  TypeInv /\ PingsInTime /\ EarlyOnlyIfComplete /\ [Next]_vars => EarlyOnlyIfComplete'
<1> SUFFICES ASSUME TypeInv, PingsInTime, EarlyOnlyIfComplete, [Next]_vars,
                    NEW r \in closed', Missing(agg'[r]) # {}
             PROVE  time'[r] = "past"
  BY DEF EarlyOnlyIfComplete, Missing
<1>1. /\ agg \in [Rounds -> Outcome] /\ time \in [Rounds -> {"ample", "tight", "past"}]
      /\ results \in [Rounds -> [Agents -> Samples]] /\ closed \subseteq Rounds
      /\ dead \in [Threads -> SUBSET Agents] /\ undisp \in [Threads -> SUBSET Agents]
  BY DEF TypeInv, TypeOK, TypeMemory, TypeNetwork, TypeLocals
<1>2. r \in closed /\ Missing(agg[r]) # {} => time[r] = "past"
  BY DEF EarlyOnlyIfComplete
<1>3. ASSUME NEW t \in Threads, CloseFlight(t) PROVE time'[r] = "past"
  <2>1. pc[t] = "ping" /\ round[t] \in Rounds /\ UNCHANGED time
    BY <1>3 DEF CloseFlight, TypeInv, Shape, Working
  <2>2. CASE r \in closed /\ agg'[r] = agg[r]
    BY <1>2, <2>1, <2>2
  <2>3. CASE r = round[t] /\ agg'[r] = Aggregate(r, results[r], dead[t], undisp[t])
    <3>1. Splits(results[r], Aggregate(r, results[r], dead[t], undisp[t]))
      BY <1>1, <2>1, <2>3, AggregateSplits
    <3>2. Missing(agg'[r]) \subseteq Agents
      BY <2>3 DEF Aggregate, Missing, Reported
    <3>3. Reported(results[r]) = Agents \ Missing(agg'[r])
      BY <2>3, <3>1 DEF Splits
    <3>4. Reported(results[r]) # Agents
      BY <3>2, <3>3
    <3>5. Pending(r) # {}
      BY <3>4 DEF Reported, Pending
    <3> QED
      BY <2>1, <2>3, <3>5 DEF PingsInTime
  <2> QED
    BY <1>1, <1>3, <2>1, <2>2, <2>3 DEF CloseFlight
<1>4. CASE Crash
  BY <1>4 DEF Crash
<1>5. ASSUME NEW q \in Rounds, Tighten(q) \/ Expire(q) PROVE time'[r] = "past"
  BY <1>1, <1>2, <1>5 DEF Tighten, Expire, memory
<1>6. CASE UNCHANGED <<closed, agg, time>>
  BY <1>2, <1>6
<1> QED
  BY <1>3, <1>4, <1>5, <1>6
  DEF Next, Network, Dispatching, Redispatching, Finalizing, Recovering, vars, memory, Connect,
     Disconnect, LoseTask, CreateRound, SendTask, MarkSent, OnlineBegin, OnlineCheck, OnlineSend,
     OnlineMark, Report, InsertResult, FinalizeDue, PingAgent, CloseRound, AddHourlyStat,
     ApplyAlert, Restart, RecoverRound, RecoverBook, SweepOpen

\* A round closed with a node missing is past its deadline: a read loop, which
\* alone could deliver the pongs, never finalizes an incomplete round.
THEOREM EarlyCorrect == Safe => []EarlyOnlyIfComplete
<1>1. Init => PingsInTime /\ EarlyOnlyIfComplete
  BY DEF Init, PingsInTime, EarlyOnlyIfComplete, Idle
<1>2. LedgerInv => TypeInv /\ Quiet
  BY DEF LedgerInv
<1> QED
  BY <1>1, <1>2, PingsNext, EarlyNext, LedgerInvInductive, PTL DEF Safe

-----------------------------------------------------------------------------
(* The memory and the tables agree.                                        *)

\* In memory a round is known and a sample is kept until the process dies.
LEMMA MemoryGrows ==
  ASSUME TypeInv, ClosingIsClosed, [Next]_vars, ~Crash
  PROVE  /\ Known \subseteq Known' /\ closed \subseteq closed'
         /\ \A r \in Rounds, a \in Agents : results[r][a] # "none" => results'[r][a] = results[r][a]
<1>1. ASSUME NEW t \in Threads, CloseRound(t) PROVE Known \subseteq Known' /\ closed \subseteq closed'
  BY <1>1 DEF CloseRound, Known, ClosingIsClosed
<1>2. Known \subseteq Known' /\ closed \subseteq closed'
  BY <1>1
  DEF Next, Network, Dispatching, Redispatching, Finalizing, Recovering, vars, memory, Connect,
     Disconnect, LoseTask, Tighten, Expire, CreateRound, SendTask, MarkSent, OnlineBegin,
     OnlineCheck, OnlineSend, OnlineMark, Report, InsertResult, FinalizeDue, PingAgent, CloseFlight,
     AddHourlyStat, ApplyAlert, Restart, RecoverRound, RecoverBook, SweepOpen, Known
<1>3. ASSUME NEW r \in Rounds, NEW a \in Agents, NEW ok \in BOOLEAN, Report(r, a, ok)
      PROVE  \A q \in Rounds, b \in Agents : results[q][b] # "none" => results'[q][b] = results[q][b]
  BY <1>3 DEF Report, TypeInv, TypeOK, TypeMemory
<1>4. UNCHANGED results \/ \E r \in Rounds, a \in Agents, ok \in BOOLEAN : Report(r, a, ok)
  BY
  DEF Next, Network, Dispatching, Redispatching, Finalizing, Recovering, vars, memory, Connect,
     Disconnect, LoseTask, Tighten, Expire, CreateRound, SendTask, MarkSent, OnlineBegin,
     OnlineCheck, OnlineSend, OnlineMark, InsertResult, FinalizeDue, PingAgent, CloseFlight,
     CloseRound, AddHourlyStat, ApplyAlert, Restart, RecoverRound, RecoverBook, SweepOpen
<1> QED
  BY <1>2, <1>3, <1>4

\* The steps that write table rounds.
LEMMA OutcomeWriters ==
  ASSUME [Next]_vars
  PROVE  \/ db' = db
         \/ \E r \in Rounds : CreateRound(r) \/ RecoverRound(r)
         \/ \E t \in Threads : CloseRound(t)
         \/ SweepOpen
BY DEF Next, Network, Dispatching, Redispatching, Finalizing, Recovering, vars, store, Connect,
   Disconnect, LoseTask, Tighten, Expire, SendTask, MarkSent, OnlineBegin, OnlineCheck, OnlineSend,
   OnlineMark, Report, InsertResult, FinalizeDue, PingAgent, CloseFlight, AddHourlyStat, ApplyAlert,
   Crash, Restart, RecoverBook

LEMMA HeldNext ==
  TypeInv /\ ClosingIsClosed /\ HeldIsKnown /\ [Next]_vars => HeldIsKnown'
<1> SUFFICES ASSUME TypeInv, ClosingIsClosed, HeldIsKnown, [Next]_vars, NEW t \in Threads,
                    pc'[t] = "ping" \/ (pc'[t] = "insert" /\ ~row'[t].late)
             PROVE  round'[t] \in Known'
  BY DEF HeldIsKnown
<1>1. /\ pc \in [Threads -> Labels] /\ round \in [Threads -> Rounds \cup {NoRound}]
      /\ row \in [Threads -> Rows]
  BY DEF TypeInv, TypeOK, TypeLocals
<1>2. Known \subseteq Known'
  <2>1. ~Crash
    BY DEF Crash, Idle
  <2> QED
    BY <2>1, MemoryGrows
<1>3. CASE pc[t] = pc'[t] /\ round'[t] = round[t] /\ row'[t] = row[t]
  BY <1>2, <1>3 DEF HeldIsKnown
<1>4. ASSUME NEW r \in Rounds, FinalizeDue(r), t = Sched PROVE round'[t] \in Known'
  BY <1>1, <1>2, <1>4 DEF FinalizeDue, EnterFinalize, Due, Known
<1>5. CASE t \in Agents /\ InsertResult(t)
  <2>1. pc[t] = "insert" /\ ~row[t].late /\ round'[t] = round[t]
    BY <1>1, <1>5 DEF InsertResult, EnterFinalize, Finish, Goto, Idle
  <2> QED
    BY <1>2, <2>1 DEF HeldIsKnown
<1>6. ASSUME t \in Agents, NEW r \in Rounds, NEW ok \in BOOLEAN, Report(r, t, ok)
      PROVE  round'[t] \in Known'
  <2>1. pc'[t] = "insert" /\ round'[t] = r /\ row'[t].late = ~Accepts(r)
    BY <1>1, <1>6 DEF Report, Goto
  <2>2. Accepts(r)
    BY <2>1
  <2> QED
    BY <1>2, <2>1, <2>2 DEF Accepts, Known
<1> QED
  BY <1>3, <1>4, <1>5, <1>6, ThreadEnters

LEMMA NothingClosedNext == LedgerInv /\ NothingClosed /\ [Next]_vars => NothingClosed'
<1> SUFFICES ASSUME LedgerInv, NothingClosed, [Next]_vars,
                    ~up' \/ pc'[Sched] \in {"recover", "rebook"}
             PROVE  closed' = {}
  BY DEF NothingClosed
<1>1. pc \in [Threads -> Labels] /\ Sched \in Threads
  BY DEF LedgerInv, TypeInv, TypeOK, TypeLocals, Threads
<1>2. CASE Crash
  BY <1>2 DEF Crash
<1>3. CASE Restart
  BY <1>3 DEF Restart, memory, NothingClosed
<1>4. CASE Recovering
  BY <1>1, <1>4 DEF Recovering, RecoverRound, RecoverBook, SweepOpen, memory, NothingClosed, Goto, Idle
<1>5. ASSUME NEW t \in Threads, CloseFlight(t) PROVE FALSE
  <2>1. up /\ pc[t] = "ping" /\ up' = up /\ pc' = [pc EXCEPT ![t] = "persist"]
    BY <1>5 DEF CloseFlight, Goto
  <2>2. pc[Sched] \notin {"recover", "rebook"}
    BY <2>1, ThreadAssumption DEF LedgerInv, Quiet, Threads, Idle
  <2> QED
    BY <1>1, <2>1, <2>2
<1>6. ASSUME ~Crash, ~Restart, ~Recovering
      PROVE  up' = up /\ (pc'[Sched] \in {"recover", "rebook"} => pc[Sched] = pc'[Sched])
  BY <1>1, <1>6, OnlyRecoveryRecovers
<1>7. ASSUME ~Crash, ~Restart, ~Recovering PROVE UNCHANGED closed
  BY <1>5, <1>7
  DEF Next, Network, Dispatching, Redispatching, Finalizing, vars, memory, Connect, Disconnect,
     LoseTask, Tighten, Expire, CreateRound, SendTask, MarkSent, OnlineBegin, OnlineCheck, OnlineSend,
     OnlineMark, Report, InsertResult, FinalizeDue, PingAgent, CloseRound, AddHourlyStat, ApplyAlert
<1> QED
  BY <1>2, <1>3, <1>4, <1>6, <1>7 DEF NothingClosed

LEMMA OrphansNext == LedgerInv /\ OrphansListed /\ [Next]_vars => OrphansListed'
<1> SUFFICES ASSUME LedgerInv, OrphansListed, [Next]_vars,
                    faults' = 0, pc'[Sched] \in {"recover", "rebook"},
                    NEW r \in Rounds, db'[r].state = "OPEN"
             PROVE  r \in orphans'
  BY DEF OrphansListed
<1>1. /\ pc \in [Threads -> Labels] /\ Sched \in Threads /\ db \in [Rounds -> StoredRounds]
      /\ faults = 0 /\ faults \in Nat
  BY SpentForGood DEF LedgerInv, TypeInv, TypeOK, TypeLocals, TypeStore, TypeBounds, Threads
<1>2. CASE Restart
  BY <1>1, <1>2 DEF Restart, store, Fails
<1>3. ASSUME NEW q \in Rounds, RecoverRound(q) PROVE r \in orphans'
  <2>1. /\ pc[Sched] = "recover" /\ orphans' = orphans \ {q}
        /\ db' = [db EXCEPT ![q] = Recount(rows[q])]
    BY <1>1, <1>3 DEF RecoverRound, Fails
  <2>2. Recount(rows[q]).state # "OPEN"
    BY RecountType DEF LedgerInv, TypeInv, TypeOK, TypeStore, Outcome, DecidedStates
  <2>3. r # q /\ db[r].state = "OPEN"
    BY <1>1, <2>1, <2>2
  <2> QED
    BY <1>1, <2>1, <2>3 DEF OrphansListed
<1>4. CASE RecoverBook
  BY <1>1, <1>4 DEF RecoverBook, OrphansListed
<1>5. CASE SweepOpen \/ Crash
  BY <1>1, <1>5 DEF SweepOpen, Crash, Goto, Idle
<1>6. ASSUME ~Restart, ~Recovering, ~Crash
      PROVE  pc'[Sched] = pc[Sched] /\ UNCHANGED orphans
  BY <1>1, <1>6, OnlyRecoveryRecovers
<1>7. ASSUME pc[Sched] \in {"recover", "rebook"}, ~Recovering PROVE db' = db
  <2>1. pc[Sched] # Idle /\ \A t \in Threads : pc[t] # "persist"
    BY <1>7 DEF LedgerInv, Quiet, Threads, Idle
  <2>2. (\A q \in Rounds : ~CreateRound(q)) /\ (\A t \in Threads : ~CloseRound(t))
    BY <2>1 DEF CreateRound, CloseRound
  <2> QED
    BY <1>7, <2>2, OutcomeWriters DEF Recovering
<1> QED
  BY <1>1, <1>2, <1>3, <1>4, <1>5, <1>6, <1>7 DEF OrphansListed, Recovering

LEMMA StoredNext ==
  LedgerInv /\ HeldIsKnown /\ KnownIsStored /\ NothingClosed /\ [Next]_vars => KnownIsStored'
<1> SUFFICES ASSUME LedgerInv, HeldIsKnown, KnownIsStored, NothingClosed, [Next]_vars
             PROVE  KnownIsStored'
  OBVIOUS
<1> DEFINE Good(r) == /\ r \in flights' \ closed' => db'[r].state = "OPEN"
                      /\ r \in closed' => db'[r].state = "OPEN" \/ db'[r] = agg'[r]
<1>1. /\ db \in [Rounds -> StoredRounds] /\ agg \in [Rounds -> Outcome]
      /\ flights \subseteq Rounds /\ closed \subseteq Rounds
      /\ flights' \subseteq Rounds /\ closed' \subseteq Rounds
  BY TypeInvInductive DEF LedgerInv, TypeInv, TypeOK, TypeStore, TypeMemory
<1>2. ASSUME NEW r \in Rounds, flights' \subseteq flights, closed' = closed, agg' = agg, db' = db
      PROVE  Good(r)
  BY <1>2 DEF KnownIsStored
<1>3. ASSUME NEW r \in Rounds, NEW q \in Rounds, CreateRound(q) PROVE Good(r)
  <2>1. UNCHANGED <<closed, agg>> /\ db[q].state = "none"
    BY <1>3 DEF CreateRound
  <2>2. CASE db' = [db EXCEPT ![q] = Blank("OPEN")] /\ flights' = flights \cup {q}
    <3>1. q \notin closed
      BY <1>1, <2>1 DEF KnownIsStored, Outcome, DecidedStates
    <3>2. db'[q].state = "OPEN" /\ \A p \in Rounds \ {q} : db'[p] = db[p]
      BY <1>1, <2>2 DEF Blank
    <3> QED
      BY <2>1, <2>2, <3>1, <3>2 DEF KnownIsStored
  <2> QED
    BY <1>2, <1>3, <2>1, <2>2 DEF CreateRound
<1>4. ASSUME NEW r \in Rounds, NEW t \in Threads, CloseFlight(t) PROVE Good(r)
  <2>1. round[t] \in Known /\ round[t] \in Rounds /\ UNCHANGED <<flights, db>>
    BY <1>4 DEF CloseFlight, HeldIsKnown, store, LedgerInv, TypeInv, Shape, Working
  <2>2. CASE round[t] \in closed /\ UNCHANGED <<closed, agg>>
    BY <1>2, <2>1, <2>2
  <2>3. CASE round[t] \notin closed
    <3>1. /\ closed' = closed \cup {round[t]}
          /\ \A q \in closed : agg'[q] = agg[q]
      BY <1>1, <1>4, <2>3 DEF CloseFlight
    <3>2. db[round[t]].state = "OPEN"
      BY <2>1, <2>3 DEF Known, KnownIsStored
    <3> QED
      BY <2>1, <3>1, <3>2 DEF KnownIsStored
  <2> QED
    BY <1>4, <2>2, <2>3 DEF CloseFlight
<1>5. ASSUME NEW r \in Rounds, NEW t \in Threads, CloseRound(t) PROVE Good(r)
  <2>1. /\ round[t] \in closed /\ round[t] \in Rounds /\ flights' = flights \ {round[t]}
        /\ UNCHANGED <<closed, agg>>
        /\ db' = db \/ db' = [db EXCEPT ![round[t]] = agg[round[t]]]
    BY <1>5
    DEF CloseRound, LedgerInv, Winner, ClosingIsClosed, TypeInv, Shape, Working
  <2> QED
    BY <1>1, <2>1 DEF KnownIsStored
<1>6. ASSUME NEW r \in Rounds, Recovering \/ Crash PROVE Good(r)
  <2>1. flights' = {} /\ closed' = {}
    BY <1>6
    DEF Recovering, RecoverRound, RecoverBook, SweepOpen, Crash, memory, LedgerInv, Quiet, NothingClosed
  <2> QED
    BY <2>1
<1>7. ASSUME ~Recovering, ~Crash, ~Dispatching, \A t \in Threads : ~CloseFlight(t) /\ ~CloseRound(t)
      PROVE  UNCHANGED <<flights, closed, agg>>
  BY <1>7
  DEF Next, Network, Redispatching, Finalizing, vars, memory, Connect, Disconnect,
     LoseTask, Tighten, Expire, OnlineBegin, OnlineCheck, OnlineSend,
     OnlineMark, Report, InsertResult, FinalizeDue, PingAgent, AddHourlyStat, ApplyAlert, Restart
<1>8. ASSUME ~Recovering, ~Dispatching, \A t \in Threads : ~CloseRound(t)
      PROVE  db' = db
  BY <1>8, OutcomeWriters DEF Recovering, Dispatching
<1>9. ASSUME MarkSent \/ \E a \in Agents : SendTask(a) PROVE UNCHANGED <<flights, closed, agg, db>>
  BY <1>9 DEF MarkSent, SendTask, memory, store
<1>10. \A r \in Rounds : Good(r)
  <2> HIDE DEF Good
  <2> QED
    BY <1>2, <1>3, <1>4, <1>5, <1>6, <1>7, <1>8, <1>9 DEF Dispatching
<1> QED
  BY <1>1, <1>10 DEF KnownIsStored

LEMMA HandNext == LedgerInv /\ HandIsReported /\ [Next]_vars => HandIsReported'
<1> SUFFICES ASSUME LedgerInv, HandIsReported, [Next]_vars,
                    NEW a \in Agents, pc'[a] = "insert", ~row'[a].late
             PROVE  row'[a].agent = a /\ results'[round'[a]][a] # "none"
  BY DEF HandIsReported
<1>1. /\ pc \in [Threads -> Labels] /\ round \in [Threads -> Rounds \cup {NoRound}]
      /\ row \in [Threads -> Rows] /\ results \in [Rounds -> [Agents -> Samples]]
      /\ a \in Threads /\ TypeInv /\ ClosingIsClosed
  BY DEF LedgerInv, Winner, TypeInv, TypeOK, TypeLocals, TypeMemory, Threads
<1>2. ~Crash
  BY <1>1 DEF Crash, Idle
<1>3. CASE pc[a] = pc'[a] /\ round'[a] = round[a] /\ row'[a] = row[a]
  <2>1. row[a].agent = a /\ results[round[a]][a] # "none" /\ round[a] \in Rounds
    BY <1>3 DEF HandIsReported, LedgerInv, TypeInv, Shape, Working, Threads
  <2> QED
    BY <1>1, <1>2, <1>3, <2>1, MemoryGrows
<1>4. ASSUME NEW r \in Rounds, NEW ok \in BOOLEAN, Report(r, a, ok)
      PROVE  row'[a].agent = a /\ results'[round'[a]][a] # "none"
  <2>1. round'[a] = r /\ row'[a].agent = a /\ row'[a].late = ~Accepts(r)
    BY <1>1, <1>4 DEF Report
  <2>2. results[r][a] = "none" => results'[r][a] = Verdict(ok)
    BY <1>1, <1>4, <2>1 DEF Report
  <2>3. results[r][a] # "none" => results'[r][a] = results[r][a]
    BY <1>1, <1>2, MemoryGrows
  <2> QED
    BY <2>1, <2>2, <2>3 DEF Verdict
<1>5. ~InsertResult(a)
  BY <1>1 DEF InsertResult, EnterFinalize, Finish, Goto, Idle
<1>6. a # Sched
  BY ThreadAssumption
<1> QED
  BY <1>1, <1>3, <1>4, <1>5, <1>6, ThreadEnters

\* A stored on-time row was there, or a read loop has just stored it: the row
\* it carried, of its own node and of the round it works on.
LEMMA RowsStep ==
  ASSUME TypeInv, [Next]_vars, NEW r \in Rounds
  PROVE  /\ OnTime(r) \subseteq OnTime(r)'
         /\ \A w \in OnTime(r)' : w \notin OnTime(r) =>
              \E a \in Agents :
                /\ InsertResult(a)
                /\ pc[a] = "insert" /\ ~row[a].late /\ round[a] = r
                /\ w.agent = a /\ w.ok = row[a].ok
<1>1. rows \in [Rounds -> SUBSET StoredRows]
  BY DEF TypeInv, TypeOK, TypeStore
<1>2. ASSUME NEW a \in Agents, InsertResult(a)
      PROVE  /\ OnTime(r) \subseteq OnTime(r)'
             /\ \A w \in OnTime(r)' : w \notin OnTime(r) =>
                  /\ pc[a] = "insert" /\ ~row[a].late /\ round[a] = r
                  /\ w.agent = a /\ w.ok = row[a].ok
  <2>1. round[a] \in Rounds /\ pc[a] = "insert"
    BY <1>2 DEF InsertResult, TypeInv, Shape, Working, Threads
  <2>2. CASE UNCHANGED rows
    BY <2>2 DEF OnTime
  <2>3. CASE ~UNCHANGED rows
    <3> DEFINE new == [agent |-> a, ok |-> row[a].ok, late |-> row[a].late,
                       id |-> Cardinality(rows[round[a]])]
    <3>1. rows' = [rows EXCEPT ![round[a]] = @ \cup {new}]
      BY <1>2, <2>3 DEF InsertResult
    <3>2. new.agent = a /\ new.ok = row[a].ok /\ new.late = row[a].late
      OBVIOUS
    <3>3. rows'[r] = IF r = round[a] THEN rows[r] \cup {new} ELSE rows[r]
      BY <1>1, <2>1, <3>1
    <3> HIDE DEF new
    <3> QED
      BY <2>1, <3>2, <3>3 DEF OnTime
  <2> QED
    BY <2>2, <2>3
<1>3. UNCHANGED rows \/ \E a \in Agents : InsertResult(a)
  BY
  DEF Next, Network, Dispatching, Redispatching, Finalizing, Recovering, vars, store, Connect,
     Disconnect, LoseTask, Tighten, Expire, CreateRound, SendTask, MarkSent, OnlineBegin,
     OnlineCheck, OnlineSend, OnlineMark, Report, FinalizeDue, PingAgent, CloseFlight,
     CloseRound, AddHourlyStat, ApplyAlert, Crash, Restart, RecoverRound, RecoverBook, SweepOpen
<1>4. UNCHANGED rows => OnTime(r)' = OnTime(r)
  BY DEF OnTime
<1> QED
  BY <1>2, <1>3, <1>4

\* A round exists for good, and the memory gets to know a round when it is
\* created.
LEMMA KnownStep ==
  ASSUME LedgerInv, HeldIsKnown, [Next]_vars, NEW r \in Rounds
  PROVE  /\ db[r].state # "none" => db'[r].state # "none"
         /\ r \in Known' /\ r \notin Known => db[r].state = "none"
<1>1. db \in [Rounds -> StoredRounds] /\ agg \in [Rounds -> Outcome]
  BY DEF LedgerInv, TypeInv, TypeOK, TypeStore, TypeMemory
<1>2. db[r].state # "none" => db'[r].state # "none"
  <2>1. ASSUME NEW q \in Rounds, CreateRound(q) PROVE db[r].state # "none" => db'[r].state # "none"
    BY <1>1, <2>1 DEF CreateRound
  <2>2. ASSUME NEW q \in Rounds, RecoverRound(q) PROVE db[r].state # "none" => db'[r].state # "none"
    <3>1. Recount(rows[q]).state # "none"
      BY RecountType DEF LedgerInv, TypeInv, TypeOK, TypeStore, Outcome, DecidedStates
    <3> QED
      BY <1>1, <2>2, <3>1 DEF RecoverRound
  <2>3. ASSUME NEW t \in Threads, CloseRound(t) PROVE db[r].state # "none" => db'[r].state # "none"
    <3>1. round[t] \in Rounds
      BY <2>3 DEF CloseRound, LedgerInv, TypeInv, Shape, Working
    <3>2. agg[round[t]].state # "none"
      BY <1>1, <3>1 DEF Outcome, DecidedStates
    <3> QED
      BY <1>1, <2>3, <3>1, <3>2 DEF CloseRound
  <2>4. CASE SweepOpen
    BY <1>1, <2>4 DEF SweepOpen, Swept, Blank
  <2> QED
    BY <2>1, <2>2, <2>3, <2>4, OutcomeWriters
<1>3. ASSUME r \in Known', r \notin Known PROVE db[r].state = "none"
  <2>1. ASSUME NEW q \in Rounds, CreateRound(q) PROVE db[r].state = "none"
    BY <1>3, <2>1 DEF CreateRound, Known
  <2>2. ASSUME NEW t \in Threads, CloseFlight(t) PROVE FALSE
    BY <1>3, <2>2 DEF CloseFlight, Known, HeldIsKnown
  <2>3. ASSUME NEW t \in Threads, CloseRound(t) PROVE FALSE
    BY <1>3, <2>3 DEF CloseRound, Known
  <2>4. ~Crash
    BY <1>3 DEF Crash, Known
  <2> QED
    BY <1>3, <2>1, <2>2, <2>3, <2>4
    DEF Next, Network, Dispatching, Redispatching, Finalizing, Recovering, vars, memory, Connect,
       Disconnect, LoseTask, Tighten, Expire, SendTask, MarkSent, OnlineBegin, OnlineCheck,
       OnlineSend, OnlineMark, Report, InsertResult, FinalizeDue, PingAgent, AddHourlyStat,
       ApplyAlert, Restart, RecoverRound, RecoverBook, SweepOpen, Known
<1> QED
  BY <1>2, <1>3

LEMMA RowsNext == RecordsInv /\ [Next]_vars => RowsReported'
<1> SUFFICES ASSUME RecordsInv, [Next]_vars, NEW r \in Rounds, NEW w \in OnTime(r)'
             PROVE  /\ db'[r].state # "none" /\ w.agent \in Agents
                    /\ r \in Known' => results'[r][w.agent] # "none"
  BY DEF RowsReported
<1>1. TypeInv /\ LedgerInv /\ HeldIsKnown /\ ClosingIsClosed
  BY DEF RecordsInv, LedgerInv, Winner
<1>2. /\ db[r].state # "none" /\ w.agent \in Agents
      /\ r \in Known => results[r][w.agent] # "none"
  <2>1. CASE w \in OnTime(r)
    BY <2>1 DEF RecordsInv, RowsReported
  <2>2. ASSUME NEW a \in Agents, pc[a] = "insert" /\ ~row[a].late /\ round[a] = r, w.agent = a
        PROVE  /\ db[r].state # "none" /\ w.agent \in Agents
               /\ results[r][w.agent] # "none"
    <3>1. r \in Known
      BY <2>2 DEF RecordsInv, HeldIsKnown, Threads
    <3>2. db[r].state # "none"
      BY <1>1, <3>1
      DEF RecordsInv, KnownIsStored, Known, TypeInv, TypeOK, TypeMemory, Outcome, DecidedStates
    <3> QED
      BY <2>2, <3>2 DEF RecordsInv, HandIsReported
  <2> QED
    BY <1>1, <2>1, <2>2, RowsStep
<1>3. db'[r].state # "none" /\ (r \in Known' => r \in Known)
  BY <1>1, <1>2, KnownStep
<1>4. r \in Known' => ~Crash
  BY DEF Crash, Known
<1> QED
  BY <1>1, <1>2, <1>3, <1>4, MemoryGrows

LEMMA RecordsInvInductive ==
  (Init => RecordsInv) /\ (RecordsInv /\ [Next]_vars => RecordsInv')
<1>1. Init => HeldIsKnown /\ KnownIsStored /\ NothingClosed /\ OrphansListed /\ HandIsReported
               /\ RowsReported /\ Aggregated
  BY DEF Init, HeldIsKnown, KnownIsStored, NothingClosed, OrphansListed, HandIsReported, RowsReported,
     Aggregated, OnTime, Blank, Idle, Threads
<1>2. LedgerInv => TypeInv /\ ClosingIsClosed
  BY DEF LedgerInv, Winner
<1> QED
  BY <1>1, <1>2, LedgerInvInductive, AggregatedNext, HeldNext, StoredNext, NothingClosedNext,
     OrphansNext, HandNext, RowsNext
  DEF RecordsInv

-----------------------------------------------------------------------------
(* What is stored of a decided round.                                      *)

\* A decided round the memory does not know was decided before, and nothing is
\* added to its on-time rows, or it is being recounted: the sweep of the
\* start-up finds nothing left as long as no operation fails.
LEMMA DecidedStep ==
  ASSUME RecordsInv, [Next]_vars, faults' = 0, NEW r \in Rounds, Decided(r)', r \notin closed'
  PROVE  /\ OnTime(r)' = OnTime(r)
         /\ \/ Decided(r) /\ db'[r] = db[r]
            \/ db'[r] = Recount(rows[r])
<1>1. /\ db \in [Rounds -> StoredRounds] /\ LedgerInv /\ TypeInv
      /\ faults = 0
  BY SpentForGood DEF RecordsInv, LedgerInv, TypeInv, TypeOK, TypeStore, TypeBounds
<1>2. ASSUME Decided(r) PROVE OnTime(r)' = OnTime(r) /\ db'[r] = db[r]
  <2>1. db'[r] = db[r]
    BY <1>1, <1>2, DecidedIsFinal
  <2>2. ASSUME NEW a \in Agents, InsertResult(a), pc[a] = "insert", ~row[a].late, round[a] = r
        PROVE  FALSE
    <3>1. closed' = closed /\ r \in Known
      BY <2>2 DEF InsertResult, memory, RecordsInv, HeldIsKnown, Threads
    <3>2. r \in flights \ closed
      BY <3>1 DEF Known
    <3> QED
      BY <1>2, <3>2 DEF RecordsInv, KnownIsStored, Decided, DecidedStates
  <2>3. \A w \in OnTime(r)' : w \in OnTime(r)
    BY <1>1, <2>2, RowsStep
  <2>4. OnTime(r) \subseteq OnTime(r)'
    BY <1>1, RowsStep
  <2> QED
    BY <2>1, <2>3, <2>4
<1>3. ASSUME ~Decided(r) PROVE rows' = rows /\ db'[r] = Recount(rows[r])
  <2>1. ASSUME NEW q \in Rounds, CreateRound(q) PROVE FALSE
    BY <1>1, <1>3, <2>1 DEF CreateRound, Blank, Decided, DecidedStates
  <2>2. ASSUME NEW t \in Threads, CloseRound(t) PROVE FALSE
    <3>1. round[t] \in closed /\ round[t] \in Rounds /\ closed' = closed
      BY <2>2
      DEF CloseRound, RecordsInv, LedgerInv, Winner, ClosingIsClosed, TypeInv, Shape, Working
    <3>2. db'[r] = db[r]
      BY <1>1, <2>2, <3>1 DEF CloseRound
    <3> QED
      BY <1>3, <3>2 DEF Decided
  <2>3. ASSUME NEW q \in Rounds, RecoverRound(q) PROVE rows' = rows /\ db'[r] = Recount(rows[r])
    BY <1>1, <1>3, <2>3 DEF RecoverRound, Decided
  <2>4. CASE SweepOpen
    <3>1. pc[Sched] = "recover" /\ orphans = {}
      BY <2>4 DEF SweepOpen
    <3>2. db[r].state # "OPEN"
      BY <1>1, <3>1 DEF RecordsInv, OrphansListed
    <3> QED
      BY <1>1, <1>3, <2>4, <3>2 DEF SweepOpen, Decided
  <2>5. db' # db
    BY <1>3 DEF Decided
  <2> QED
    BY <2>1, <2>2, <2>3, <2>4, <2>5, OutcomeWriters
<1>4. rows' = rows => OnTime(r)' = OnTime(r)
  BY DEF OnTime
<1> QED
  BY <1>2, <1>3, <1>4

\* A round is decided with every stored on-time sample.
Counted(r) == \A w \in OnTime(r) : db[r].state = "CLOSED" /\ w.agent \notin Missing(db[r])
ClosedIsCounted == \A r \in closed : Decided(r) => Counted(r)

\* A round of which some node has reported has a valid sample.
LEMMA ReportedIsValid ==
  ASSUME NEW r \in Rounds, NEW res \in [Agents -> Samples],
         NEW D \in SUBSET Agents, NEW U \in SUBSET Agents, NEW a \in Agents, res[a] # "none"
  PROVE  Aggregate(r, res, D, U).state = "CLOSED"
<1> DEFINE S == Reported(res) \cup ((Agents \ Reported(res)) \ (D \cup U))
<1>1. a \in S /\ S \subseteq Agents
  BY DEF Reported
<1>2. Cardinality(S) # 0
  BY <1>1, FS_Subset, FS_EmptySet, AgentsAssumption
<1>3. Aggregate(r, res, D, U).state = StateOf(Cardinality(S))
  BY DEF Aggregate
<1> HIDE DEF S
<1> QED
  BY <1>2, <1>3 DEF StateOf

LEMMA ClosedCounted == RecordsInv => ClosedIsCounted
<1> SUFFICES ASSUME RecordsInv, NEW r \in closed, Decided(r), NEW w \in OnTime(r)
             PROVE  db[r].state = "CLOSED" /\ w.agent \notin Missing(db[r])
  BY DEF ClosedIsCounted, Counted
<1>1. r \in Rounds /\ results[r] \in [Agents -> Samples]
  BY DEF RecordsInv, LedgerInv, TypeInv, TypeOK, TypeMemory
<1>2. db[r] = agg[r]
  BY DEF RecordsInv, KnownIsStored, Decided, DecidedStates
<1>3. w.agent \in Agents /\ results[r][w.agent] # "none"
  BY <1>1 DEF RecordsInv, RowsReported, Known
<1>4. PICK D \in SUBSET Agents, U \in SUBSET Agents : agg[r] = Aggregate(r, results[r], D, U)
  BY DEF RecordsInv, Aggregated
<1>5. Splits(results[r], Aggregate(r, results[r], D, U))
  BY <1>1, AggregateSplits
<1>6. Reported(results[r]) = Agents \ Missing(agg[r])
  BY <1>4, <1>5 DEF Splits
<1> QED
  BY <1>1, <1>2, <1>3, <1>4, <1>6, ReportedIsValid DEF Reported

\* The recount takes every stored on-time row.
LEMMA RecountCounts ==
  ASSUME NEW S, IsFiniteSet(S), NEW w \in S, ~w.late, w.agent \in Agents
  PROVE  Recount(S).state = "CLOSED" /\ w.agent \notin Missing(Recount(S))
<1> DEFINE T == {v \in S : ~v.late /\ v.agent \in Agents}
<1>1. Cardinality(T) # 0
  BY FS_Subset, FS_EmptySet
<1>2. Recount(S).state = StateOf(Cardinality(T))
  BY DEF Recount
<1>3. Missing(Recount(S)) = Agents \ {v.agent : v \in T}
  BY DEF Recount, Missing
<1> QED
  BY <1>1, <1>2, <1>3 DEF StateOf

LEMMA CountedNext ==
  RecordsInv /\ StoredSampleIsCounted /\ ClosedIsCounted' /\ [Next]_vars => StoredSampleIsCounted'
<1> SUFFICES ASSUME RecordsInv, StoredSampleIsCounted, ClosedIsCounted', [Next]_vars,
                    faults' = 0, NEW r \in Rounds, Decided(r)', NEW w \in OnTime(r)'
             PROVE  db'[r].state = "CLOSED" /\ w.agent \notin Missing(db'[r])
  BY DEF StoredSampleIsCounted, Missing
<1>1. CASE r \in closed'
  BY <1>1 DEF ClosedIsCounted, Counted, Missing
<1>2. CASE r \notin closed'
  <2>1. w \in OnTime(r) /\ faults = 0
    BY <1>2, DecidedStep, SpentForGood DEF RecordsInv, LedgerInv
  <2>2. CASE Decided(r) /\ db'[r] = db[r]
    BY <2>1, <2>2 DEF StoredSampleIsCounted
  <2>3. CASE db'[r] = Recount(rows[r])
    <3>1. IsFiniteSet(rows[r]) /\ w \in rows[r] /\ ~w.late
      BY <2>1 DEF OnTime, RecordsInv, LedgerInv, TypeInv, TypeOK, TypeStore
    <3>2. w.agent \in Agents
      BY <2>1 DEF RecordsInv, RowsReported
    <3> QED
      BY <2>3, <3>1, <3>2, RecountCounts
  <2> QED
    BY <1>2, <2>2, <2>3, DecidedStep
<1> QED
  BY <1>1, <1>2

\* No stored sample is left out: without failing writes a decided round with an
\* on-time row has a verdict and does not list the node of the row as missing,
\* whether the round was finalized or recounted after a crash.
THEOREM StoredCorrect == Safe => []StoredSampleIsCounted
<1>1. Init => StoredSampleIsCounted
  BY DEF Init, StoredSampleIsCounted, OnTime
<1> QED
  BY <1>1, RecordsInvInductive, ClosedCounted, CountedNext, PTL DEF Safe

-----------------------------------------------------------------------------
(* The stored rows explain the stored success count.                       *)

\* A read loop with a row in its hands stores it or keeps it.
LEMMA InsertStays ==
  ASSUME TypeInv, [Next]_vars, ~Crash, NEW a \in Agents, pc[a] = "insert"
  PROVE  \/ InsertResult(a)
         \/ pc'[a] = pc[a] /\ round'[a] = round[a] /\ row'[a] = row[a]
<1> DEFINE Same(v) == pc'[v] = pc[v] /\ round'[v] = round[v] /\ row'[v] = row[v]
<1>1. /\ pc \in [Threads -> Labels] /\ round \in [Threads -> Rounds \cup {NoRound}]
      /\ row \in [Threads -> Rows] /\ a \in Threads /\ a # Sched
  BY ThreadAssumption DEF TypeInv, TypeOK, TypeLocals, Threads
<1>2. CASE UNCHANGED <<pc, round, row>>
  BY <1>2
<1>3. CASE Dispatching \/ Restart \/ Recovering \/ \E r \in Rounds : FinalizeDue(r)
  BY <1>1, <1>3
  DEF Dispatching, CreateRound, SendTask, MarkSent, SendNext, Restart, Recovering, RecoverRound,
      RecoverBook, SweepOpen, FinalizeDue, EnterFinalize, Goto
<1>4. ASSUME NEW b \in Agents, b # a,
             InsertResult(b) \/ \E r \in Rounds, ok \in BOOLEAN : Report(r, b, ok)
      PROVE  Same(a)
  BY <1>1, <1>4 DEF InsertResult, Report, EnterFinalize, Finish, Goto
<1>5. ASSUME NEW r \in Rounds, NEW ok \in BOOLEAN, Report(r, a, ok) PROVE FALSE
  BY <1>5 DEF Report, Idle
<1>6. ASSUME NEW t \in Threads, CloseFlight(t) \/ CloseRound(t) \/ AddHourlyStat(t) \/ ApplyAlert(t)
      PROVE  Same(a)
  BY <1>1, <1>6 DEF CloseFlight, CloseRound, AddHourlyStat, ApplyAlert, Finish, Goto
<1> QED
  BY <1>2, <1>3, <1>4, <1>5, <1>6
  DEF Next, Network, Redispatching, Finalizing, vars, locals, Connect, Disconnect, LoseTask,
     Tighten, Expire, OnlineBegin, OnlineCheck, OnlineSend, OnlineMark, PingAgent

LEMMA FirstNext == RecordsInv /\ FirstKept /\ [Next]_vars => FirstKept'
<1> SUFFICES ASSUME RecordsInv, FirstKept, [Next]_vars, faults' = 0,
                    NEW r \in Rounds, NEW a \in Agents, results'[r][a] # "none"
             PROVE  FirstInHand(r, a)' \/ FirstIsStored(r, a)'
  BY DEF FirstKept
<1>1. /\ TypeInv /\ LedgerInv /\ ClosingIsClosed /\ faults = 0 /\ faults \in Nat
      /\ pc \in [Threads -> Labels] /\ round \in [Threads -> Rounds \cup {NoRound}]
      /\ row \in [Threads -> Rows] /\ results \in [Rounds -> [Agents -> Samples]]
      /\ rows \in [Rounds -> SUBSET StoredRows] /\ a \in Threads
  BY SpentForGood
  DEF RecordsInv, LedgerInv, Winner, TypeInv, TypeOK, TypeLocals, TypeMemory, TypeStore, TypeBounds,
      Threads
<1>2. ~Crash
  BY DEF Crash, EmptyResults
<1>3. ASSUME results[r][a] # "none" PROVE FirstInHand(r, a)' \/ FirstIsStored(r, a)'
  <2>1. results'[r][a] = results[r][a]
    BY <1>1, <1>2, <1>3, MemoryGrows
  <2>2. CASE FirstIsStored(r, a)
    <3>1. PICK w \in OnTime(r) : w.agent = a /\ w.ok = EffOK(r, results[r][a] = "ok")
      BY <2>2 DEF FirstIsStored
    <3>2. w \in OnTime(r)'
      BY <1>1, RowsStep
    <3>3. w.ok = EffOK(r, results'[r][a] = "ok")
      BY <2>1, <3>1
    <3> QED
      BY <3>1, <3>2, <3>3 DEF FirstIsStored
  <2>3. CASE FirstInHand(r, a) /\ InsertResult(a)
    <3> DEFINE new == [agent |-> a, ok |-> row[a].ok, late |-> row[a].late,
                       id |-> Cardinality(rows[r])]
    <3>1. /\ round[a] = r /\ ~row[a].late /\ row[a].ok = EffOK(r, results[r][a] = "ok")
          /\ rows' = [rows EXCEPT ![r] = @ \cup {new}]
      BY <1>1, <2>3 DEF FirstInHand, InsertResult, Fails
    <3>2. new \in rows'[r]
      BY <1>1, <3>1
    <3>3. new.agent = a /\ new.ok = row[a].ok /\ new.late = row[a].late
      OBVIOUS
    <3>4. new.ok = EffOK(r, results'[r][a] = "ok")
      BY <2>1, <3>1, <3>3
    <3> HIDE DEF new
    <3> QED
      BY <3>1, <3>2, <3>3, <3>4 DEF FirstIsStored, OnTime
  <2>4. CASE FirstInHand(r, a) /\ ~InsertResult(a)
    <3>1. pc'[a] = pc[a] /\ round'[a] = round[a] /\ row'[a] = row[a]
      BY <1>1, <1>2, <2>4, InsertStays DEF FirstInHand
    <3>2. \A w \in OnTime(r)' : w.agent # a
      <4> SUFFICES ASSUME NEW w \in OnTime(r)', w.agent = a PROVE FALSE
        OBVIOUS
      <4>1. w \notin OnTime(r)
        BY <2>4 DEF FirstInHand
      <4> QED
        BY <1>1, <2>4, <4>1, RowsStep
    <3> QED
      BY <2>1, <2>4, <3>1, <3>2 DEF FirstInHand
  <2> QED
    BY <1>1, <1>3, <2>2, <2>3, <2>4 DEF FirstKept
<1>4. ASSUME results[r][a] = "none" PROVE FirstInHand(r, a)'
  <2>1. PICK q \in Rounds, b \in Agents, ok \in BOOLEAN : Report(q, b, ok)
    BY <1>2, <1>4
    DEF Next, Network, Dispatching, Redispatching, Finalizing, Recovering, vars, memory, Connect,
       Disconnect, LoseTask, Tighten, Expire, CreateRound, SendTask, MarkSent, OnlineBegin,
       OnlineCheck, OnlineSend, OnlineMark, InsertResult, FinalizeDue, PingAgent, CloseFlight,
       CloseRound, AddHourlyStat, ApplyAlert, Restart, RecoverRound, RecoverBook, SweepOpen
  <2>2. /\ q = r /\ b = a /\ Accepts(r) /\ results'[r][a] = Verdict(ok)
    BY <1>1, <1>4, <2>1 DEF Report
  <2>3. r \in flights /\ pc'[a] = "insert" /\ round'[a] = r
        /\ row'[a] = [agent |-> a, late |-> FALSE, ok |-> EffOK(r, ok)]
    BY <1>1, <2>1, <2>2 DEF Report, Accepts, Goto
  <2>4. (results'[r][a] = "ok") = ok
    BY <2>2 DEF Verdict
  <2>5. OnTime(r)' = OnTime(r)
    BY <2>1 DEF Report, store, OnTime
  <2>6. \A w \in OnTime(r) : w.agent # a
    BY <1>4, <2>3 DEF RecordsInv, RowsReported, Known
  <2>7. row'[a].ok = EffOK(r, results'[r][a] = "ok")
    BY <2>3, <2>4
  <2> QED
    BY <2>3, <2>5, <2>6, <2>7 DEF FirstInHand
<1> QED
  BY <1>3, <1>4

\* Among rows of different nodes the good ones are as many as the good nodes.
LEMMA RowPerNode ==
  ASSUME NEW S, IsFiniteSet(S), NEW A, A = {w.agent : w \in S}, Cardinality(A) = Cardinality(S),
         NEW G \in SUBSET A, \A a \in A : \E w \in S : w.agent = a /\ (w.ok <=> a \in G)
  PROVE  Cardinality({w \in S : w.ok}) = Cardinality(G)
<1> DEFINE f == [w \in S |-> w.agent]
           T == {w \in S : w.ok}
           g == [w \in T |-> w.agent]
<1>1. f \in Surjection(S, A)
  BY DEF Surjection
<1>2. f \in Injection(S, A)
  BY <1>1, FS_SurjSameCardinalityImpliesInj
<1>3. \A v, w \in S : v.agent = w.agent => v = w
  BY <1>2 DEF Injection, IsInjective
<1>4. \A w \in S : w.ok <=> w.agent \in G
  BY <1>3
<1>5. g \in [T -> G] /\ \A a \in G : \E w \in T : g[w] = a
  BY <1>4
<1>6. \A v, w \in T : g[v] = g[w] => v = w
  BY <1>3
<1> HIDE DEF g, T
<1>7. g \in Bijection(T, G)
  BY <1>5, <1>6 DEF Bijection, Injection, Surjection, IsInjective
<1>8. IsFiniteSet(T)
  BY FS_Subset DEF T
<1> QED
  BY <1>7, <1>8, FS_Bijection DEF ExistsBijection, T

\* The success count of a round is the number of its good on-time rows, once
\* every node counted as valid has exactly one.
Explained(r) ==
  Cardinality({w.agent : w \in OnTime(r)}) = Cardinality(OnTime(r))
    /\ {w.agent : w \in OnTime(r)} = Agents \ Missing(db[r])
  => db[r].success = Cardinality({w \in OnTime(r) : w.ok})
ClosedIsExplained == faults = 0 => \A r \in closed : Decided(r) => Explained(r)

LEMMA ClosedExplained == RecordsInv /\ FirstKept => ClosedIsExplained
<1> SUFFICES ASSUME RecordsInv, FirstKept, faults = 0, NEW r \in closed, Decided(r),
                    Cardinality({w.agent : w \in OnTime(r)}) = Cardinality(OnTime(r)),
                    {w.agent : w \in OnTime(r)} = Agents \ Missing(db[r])
             PROVE  db[r].success = Cardinality({w \in OnTime(r) : w.ok})
  BY DEF ClosedIsExplained, Explained
<1> DEFINE S == OnTime(r)
           A == Reported(results[r])
           G == Succeeded(r, results[r])
<1>1. r \in Rounds /\ results[r] \in [Agents -> Samples] /\ IsFiniteSet(rows[r])
      /\ rows[r] \subseteq StoredRows
  BY DEF RecordsInv, LedgerInv, TypeInv, TypeOK, TypeMemory, TypeStore
<1>2. db[r] = agg[r]
  BY DEF RecordsInv, KnownIsStored, Decided, DecidedStates
<1>3. PICK D \in SUBSET Agents, U \in SUBSET Agents : agg[r] = Aggregate(r, results[r], D, U)
  BY DEF RecordsInv, Aggregated
<1>4. Splits(results[r], Aggregate(r, results[r], D, U))
  BY <1>1, AggregateSplits
<1>5. A = {w.agent : w \in S}
  BY <1>2, <1>3, <1>4 DEF Splits
<1>6. db[r].success = Cardinality(G)
  BY <1>2, <1>3 DEF Aggregate
<1>7. IsFiniteSet(S) /\ G \subseteq A
  BY <1>1, FS_Subset DEF OnTime, Succeeded
<1>8. ASSUME NEW a \in A PROVE \E w \in S : w.agent = a /\ (w.ok <=> a \in G)
  <2>1. a \in Agents /\ results[r][a] # "none" /\ \E w \in S : w.agent = a
    BY <1>5 DEF Reported
  <2>2. FirstIsStored(r, a)
    BY <1>1, <2>1 DEF FirstKept, FirstInHand
  <2>3. EffOK(r, results[r][a] = "ok") <=> a \in G
    BY DEF Succeeded
  <2> QED
    BY <2>2, <2>3 DEF FirstIsStored
<1> HIDE DEF S, A, G
<1>9. Cardinality({w \in S : w.ok}) = Cardinality(G)
  BY <1>5, <1>7, <1>8, RowPerNode DEF S
<1> QED
  BY <1>6, <1>9 DEF S

LEMMA ExplainedNext ==
  RecordsInv /\ RowsExplainSuccess /\ ClosedIsExplained' /\ [Next]_vars => RowsExplainSuccess'
<1> SUFFICES ASSUME RecordsInv, RowsExplainSuccess, ClosedIsExplained', [Next]_vars,
                    faults' = 0, NEW r \in Rounds, Decided(r)'
             PROVE  Explained(r)'
  BY DEF RowsExplainSuccess, Explained
<1>1. CASE r \in closed'
  BY <1>1 DEF ClosedIsExplained
<1>2. CASE r \notin closed'
  <2>1. OnTime(r)' = OnTime(r) /\ faults = 0
    BY <1>2, DecidedStep, SpentForGood DEF RecordsInv, LedgerInv
  <2>2. CASE Decided(r) /\ db'[r] = db[r]
    BY <2>1, <2>2 DEF RowsExplainSuccess, Explained, Missing
  <2>3. CASE db'[r] = Recount(rows[r])
    <3>1. {w \in rows[r] : ~w.late /\ w.agent \in Agents} = OnTime(r)
      BY DEF OnTime, RecordsInv, RowsReported
    <3>2. Recount(rows[r]).success = Cardinality({w \in OnTime(r) : w.ok})
      BY <3>1 DEF Recount
    <3> QED
      BY <2>1, <2>3, <3>2 DEF Explained
  <2> QED
    BY <1>2, <2>2, <2>3, DecidedStep
<1> QED
  BY <1>1, <1>2

\* The stored rows explain the stored figures: without failing writes a decided
\* round whose valid nodes have one on-time row each counts as many successes
\* as there are good rows, for inverted rounds and after a recount too.
THEOREM RowsCorrect == Safe => []RowsExplainSuccess
<1>1. Init => FirstKept /\ RowsExplainSuccess
  BY DEF Init, FirstKept, EmptyResults, RowsExplainSuccess, Decided, DecidedStates, Blank
<1> QED
  BY <1>1, RecordsInvInductive, FirstNext, ClosedExplained, ExplainedNext, PTL DEF Safe

-----------------------------------------------------------------------------
(* The hourly counters.                                                    *)

\* The sums of the hourly counters, over a table of rounds.
ValidSum(out, B)   == MapThenSumSet(LAMBDA r : out[r].valid, B)
SuccessSum(out, B) == MapThenSumSet(LAMBDA r : out[r].success, B)

LEMMA FoldIsSum ==
  ASSUME NEW out, NEW B, IsFiniteSet(B)
  PROVE  /\ \E F : IsSum(F, [r \in B |-> out[r].valid], B) /\ ValidSum(out, B) = F[B]
         /\ \E F : IsSum(F, [r \in B |-> out[r].success], B) /\ SuccessSum(out, B) = F[B]
<1> DEFINE v == [r \in B |-> out[r].valid]
           w == [r \in B |-> out[r].success]
           IterV(F) == F = [s \in SUBSET B |-> IF s = {} THEN 0
                              ELSE out[CHOOSE x \in s : TRUE].valid
                                     + F[s \ {CHOOSE x \in s : TRUE}]]
           IterW(F) == F = [s \in SUBSET B |-> IF s = {} THEN 0
                              ELSE out[CHOOSE x \in s : TRUE].success
                                     + F[s \ {CHOOSE x \in s : TRUE}]]
<1>1. ValidSum(out, B) = (CHOOSE F : IterV(F))[B]
  BY DEF ValidSum, MapThenSumSet, MapThenFoldSet
<1>2. SuccessSum(out, B) = (CHOOSE F : IterW(F))[B]
  BY DEF SuccessSum, MapThenSumSet, MapThenFoldSet
<1>3. \A s \in SUBSET B : s # {} => v[Chosen(s)] = out[Chosen(s)].valid /\ w[Chosen(s)] = out[Chosen(s)].success
  BY ChosenIsOne
<1> HIDE DEF v, w
<1>4. ASSUME NEW F PROVE IsSum(F, v, B) <=> IterV(F)
  <2>1. [s \in SUBSET B |-> IF s = {} THEN 0 ELSE v[Chosen(s)] + F[s \ {Chosen(s)}]]
          = [s \in SUBSET B |-> IF s = {} THEN 0 ELSE out[Chosen(s)].valid + F[s \ {Chosen(s)}]]
    BY <1>3
  <2> QED
    BY <2>1 DEF IsSum, Chosen
<1>5. ASSUME NEW F PROVE IsSum(F, w, B) <=> IterW(F)
  <2>1. [s \in SUBSET B |-> IF s = {} THEN 0 ELSE w[Chosen(s)] + F[s \ {Chosen(s)}]]
          = [s \in SUBSET B |-> IF s = {} THEN 0 ELSE out[Chosen(s)].success + F[s \ {Chosen(s)}]]
    BY <1>3
  <2> QED
    BY <2>1 DEF IsSum, Chosen
<1> HIDE DEF IterV, IterW
<1>6. IsSum(CHOOSE F : IterV(F), v, B)
  BY <1>4, SumExists
<1>7. IsSum(CHOOSE F : IterW(F), w, B)
  BY <1>5, SumExists
<1> QED
  BY <1>1, <1>2, <1>6, <1>7 DEF v, w

\* The sums look at the rounds of the set only.
LEMMA SumSame ==
  ASSUME NEW o1, NEW o2, NEW B, IsFiniteSet(B), \A q \in B : o1[q] = o2[q]
  PROVE  ValidSum(o1, B) = ValidSum(o2, B) /\ SuccessSum(o1, B) = SuccessSum(o2, B)
<1>1. /\ [q \in B |-> o1[q].valid] = [q \in B |-> o2[q].valid]
      /\ [q \in B |-> o1[q].success] = [q \in B |-> o2[q].success]
  OBVIOUS
<1>2. ValidSum(o1, B) = ValidSum(o2, B)
  <2>1. PICK F : IsSum(F, [q \in B |-> o1[q].valid], B) /\ ValidSum(o1, B) = F[B]
    BY FoldIsSum
  <2>2. PICK H : IsSum(H, [q \in B |-> o2[q].valid], B) /\ ValidSum(o2, B) = H[B]
    BY FoldIsSum
  <2>3. PICK g : g = [q \in B |-> o1[q].valid]
    OBVIOUS
  <2>4. IsSum(F, g, B) /\ IsSum(H, g, B)
    BY <1>1, <2>1, <2>2, <2>3
  <2> QED
    BY <2>1, <2>2, <2>4, SumUnique
<1>3. SuccessSum(o1, B) = SuccessSum(o2, B)
  <2>1. PICK F : IsSum(F, [q \in B |-> o1[q].success], B) /\ SuccessSum(o1, B) = F[B]
    BY FoldIsSum
  <2>2. PICK H : IsSum(H, [q \in B |-> o2[q].success], B) /\ SuccessSum(o2, B) = H[B]
    BY FoldIsSum
  <2>3. PICK g : g = [q \in B |-> o1[q].success]
    OBVIOUS
  <2>4. IsSum(F, g, B) /\ IsSum(H, g, B)
    BY <1>1, <2>1, <2>2, <2>3
  <2> QED
    BY <2>1, <2>2, <2>4, SumUnique
<1> QED
  BY <1>2, <1>3

\* One more round adds its counters.
LEMMA SumAdds ==
  ASSUME NEW out, NEW B, IsFiniteSet(B), NEW r, r \notin B,
         \A q \in B \cup {r} : out[q].valid \in Nat /\ out[q].success \in Nat
  PROVE  /\ ValidSum(out, B \cup {r}) = ValidSum(out, B) + out[r].valid
         /\ SuccessSum(out, B \cup {r}) = SuccessSum(out, B) + out[r].success
<1>1. PICK C : C = B \cup {r}
  OBVIOUS
<1>2. IsFiniteSet(C)
  BY <1>1, FS_AddElement
<1>3. ValidSum(out, C) = ValidSum(out, B) + out[r].valid
  <2>1. PICK g, h : g = [q \in B |-> out[q].valid] /\ h = [q \in C |-> out[q].valid]
    OBVIOUS
  <2>2. PICK F : IsSum(F, g, B) /\ ValidSum(out, B) = F[B]
    BY <2>1, FoldIsSum
  <2>3. PICK H : IsSum(H, h, C) /\ ValidSum(out, C) = H[C]
    BY <1>2, <2>1, FoldIsSum
  <2>4. (\A q \in C : h[q] \in Nat) /\ h[r] = out[r].valid /\ \A q \in B : h[q] = g[q]
    BY <1>1, <2>1
  <2> QED
    BY <1>1, <2>2, <2>3, <2>4, SumStep
<1>4. SuccessSum(out, C) = SuccessSum(out, B) + out[r].success
  <2>1. PICK g, h : g = [q \in B |-> out[q].success] /\ h = [q \in C |-> out[q].success]
    OBVIOUS
  <2>2. PICK F : IsSum(F, g, B) /\ SuccessSum(out, B) = F[B]
    BY <2>1, FoldIsSum
  <2>3. PICK H : IsSum(H, h, C) /\ SuccessSum(out, C) = H[C]
    BY <1>2, <2>1, FoldIsSum
  <2>4. (\A q \in C : h[q] \in Nat) /\ h[r] = out[r].success /\ \A q \in B : h[q] = g[q]
    BY <1>1, <2>1
  <2> QED
    BY <1>1, <2>2, <2>3, <2>4, SumStep
<1> QED
  BY <1>1, <1>3, <1>4

LEMMA SumEmpty == ASSUME NEW out PROVE ValidSum(out, {}) = 0 /\ SuccessSum(out, {}) = 0
<1>1. PICK F : IsSum(F, [q \in {} |-> out[q].valid], {}) /\ ValidSum(out, {}) = F[{}]
  BY FoldIsSum, FS_EmptySet
<1>2. PICK H : IsSum(H, [q \in {} |-> out[q].success], {}) /\ SuccessSum(out, {}) = H[{}]
  BY FoldIsSum, FS_EmptySet
<1>3. PICK g, h : g = [q \in {} |-> out[q].valid] /\ h = [q \in {} |-> out[q].success]
  OBVIOUS
<1>4. F[{}] = 0 /\ H[{}] = 0
  BY <1>1, <1>2, <1>3, SumValue
<1> QED
  BY <1>1, <1>2, <1>4

\* The counters are the sums over the booked rounds, which are finitely many.
HourlyInv ==
  /\ IsFiniteSet(booked)
  /\ hourly.rounds = Cardinality(booked)
  /\ hourly.valid = ValidSum(db, booked)
  /\ hourly.success = SuccessSum(db, booked)

\* The counters move when a decided round that is not booked yet is booked.
LEMMA HourlyMoves ==
  ASSUME LedgerInv, [Next]_vars
  PROVE  \/ UNCHANGED <<hourly, booked>>
         \/ \E r \in Rounds :
              /\ r \notin booked /\ UNCHANGED db
              /\ hourly' = [rounds |-> hourly.rounds + 1,
                            valid |-> hourly.valid + db[r].valid,
                            success |-> hourly.success + db[r].success]
              /\ booked' = booked \cup {r}
<1> DEFINE Moves(r) == /\ r \notin booked /\ UNCHANGED db
                       /\ hourly' = [rounds |-> hourly.rounds + 1,
                                     valid |-> hourly.valid + db[r].valid,
                                     success |-> hourly.success + db[r].success]
                       /\ booked' = booked \cup {r}
<1>1. ASSUME NEW t \in Threads, AddHourlyStat(t), ~UNCHANGED <<hourly, booked>>
      PROVE  round[t] \in Rounds /\ Moves(round[t])
  BY <1>1
  DEF AddHourlyStat, Book, LedgerInv, TypeInv, Shape, Working, Winner, HourlyIsNew
<1>2. ASSUME RecoverBook, ~UNCHANGED <<hourly, booked>>
      PROVE  round[Sched] \in Rounds /\ Moves(round[Sched])
  BY <1>2 DEF RecoverBook, Book, LedgerInv, TypeInv, Shape, Working, Winner, RebookIsNew, Threads
<1> HIDE DEF Moves
<1>3. ASSUME Network \/ Dispatching \/ UNCHANGED vars PROVE UNCHANGED <<hourly, booked>>
  BY <1>3 DEF Network, Dispatching, vars, store, Connect, Disconnect, LoseTask, Tighten, Expire,
     CreateRound, SendTask, MarkSent
<1>4. ASSUME NEW a \in Agents, Redispatching(a) \/ InsertResult(a) PROVE UNCHANGED <<hourly, booked>>
  BY <1>4 DEF Redispatching, store, OnlineBegin, OnlineCheck, OnlineSend, OnlineMark, InsertResult
<1>5. ASSUME NEW r \in Rounds, \/ FinalizeDue(r) \/ RecoverRound(r)
                                \/ \E a \in Agents, ok \in BOOLEAN : Report(r, a, ok)
      PROVE  UNCHANGED <<hourly, booked>>
  BY <1>5 DEF store, Report, FinalizeDue, RecoverRound
<1>6. ASSUME NEW t \in Threads, Finalizing(t), ~AddHourlyStat(t) PROVE UNCHANGED <<hourly, booked>>
  BY <1>6 DEF Finalizing, store, PingAgent, CloseFlight, CloseRound, ApplyAlert
<1>7. ASSUME Crash \/ Restart \/ SweepOpen PROVE UNCHANGED <<hourly, booked>>
  BY <1>7 DEF store, Crash, Restart, SweepOpen
<1>8. UNCHANGED <<hourly, booked>> \/ RecoverBook \/ \E t \in Threads : AddHourlyStat(t)
  BY <1>3, <1>4, <1>5, <1>6, <1>7 DEF Next, Recovering
<1>9. UNCHANGED <<hourly, booked>> \/ \E r \in Rounds : Moves(r)
  BY <1>1, <1>2, <1>8
<1> QED
  BY <1>9 DEF Moves

LEMMA HourlyNext == LedgerInv /\ HourlyInv /\ [Next]_vars => HourlyInv'
<1> SUFFICES ASSUME LedgerInv, HourlyInv, [Next]_vars PROVE HourlyInv'
  OBVIOUS
<1>1. /\ hourly \in [rounds : Nat, valid : Nat, success : Nat]
      /\ db \in [Rounds -> StoredRounds] /\ booked \subseteq Rounds /\ IsFiniteSet(booked)
  BY DEF LedgerInv, TypeInv, TypeOK, TypeStore, HourlyInv
<1>2. CASE UNCHANGED <<hourly, booked>>
  <2>1. \A q \in booked : db[q] = db'[q]
    BY <1>1, DecidedIsFinal DEF LedgerInv, Winner, BookedIsDecided
  <2>2. ValidSum(db, booked) = ValidSum(db', booked) /\ SuccessSum(db, booked) = SuccessSum(db', booked)
    BY <1>1, <2>1, SumSame
  <2> QED
    BY <1>2, <2>2 DEF HourlyInv
<1>3. ASSUME NEW r \in Rounds, r \notin booked, UNCHANGED db,
             hourly' = [rounds |-> hourly.rounds + 1,
                        valid |-> hourly.valid + db[r].valid,
                        success |-> hourly.success + db[r].success],
             booked' = booked \cup {r}
      PROVE  HourlyInv'
  <2>1. \A q \in booked \cup {r} : db[q].valid \in Nat /\ db[q].success \in Nat
    BY <1>1 DEF StoredRounds
  <2>2. /\ ValidSum(db, booked \cup {r}) = ValidSum(db, booked) + db[r].valid
        /\ SuccessSum(db, booked \cup {r}) = SuccessSum(db, booked) + db[r].success
    BY <1>1, <1>3, <2>1, SumAdds
  <2>3. IsFiniteSet(booked \cup {r}) /\ Cardinality(booked \cup {r}) = Cardinality(booked) + 1
    BY <1>1, <1>3, FS_AddElement
  <2>4. /\ hourly'.rounds = hourly.rounds + 1 /\ hourly'.valid = hourly.valid + db[r].valid
        /\ hourly'.success = hourly.success + db[r].success
    BY <1>3
  <2>5. ValidSum(db', booked') = ValidSum(db, booked \cup {r})
        /\ SuccessSum(db', booked') = SuccessSum(db, booked \cup {r})
    BY <1>3
  <2> QED
    BY <1>3, <2>2, <2>3, <2>4, <2>5 DEF HourlyInv
<1> QED
  BY <1>2, <1>3, HourlyMoves

\* The counters behind the availability figures are the sum of the stored
\* outcomes of the rounds booked, each once, however often threads finalize a
\* round, crash, recount it or fail to write.
THEOREM HourlyCorrect == Safe => []HourlyIsSumOfRounds
<1>1. Init => HourlyInv
  BY SumEmpty, FS_EmptySet DEF Init, HourlyInv
<1>2. LedgerInv /\ HourlyInv => HourlyIsSumOfRounds
  BY DEF LedgerInv, TypeInv, TypeOK, TypeStore, Winner, BookedIsDecided, HourlyInv, HourlyIsSumOfRounds,
     ValidSum, SuccessSum
<1> QED
  BY <1>1, <1>2, LedgerInvInductive, HourlyNext, PTL DEF Safe
==============================================================================
