----------------------------- MODULE AlertFlow -----------------------------
(***************************************************************************)
(* How the decided rounds of one monitor drive its alert                   *)
(* (scheduler.go applyAlert, over alert.go Apply and the tables            *)
(* monitor_states and monitor_state_changes), while the monitor is edited, *)
(* paused, resumed and deleted through the API (api/monitors.go).          *)
(*                                                                         *)
(* applyAlert runs on whatever goroutine decided the round: the scheduler, *)
(* a node's read loop, or the handler of an external report (a             *)
(* "finalizer"). It reads the state row, computes, and writes the whole    *)
(* row back; nothing serialises two of them, or one of them and the API's  *)
(* pause, which is a read and a write of the same row.                     *)
(***************************************************************************)
EXTENDS AlertMachine, FiniteSets, SequencesExt

CONSTANTS Finalizers,  \* goroutines that decide rounds of the monitor
          Rounds,
          Needs,       \* values of Monitor.Consecutive
          MaxFaults,   \* bound: failing database operations
          MaxCrashes,  \* bound: crashes of the dashboard
          MaxPauses    \* bound: pauses of the monitor

ASSUME FinalizersAssumption == IsFiniteSet(Finalizers)
ASSUME NeedsAssumption == Needs \subseteq Nat \ {0} /\ Needs # {}
ASSUME AlertBoundAssumption ==
  MaxFaults \in Nat /\ MaxCrashes \in Nat /\ MaxPauses \in Nat

VARIABLES
  status,    \* the monitor: enabled, paused or deleted
  need,      \* its configured number of consecutive bad rounds
  snap,      \* RoundSpec.Consecutive of each round; 0 before the round exists
  waiting,   \* decided rounds whose applyAlert has not begun
  found,     \* the monitor has a row in monitor_states ...
  state,     \* ... and what it says; Fresh without a row
  changes,   \* monitor_state_changes, oldest first
  told,      \* flips handed to the notifier and the browsers, in order
  pc,        \* where each finalizer is
  work,      \* the round a finalizer applies, and its kind
  seen,      \* the state it has read
  api,       \* the pause in progress: where it is and the state it has read
  history,   \* history: what was written to the row, in order
  torn,      \* history: a write has overwritten a state its reader had not seen
  faults, crashes, pauses

monitorVars == <<status, need>>
roundVars   == <<snap, waiting>>
rowVars     == <<found, state, history, torn>>
threadVars  == <<pc, work, seen>>
boundVars   == <<faults, crashes, pauses>>
vars == <<monitorVars, roundVars, rowVars, changes, told, threadVars, api, boundVars>>

-----------------------------------------------------------------------------
NoWork == [round |-> "none", kind |-> "unknown"]
Quiet  == [pc |-> "idle", saw |-> Fresh]

Fails == faults < MaxFaults /\ faults' = faults + 1
Works == UNCHANGED faults

\* The change of the alert that finalizer t's round makes to the state it read.
After(t) == Apply(seen[t], work[t].kind, snap[work[t].round])

\* Mutant: only an alarm is an event.
Alarms(t) == After(t).alert = "DOWN" /\ seen[t].alert = "UP"
Flips(t) == After(t).alert # seen[t].alert

\* Mutant: the record names the state before the flip.
FlipFrom(t) == [round |-> work[t].round, to |-> seen[t].alert]
Flip(t) == [round |-> work[t].round, to |-> After(t).alert]

Goto(t, label) == pc' = [pc EXCEPT ![t] = label] /\ UNCHANGED <<work, seen>>

Leave(t) ==
  /\ pc' = [pc EXCEPT ![t] = "idle"]
  /\ work' = [work EXCEPT ![t] = NoWork]
  /\ seen' = [seen EXCEPT ![t] = Fresh]

\* PutMonitorState of a row computed from saw.
Put(new, saw) ==
  /\ found' = TRUE
  /\ state' = new
  /\ torn' = (torn \/ state # saw)

Log(kind, n) == history' = Append(history, [kind |-> kind, n |-> n])

-----------------------------------------------------------------------------
(* Rounds come into being and are decided, in any order.                   *)

CreateRound(r) ==
  /\ status = "enabled" /\ snap[r] = 0
  /\ snap' = [snap EXCEPT ![r] = need]
  /\ waiting' = waiting \cup {r}
  /\ UNCHANGED <<monitorVars, rowVars, changes, told, threadVars, api, boundVars>>

(* applyAlert, step by step.                                               *)

\* FindMonitorByID: a round of a deleted monitor is dropped, and so is one whose
\* look-up fails.
Begin(t, r, kind) ==
  /\ pc[t] = "idle" /\ r \in waiting
  /\ waiting' = waiting \ {r}
  /\ \/ /\ Works /\ status # "deleted"
        /\ pc' = [pc EXCEPT ![t] = "read"]
        /\ work' = [work EXCEPT ![t] = [round |-> r, kind |-> kind]]
        /\ UNCHANGED seen
     \/ Works /\ status = "deleted" /\ UNCHANGED threadVars
     \/ Fails /\ UNCHANGED threadVars
  /\ UNCHANGED <<monitorVars, snap, rowVars, changes, told, api, crashes, pauses>>

\* GetMonitorState: no row reads as UP without a count.
Read(t) ==
  /\ pc[t] = "read"
  /\ \/ /\ Works
        /\ pc' = [pc EXCEPT ![t] = "write"]
        /\ seen' = [seen EXCEPT ![t] = state]
        /\ UNCHANGED work
     \/ Fails /\ Leave(t)
  /\ UNCHANGED <<monitorVars, roundVars, rowVars, changes, told, api, crashes, pauses>>

\* PutMonitorState, for every kind of round: an unknown one, too, writes back
\* the alert it has read.
Write(t) ==
  /\ pc[t] = "write"
  /\ \/ /\ Works
        /\ Put(After(t), seen[t])
        /\ IF work[t].kind = "unknown"
             THEN UNCHANGED history
             ELSE Log(work[t].kind, snap[work[t].round])
        /\ IF Flips(t) THEN Goto(t, "record") ELSE Leave(t)
     \/ Fails /\ Leave(t) /\ UNCHANGED rowVars
  /\ UNCHANGED <<monitorVars, roundVars, changes, told, api, crashes, pauses>>

\* InsertStateChange; its failure is only logged.
Record(t) ==
  /\ pc[t] = "record"
  /\ \/ Works /\ changes' = Append(changes, Flip(t))
     \/ Fails /\ UNCHANGED changes
  /\ Goto(t, "tell")
  /\ UNCHANGED <<monitorVars, roundVars, rowVars, told, api, crashes, pauses>>

\* OnRoundFinalized with the event: notifier and browsers.
Tell(t) ==
  /\ pc[t] = "tell"
  /\ told' = Append(told, Flip(t))
  /\ Leave(t)
  /\ UNCHANGED <<monitorVars, roundVars, rowVars, changes, api, boundVars>>

-----------------------------------------------------------------------------
(* The API.                                                                *)

\* updateMonitor: rounds under way keep the number they were created with; the
\* form also carries the enabled flag, and clears no count.
Edit(n, enabled) ==
  /\ status # "deleted"
  /\ need' = n
  /\ status' = IF enabled THEN "enabled" ELSE "paused"
  /\ UNCHANGED <<roundVars, rowVars, changes, told, threadVars, api, boundVars>>

\* setMonitorEnabled(false), one monitor: the state row is read and written
\* back with its count cleared.
PauseOne ==
  /\ status # "deleted" /\ api.pc = "idle" /\ pauses < MaxPauses
  /\ pauses' = pauses + 1
  /\ status' = "paused"
  /\ api' = [api EXCEPT !.pc = "read"]
  /\ UNCHANGED <<need, roundVars, rowVars, changes, told, threadVars, faults, crashes>>

PauseRead ==
  /\ api.pc = "read"
  /\ \/ Works /\ api' = IF found THEN [pc |-> "write", saw |-> state] ELSE Quiet
     \/ Fails /\ api' = Quiet
  /\ UNCHANGED <<monitorVars, roundVars, rowVars, changes, told, threadVars, crashes, pauses>>

PauseWrite ==
  /\ api.pc = "write"
  /\ \/ Works /\ Put([api.saw EXCEPT !.cons = 0], api.saw) /\ Log("reset", 0)
     \/ Fails /\ UNCHANGED rowVars
  /\ api' = Quiet
  /\ UNCHANGED <<monitorVars, roundVars, changes, told, threadVars, crashes, pauses>>

\* batchMonitors("pause"): SetMonitorsEnabled, then one UPDATE of the counts.
PauseBatch ==
  /\ status # "deleted" /\ api.pc = "idle" /\ pauses < MaxPauses
  /\ pauses' = pauses + 1
  /\ status' = "paused"
  /\ api' = [api EXCEPT !.pc = "reset"]
  /\ UNCHANGED <<need, roundVars, rowVars, changes, told, threadVars, faults, crashes>>

ResetConsecutive ==
  /\ api.pc = "reset"
  /\ \/ /\ Works
        /\ IF found
             THEN state' = [state EXCEPT !.cons = 0] /\ Log("reset", 0)
             ELSE UNCHANGED <<state, history>>
     \/ Fails /\ UNCHANGED <<state, history>>
  /\ api' = Quiet
  /\ UNCHANGED <<monitorVars, roundVars, found, torn, changes, told, threadVars, crashes, pauses>>

Resume ==
  /\ status = "paused"
  /\ status' = "enabled"
  /\ UNCHANGED <<need, roundVars, rowVars, changes, told, threadVars, api, boundVars>>

\* DeleteMonitorCascade: one transaction over all tables.
Delete ==
  /\ status # "deleted"
  /\ status' = "deleted"
  /\ found' = FALSE /\ state' = Fresh
  /\ Log("removed", 0)
  /\ changes' = <<>>
  /\ UNCHANGED <<need, roundVars, torn, told, threadVars, api, boundVars>>

\* The process dies: what the threads were doing is gone, and so are the
\* rounds that were in flight (start-up closes them without an alert).
Crash ==
  /\ crashes < MaxCrashes
  /\ crashes' = crashes + 1
  /\ waiting' = {}
  /\ pc' = [t \in Finalizers |-> "idle"]
  /\ work' = [t \in Finalizers |-> NoWork]
  /\ seen' = [t \in Finalizers |-> Fresh]
  /\ api' = Quiet
  /\ UNCHANGED <<monitorVars, snap, rowVars, changes, told, faults, pauses>>

-----------------------------------------------------------------------------
Init ==
  /\ status = "enabled" /\ need \in Needs
  /\ snap = [r \in Rounds |-> 0] /\ waiting = {}
  /\ found = FALSE /\ state = Fresh
  /\ changes = <<>> /\ told = <<>>
  /\ pc = [t \in Finalizers |-> "idle"]
  /\ work = [t \in Finalizers |-> NoWork]
  /\ seen = [t \in Finalizers |-> Fresh]
  /\ api = Quiet
  /\ history = <<>> /\ torn = FALSE
  /\ faults = 0 /\ crashes = 0 /\ pauses = 0

Applying(t) ==
  \/ \E r \in Rounds, kind \in Kinds : Begin(t, r, kind)
  \/ Read(t) \/ Write(t) \/ Record(t) \/ Tell(t)

Administration ==
  \/ \E n \in Needs, enabled \in BOOLEAN : Edit(n, enabled)
  \/ PauseOne \/ PauseRead \/ PauseWrite
  \/ PauseBatch \/ ResetConsecutive
  \/ Resume \/ Delete

Next ==
  \/ \E r \in Rounds : CreateRound(r)
  \/ \E t \in Finalizers : Applying(t)
  \/ Administration
  \/ Crash

Spec == Init /\ [][Next]_vars
-----------------------------------------------------------------------------
(* Properties.                                                             *)

Work == [round : Rounds \cup {"none"}, kind : Kinds]
Changes == [round : Rounds, to : {"UP", "DOWN"}]

\* The type of every variable.
TypeOK ==
  /\ status \in {"enabled", "paused", "deleted"} /\ need \in Needs
  /\ snap \in [Rounds -> Needs \cup {0}] /\ waiting \in SUBSET Rounds
  /\ found \in BOOLEAN /\ state \in States
  /\ changes \in Seq(Changes) /\ told \in Seq(Changes)
  /\ pc \in [Finalizers -> {"idle", "read", "write", "record", "tell"}]
  /\ work \in [Finalizers -> Work] /\ seen \in [Finalizers -> States]
  /\ api \in [pc : {"idle", "read", "write", "reset"}, saw : States]
  /\ history \in Seq(Entries) /\ torn \in BOOLEAN
  /\ faults \in Nat /\ crashes \in Nat /\ pauses \in Nat

\* As long as no write has overwritten a state its writer had not read, the
\* stored state is the function of the history that the alert package promises:
\* down after the n-th consecutive bad round, up again with the first good one,
\* unknown rounds neutral, a pause clearing the count but not the alarm; for any
\* order of the finalizers, edits of n, pauses, failing operations and crashes.
StateFollowsHistory == ~torn => Follows(state, history)

BadOnes(h, i) == {j \in 1..i : h[j].kind = "bad"}

\* Even with lost updates nobody is declared down out of thin air: some bad
\* round had at least as many bad rounds behind it as it asked for.
NoPhantomDown ==
  state.alert = "DOWN" =>
    \E i \in 1..Len(history) :
      /\ history[i].kind = "bad"
      /\ history[i].n <= Cardinality(BadOnes(history, i))

Count(s, to) == Cardinality({i \in DOMAIN s : s[i].to = to})
InHands(stages, to) == Cardinality({t \in Finalizers : pc[t] \in stages /\ Flip(t).to = to})

\* Alarms and recoveries of the list s and of the threads at the stages balance
\* with the stored state: one alarm more than recoveries iff it is down.
Balances(s, stages) ==
  Count(s, "DOWN") + InHands(stages, "DOWN")
    = Count(s, "UP") + InHands(stages, "UP") + (IF state.alert = "DOWN" THEN 1 ELSE 0)

\* Every alarm is told once and every recovery is told once, whatever the order
\* in which the finalizers come to it, unless a write was lost, the process died
\* in between, or the monitor is gone.
FlipsAreTold == ~torn /\ crashes = 0 /\ status # "deleted" => Balances(told, {"record", "tell"})

\* The same holds of the change log, as long as no database operation fails.
ChangesAreKept ==
  ~torn /\ crashes = 0 /\ faults = 0 /\ status # "deleted" => Balances(changes, {"record"})

\* What setMonitorEnabled's comment says of a pause: the count is cleared and
\* the alert is kept, so that a good round after the pause still recovers it.
PauseKeepsAlert ==
  [][(PauseWrite \/ ResetConsecutive) /\ status # "deleted" => state'.alert = state.alert]_vars
=============================================================================
