---------------------------- MODULE PushMonitor ----------------------------
(***************************************************************************)
(* A push monitor: nothing probes it, an external system reports to it     *)
(* (api/push.go, scheduler/push.go).                                       *)
(*                                                                         *)
(* A report makes a round of one sample and finalizes it on the request's  *)
(* own goroutine. The scheduler's goroutine makes such a round, with a     *)
(* failed sample, for every period without a report; in the same cycle it  *)
(* finalizes every round in flight whose deadline is over, and the         *)
(* deadline of a report's round is the moment the report came.             *)
(*                                                                         *)
(* Times are ages in ticks of the scheduler. They stop counting where the  *)
(* code (Period) or the properties (Alarm) cannot tell them apart any      *)
(* more, so that a behaviour may last for ever. applyAlert and a pause read *)
(* the state's row and write it whole, and nothing keeps two of them apart. *)
(***************************************************************************)
EXTENDS AlertMachine, FiniteSetsExt

CONSTANTS
  Reports,      \* the requests that can be in progress at once
  Watchdog,     \* the scheduler's goroutine
  Period, Consecutive, InvertMode,   \* the monitor's row
  MaxUpsets     \* bound: failing writes, crashes and administrative changes, together

Threads == Reports \cup {Watchdog}

\* "How long until it counts as lost" (the comment of cyclePush).
Alarm == Period * Consecutive

VARIABLES
  enabled, state,   \* the monitor's row and its row in monitor_states
  quiet,            \* age of last_push_at, or of the monitor
  slot,             \* age of Scheduler.monitors[m].due; a missing slot is as old as a period
  pc,               \* where each thread is
  on,               \* the flight the scheduler is busy with: its own or a report's
  base,             \* quiet, as the cycle listed it, up to a period
  todo,             \* the flights the cycle still has to look at
  flight,           \* each thread's request and round, in memory and in the rounds table
  pausing,          \* a pause in progress: where it is, and the state it has read
  calm,             \* history: age of the latest good report that was applied
  excuses,          \* history: what may have cost a period of that silence
  upsets

row == <<enabled, state>>
ages == <<quiet, slot, calm>>
cycleVars == <<on, base, todo>>
vars == <<row, ages, pc, cycleVars, flight, pausing, excuses, upsets>>

Stages == {"idle", "plan", "record", "insert", "add", "close", "decide", "read", "write", "scan"}

\* age: of the request; due: the cycle began after it; verdict: what was reported;
\* saw: the state that applyAlert has read.
Flights == [stored : {"none", "OPEN", "decided"}, listed : BOOLEAN, age : 0..Alarm, due : BOOLEAN,
            verdict : {"good", "bad"}, sample : {"none", "good", "bad"},
            agg : {"none", "unknown", "good", "bad"},
            saw : [alert : {"UP", "DOWN"}, cons : 0..Consecutive]]
NoFlight == [stored |-> "none", listed |-> FALSE, age |-> 0, due |-> FALSE,
             verdict |-> "bad", sample |-> "none", agg |-> "none", saw |-> Fresh]
NoPause == [stage |-> "none", saw |-> Fresh]

Flight(t) == IF t = Watchdog THEN on ELSE t
Goto(t, stage) == pc' = [pc EXCEPT ![t] = stage]

\* Does the scheduler still look at p's flight? Does p?
WatchdogHas(p) == flight[p].listed \/ p \in todo \/ (on = p /\ pc[Watchdog] # "idle")
OthersHave(t) == IF t = Watchdog THEN on # t /\ pc[on] # "idle" ELSE WatchdogHas(t)

\* Thread t is done with its flight, which is forgotten with the last that has it.
Leave(t, f) ==
  /\ Goto(t, IF t = Watchdog THEN "scan" ELSE "idle")
  /\ flight' = [flight EXCEPT ![Flight(t)] = IF OthersHave(t) THEN f ELSE NoFlight]

Upset == upsets < MaxUpsets /\ upsets' = upsets + 1
Works == UNCHANGED upsets
Older(a, cap) == Min({a + 1, cap})
Excuse(k) == Min({k, Consecutive})
Count(holds) == IF holds THEN 1 ELSE 0

-----------------------------------------------------------------------------
(* The external system.                                                    *)

\* receivePush: the monitor is looked up, and a paused one refuses. A request's
\* slot is used again once its earlier round is out of every hand.
Receive(p) ==
  /\ pc[p] = "idle" /\ enabled /\ ~WatchdogHas(p)
  /\ Goto(p, "record")
  /\ \E ok \in BOOLEAN :
       flight' = [flight EXCEPT ![p] = [NoFlight EXCEPT !.verdict = IF ok # InvertMode THEN "good" ELSE "bad"]]
  /\ UNCHANGED <<row, ages, cycleVars, pausing, excuses, upsets>>

\* The stored time is behind a good report that was applied: that report's time
\* could not be stored, or an earlier report stored its own after it.
Behind(stored, applied) == stored > applied

\* RecordPushReport, whatever time is stored already; a failure is logged, and the
\* report goes on.
RecordPushReport(p) ==
  /\ pc[p] = "record"
  /\ Goto(p, "insert")
  /\ \/ /\ Works /\ quiet' = flight[p].age
        /\ excuses' = IF Behind(quiet', calm) /\ ~Behind(quiet, calm) THEN Excuse(excuses + 1) ELSE excuses
     \/ Upset /\ UNCHANGED <<quiet, excuses>>
  /\ UNCHANGED <<row, slot, calm, cycleVars, flight, pausing>>

-----------------------------------------------------------------------------
(* The scheduler's cycle.                                                  *)

\* Mutant: a push monitor is left out of the cycle, for it gets no tasks.
BeginCycleSkipping ==
  /\ pc[Watchdog] = "idle"
  /\ Goto(Watchdog, "scan")
  /\ flight' = [p \in Threads |-> [flight[p] EXCEPT !.due = p # Watchdog /\ (@ \/ pc[p] # "idle")]]
  /\ UNCHANGED <<row, ages, cycleVars, pausing, excuses, upsets>>

\* The clock is read and the monitors are listed.
BeginCycle ==
  /\ pc[Watchdog] = "idle"
  /\ \/ Works /\ Goto(Watchdog, IF enabled THEN "plan" ELSE "scan") /\ base' = Min({quiet, Period})
     \/ Upset /\ UNCHANGED <<pc, base>>
  /\ flight' = [p \in Threads |-> [flight[p] EXCEPT !.due = p # Watchdog /\ (@ \/ pc[p] # "idle")]]
  /\ UNCHANGED <<row, ages, on, todo, pausing, excuses>>

\* cyclePush: a silence of a period, and a period since the last silent round.
Plan ==
  /\ pc[Watchdog] = "plan"
  /\ IF base >= Period /\ slot >= Period
       THEN Goto(Watchdog, "insert") /\ slot' = 0 /\ UNCHANGED base
       ELSE Goto(Watchdog, "scan") /\ UNCHANGED slot /\ base' = 0
  /\ UNCHANGED <<row, quiet, calm, on, todo, flight, pausing, excuses, upsets>>

EndCycle == Goto(Watchdog, "idle") /\ on' = Watchdog /\ base' = 0 /\ UNCHANGED todo

\* The flight is left alone, and the next one is looked at.
TakeNext(rest) == \E p \in rest : on' = p /\ todo' = rest \ {p} /\ UNCHANGED <<pc, base>>

\* The second half of cycle: the rounds that are in flight now are listed.
ListFlights ==
  /\ pc[Watchdog] = "scan" /\ on = Watchdog
  /\ LET open == {p \in Reports : flight[p].listed}
     IN IF open = {} THEN EndCycle ELSE TakeNext(open)
  /\ UNCHANGED <<row, ages, flight, pausing, excuses, upsets>>

\* Those whose deadline was over when the cycle began are finalized.
PickFlight ==
  /\ pc[Watchdog] = "scan" /\ on # Watchdog
  /\ IF flight[on].listed /\ flight[on].agg = "none" /\ flight[on].due
       THEN Goto(Watchdog, "close") /\ UNCHANGED cycleVars
       ELSE IF todo = {} THEN EndCycle ELSE TakeNext(todo)
  /\ flight' = IF pc[on] = "idle" /\ ~flight[on].listed THEN [flight EXCEPT ![on] = NoFlight] ELSE flight
  /\ UNCHANGED <<row, ages, pausing, excuses, upsets>>

-----------------------------------------------------------------------------
(* pushRound, on the request's goroutine or the scheduler's.               *)

\* The row, and then the entry in Scheduler.rounds.
InsertRound(t) ==
  /\ pc[t] = "insert"
  /\ \/ Works /\ Goto(t, "add") /\ flight' = [flight EXCEPT ![t].stored = "OPEN", ![t].listed = TRUE]
     \/ Upset /\ Leave(t, NoFlight)
  /\ UNCHANGED <<row, ages, cycleVars, pausing, excuses>>

\* EffOK with the round's own invert snapshot: a silence is a failure, never inverted.
Verdict(t) == IF t = Watchdog THEN "bad" ELSE flight[t].verdict

\* MarkDispatched, AddResult and InsertResult (whose row counts for nothing here):
\* a round the cycle has closed refuses its sample, and no more is done about it.
AddResult(t) ==
  /\ pc[t] = "add"
  /\ IF flight[t].agg # "none"
       THEN Leave(t, flight[t])
       ELSE Goto(t, "close") /\ flight' = [flight EXCEPT ![t].sample = Verdict(t)]
  /\ UNCHANGED <<row, ages, cycleVars, pausing, excuses, upsets>>

\* finalize up to the removal from Scheduler.rounds: the placeholder of the
\* external system is no node, so a missing sample is left out of the count.
CloseFlight(t) ==
  /\ pc[t] = "close"
  /\ Goto(t, "decide")
  /\ LET f == flight[Flight(t)]
         agg == IF f.agg # "none" THEN f.agg ELSE IF f.sample = "none" THEN "unknown" ELSE f.sample
     IN flight' = [flight EXCEPT ![Flight(t)].listed = FALSE, ![Flight(t)].agg = agg]
  /\ UNCHANGED <<row, ages, cycleVars, pausing, excuses, upsets>>

\* Store.CloseRound: the first to get there decides the row and applies it.
CloseRound(t) ==
  /\ pc[t] = "decide"
  /\ LET f == flight[Flight(t)]
     IN \/ /\ Works
           /\ IF f.stored = "OPEN"
                THEN Goto(t, "read") /\ flight' = [flight EXCEPT ![Flight(t)].stored = "decided"]
                ELSE Leave(t, f)
        \/ Upset /\ Leave(t, f)
  /\ UNCHANGED <<row, ages, cycleVars, pausing, excuses>>

\* A silent round that has been planned, or can be on the listing it has.
SilenceUnderWay == on = Watchdog /\ base >= Period /\ pc[Watchdog] \notin {"idle", "scan"}

\* applyAlert: the monitor and its state are read ...
ReadState(t) ==
  /\ pc[t] = "read"
  /\ \/ Works /\ Goto(t, "write") /\ flight' = [flight EXCEPT ![Flight(t)].saw = state]
     \/ Upset /\ Leave(t, flight[Flight(t)])
  /\ UNCHANGED <<row, ages, cycleVars, pausing, excuses>>

\* Mutant: the alarm comes one bad round early.
NextStateEarly(f) ==
  LET next == Apply(f.saw, f.agg, Consecutive - 1)
  IN [next EXCEPT !.cons = Min({next.cons, Consecutive})]

\* From Consecutive on, the count's value is no matter.
NextState(f) ==
  LET next == Apply(f.saw, f.agg, Consecutive)
  IN [next EXCEPT !.cons = Min({next.cons, Consecutive})]

\* ... and the next state is written, whatever the row says by now. A good round's
\* is the same after any; another's is right if the row is what was read.
WriteState(t) ==
  /\ pc[t] = "write"
  /\ LET f == flight[Flight(t)]
     IN /\ \/ /\ Works
              /\ state' = NextState(f)
              /\ calm' = IF f.agg = "good" THEN Min({calm, f.age}) ELSE calm
              /\ excuses' = CASE f.agg = "good" -> Excuse(Count(SilenceUnderWay) + Count(Behind(quiet, calm')))
                              [] f.agg # "good" /\ state # f.saw -> Consecutive
                              [] OTHER -> Excuse(excuses + Count(f.agg = "bad" /\ Flight(t) # Watchdog))
           \/ Upset /\ UNCHANGED <<state, calm, excuses>>
        /\ Leave(t, [f EXCEPT !.saw = Fresh])
  /\ UNCHANGED <<enabled, quiet, slot, cycleVars, pausing>>

-----------------------------------------------------------------------------
(* The administrator, the clock, and a crash.                              *)

\* setMonitorEnabled(false): the monitor is paused ...
Pause ==
  /\ Upset /\ enabled /\ pausing.stage = "none"
  /\ enabled' = FALSE
  /\ pausing' = [pausing EXCEPT !.stage = "read"]
  /\ UNCHANGED <<state, ages, pc, cycleVars, flight, excuses>>

\* ... its state is read; without a row there is nothing to clear ...
PauseRead ==
  /\ pausing.stage = "read"
  /\ \/ Works /\ pausing' = [stage |-> "write", saw |-> state]
     \/ Works /\ state = Fresh /\ pausing' = NoPause
     \/ Upset /\ pausing' = NoPause
  /\ UNCHANGED <<row, ages, pc, cycleVars, flight, excuses>>

\* ... and written back without its count, the alert as it was read.
PauseWrite ==
  /\ pausing.stage = "write"
  /\ \/ /\ Works
        /\ state' = [pausing.saw EXCEPT !.cons = 0]
        /\ excuses' = IF state # pausing.saw THEN Consecutive ELSE excuses
     \/ Upset /\ UNCHANGED <<state, excuses>>
  /\ pausing' = NoPause
  /\ UNCHANGED <<enabled, ages, pc, cycleVars, flight>>

\* setMonitorEnabled(true), and an updateMonitor that leaves the period and the
\* threshold: the slot is cleared (Kick). The administrator waits for one answer
\* before the next request.
Kick ==
  /\ pausing.stage = "none"
  /\ IF enabled THEN Upset ELSE Works
  /\ enabled' = TRUE
  /\ slot' = Period
  /\ excuses' = Excuse(excuses + 1)
  /\ UNCHANGED <<state, quiet, calm, pc, cycleVars, flight, pausing>>

\* A crash and the restart: CloseOrphanOpenRounds closes what was open as UNKNOWN,
\* because a push round has no assigned node whose rows would count.
Crash ==
  /\ Upset
  /\ pc' = [t \in Threads |-> "idle"]
  /\ on' = Watchdog /\ todo' = {} /\ base' = 0
  /\ flight' = [t \in Threads |-> NoFlight] /\ pausing' = NoPause
  /\ slot' = Period
  /\ excuses' = Excuse(excuses + 1)
  /\ UNCHANGED <<row, quiet, calm>>

\* A tick passes; the scheduler takes less than that from the listing to the plan.
Second ==
  /\ pc[Watchdog] # "plan"
  /\ quiet' = Older(quiet, Alarm) /\ calm' = Older(calm, Alarm) /\ slot' = Older(slot, Period)
  /\ flight' = [t \in Threads |->
       IF t \in Reports /\ pc[t] # "idle" THEN [flight[t] EXCEPT !.age = Older(@, Alarm)] ELSE flight[t]]
  /\ UNCHANGED <<row, pc, cycleVars, pausing, excuses, upsets>>

-----------------------------------------------------------------------------
Init ==
  /\ enabled = TRUE /\ state = Fresh
  /\ quiet = 0 /\ slot = Period /\ calm = 0
  /\ pc = [t \in Threads |-> "idle"]
  /\ on = Watchdog /\ base = 0 /\ todo = {}
  /\ flight = [t \in Threads |-> NoFlight]
  /\ pausing = NoPause /\ excuses = 0 /\ upsets = 0

PushRound(t) ==
  \/ InsertRound(t) \/ AddResult(t)
  \/ CloseFlight(t) \/ CloseRound(t) \/ ReadState(t) \/ WriteState(t)
Cycle == BeginCycle \/ Plan \/ ListFlights \/ PickFlight \/ PushRound(Watchdog)
Request(p) == RecordPushReport(p) \/ PushRound(p)

Next ==
  \/ \E p \in Reports : Receive(p) \/ Request(p)
  \/ Cycle \/ Second \/ Kick \/ Crash
  \/ Pause \/ PauseRead \/ PauseWrite

\* Goroutines that can go on do, and time passes whatever the scheduler does.
Fairness ==
  /\ WF_vars(Cycle) /\ SF_vars(Second)
  /\ \A p \in Reports : WF_vars(Request(p))

Spec == Init /\ [][Next]_vars /\ Fairness
-----------------------------------------------------------------------------
(* Properties.                                                             *)

\* The type of every variable.
TypeOK ==
  /\ enabled \in BOOLEAN
  /\ state \in [alert : {"UP", "DOWN"}, cons : 0..Consecutive]
  /\ quiet \in 0..Alarm /\ calm \in 0..Alarm /\ slot \in 0..Period /\ base \in 0..Period
  /\ pc \in [Threads -> Stages] /\ on \in Threads /\ todo \subseteq Reports
  /\ flight \in [Threads -> Flights]
  /\ pausing \in [stage : {"none", "read", "write"}, saw : [alert : {"UP", "DOWN"}, cons : 0..Consecutive]]
  /\ excuses \in 0..Consecutive /\ upsets \in 0..MaxUpsets

\* An alarm has cost the external system its Period x Consecutive of silence: a
\* DOWN monitor has had no good report for that long, less one period for each
\* excuse since: a failing report, a cleared slot (edit, resume, restart), a
\* silent round that was under way when the report was applied, a stored time that
\* is behind the report (it was never stored, or an earlier report's was after it).
\* A write over a state that its writer had not read can undo the report altogether.
SilenceTakesItsTime == state.alert = "DOWN" => calm + Period * excuses >= Alarm

\* A silence is told: a monitor that stays enabled and has had no report for
\* Period x Consecutive goes DOWN.
Lost == enabled /\ quiet = Alarm /\ \A p \in Reports : pc[p] = "idle"
SilenceIsTold == Lost ~> state.alert = "DOWN" \/ ~Lost
=============================================================================
