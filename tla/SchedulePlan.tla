---------------------------- MODULE SchedulePlan ----------------------------
(***************************************************************************)
(* When a monitor gets its next round (scheduler/scheduler.go): the cycle  *)
(* of the scheduler goroutine, planRound over the monitor's slot in        *)
(* Scheduler.monitors, and what happens beside it: Kick and the API        *)
(* handlers that call it, a pause, an import that changes the period, the  *)
(* end of rounds, a restart.  Time counts in ticks of a second.            *)
(***************************************************************************)
EXTENDS Integers

CONSTANTS Periods,    \* the periods the monitor may be given
          Horizon,    \* bound: the clock stops here, the ticker goes on
          MaxEdits,   \* bound: administrative changes of the monitor
          MaxFaults   \* bound: failing database operations and restarts

ASSUME PeriodsAssumption == Periods \subseteq Nat \ {0}
ASSUME PlanBoundsAssumption == {Horizon, MaxEdits, MaxFaults} \subseteq Nat

VARIABLES
  clock, ticked,  \* the time, and a tick waiting in the ticker's channel
  config,         \* the monitors row: enabled, period, serial (a download monitor,
                  \* one round at a time), and its revision
  slot,           \* Scheduler.monitors[m], or Unseen
  open, busy,     \* how many rounds of the monitor are in Scheduler.rounds, and
                  \* how many of them measure the download speed
  cyc,            \* the cycle in progress, with what it has read
  api,            \* a handler between its write and its Kick
  faults,
  \* history:
  last,           \* the last planned round: planned for, at, with which period
  reset,          \* since then: a kick, a new configuration, a restart
  owed            \* a kick that waits for a round; "raced" if it came in mid-cycle

world == <<clock, ticked, config, api, faults>>
vars == <<world, slot, open, busy, busy, cyc, last, reset, owed>>

Unseen == [due |-> 0, period |-> 0]
Slots == [due : Nat, period : Nat]
NoConfig == [enabled |-> FALSE, period |-> 0, serial |-> FALSE, rev |-> 0]
Idle == [pc |-> "idle", at |-> 0, config |-> NoConfig, saw |-> Unseen,
         inflight |-> FALSE, owed |-> "no"]

\* What an administrator may enter.
Rows == [enabled : BOOLEAN, period : Periods, serial : BOOLEAN, rev : {0}]

-----------------------------------------------------------------------------
(* planRound: whether to open a round now, for which time, and the slot.   *)

Plan(fire, at, due, period) ==
  [fire |-> fire, at |-> at, slot |-> [due |-> due, period |-> period]]

Wait(s) == [fire |-> FALSE, at |-> 0, slot |-> s]

\* Mutant: a kicked serial monitor does not wait.
RestartedAtOnce(now, period, inflight) == Plan(TRUE, now, now + period, period)

\* Mutant: a kicked monitor whose round is open waits for a whole period.
RestartedLate(now, period, inflight) == Plan(~inflight, now, now + period, period)

\* First seen, kicked, or of another period: the grid starts anew, but for a
\* monitor whose last round is still open.
Restarted(now, period, inflight) ==
  Plan(~inflight, now, IF inflight THEN now ELSE now + period, period)

\* Mutant: the delay of the tick goes into the next due time.
SteppedDrifting(s, now, period) == Plan(TRUE, s.due, now + period, s.period)

\* Mutant: rounds that were missed are made up for.
SteppedThrough(s, now, period) == Plan(TRUE, s.due, s.due + period, s.period)

\* Mutant: the new slot has its two fields swapped.
SteppedSwapped(s, now, period) == Plan(TRUE, s.due, s.period, s.due + period)

\* Due: on the grid, unless a whole period was missed.
Stepped(s, now, period) ==
  IF s.due + period > now
    THEN Plan(TRUE, s.due, s.due + period, s.period)
    ELSE Plan(TRUE, now, now + period, s.period)

\* Mutant: a due round that has to wait is planned anew.
PlanPostponed(s, now, period, inflight) ==
  IF s = Unseen \/ s.period # period THEN Restarted(now, period, inflight)
  ELSE IF now < s.due THEN Wait(s)
  ELSE IF inflight THEN Wait([s EXCEPT !.due = now + period])
  ELSE Stepped(s, now, period)

PlanRound(s, now, period, inflight) ==
  IF s = Unseen \/ s.period # period THEN Restarted(now, period, inflight)
  ELSE IF now < s.due \/ inflight THEN Wait(s)
  ELSE Stepped(s, now, period)

-----------------------------------------------------------------------------
(* The scheduler goroutine.                                                *)

\* The ticker: a tick that nobody has taken yet is not doubled.
Tick ==
  /\ clock' = IF clock < Horizon THEN clock + 1 ELSE clock
  /\ ticked' = TRUE
  /\ UNCHANGED <<config, api, faults, slot, open, busy, cyc, last, reset, owed>>

Fault == faults < MaxFaults /\ faults' = faults + 1

\* A cycle begins: the time, then the enabled monitors.  A failing query ends it.
CycleBegin ==
  /\ cyc.pc = "idle" /\ ticked
  /\ ticked' = FALSE
  /\ \/ /\ cyc' = IF config.enabled
                    THEN [cyc EXCEPT !.pc = "list", !.at = clock, !.config = config,
                                     !.owed = owed]
                    ELSE cyc
        /\ owed' = "no"
        /\ UNCHANGED faults
     \/ Fault /\ UNCHANGED <<cyc, owed>>
  /\ UNCHANGED <<clock, config, api, slot, open, busy, last, reset>>

\* The monitor's turn: its rounds in flight, if it is serial, and its slot.
ReadSlot ==
  /\ cyc.pc = "list"
  /\ cyc' = [cyc EXCEPT !.pc = "plan", !.saw = slot,
                         !.inflight = cyc.config.serial /\ open > 0]
  /\ UNCHANGED <<world, slot, open, busy, last, reset, owed>>

\* The plan is stored in the slot, whatever has become of the slot meanwhile.
WriteSlot ==
  LET p == PlanRound(cyc.saw, cyc.at, cyc.config.period, cyc.inflight) IN
  /\ cyc.pc = "plan"
  /\ slot' = p.slot
  /\ cyc' = IF p.fire THEN [cyc EXCEPT !.pc = "create"] ELSE Idle
  /\ IF p.fire
       THEN /\ last' = [at |-> p.at, made |-> cyc.at, period |-> cyc.config.period,
                        turn |-> 1 - last.turn]
            /\ reset' = (config # cyc.config)
            /\ UNCHANGED owed
       ELSE /\ owed' = IF owed = "no" THEN cyc.owed ELSE owed
            /\ UNCHANGED <<last, reset>>
  /\ UNCHANGED <<world, open, busy>>

\* createRound up to the entry in Scheduler.rounds; the row can fail.
CreateRound ==
  /\ cyc.pc = "create"
  /\ cyc' = Idle
  /\ \/ /\ open' = open + 1
        /\ busy' = IF cyc.config.serial THEN busy + 1 ELSE busy
        /\ UNCHANGED faults
     \/ Fault /\ UNCHANGED <<open, busy>>
  /\ UNCHANGED <<clock, ticked, config, api, slot, last, reset, owed>>

\* finalize has removed a round, on this goroutine or on another.
FinishRound ==
  /\ \/ busy > 0 /\ busy' = busy - 1
     \/ open > busy /\ UNCHANGED busy
  /\ open' = open - 1
  /\ UNCHANGED <<world, slot, cyc, last, reset, owed>>

\* The process ends and starts again: the slots and rounds in memory are gone.
Restart ==
  /\ Fault
  /\ slot' = Unseen /\ open' = 0 /\ busy' = 0 /\ cyc' = Idle
  /\ api' = "idle" /\ ticked' = FALSE
  /\ reset' = TRUE /\ owed' = "no"
  /\ UNCHANGED <<clock, config, last>>

-----------------------------------------------------------------------------
(* The administrative API.                                                 *)

\* A new row; its type may change as well.
Change(c) ==
  /\ config.rev < MaxEdits
  /\ config' = [c EXCEPT !.rev = config.rev + 1]
  /\ reset' = TRUE
  /\ owed' = IF c.enabled THEN owed ELSE "no"
  /\ UNCHANGED <<clock, ticked, faults, slot, open, busy, cyc, last>>

\* updateMonitor, and a resume by setMonitorEnabled or the batch: the row first,
\* then the kick.
Edit(c) == api = "idle" /\ Change(c) /\ api' = "kick"

\* A pause, and an import over an existing monitor: no kick.
Rewrite(c) == Change(c) /\ UNCHANGED api

\* KickAll: the slot is deleted.
Kick ==
  /\ api = "kick"
  /\ api' = "idle"
  /\ slot' = Unseen
  /\ reset' = TRUE
  /\ owed' = IF ~config.enabled THEN "no"
             ELSE IF cyc.pc \in {"list", "plan"} THEN "raced" ELSE "clean"
  /\ UNCHANGED <<clock, ticked, config, faults, open, busy, cyc, last>>

-----------------------------------------------------------------------------
Init ==
  /\ clock = 0 /\ ticked = FALSE
  /\ config \in Rows /\ config.enabled
  /\ slot = Unseen /\ open = 0 /\ busy = 0 /\ cyc = Idle /\ api = "idle" /\ faults = 0
  /\ last = [at |-> 0, made |-> 0, period |-> 0, turn |-> 0]
  /\ reset = TRUE /\ owed = "no"

Cycle == CycleBegin \/ ReadSlot \/ WriteSlot \/ CreateRound
Admin == (\E c \in Rows : Edit(c) \/ Rewrite(c)) \/ Kick
Next == Tick \/ Cycle \/ FinishRound \/ Restart \/ Admin

\* The ticker ticks, the scheduler goroutine runs on, every round ends at its
\* deadline at the latest, a handler ends.
Fairness ==
  /\ WF_vars(Tick) /\ WF_vars(Cycle) /\ WF_vars(FinishRound) /\ WF_vars(Kick)

Spec == Init /\ [][Next]_vars
FairSpec == Spec /\ Fairness

-----------------------------------------------------------------------------
(* Properties.                                                             *)

Plans == [at : Nat, made : Nat, period : Nat, turn : {0, 1}]
Debts == {"no", "clean", "raced"}
Configs == [enabled : BOOLEAN, period : Periods, serial : BOOLEAN, rev : Nat]
Cycles == [pc : {"idle", "list", "plan", "create"}, at : Nat,
           config : Configs \cup {NoConfig}, saw : Slots,
           inflight : BOOLEAN, owed : Debts]

\* The types of all variables; a slot that was written has one of the monitor's
\* periods.
TypeOK ==
  /\ clock \in Nat /\ ticked \in BOOLEAN
  /\ config \in Configs
  /\ slot \in Slots /\ (slot = Unseen \/ slot.period \in Periods)
  /\ open \in Nat /\ busy \in 0 .. open
  /\ cyc \in Cycles
  /\ api \in {"idle", "kick"} /\ faults \in Nat
  /\ last \in Plans
  /\ reset \in BOOLEAN /\ owed \in Debts

\* A monitor never has two download measurements open, so that its nodes do not
\* share the bandwidth, even when it is kicked, or becomes a download monitor
\* while earlier rounds are open (scheduler.go:125-127).
SerialAlone == busy <= 1

\* No catching up: a round is carried out less than a period after the time it
\* is planned for, however late the cycle is.  With GridIsKept, no three rounds of
\* an undisturbed grid start within a period (scheduler.go:275-276).
NoCatchUp == last.made - last.at < last.period \/ last.period = 0

\* No drift (scheduler.go:267-273): a round follows the one before it after
\* exactly a period, however late each cycle is; only after a kick, a new
\* configuration, a restart, or when a whole period was missed, the grid is
\* started anew.
GridIsKept ==
  [][last' # last =>
       \/ last'.at = last.at + last.period
       \/ reset \/ last'.period # last.period
       \/ (last'.at = cyc.at /\ last.at + 2 * last.period <= cyc.at)]_vars

\* What the comment of Kick says (scheduler.go:235-243): the next cycle plans
\* a round, or keeps the monitor due until its open round is decided.
Served == last' # last \/ (cyc.inflight /\ slot'.due <= cyc.at)
Planning == cyc.pc = "plan" /\ cyc'.pc # "plan" /\ faults' = faults
KickNextTick == [][Planning /\ cyc.owed # "no" => Served]_vars

\* The kick of a handler that does not fall into the middle of a cycle is served
\* by the next one.
KickIsServed == [][Planning /\ cyc.owed = "clean" => Served]_vars

\* A round that is due is planned in the end, though the round before it may
\* still be open and may take longer than a period (scheduler.go:291-293), unless
\* the monitor is paused, changed or kicked, or the process is restarted.
Due == slot # Unseen /\ slot.due <= clock
DueIsRun == \A b \in {0, 1} : Due /\ last.turn = b ~> last.turn # b \/ reset
=============================================================================
