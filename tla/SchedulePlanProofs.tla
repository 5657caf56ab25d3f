------------------------- MODULE SchedulePlanProofs -------------------------
(* Theorems about SchedulePlan: types, serial monitors, the grid and the   *)
(* kick, for any periods and any bounds.                                   *)
EXTENDS SchedulePlan, TLAPS

\* A cycle that has begun works with a configuration the monitor had.
CycleConfig ==
  /\ cyc.pc # "idle" => cyc.config \in Configs
  /\ cyc.saw = Unseen \/ cyc.saw.period \in Periods

TypeInv == TypeOK /\ CycleConfig

USE PeriodsAssumption

\* The two shapes of a new slot.
LEMMA PlanTypes ==
  ASSUME NEW s \in Slots, s = Unseen \/ s.period \in Periods,
         NEW now \in Nat, NEW period \in Periods, NEW inflight \in BOOLEAN
  PROVE LET p == PlanRound(s, now, period, inflight) IN
        /\ p.slot \in [due : Nat, period : Periods]
        /\ p.fire => p.at \in Nat
        /\ p.fire => p.at <= now /\ now - p.at < period
<1>1. CASE s = Unseen \/ s.period # period
  <2>1. CASE inflight
    <3>1. PlanRound(s, now, period, inflight)
            = [fire |-> FALSE, at |-> now, slot |-> [due |-> now, period |-> period]]
      BY <1>1, <2>1 DEF PlanRound, Restarted, Plan
    <3> QED BY <3>1
  <2>2. CASE ~inflight
    <3>1. PlanRound(s, now, period, inflight)
            = [fire |-> TRUE, at |-> now, slot |-> [due |-> now + period, period |-> period]]
      BY <1>1, <2>2 DEF PlanRound, Restarted, Plan
    <3> QED BY <3>1
  <2> QED BY <2>1, <2>2
<1>2. CASE ~(s = Unseen \/ s.period # period) /\ (now < s.due \/ inflight)
  BY <1>2 DEF PlanRound, Wait, Slots
<1>3. CASE ~(s = Unseen \/ s.period # period) /\ ~(now < s.due \/ inflight)
  BY <1>3 DEF PlanRound, Stepped, Plan, Slots
<1> QED BY <1>1, <1>2, <1>3

-----------------------------------------------------------------------------
(* Types.                                                                  *)

LEMMA IdleTypes ==
  /\ Unseen \in Slots /\ Unseen.period = 0 /\ Unseen.due = 0
  /\ Idle \in Cycles /\ Idle.pc = "idle" /\ Idle.saw = Unseen /\ Idle.owed = "no"
BY DEF Unseen, Slots, Idle, Cycles, Debts

LEMMA PlanTypeInit == Init => TypeInv
<1> SUFFICES ASSUME Init PROVE TypeInv
  OBVIOUS
<1>2. config \in Configs
  BY DEF Init, Rows, Configs
<1>3. last \in Plans
  BY DEF Init, Plans
<1> QED
  <2>1. clock \in Nat /\ slot = Unseen /\ open = 0 /\ busy = 0 /\ cyc = Idle /\ api = "idle"
    BY DEF Init
  <2>2. faults \in Nat /\ owed \in Debts
    BY DEF Init, Debts
  <2>3. ticked \in BOOLEAN /\ reset \in BOOLEAN
    BY DEF Init
  <2> QED
    BY <1>2, <1>3, <2>1, <2>2, <2>3, IdleTypes DEF TypeInv, TypeOK, CycleConfig

\* The decision of a cycle, and what it writes.
Decision == PlanRound(cyc.saw, cyc.at, cyc.config.period, cyc.inflight)

LEMMA WriteFacts ==
  ASSUME TypeInv, WriteSlot
  PROVE /\ cyc.pc = "plan" /\ slot' = Decision.slot
        /\ cyc' = IF Decision.fire THEN [cyc EXCEPT !.pc = "create"] ELSE Idle
        /\ Decision.fire =>
             /\ last' = [at |-> Decision.at, made |-> cyc.at,
                         period |-> cyc.config.period, turn |-> 1 - last.turn]
             /\ reset' = (config # cyc.config) /\ owed' = owed
        /\ ~Decision.fire =>
             /\ last' = last /\ reset' = reset
             /\ owed' = IF owed = "no" THEN cyc.owed ELSE owed
        /\ UNCHANGED <<clock, ticked, config, api, faults, open, busy>>
BY DEF WriteSlot, Decision, world

\* The cycle that decides has read a slot and a configuration.
LEMMA PlanFacts ==
  ASSUME TypeInv, cyc.pc = "plan"
  PROVE /\ cyc.saw \in Slots /\ (cyc.saw = Unseen \/ cyc.saw.period \in Periods)
        /\ cyc.at \in Nat /\ cyc.config.period \in Periods
        /\ cyc.inflight \in BOOLEAN /\ cyc.owed \in Debts
BY DEF TypeInv, TypeOK, CycleConfig, Cycles, Configs

LEMMA PlanTypeWrite == TypeInv /\ WriteSlot => TypeInv'
<1> SUFFICES ASSUME TypeInv, WriteSlot PROVE TypeInv'
  OBVIOUS
<1> DEFINE p == Decision
<1>1. /\ cyc.pc = "plan" /\ slot' = p.slot
      /\ cyc' = IF p.fire THEN [cyc EXCEPT !.pc = "create"] ELSE Idle
      /\ p.fire =>
           /\ last' = [at |-> p.at, made |-> cyc.at, period |-> cyc.config.period,
                       turn |-> 1 - last.turn]
           /\ reset' = (config # cyc.config) /\ owed' = owed
      /\ ~p.fire =>
           /\ last' = last /\ reset' = reset
           /\ owed' = IF owed = "no" THEN cyc.owed ELSE owed
      /\ UNCHANGED <<clock, ticked, config, api, faults, open, busy>>
  BY WriteFacts
<1>2. /\ cyc.at \in Nat /\ cyc.config.period \in Periods /\ cyc.owed \in Debts
  BY <1>1, PlanFacts
<1>3. /\ p.slot \in [due : Nat, period : Periods]
      /\ p.fire => p.at \in Nat
  BY <1>1, PlanFacts, PlanTypes DEF Decision
<1>4. slot' \in Slots /\ slot'.period \in Periods
  BY <1>1, <1>3 DEF Slots
<1>5. cyc' \in Cycles /\ CycleConfig'
  BY <1>1, IdleTypes DEF TypeInv, TypeOK, CycleConfig, Cycles
<1>6. last' \in Plans /\ reset' \in BOOLEAN /\ owed' \in Debts
  <2>1. CASE p.fire
    <3>1. last' \in Plans
      <4> DEFINE at == p.at
      <4>1. last' = [at |-> at, made |-> cyc.at, period |-> cyc.config.period,
                     turn |-> 1 - last.turn]
        BY <1>1, <2>1
      <4>2. at \in Nat
        BY <1>3, <2>1
      <4>3. 1 - last.turn \in {0, 1}
        BY DEF Plans, TypeInv, TypeOK
      <4> HIDE DEF at
      <4> QED BY <1>2, <4>1, <4>2, <4>3 DEF Plans
    <3>2. reset' \in BOOLEAN
      BY <1>1, <2>1
    <3>3. owed' \in Debts
      BY <1>1, <2>1 DEF TypeInv, TypeOK
    <3> QED BY <3>1, <3>2, <3>3
  <2>2. CASE ~p.fire
    BY <1>1, <1>2, <2>2 DEF TypeInv, TypeOK
  <2> QED BY <2>1, <2>2
<1> HIDE DEF p
<1> QED
  BY <1>1, <1>4, <1>5, <1>6 DEF TypeInv, TypeOK, CycleConfig

LEMMA PlanTypeStep == TypeInv /\ [Next]_vars => TypeInv'
<1> SUFFICES ASSUME TypeInv, [Next]_vars PROVE TypeInv'
  OBVIOUS
<1> USE DEF TypeInv, TypeOK, CycleConfig
<1>1. CASE Tick
  BY <1>1 DEF Tick
<1>2. CASE CycleBegin
  <2>1. /\ cyc' \in Cycles /\ (cyc'.pc # "idle" => cyc'.config \in Configs)
        /\ cyc'.saw = cyc.saw /\ owed' \in Debts
    <3>1. CASE cyc' = cyc /\ owed' \in {"no", owed}
      BY <3>1 DEF Debts
    <3>2. CASE cyc' = [cyc EXCEPT !.pc = "list", !.at = clock, !.config = config, !.owed = owed]
               /\ owed' = "no"
      <4>1. clock \in Nat /\ config \in Configs /\ owed \in Debts /\ cyc \in Cycles
        OBVIOUS
      <4> QED
        BY <3>2, <4>1 DEF Cycles, Debts
    <3> QED
      BY <1>2, <3>1, <3>2 DEF CycleBegin
  <2>3. UNCHANGED <<clock, config, api, slot, open, busy, last, reset>>
    BY <1>2 DEF CycleBegin
  <2>4. faults' \in Nat
    BY <1>2 DEF CycleBegin, Fault
  <2>5. ticked' \in BOOLEAN
    BY <1>2 DEF CycleBegin
  <2> QED BY <2>1, <2>3, <2>4, <2>5
<1>3. CASE ReadSlot
  BY <1>3 DEF ReadSlot, world, Cycles
<1>4. CASE WriteSlot
  BY <1>4, PlanTypeWrite
<1>5. CASE CreateRound
  BY <1>5, IdleTypes DEF CreateRound, Fault
<1>6. CASE FinishRound
  BY <1>6 DEF FinishRound, world
<1>7. CASE Restart
  <2>1. slot' = Unseen /\ cyc' = Idle /\ owed' = "no" /\ reset' = TRUE
    BY <1>7 DEF Restart
  <2>2. open' \in Nat /\ busy' \in 0 .. open' /\ faults' \in Nat /\ api' \in {"idle", "kick"}
    BY <1>7 DEF Restart, Fault
  <2>4. ticked' \in BOOLEAN
    BY <1>7 DEF Restart
  <2>3. UNCHANGED <<clock, config, last>>
    BY <1>7 DEF Restart
  <2> QED BY <2>1, <2>2, <2>3, <2>4, IdleTypes DEF Debts
<1>9. CASE Admin
  <2>1. ASSUME NEW c \in Rows, Edit(c) \/ Rewrite(c) PROVE TypeInv'
    <3>1. config' \in Configs
      BY <2>1 DEF Edit, Rewrite, Change, Rows, Configs
    <3>2. reset' = TRUE /\ owed' \in Debts /\ api' \in {"idle", "kick"}
      BY <2>1 DEF Edit, Rewrite, Change, Debts
    <3>3. UNCHANGED <<clock, ticked, faults, slot, open, busy, cyc, last>>
      BY <2>1 DEF Edit, Rewrite, Change
    <3> QED BY <3>1, <3>2, <3>3
  <2>2. CASE Kick
    BY <2>2, IdleTypes DEF Kick, Debts
  <2> QED BY <1>9, <2>1, <2>2 DEF Admin
<1>10. CASE UNCHANGED vars
  BY <1>10 DEF vars, world
<1> QED
  BY <1>1, <1>2, <1>3, <1>4, <1>5, <1>6, <1>7, <1>9, <1>10 DEF Next, Cycle

\* Every variable keeps its type, and the slot only ever holds a period the
\* monitor was given.
THEOREM PlanTypeCorrect == Spec => []TypeOK
<1>1. Spec => []TypeInv
  BY PlanTypeInit, PlanTypeStep, PTL DEF Spec
<1>2. TypeInv => TypeOK
  BY DEF TypeInv
<1> QED BY <1>1, <1>2, PTL

-----------------------------------------------------------------------------
(* A serial monitor.                                                       *)

\* Only the scheduler opens rounds, and for a download monitor it does so when it
\* has seen none.
SerialInv ==
  /\ busy <= 1
  /\ cyc.pc = "create" /\ cyc.config.serial => open = 0
  /\ cyc.pc = "plan" /\ cyc.config.serial /\ ~cyc.inflight => open = 0

LEMMA SerialWaits ==
  ASSUME TypeInv, cyc.pc = "plan", cyc.inflight
  PROVE ~Decision.fire
<1>1. cyc.saw \in Slots /\ cyc.inflight = TRUE
  BY PlanFacts
<1> QED
  BY <1>1 DEF Decision, PlanRound, Restarted, Plan, Wait

LEMMA SerialStep == TypeInv /\ SerialInv /\ [Next]_vars => SerialInv'
<1> SUFFICES ASSUME TypeInv, SerialInv, [Next]_vars PROVE SerialInv'
  OBVIOUS
<1>0. open \in Nat /\ busy \in 0 .. open
  BY DEF TypeInv, TypeOK
<1>1. CASE Tick \/ Admin \/ UNCHANGED vars
  <2>1. UNCHANGED <<cyc, open, busy>>
    BY <1>1 DEF Tick, Admin, Edit, Rewrite, Change, Kick, vars, world
  <2> QED BY <2>1 DEF SerialInv
<1>2. CASE CycleBegin
  <2>1. UNCHANGED <<open, busy>> /\ cyc'.pc \in {"list", "idle"}
    BY <1>2 DEF CycleBegin, TypeInv, TypeOK, Cycles
  <2> QED BY <2>1 DEF SerialInv
<1>3. CASE ReadSlot
  <2>1. /\ UNCHANGED <<open, busy>> /\ cyc'.pc = "plan" /\ cyc'.config = cyc.config
        /\ cyc'.inflight = (cyc.config.serial /\ open > 0)
    BY <1>3 DEF ReadSlot, TypeInv, TypeOK, Cycles
  <2>2. cyc.config.serial /\ ~cyc'.inflight => open = 0
    <3>1. cyc'.inflight = (cyc.config.serial /\ open > 0)
      BY <2>1
    <3>2. ASSUME cyc.config.serial, ~cyc'.inflight PROVE ~(open > 0)
      BY ONLY <3>1, <3>2, Zenon
    <3> QED BY <1>0, <3>2
  <2> QED BY <2>1, <2>2 DEF SerialInv
<1>4. CASE WriteSlot
  <2>1. UNCHANGED <<open, busy>> /\ cyc.pc = "plan"
    BY <1>4, WriteFacts
  <2>2. CASE Decision.fire
    <3>1. cyc' = [cyc EXCEPT !.pc = "create"]
      BY <1>4, <2>2, WriteFacts
    <3>2. cyc'.pc = "create" /\ cyc'.config = cyc.config
      BY <3>1 DEF TypeInv, TypeOK, Cycles
    <3>3. ~cyc.inflight
      BY <2>1, <2>2, SerialWaits
    <3> QED BY <2>1, <3>2, <3>3 DEF SerialInv
  <2>3. CASE ~Decision.fire
    <3>1. cyc'.pc = "idle"
      BY <1>4, <2>3, WriteFacts, IdleTypes
    <3> QED BY <2>1, <3>1 DEF SerialInv
  <2> QED BY <2>2, <2>3
<1>5. CASE CreateRound
  <2>1. cyc.pc = "create" /\ cyc'.pc = "idle"
    BY <1>5, IdleTypes DEF CreateRound
  <2>2. busy' = busy \/ (cyc.config.serial /\ busy' = busy + 1)
    BY <1>5 DEF CreateRound
  <2> QED BY <1>0, <2>1, <2>2 DEF SerialInv
<1>6. CASE FinishRound
  <2>1. open' = open - 1 /\ open > 0 /\ cyc' = cyc /\ busy' <= busy /\ busy' \in Nat
    BY <1>0, <1>6 DEF FinishRound
  <2>2. /\ ~(cyc.pc = "create" /\ cyc.config.serial)
        /\ ~(cyc.pc = "plan" /\ cyc.config.serial /\ ~cyc.inflight)
    BY <1>0, <2>1 DEF SerialInv
  <2>3. busy' <= 1
    BY <1>0, <2>1 DEF SerialInv
  <2> QED BY <2>1, <2>2, <2>3 DEF SerialInv
<1>7. CASE Restart
  <2>1. open' = 0 /\ busy' = 0
    BY <1>7 DEF Restart
  <2> QED BY <2>1 DEF SerialInv
<1> QED
  BY <1>1, <1>2, <1>3, <1>4, <1>5, <1>6, <1>7 DEF Next, Cycle

\* A monitor has one download measurement at a time, whatever kicks, changes of
\* its period or type, pauses and late cycles come together.
THEOREM SerialCorrect == Spec => []SerialAlone
<1>1. Init => SerialInv
  BY IdleTypes DEF Init, SerialInv
<1>2. Spec => [](TypeInv /\ SerialInv)
  BY <1>1, PlanTypeInit, PlanTypeStep, SerialStep, PTL DEF Spec
<1>3. SerialInv => SerialAlone
  BY DEF SerialInv, SerialAlone
<1> QED BY <1>2, <1>3, PTL

-----------------------------------------------------------------------------
(* The grid.                                                               *)

\* Only a cycle's decision for a round changes the history of rounds.
LEMMA LastChanges ==
  ASSUME TypeInv, [Next]_vars, last' # last
  PROVE WriteSlot /\ Decision.fire
<1>1. WriteSlot
  BY DEF Next, Cycle, Tick, CycleBegin, ReadSlot, CreateRound, FinishRound,
         Restart, Admin, Edit, Rewrite, Change, Kick, vars, world
<1> QED BY <1>1, WriteFacts

LEMMA NoCatchUpStep == TypeInv /\ NoCatchUp /\ [Next]_vars => NoCatchUp'
<1> SUFFICES ASSUME TypeInv, NoCatchUp, [Next]_vars PROVE NoCatchUp'
  OBVIOUS
<1>1. CASE last' = last
  BY <1>1 DEF NoCatchUp
<1>2. CASE last' # last
  <2>1. WriteSlot /\ Decision.fire
    BY <1>2, LastChanges
  <2>2. cyc.at - Decision.at < cyc.config.period
    BY <2>1, WriteFacts, PlanFacts, PlanTypes DEF Decision
  <2>3. /\ last'.made = cyc.at /\ last'.at = Decision.at
        /\ last'.period = cyc.config.period
    BY <2>1, WriteFacts
  <2> QED BY <2>2, <2>3 DEF NoCatchUp
<1> QED BY <1>1, <1>2

\* No round starts a whole period late.
THEOREM NoCatchUpCorrect == Spec => []NoCatchUp
<1>1. Init => NoCatchUp
  BY DEF Init, NoCatchUp
<1>2. Spec => [](TypeInv /\ NoCatchUp)
  BY <1>1, PlanTypeInit, PlanTypeStep, NoCatchUpStep, PTL DEF Spec
<1> QED BY <1>2, PTL

\* While nothing has reset it, the slot is one period after the last round, and
\* a cycle in progress has seen just that slot and the current configuration.
GridInv ==
  ~reset =>
    /\ slot = [due |-> last.at + last.period, period |-> last.period]
    /\ last.period \in Periods /\ config.period = last.period
    /\ cyc.pc \in {"list", "plan"} => cyc.config = config
    /\ cyc.pc = "plan" => cyc.saw = slot

\* What a decision is when nothing has reset the grid.
LEMMA GridDecision ==
  ASSUME TypeInv, GridInv, ~reset, cyc.pc = "plan"
  PROVE /\ Decision.fire =>
             \/ Decision.at = last.at + last.period
             \/ Decision.at = cyc.at /\ last.at + 2 * last.period <= cyc.at
        /\ ~Decision.fire => Decision.slot = slot
<1> DEFINE P == last.period
           s == [due |-> last.at + P, period |-> P]
<1>1. /\ cyc.saw = s /\ slot = s /\ cyc.config.period = P
      /\ P \in Nat \ {0} /\ last.at \in Nat /\ cyc.at \in Nat
  BY PlanFacts DEF GridInv, TypeInv, TypeOK, Plans
<1>2. s # Unseen /\ s.period = P /\ s.due = last.at + P
  BY <1>1 DEF Unseen
<1>3. Decision = IF cyc.at < s.due \/ cyc.inflight THEN Wait(s) ELSE Stepped(s, cyc.at, P)
  BY <1>1, <1>2 DEF Decision, PlanRound
<1> HIDE DEF P
<1>4. CASE cyc.at < s.due \/ cyc.inflight
  <2>1. Decision = [fire |-> FALSE, at |-> 0, slot |-> s]
    BY <1>3, <1>4 DEF Wait
  <2> QED BY <1>1, <2>1
<1>5. CASE ~(cyc.at < s.due \/ cyc.inflight) /\ s.due + P > cyc.at
  <2>1. Decision.at = s.due /\ Decision.fire
    BY <1>3, <1>5 DEF Stepped, Plan
  <2> QED BY <1>2, <2>1 DEF P
<1>6. CASE ~(cyc.at < s.due \/ cyc.inflight) /\ ~(s.due + P > cyc.at)
  <2>1. Decision.at = cyc.at /\ Decision.fire
    BY <1>3, <1>6 DEF Stepped, Plan
  <2>2. last.at + 2 * P <= cyc.at
    BY <1>1, <1>2, <1>6
  <2> QED BY <2>1, <2>2 DEF P
<1> QED BY <1>4, <1>5, <1>6

\* After a round the slot is due a period later.
LEMMA FiredSlot ==
  ASSUME TypeInv, cyc.pc = "plan", Decision.fire
  PROVE Decision.slot = [due |-> Decision.at + cyc.config.period,
                         period |-> cyc.config.period]
<1> DEFINE s == cyc.saw
           P == cyc.config.period
           now == cyc.at
<1>1. s \in Slots /\ now \in Nat /\ P \in Periods
  BY PlanFacts
<1>2. ~cyc.inflight
  BY SerialWaits
<1>3. CASE s = Unseen \/ s.period # P
  <2>1. Decision = [fire |-> TRUE, at |-> now, slot |-> [due |-> now + P, period |-> P]]
    BY <1>2, <1>3 DEF Decision, PlanRound, Restarted, Plan
  <2> QED BY <2>1
<1>4. CASE ~(s = Unseen \/ s.period # P)
  <2>1. Decision = IF now < s.due THEN Wait(s) ELSE Stepped(s, now, P)
    BY <1>2, <1>4 DEF Decision, PlanRound
  <2>2. Decision = Stepped(s, now, P)
    BY <2>1 DEF Wait
  <2> QED BY <1>4, <2>2 DEF Stepped, Plan
<1> QED BY <1>3, <1>4

LEMMA GridStep == TypeInv /\ GridInv /\ [Next]_vars => GridInv'
<1> SUFFICES ASSUME TypeInv, GridInv, [Next]_vars, ~reset' PROVE
      /\ slot' = [due |-> last'.at + last'.period, period |-> last'.period]
      /\ last'.period \in Periods /\ config'.period = last'.period
      /\ cyc'.pc \in {"list", "plan"} => cyc'.config = config'
      /\ cyc'.pc = "plan" => cyc'.saw = slot'
  BY DEF GridInv
<1>1. CASE Tick \/ CreateRound \/ FinishRound \/ UNCHANGED vars
  <2>1. UNCHANGED <<slot, last, config, reset>>
    BY <1>1 DEF Tick, CreateRound, FinishRound, vars, world
  <2>2. cyc' = cyc \/ cyc'.pc = "idle"
    BY <1>1, IdleTypes DEF Tick, CreateRound, FinishRound, vars
  <2> QED BY <2>1, <2>2 DEF GridInv
<1>2. CASE CycleBegin
  <2>1. UNCHANGED <<slot, last, config, reset>>
    BY <1>2 DEF CycleBegin
  <2>2. /\ cyc'.pc \in {"list", "idle"}
        /\ cyc'.pc = "list" => cyc'.config = config
    BY <1>2 DEF CycleBegin, TypeInv, TypeOK, Cycles
  <2> QED BY <2>1, <2>2 DEF GridInv
<1>3. CASE ReadSlot
  <2>1. UNCHANGED <<slot, last, config, reset>> /\ cyc.pc = "list"
    BY <1>3 DEF ReadSlot, world
  <2>2. cyc'.pc = "plan" /\ cyc'.config = cyc.config /\ cyc'.saw = slot
    BY <1>3 DEF ReadSlot, TypeInv, TypeOK, Cycles
  <2> QED BY <2>1, <2>2 DEF GridInv
<1>4. CASE WriteSlot
  <2>1. cyc.pc = "plan" /\ config' = config /\ cyc'.pc \in {"create", "idle"}
        /\ slot' = Decision.slot
    BY <1>4, WriteFacts, IdleTypes DEF TypeInv, TypeOK, Cycles
  <2>2. CASE Decision.fire
    <3>1. config = cyc.config
      BY <1>4, <2>2, WriteFacts
    <3>2. /\ last'.at = Decision.at /\ last'.period = cyc.config.period
      BY <1>4, <2>2, WriteFacts
    <3>3. Decision.slot = [due |-> Decision.at + cyc.config.period,
                           period |-> cyc.config.period]
      BY <2>1, <2>2, FiredSlot
    <3> QED BY <2>1, <3>1, <3>2, <3>3, PlanFacts
  <2>3. CASE ~Decision.fire
    <3>1. last' = last /\ reset' = reset
      BY <1>4, <2>3, WriteFacts
    <3>2. slot' = slot
      BY <2>1, <2>3, <3>1, GridDecision
    <3> QED BY <2>1, <3>1, <3>2 DEF GridInv
  <2> QED BY <2>2, <2>3
<1>5. CASE Restart \/ Admin
  BY <1>5 DEF Restart, Admin, Edit, Rewrite, Change, Kick
<1> QED
  BY <1>1, <1>2, <1>3, <1>4, <1>5 DEF Next, Cycle

\* Rounds keep to the grid, for every period and however late the cycles are.
THEOREM GridCorrect == Spec => GridIsKept
<1>1. Init => GridInv
  BY DEF Init, GridInv
<1>2. TypeInv /\ GridInv /\ [Next]_vars =>
        [last' # last =>
           \/ last'.at = last.at + last.period
           \/ reset \/ last'.period # last.period
           \/ (last'.at = cyc.at /\ last.at + 2 * last.period <= cyc.at)]_vars
  <2> SUFFICES ASSUME TypeInv, GridInv, [Next]_vars, last' # last, ~reset
               PROVE \/ last'.at = last.at + last.period
                     \/ last'.at = cyc.at /\ last.at + 2 * last.period <= cyc.at
    OBVIOUS
  <2>1. WriteSlot /\ Decision.fire
    BY LastChanges
  <2>2. cyc.pc = "plan" /\ last'.at = Decision.at
    BY <2>1, WriteFacts
  <2> QED BY <2>1, <2>2, GridDecision
<1> QED
  BY <1>1, <1>2, PlanTypeInit, PlanTypeStep, GridStep, PTL DEF Spec, GridIsKept

-----------------------------------------------------------------------------
(* The kick.                                                               *)

\* A slot that makes the cycle of time t plan a round or wait for one.
Ripe(s, t) == s = Unseen \/ s.due <= t

\* A kick outside a cycle leaves the slot ripe until a cycle takes it over.
KickInv ==
  /\ owed = "clean" => Ripe(slot, clock) /\ cyc.pc \notin {"list", "plan"}
  /\ cyc.pc \in {"list", "plan"} => cyc.at <= clock
  /\ cyc.owed = "clean" /\ cyc.pc = "list" => Ripe(slot, cyc.at)
  /\ cyc.owed = "clean" /\ cyc.pc = "plan" => Ripe(cyc.saw, cyc.at)

\* Who finds the slot ripe opens a round, or keeps it ripe for the next cycle.
LEMMA RipeDecision ==
  ASSUME TypeInv, cyc.pc = "plan", Ripe(cyc.saw, cyc.at), ~Decision.fire
  PROVE cyc.inflight /\ Decision.slot.due <= cyc.at
<1> DEFINE s == cyc.saw
           P == cyc.config.period
<1>1. /\ s \in Slots /\ (s = Unseen \/ s.period \in Periods)
      /\ cyc.at \in Nat /\ P \in Periods /\ cyc.inflight \in BOOLEAN
  BY PlanFacts
<1>2. CASE s = Unseen \/ s.period # P
  <2>1. Decision = Restarted(cyc.at, P, cyc.inflight)
    BY <1>2 DEF Decision, PlanRound
  <2>2. Decision.fire = ~cyc.inflight
    BY <2>1 DEF Restarted, Plan
  <2>3. cyc.inflight
    BY <1>1, <2>2
  <2>4. Decision.slot.due = cyc.at
    BY <2>1, <2>3 DEF Restarted, Plan
  <2> QED BY <1>1, <2>3, <2>4
<1>3. CASE ~(s = Unseen \/ s.period # P)
  <2>1. s.due <= cyc.at
    BY <1>3 DEF Ripe
  <2>2. ~(cyc.at < s.due)
    BY <1>1, <2>1 DEF Slots
  <2>3. Decision = IF cyc.inflight THEN Wait(s) ELSE Stepped(s, cyc.at, P)
    BY <1>3, <2>2 DEF Decision, PlanRound
  <2>4. cyc.inflight
    BY <2>3 DEF Stepped, Plan
  <2> QED BY <2>1, <2>3, <2>4 DEF Wait
<1> QED BY <1>2, <1>3

LEMMA KickStep == TypeInv /\ KickInv /\ [Next]_vars => KickInv'
<1> SUFFICES ASSUME TypeInv, KickInv, [Next]_vars PROVE KickInv'
  OBVIOUS
<1>0. /\ clock \in Nat /\ cyc.at \in Nat /\ slot \in Slots /\ cyc.saw \in Slots
      /\ cyc.pc \in {"idle", "list", "plan", "create"} /\ owed \in Debts /\ cyc.owed \in Debts
  BY DEF TypeInv, TypeOK, Cycles
<1>1. CASE Tick
  <2>1. clock <= clock' /\ UNCHANGED <<owed, slot, cyc>>
    BY <1>0, <1>1 DEF Tick
  <2>2. clock' \in Nat
    BY <1>0, <1>1 DEF Tick
  <2> QED BY <1>0, <2>1, <2>2 DEF KickInv, Ripe, Slots
<1>2. CASE FinishRound \/ UNCHANGED vars
  <2>1. UNCHANGED <<clock, owed, slot, cyc>>
    BY <1>2 DEF FinishRound, vars, world
  <2> QED BY <2>1 DEF KickInv, Ripe
<1>3. CASE CycleBegin
  <2>1. UNCHANGED <<clock, slot>> /\ cyc.pc = "idle"
    BY <1>3 DEF CycleBegin
  <2>2. \/ UNCHANGED <<cyc, owed>>
        \/ UNCHANGED cyc /\ owed' = "no"
        \/ cyc'.pc = "list" /\ cyc'.at = clock /\ cyc'.owed = owed /\ owed' = "no"
    BY <1>3 DEF CycleBegin, TypeInv, TypeOK, Cycles
  <2> QED BY <1>0, <2>1, <2>2 DEF KickInv, Ripe
<1>4. CASE ReadSlot
  <2>1. UNCHANGED <<clock, slot, owed>> /\ cyc.pc = "list"
    BY <1>4 DEF ReadSlot, world
  <2>2. /\ cyc'.pc = "plan" /\ cyc'.at = cyc.at /\ cyc'.saw = slot /\ cyc'.owed = cyc.owed
    BY <1>4 DEF ReadSlot, TypeInv, TypeOK, Cycles
  <2> QED BY <2>1, <2>2 DEF KickInv, Ripe
<1>5. CASE WriteSlot
  <2>1. /\ cyc.pc = "plan" /\ clock' = clock /\ slot' = Decision.slot
        /\ cyc'.pc \in {"create", "idle"}
    BY <1>5, WriteFacts, IdleTypes DEF TypeInv, TypeOK, Cycles
  <2>2. owed # "clean"
    BY <2>1 DEF KickInv
  <2>3. CASE owed' = "clean"
    <3>1. ~Decision.fire /\ cyc.owed = "clean"
      BY <1>5, <2>2, <2>3, WriteFacts
    <3>2. Decision.slot.due <= cyc.at /\ cyc.at <= clock
      BY <2>1, <3>1, RipeDecision DEF KickInv
    <3>3. slot'.due \in Nat
      BY <1>5, PlanTypeWrite DEF TypeInv, TypeOK, Slots
    <3>4. Ripe(slot', clock')
      BY <1>0, <2>1, <3>2, <3>3 DEF Ripe
    <3> QED BY <2>1, <3>4 DEF KickInv
  <2>4. CASE owed' # "clean"
    BY <2>1, <2>4 DEF KickInv
  <2> QED BY <2>3, <2>4
<1>6. CASE CreateRound
  <2>1. UNCHANGED <<clock, slot, owed>> /\ cyc'.pc = "idle"
    BY <1>6, IdleTypes DEF CreateRound
  <2> QED BY <2>1 DEF KickInv, Ripe
<1>7. CASE Restart
  <2>1. owed' = "no" /\ cyc'.pc = "idle"
    BY <1>7, IdleTypes DEF Restart
  <2> QED BY <2>1 DEF KickInv
<1>8. CASE Admin
  <2>1. CASE Kick
    <3>1. slot' = Unseen /\ UNCHANGED <<clock, cyc>>
      BY <2>1 DEF Kick
    <3>2. owed' = "clean" => cyc.pc \notin {"list", "plan"}
      BY <2>1 DEF Kick
    <3> QED BY <3>1, <3>2 DEF KickInv, Ripe
  <2>2. CASE ~Kick
    <3>1. UNCHANGED <<clock, slot, cyc>> /\ owed' \in {owed, "no"}
      BY <1>8, <2>2 DEF Admin, Edit, Rewrite, Change
    <3> QED BY <3>1 DEF KickInv, Ripe
  <2> QED BY <2>1, <2>2
<1> QED
  BY <1>1, <1>2, <1>3, <1>4, <1>5, <1>6, <1>7, <1>8 DEF Next, Cycle

\* A kick that does not fall into the middle of a cycle is served by the next
\* one, for every period and whatever else happens in between.
THEOREM KickCorrect == Spec => KickIsServed
<1>1. Init => KickInv
  BY IdleTypes DEF Init, KickInv
<1>2. TypeInv /\ KickInv /\ [Next]_vars => [Planning /\ cyc.owed = "clean" => Served]_vars
  <2> SUFFICES ASSUME TypeInv, KickInv, [Next]_vars, Planning, cyc.owed = "clean",
                      last' = last
               PROVE cyc.inflight /\ slot'.due <= cyc.at
    BY DEF Served
  <2>1. cyc.pc = "plan" /\ cyc'.pc # "plan" /\ faults' = faults
    BY DEF Planning
  <2>2. faults \in Nat
    BY DEF TypeInv, TypeOK
  <2>3. WriteSlot
    BY <2>1, <2>2 DEF Next, Cycle, Tick, CycleBegin, ReadSlot, CreateRound, FinishRound,
         Restart, Fault, Admin, Edit, Rewrite, Change, Kick, vars
  <2>4. ~Decision.fire
    <3>1. last \in Plans
      BY DEF TypeInv, TypeOK
    <3>2. last.turn # 1 - last.turn
      BY <3>1 DEF Plans
    <3>3. Decision.fire => last'.turn = 1 - last.turn
      BY <2>3, WriteFacts
    <3> QED BY <3>2, <3>3
  <2>5. Ripe(cyc.saw, cyc.at)
    BY <2>1 DEF KickInv
  <2> QED BY <2>1, <2>3, <2>4, <2>5, RipeDecision, WriteFacts
<1> QED
  BY <1>1, <1>2, PlanTypeInit, PlanTypeStep, KickStep, PTL DEF Spec, KickIsServed
=============================================================================
