# UptimeMesh in TLA+

Specifications of UptimeMesh, a distributed uptime monitor: one **dashboard**
(Go, SQLite) plans probe rounds, hands tasks to **nodes** ("agents") over
WebSocket, aggregates what they report and raises alerts. The modules here model
the dashboard's core as the code runs it, goroutine by goroutine, and the services
around it: push monitors, notifications, enrollment, administration, import and
export, the probes of a node, the strip in the browser. TLC checks them on small instances and TLAPS proves the theorems listed below for all values of
the constants. Paths are relative to `src/dashboard/internal` unless they say
otherwise.

Contents: [inventory](#1-inventory), [modules](#2-modules),
[runs](#3-runs-bounds-and-what-they-show), [fairness](#4-fairness),
[proofs](#5-proofs), [disagreements](#6-where-code-and-comments-disagree) and observations,
[abstractions](#7-abstractions-and-what-is-not-modelled), [plan](#8-plan).

## 1. Inventory

| Component | State it keeps | Operations | Status |
|---|---|---|---|
| Round engine: `scheduler/scheduler.go`, `scheduler/round.go`, `store/rounds.go`, `store/stats.go` | `Scheduler.rounds` (in-flight rounds with results, dispatched, closed), tables `rounds`, `results`, `hourly_stats` | `createRound`, `sendTask`, `AgentOnline`, `handleResult`, `finalize`, `CloseOrphanOpenRounds` | modelled but for serial (download) dispatch |
| Schedule grid: `planRound`, `Kick` | `Scheduler.monitors` (slot per monitor), the rows of `monitors` | `cycle`, `Kick`, `KickAll`, `updateMonitor`, resume, pause, import | modelled |
| Push monitors: `scheduler/push.go`, `api/push.go` | `monitors.last_push_at`, the slot as watchdog, `Scheduler.rounds` | `receivePush`, `ReportPush`, `cyclePush`, `pushRound` | modelled |
| Alert: `alert/alert.go`, `applyAlert`, `store/monitor_states.go`, `store/state_changes.go` | `monitor_states`, `monitor_state_changes` | `Apply`, `applyAlert`, pause, batch pause, resume, delete | modelled |
| Node hub: `hub/hub.go`, `hub/session.go`, `api/agents.go`, `store/agents.go` | `Hub.conns`, per connection `done`, `LastSeen`, `send`; table `agents` with status and credential | `register`, `unregister`, `ForceDisconnect`, `ServeWS`, `authenticate`, `deliverPendingCredential`, offline scan, approve, reject, revoke, delete | partly: no names, regions, upgrades, ping/pong |
| Offline notifications: `agentnotify/agentnotify.go` | `Service.pending` with one timer per entry | `onConnected`, `onDisconnected`, `confirmOffline`, `clear` | modelled |
| Notifier: `notifier/`, `notifytmpl/` | `notification_logs`, one goroutine per channel and event | `EmitMonitorEvent`, `EmitAgentEvent`, `EmitTest`, `dispatch`, `postWithRetry`, `recordDelivery` | modelled but for the templates |
| Browser hub and page: `webhub/`, `api/browser_push.go`, `api/monitor_strips.go`, `src/web` | `Hub.conns`, bounded queue per browser; the page's strips | `Broadcast`, `SendWait`, `pushMonitorStrips`, `applyStrips`, `applyRound` | one monitor's strip modelled |
| Administration: `api/monitors.go`, `api/channels.go`, `store/monitors.go`, `store/channels.go` | tables `monitors`, `channels` and the rows that belong to them | create, edit, pause, resume, delete, single and batch; channels with their switches, attach to all | modelled |
| Import and export: `api/import_config.go`, `api/export_config.go`, `configfile/` | none of their own | plan, channels, monitors, settings | modelled |
| Uptime Kuma import: `kuma/`, `api/import_kuma.go` | a connection and its login | `FetchFullViaPassword`, `MapFullAll`, `kumaImport` | modelled but for the API-key way |
| Compaction: `store/compact.go` | `compactMu`, `compactStatus`, the progress goroutine | `StartCompact`, `runCompact` | modelled |
| Node client: `src/shared/agentclient` | connection, generation token, credential, back-off | `Run`, `session`, `readPump`, `handleTask`, `handleUpgrade` | its effects on rounds and on enrollment |
| Probes: `src/shared/probe`, `src/shared/checkconfig` | cache of transports, idle connections | HTTP, download, TCP and ping probes, verdicts | modelled but for bytes and timings |
| Retention, queries, users, settings pages, protocol, scripts | tables | request handlers over single rows, pruning by age | not modelled |

**How they interact.** `cmd/main.go` wires the callbacks. A node's session
goroutine (`ServeWS`) registers the connection, calls `OnAgentChange` (browser
broadcast, then `agentnotify`) and `OnAgentConnected`
(`Scheduler.AgentOnline`), then becomes the read loop, which calls
`OnProbeResult` (`Scheduler.handleResult`) for each result and may thereby run
`finalize` itself. The scheduler goroutine ticks once a second. All of them share
`Scheduler.rounds` under `Scheduler.mu`, each round's own mutex, and the database,
which serialises single statements only. `finalize` ends in `applyAlert`, which
shares `monitor_states` with the administrative API, and in the notifier.

**What is hard here.**

* *Two finalizers.* The tick that sees a deadline pass and the read loop that took
  the last result can decide the same round.
* *Seconds between look and act.* `finalize` pings silent nodes for up to two
  seconds while results and re-dispatches come in.
* *Three writes.* A round's outcome, its hourly booking and its alert step are
  separate writes; each can fail, and the process can die in between.
* *Recovery.* Start-up recounts OPEN rounds from stored rows and must agree with
  what the memory would have said.
* *Lost updates.* `applyAlert` and the API's pause read a row and write it back
  whole, on goroutines that nothing keeps apart.
* *A decision between two critical sections.* `cycle` reads a slot, decides, and
  writes it back; a kick can come in between.
* *Callbacks after the unlock.* Hub changes are reported outside the lock, on each
  connection's own goroutine, AGENT_DOWN and AGENT_UP are sent after theirs, and a timer that has
  fired cannot be stopped.
* *Delivery.* Sessions drop, queues are full, pings go unanswered, tasks arrive twice;
  a credential may be lost between the approval and the node's file.
* *Watchdog against report.* A push monitor's report and the silence of the same period
  are two rounds, on two goroutines, and a third may finalize either.
* *Requests that are many statements.* Administration and imports write row by row; a
  statement fails, another request or a round comes in between.
* *Two sources of one picture.* The page merges snapshots, which replay the alert machine
  over a window, with pushes, which carry the colour of the time.
* *Sharing.* Probes of different monitors share transports and connections.

**What makes each component correct.**

* Round engine: one outcome per round, never changed; every accepted sample counted
  once; nobody blamed for a task he was never handed; counters that are the sum of
  the outcomes; every round decided in the end.
* Schedule grid: rounds keep to a grid that late ticks do not shift, missed rounds are
  not made up for, download measurements of a monitor do not overlap, a kick is
  served by the next tick.
* Alert: down after *n* consecutive bad rounds and not otherwise; each flip recorded
  and told once; a pause keeps the alarm.
* Hub: one usable connection per node, the registry names it, half-open ones go away.
* Offline notifications: an outage that lasts is announced; a recovery is announced
  only for an outage that was, or is about to be, announced, once; no entry is stuck.
* Push monitors: DOWN costs period times *n* of silence unless an update was lost, and such a silence is told.
* Notifier: every delivery leaves a true record, or a reason why it has none.
* Enrollment: one approval is enough, however often links and processes fail.
* Administration: a request that nobody disturbs is applied whole or not at all, to the
  rows it is about. Imports: what the preview says, once per target, tokens kept.
* Uptime Kuma: what the read says of login and account is so.
* Probes: a request goes out on a connection made as its own monitor asks; connections
  do not pile up; a verdict names a rule that is broken.
* Strip: rounds without a gap, in the colours they were given if one configuration judged them all.
* Compaction: a compaction whose statements work succeeds.

`PROJECT.json` lists the hazards line by line, those not covered yet with the reason.

## 2. Modules

| Module | Models |
|---|---|
| `RoundAggregate` | The pure part of a round: samples, `EffOK` (inversion), `aggregate`, and the recount of `recoverOrphanRound`, as operators over any set of nodes |
| `ProbeRound` | The goroutines around the rounds: scheduler, read loops, `AgentOnline`, with failing writes, crashes, drops. One action per lock-to-lock or statement step |
| `RoundLedger` | Abstract specification: a round is opened, gets one outcome, is booked at most once with it, drives the alert at most once |
| `ProbeRoundProofs` | Theorems about `ProbeRound`: its types, the ledger, the fairness of outcomes, the refinement of `RoundLedger`; and about what it stores: open rounds, rows, outcomes, hourly counters |
| `FiniteSums` | Lemmas about sums over finite sets, for the hourly counters and the pools of connections |
| `AlertMachine` | `alert.Apply` and, as reference, what its package comment promises of a history (`Follows`) |
| `AlertFlow` | `applyAlert` in its steps (read, write, record, tell) on several finalizers, with edits, pauses, deletion, failures, crash |
| `AlertFlowProofs` | Theorems about `AlertFlow` |
| `AgentHub` | The connections of one node: registry, session stages, offline scan, revocation |
| `AgentNotify` | `EXTENDS AgentHub`; the table of outages, the callbacks and the timers |
| `AgentNotifyProofs` | Theorems about both |
| `SchedulePlan` | One monitor's slot: `planRound` as an operator, the cycle in its steps (list, read the slot, write it, create), kicks, changes of the row, the ticker, restarts |
| `SchedulePlanProofs` | Theorems about `SchedulePlan` |
| `PushMonitor` | One push monitor: reports, the watchdog, their rounds, the cycle that finalizes what is in flight, pause, kick, crash |
| `Notifier` | Alerts, the goroutine of each channel with its attempts, records, changes of channels meanwhile, the end of a request's context |
| `Enrollment` | One node from its first hello to its credential: `ServeWS` in steps, the nodes page, the agent's file, lost links, restarts |
| `MonitorAdmin` | The requests of the monitors and channels pages as sequences of statements |
| `ConfigTransfer` | Export, plan and import of configurations, and the rows an Uptime Kuma import makes |
| `KumaFetch` | Reading an Uptime Kuma: two ways to log in, events, timers, losses; the groups of its list |
| `Probes` | Concurrent probes over the cache of transports, with redirects, address choice and the rules of an answer |
| `BrowserFeed` | One monitor's strip from the scheduler to the page |
| `BrowserFeedProofs` | Theorems about `BrowserFeed` |
| `Compaction` | The compaction goroutine and the one that estimates its progress |
| `MCServices` | The eight services before `Compaction`, each with its instance; one of them moves in a behaviour. Sets and bounds that are plain values are `CONSTANTS`, given in `Services_all.cfg`; data with structure is defined in the module, for the checks and hosts of `Probes`, the forms and the first rows of `MonitorAdmin`, the rows, files and lists of `ConfigTransfer` as the value (`<-`) that the configuration gives their `CONSTANT`s |
| `AdministrationProofs` | Theorems about `MCServices`: enrollment, administration, imports |
| `ServicesProofs` | `EXTENDS AdministrationProofs`; theorems about the other services of `MCServices`, and the types of all of them |
| other `MC*` | Symmetry sets for TLC |

**Correspondence, `ProbeRound`.** `flights`, `results`, `dispatched`, `closed`,
`agg` are the fields of `Scheduler.rounds` and `InFlightRound`; `db`, `rows`,
`hourly` the tables. A thread's program counter is at one of: `finalize` about to
pinging and then closing the round in memory (`ping`), before `CloseRound`
(`persist`), `AddHourlyStat` (`hourly`) or `applyAlert` (`alert`); the read loop about to insert
its row; the scheduler sending tasks (`send`, `mark`) or recovering (`recover`, `rebook`). `online` is the separate
goroutine position of `AgentOnline`. `sending` is the gap between `SendToAgent` and
`MarkDispatched`. A crash clears everything but the tables. The variables
`booked` and `alerted` are history.

**Correspondence, `AlertFlow`.** `state`/`found` are the `monitor_states` row,
`changes` the change table, `told` the notifications in order; `seen` is the row
a finalizer has read, `api` the pause handler's own copy. `snap` is
`RoundSpec.Consecutive`, taken when the round was created. `history` records every write to
the row and `torn` remembers that a write overwrote a state its writer had not read.

**Correspondence, `AgentHub`/`AgentNotify`.** `stage[c]` is where the goroutine of
connection `c` is (`dialed` = authenticated, `notifyUp` and `notifyDown` = in the
callback, `arm` = between `onDisconnected`'s database read and its lock). `pending`
is the entry, named by the connection whose end made it, because each such end
makes at most one timer (`timer[c]`), which reads the row (`Fire`), asks the hub
(`Ask`), and then takes the lock to `Clear` or `Confirm`; after `Confirm` has unlocked, `Emit` sends
AGENT_DOWN. Likewise `OnConnected` decides under the lock and `Recover` reads the row and sends AGENT_UP
after it. Nothing holds a lock across these steps, so that AGENT_UP can leave before its AGENT_DOWN.

**Correspondence, `SchedulePlan`.** `slot` is `Scheduler.monitors[m]`, `config` the row
with a revision that counts the changes, `cyc` what the cycle in progress has read (`at` is its `now`),
`ticked` the ticker's channel, which holds one tick; `open` counts the entries of
`Scheduler.rounds` and `busy` those with `SerialDispatch`. An API handler writes the
row (`Edit`) and kicks in a later step (`Kick`); pause and import (`Rewrite`) do not
kick. `last`, `reset` and `owed` are history: the last planned round, whether
something has interfered with the grid since, and a kick that waits for its round.

**Correspondence, `PushMonitor`.** A thread is the scheduler (`Watchdog`) or a request; `pc` is
where it is in `ReportPush`, `cyclePush` and `pushRound`. `flight[t]` is the round
that thread made: its row (`stored`), its entry in `Scheduler.rounds` (`listed`), its
sample, its outcome (`agg`). `on` and `todo` are the flights of the running cycle.
`applyAlert` is `ReadState` (what it read is the flight's `saw`) and `WriteState`, a pause is `Pause`, `PauseRead` and
`PauseWrite` (`pausing`), and each of these can fail. Times are ages: `quiet` of `last_push_at`, `slot` of the entry in
`Scheduler.monitors`, both capped where nothing tells them apart. `calm` and `excuses` are history; one excuse is
a write over a state that its writer had not read.

**Correspondence, `Notifier`.** `delivery[a][c]` is the goroutine of `dispatch` for alert `a` and channel `c`
and the row it writes; `received` counts what the receiver got, known to the
sender or not. `alert[a].ended` is the end of the context that raised it.

**Correspondence, `Enrollment`.** `agent` is the row (a new `id` when it is made anew), `node` the agent's
process and file, `session[s]` the goroutine of `ServeWS` with the frames that the
agent has not read, `entry` is `Hub.conns`, `request` the handlers of the nodes page between
their look at the row, their write and their turn to the connection. Credentials are numbers in
the order they are issued; `plain` is `cred_plain`. `cut` remembers that the node lost a
credential within the write of its file.

**Correspondence, `MonitorAdmin`.** `submission[r]` is a handler: what it asks for, the statement it is
at, what it has read; `before` is history: the tables when it began, emptied as soon as
somebody else writes, so that the property speaks of undisturbed requests. Attaching a channel to all monitors
lists the routes, writes them in a transaction and looks at the rows again (`ListRoutes`, `RewriteRoutes`, `RereadMonitors`).
`broken` says that the one failing statement has been.

**Correspondence, `ConfigTransfer`.** `upload[u]` is an import with its file, its plan (made by operators from
the tables at its start), the names it has resolved and the outcomes so far; `minted` numbers
new push tokens. `Key` is the key of duplicates. `counting` are the rows whose alert state may count bad rounds: a rewritten
row that is paused leaves it (`ResetMonitorsConsecutive`), unless that statement fails, whose error the code drops.

**Correspondence, `KumaFetch`.** `client` is where the call is: `outer` and `inner` are the attempts of the
two retry loops, `fallback` and `session` the way it is on. `socket` holds what the
server has yet to send (`coming`, in any order that the server allows) and what the
channels `listCh` and `errCh` hold. `server` is external; one that `limits` logins answers 400 or 429 to any login and
something other than 200 to any code, which the code reports as a wrong password and a wrong code.

**Correspondence, `Probes`.** `cached` is `transportCache`, `idle` the bag of idle connections (external:
`net/http`), `run[p]` a probe with its hop, its connection and its answer.

**Correspondence, `BrowserFeed`.** `rounds` with the colour pushed, `state` the alert row,
each with the configuration it was judged by; `config.row` is the monitor's row (consecutive and threshold), `config.held` the one the scheduler
works with; `closing` the steps of `finalize`, of which the alert step can fail; `reads` are the readers of a strip, which take the row, the state and the
rounds in three queries that can fail one by one; `link` is the connection with its queue; `page.cells` the strip.
`torn`, `split` and `sure` are history: what the page cannot know until it connects again, a round whose alert step and push saw
different configurations, and cells whose colour is bound to be right.

**Correspondence, `Compaction`.** `stage` is the statement `runCompact` is at, `meter` the progress goroutine,
`age` that of the context, in parts of `compactMaxDuration`.

## 3. Runs, bounds and what they show

| Run | Instance | Shows |
|---|---|---|
| `ProbeRound_crash` | 1 round (inverted), 2 nodes, 1 failing write, 1 crash | Stored outcomes, rows, counters and alerts agree whoever finalizes; `ProbeRound` implements `RoundLedger` |
| `ProbeRound_drop` | 1 round, 2 nodes, 1 drop | Samples are neither lost nor double-counted, nobody is blamed for an undelivered task, early finalize only of complete rounds |
| `ProbeRound_live` | 2 rounds, 1 node, 1 crash | Every OPEN round is decided |
| `ProbeRound_recount` | violation | see section 6 |
| `AlertFlow_flips` | 2 finalizers, 3 rounds, *n* in {1, 2}, 1 fault, 1 crash, 1 pause | The stored alert follows the history; flips are recorded and told once |
| `AlertFlow_pause` | violation | see section 6 |
| `AgentNotify_outage` | 2 connections, 2 administrative changes, 1 failing read | Registry and table agree; a lasting outage is announced; silent connections leave |
| `AgentNotify_enough` | violation | see section 6 |
| `SchedulePlan_grid` | periods 2 and 3, 5 ticks, 2 changes, 1 fault | Rounds keep to the grid, do not pile up, do not overlap when they measure speed; kicks are served; what is due is run |
| `SchedulePlan_kick` | violation | see section 6 |
| `Services_all` | 8 services, each by itself, bounds below | What section 1 asks of push monitors, notifier, enrollment, administration, imports, Uptime Kuma, probes and strip |
| `Compaction_limit` | 1 compaction, no fault; violation | see section 6 |

*Why these bounds are enough to be interesting.* Two nodes are the least for "one
reported, one silent", for a read loop finalizing while the other's session
re-dispatches, and for two finalizers of one round. One round suffices for
everything that concerns a round alone; the runs with two rounds are those where
rounds compete (the scheduler goroutine). Three alert rounds with *n* = 2 reach
a flip, a recovery and an overlap of two finalizers. Two connections give a
replacement and a second outage while the timer of the first one runs; three
were run once for the safety properties (9 million states) and showed nothing
else. Five ticks with period 2 reach a cycle that is one, and one that is two
periods late, and a round that stays open past the next due time; at the horizon
the clock stands still while the ticker goes on, so that liveness is about
what was due by then.

`Services_all` has eight instances in one run, because the services do not share state: `Init` picks the
one that moves. *Push*: a period of one tick, *n* = 2, one request beside the watchdog, one
failing statement, crash or administrative change, clock without end: the least for a count that is written over a report's
UP, and for an alarm after two silent rounds (`SilenceCorrect` covers every period, *n* and number of requests). *Notifier*: one alert,
two channels, three attempts, one change of a channel, one fault. *Enrollment*: two connections, one
request, two rows, two credentials, one mishap: the least for a connection that replaces
another, an approval that is overtaken and a second credential. *Administration*: two monitors, two
channels, two requests, six forms, one failing statement. *Transfer*: two imports of an own export, a file from
elsewhere, a hand-written file with doubles and broken entries, or an Uptime Kuma's list. *Kuma*: three items
in any arrangement of groups, one loss. *Probes*: two probes at once, one cached transport, one
idle connection per host, one redirect, seven configurations. *Feed*: strips of two cells, a queue of one frame, three rounds with
values 1 and 2, configurations (2, 2) and (1, 1) of number and threshold, one reconnection, edit, fallback or failing
query. Rounds without a valid sample (value 0) are left to `FeedCorrect`.

The bounds of the other runs are the constants `Horizon`, `MaxFaults` (failing database operations),
`MaxCrashes`, `MaxDrops` (drops, refused frames, unanswered pings), `MaxPauses`
and `MaxEdits` (administrative changes); each occurs in the guard of the actions
it bounds and nowhere else, and the proofs hold for every value of them.

Deadlock checking is off (but in `SchedulePlan`, whose ticker never stops) because the bounded instances end: all rounds are decided,
all connections used up.

Each property of a passing run has a mutant (a definition named in `PROJECT.json` with the kind of
slip a programmer would make, next to the original in the module) under which TLC
finds it violated.

## 4. Fairness

* `ProbeRound`: weak fairness of the scheduler's own steps, of the steps of the
  sessions and of the recovery, of time passing and of the restart. The goroutines
  block only on calls with time-outs (pings, the database), and the process
  supervisor restarts the dashboard. *Strong* fairness of `FinalizeDue(r)`: the
  tick collects all rounds and visits each one that is due, so a round cannot be
  passed over for ever by others, although finalizing one disables the start of another.
* `AgentNotify`: weak fairness of each session goroutine between register and
  unregister, of the end of a read on a closed connection, of the 5-second scan, of
  a pending `ForceDisconnect`, of the callbacks and of the timers. Nothing is
  assumed of the nodes: none needs to connect, report or send a heartbeat.
* `EveryRoundIsDecided` is checked without failing writes: a round whose
  `CloseRound` fails stays OPEN until the next start, which is what the code accepts.
* `SchedulePlan`: weak fairness of the ticker, of the scheduler's steps, of the end of rounds
  (each has a deadline) and of a handler's kick. Nobody has to change anything.
* `PushMonitor` (and with it `Services_all`): weak fairness of the scheduler's cycle and of the requests
  under way, which only wait for the database; strong fairness of the clock (`Second`), which the model
  holds up only for the moment between the list and the plan of a cycle. No report has to come,
  and no upset has to happen.
* `AlertFlow` and the other services have no liveness property and no fairness: nothing in the code
  promises that a webhook, a node, an Uptime Kuma or a browser answers.

## 5. Proofs

All theorems are proved for any finite set of nodes, rounds, finalizers or
connections and any value of the bounds; the named `ASSUME`s only state that the
special model values are not members of these sets, that the bounds are naturals, that
finalizers and an Uptime Kuma's monitors are finitely many, and that the configured *n* and a push monitor's period are positive;
the assumptions on the data of probes, forms and imports are described below.

**`ProbeRoundProofs`.** `TypeCorrect`: `TypeOK` is not inductive because a thread's
label does not say which of its locals are meaningful; `Shape` adds that (a thread
that finalizes has a round, the scheduler's labels are the scheduler's, ...).
`TypeInv == TypeOK /\ Shape` is inductive; one lemma per group of variables.

The chain for `LedgerImplemented` and `AlertCorrect`: a
thread between `CloseRound` and the end of `finalize` is the one that *won* the
conditional update; `Quiet` (what a stopped process has forgotten), `Undecided` (which
rounds can still be open) and `Winner` (at most one thread past `CloseRound` per
round, and what it still has to do is exactly what is not booked or not told yet)
form `LedgerInv`. Every step of `ProbeRound` is then a step of `RoundLedger` or a
stutter: the lemmas `LedgerDecides`, `LedgerBooks`, `LedgerNotifies`, `LedgerOpens`
cover the steps that are not stutters. `SamplesCorrect` rests on `AggregateSplits`, a lemma
about `aggregate` by cardinalities. `BlameCorrect` needs to know, during the pings,
that the nodes still to be pinged and those already accounted for cover all pending ones, and
that "handed" only grows.

*What is stored* (the second half of `ProbeRoundProofs`). What the tables say of the rounds, for any nodes, rounds and bounds. `OpenCorrect`,
`BookedCorrect` and `EarlyCorrect` follow from `LedgerInv` with one fact each: start-up lists every
round that was open (`OrphansListed`), a process that never died is not recovering
(`NeverDown`), and a thread pings only after the deadline or when nobody is missing (`PingsInTime`).
`StoredCorrect` needs `RecordsInv`: a row can only exist of a node whose sample is in memory
(`RowsReported`), or about to be taken out of the reader's hand (`HandIsReported`), or the memory is gone and the recount
reads the table. `RowsCorrect` adds that the first sample of a node is the one that counts, in memory and among the rows
(`FirstKept`, `RowPerNode`), so that good rows and good nodes are in bijection. `HourlyCorrect` is about
sums over finite sets, which `MapThenSumSet` defines by recursion: what it does when one element is added or
one summand changes is proved in `FiniteSums`, by least counterexample over the subsets of a finite set.

**`AlertFlowProofs`.** `FollowsCorrect`: the reference `Follows` speaks of runs of
bad rounds anywhere in the history; the lemmas `RunIsUnique`, `RunIsLocal`, `RunGrows` show how
appending one entry changes them, and `FollowsOn` that `Apply` does the same to the
state. `PhantomCorrect` holds with lost updates too: the invariant is that *every
copy* of the row (stored, read by a finalizer, read by the pause) is backed by bad
rounds of the history (`AllBacked`).

The balance of alarms and recoveries (`FlipsCorrect`, `ChangesCorrect`) is an equation
between counts over the list and over the finalizers. Three kinds of steps matter: a write that flips the row
adds a finalizer with that flip in hand, a record or a notification moves it from the hand to the list, everything else
leaves both sides alone; the lemmas about `InHands` say what one changed finalizer does to the
cardinalities. The count over finalizers needs `FinalizersAssumption`: they are finitely many. `Known` adds that a round that
waits or is worked on has its own *n*, so that a later creation does not change the flip a finalizer holds.

**`AgentNotifyProofs`.** `EntryCorrect` is inductive given the types.
`TimerCorrect` and `UpsCorrect` follow from `Outages`, which adds that an announced
outage has an entry and that a connection's timer is untouched until its session
has ended. `UpsAnswerDowns` counts: alarms sent or on their way on one side, recoveries sent or on their way
and the outage that waits on the other; each step adds to the second side only what it takes from it or adds to the first. `OutageCorrect` needs `Watched`: while things are orderly and the node is in no registry, there is an
entry, or some connection's callback that will make one is still to come, or the node has never been
registered.

**`SchedulePlanProofs`.** `GridCorrect` rests on `GridInv`: while nothing has reset
the grid, the slot is one period after the last round, and a cycle in progress has
seen that slot and the current row; `GridDecision` and `FiredSlot` are what
`planRound` does then. `KickCorrect`: a kick outside a cycle leaves the slot
*ripe* (absent or due) until the cycle that takes the kick over reads it, and
`RipeDecision` says that a ripe slot gives a round or stays due. `SerialCorrect`
needs that between the look at the open rounds and the new entry nobody else opens one.

**`AdministrationProofs`.** *Enrollment*, for any sets of connections and requests and any bounds. The types
are inductive as whole records, with credentials in `0..issued` instead of the bound: no
credential turns up before it was issued (`Types`, `WiderTypes` for the one step that issues).
`ApprovalIsEnough` needs three more facts (`EnrollInv`): an approved row has a credential (`ApprovedHasCred`); a
node that never held one has only connections that know of none (`NobodyProved`), so that none of them can
clear what the row owes (`ProofBeforeClearing`); and therefore it is still owed the row's (`StillOwed`).
`NodeStep`, `ConnectionsStep` and `RowOwes` say what a step does to each of the three sides.

`RequestsCorrect` is about any forms, any monitors and channels and any number of overlapping requests. `AdminInv` says how far
a request is that nobody has disturbed: the rows are as it found them, or with its monitors switched off and the counts still
to be cleared, or with its channel looked at or gone and the routes still to be rewritten (`AskSound`). A disturbed request
promises nothing, so that every step of another one is `DisturbedSound`; one lemma per statement does the rest. Two facts
carry the two-statement requests: the row that a pause writes back had a count, so that writing "zero" is
what was promised, and the routes that were read outside the transaction are those of just the monitors that need it (`ToDo`).
Both fail for a disturbed request, and so does the promise (section 6 has one such lost update). `AdminAssumption` gives the
types of a form's fields, of the rows and of the channels, and says that a free row names no channels.

`ImportsCorrect` is about any stored rows and channels, any files and lists, and any number of imports at once. `TransferInv`
says of every import, whatever the others do, how far it is and that what it refers to exists (`ImportTyped`: rows are
only appended or rewritten in place, so that a plan goes stale in what it says is *not* there, never in what it
says is there), and of one that nothing has disturbed what it has done so far (`ImportRight`). The plan is fixed by what was there
before it (`EntryPlanned`, `ChannelPlanned`: which entry is the first of its key, which token is still free). On top of
it: old rows are as they were or rewritten by an entry of their key (`OldKept`); what is new of the channels
has the names of the entries tried so far, each once (`ChannelsRight`); every new row was made of a handled entry that was
planned to create it, with the channels that entry names (`RowsMade`), and as long as every write has worked each handled
valid entry has its row. For an Uptime Kuma's list, which is not planned, the keys it *knows* are those of all rows
(`KumaRight`), so that an entry it does not know has none. What the property asks of a
finished import follows by handling all entries. `CountsRight` adds, for imports that nothing disturbs, that no rewritten and paused row still counts. The step of one import disturbs the others if it writes
and leaves them alone if it does not (`OtherImport`), so that only one's own steps need work. `TransferAssumption`: a row has the columns of a row,
routes to channels that exist, only push monitors have tokens, and a token in a file or an old row is none of those that
the dashboard will mint.

**`ServicesProofs`.** `DeliveryCorrect` by `NotifyInv`: each stage of a delivery fixes how its attempts, what was
received and the record relate (`Paced`), and a delivery without a record has one of the reasons that the property
names (`Accounted`). `SilenceCorrect` by `PushInv`, an account in units of silence: every bad round that was counted
(`state.cons`), or is on its way from the watchdog (`Silent`), has been *paid for* by a period without a good report, or by an
excuse (`Paid`); the slot is the part of the next period that has been paid already. `Own` says that the
watchdog's own round comes from a silence and is never good. Between `ReadState` and `WriteState` anything may happen to the row: a good
round's next state is the same whatever was read, a bad one's is the old account plus one if the row is still what was read, and
otherwise the write is an excuse. The first attempt failed for a good reason: with two
requests at once, the older one may store its time over that of the newer one, whose report has been
applied already (`store/monitors.go:263` writes whatever time it is given), and the next silence then counts
from the older time. The model's excuses named only a time that was not stored at all; `Behind` now has both cases.

`KumaCorrect` has two halves. The verdict: `KumaInv` says what every event still to come, every attempt to log in and
every reported error says of the account (`SocketSound`), what each phase of the call says of it and of what
was lost (`ClientSound`), and that without a loss nothing is sent again after a refusal (`AskedOnce`). Its first
attempt failed because three definitions used `CASE` with arms that overlap, where TLA+ leaves open which
one is taken (TLC takes the first): they are `IF ... ELSE IF` chains now, in the order of the code. The labels:
`OnTheWay` is what the climb of `groupLabelOf` keeps from one group to the next (a path without a
repetition, from the item's parent upwards); a climb that was never stuck has met as many different groups as
there are items (hence `KumaAssumption`: they are finitely many), so its bound in the model cuts
nothing short (`LabelIsPath`). The induction along the groups is by least counterexample (`Least`).

`ProbesCorrect` is about any probes, checks and hosts, and any size of the cache and of the pools. `ProbesInv` says that
a goroutine under way holds the transport that its own check asks for, cached or its own (`RunSound`); that every
connection, idle or in use, was dialled as its transport dials (`Dialled`), so that it does not matter who
dialled it; and that an idle one belongs to a cached transport or to a probe under way (`Owned`), which is what
makes `End` close all that would be left behind. That a transport keeps at most `MaxIdle` of them is a sum over the pool
(`Pooled`, `PutIsPooled`, with `FiniteSums`). A verdict is compared with the rules of the check where it is made
(`HttpExplained`) and does not change afterwards. `ProbesAssumption` says that codes and numbers are
integers, a check's TLS switch a Boolean, the bounds naturals, and that `None` is neither a probe, an address nor a transport.

`TypeCorrect` puts the types of the eight parts together. Few are inductive by themselves, so each rests on the part's own
invariant and on the little that this one leaves open: that no internal sign to try the other login leaves a read
of an Uptime Kuma (`KumaRest`), that a goroutine keeps its check and its count of redirects (`ProbesRest`), what was read of
channels and what is answered (`AdminRest`). A part that does not move keeps its types for trivial reasons.

**`BrowserFeedProofs`.** `FeedCorrect` is about strips, queues and histories of any length; `StripCorrect` carries it over to
the composition by `INSTANCE`. The alert machine steps from round to round; the proofs use its *closed form*, which speaks of any
stretch of rounds at once: the state after a round is a threshold on the number of bad
rounds since the last good one (`Tally`), and a machine that starts with the stored count agrees with it. The replay of `stripSeed` over a
window thus gives the colours that were pushed, unless an alarm that began before the window is over (`CutAlarm`), where
the property makes no claim (`Right`, `AllRight`), or the rounds were judged with different numbers or thresholds (`Settled`, `Even`): an edit recolours
what the strip shows of earlier rounds, which is what the code does. That no round is missing is an invariant about what is on its way:
as long as the connection is up and nothing was overtaken (`torn`), the strip that the page has, or has been promised by a
snapshot that is being read or queued, is without a gap from there on (`Joined`), and each later round is in the
strip or in the queue (`Whole`, `Promised`, `Kept`). `Newer` (and `With` in `ConfigTransfer`) say by a function what the library's
`SelectSeq` and `@@` compute, because a proof can use the value of a function.

**Only model-checked.** All liveness (`EveryRoundIsDecided`, `SilentIsCut`, `OutageIsTold`, `DueIsRun`, `SilenceIsTold`:
TLAPS 1.4 does not handle fairness). Every invariant and every safety action property that a passing run checks is also a theorem.
`Compaction` has no theorem: it only has a run that shows a violation.

## 6. Where code and comments disagree

* **Recount counts rows, not nodes** (`ProbeRound_recount`). `recoverOrphanRound`
  increments `valid` for each on-time row; a node that got its task twice makes two
  samples, against the comment at `store/rounds.go:192`. It can get it twice
  because `sendTask` marks a node as dispatched only after the frame has left.
* **A pause can undo an alarm** (`AlertFlow_pause`). A single pause writes back the
  whole row it read, against the comment at `api/monitors.go:713`. The batch
  pause does not have this problem.
* **An entry is not always enough** (`AgentNotify_enough`). A timer that saw the node
  online clears whatever entry the node has by then, against the comment at
  `agentnotify/agentnotify.go:87`. `OutageIsWatched` and `OutageIsTold` hold otherwise,
  with one more exception that the model shows: the callback of a replaced
  connection that comes after its successor's disconnect (`overtaken`).
* **A kick can be swallowed** (`SchedulePlan_kick`). A kick that comes while a cycle is
  under way finds its cleared slot filled again by that cycle, for the row as it was listed
  before; the edited monitor waits a whole period, against the comments at
  `scheduler/scheduler.go:235` and `api/monitors.go:673`. `KickIsServed` holds for the others.

* **A compaction cannot succeed** (`Compaction_limit`). `runCompact` waits for the goroutine that estimates the
  progress, whose only way out is the end of the context: every compaction lasts `compactMaxDuration`, holds
  `compactMu` until then, and its last statements are refused because the context is over. The comment at
  `store/compact.go:43` reserves the limit for extreme cases.

**Observations** without a run of their own; the models have the behaviour where it is in their scope,
and the properties name it as an exception where they would not hold.

* *Downloads share one key.* `rawTargetOf` (`api/import_kuma.go:192`) takes the URL for HTTP only; two downloads of a
  file are duplicates, and overwriting rewrites the oldest local one, against the comment at `api/import_config.go:26`.
* *Node notifications.* Both events are sent after the unlock, so that a node that comes back between the mark and the sending
  (`agentnotify/agentnotify.go:117-122`) may have its AGENT_UP sent first; the comment at lines 147-149 takes the duration to start with an
  AGENT_DOWN that was received. `UpsAnswerDowns` shows that the AGENT_DOWN is then on its way.
* *Enrollment.* A revoked or deleted node that still has its credential is refused for ever, because
  its hello then has no key; an approval between `authenticate` and `register` reaches the node on its next connection
  only; `ClearCredPlain` of an old connection can take back a newer credential; the
  node's credential file is not written atomically (`cut`).
* *Push.* A report's alerts are delivered under the context of its request and cut off unrecorded when it
  ends (`api/push.go:92`, `notifier/notifier.go:419`); the watchdog can write its DOWN over the UP of a good report that came between its read
  and its write of the state (`scheduler/scheduler.go:618-640`); a resumed push monitor gets a silent round at once; a report
  whose round the cycle has closed loses its result row; start-up closes open push rounds as UNKNOWN.
* *Administration.* `DeleteChannelDetach` is two transactions, though its comment says one; routes are read outside the
  transaction that rewrites them; attaching a channel to all monitors answers with an error, everything written, if the look at the rows after the commit
  fails (`store/monitors.go:468`); `updateChannel` reads and writes back, and so races the switches; a form with the id of
  a deleted channel leaves a dangling route; a state row can outlive its monitor.
* *Imports.* Two at once create everything twice; the update path does not kick; references to
  local channels that the file does not list are dropped without the warning; same-named channels or push
  monitors are aligned with the oldest.
* *Uptime Kuma.* A server that limits logins is reported as a wrong password (`kuma/betterauth.go:107`), and any failure of the second factor's
  check as a wrong code (line 127).
* *Probes.* Nine redirects are followed and the tenth is refused (`http.go:160` counts the requests made), the comment at `http.go:153` says ten. A redirect within the virtual host to another port is dialled at the configured port
  (`httpclient.go:97`); the error of reading an HTTP body is ignored (`http.go:186`); an assertion whose path is blank
  always fails.
* *Strip.* A snapshot's cell has no round id, so a round that is in it and is pushed later is shown twice; a frame
  lost to a full queue, an overtaken fallback answer or a row that replaces newer cells stays until the next connection;
  the replay cannot know of an alarm that began before the window and is over (`CutAlarm`), and judges old rounds by the present number and threshold; a failed
  query for the rounds is answered with empty strips, which the page takes for its snapshot (`api/monitor_strips.go:135`).

## 7. Abstractions, and what is not modelled

* `ProbeRound`: latency, speed and error texts are left out, a sample is on time and good or
  bad; deadlines are three phases (`ample`, `tight`, `past`; `tight` is when
  re-dispatch no longer fits the probe budget); a node connects again only when its
  previous `AgentOnline` has ended, and holds one session; the scheduler may create
  a round between two finalizations of one tick, which allows more than the code
  does. Serial (download) dispatch and push rounds are not included. The inside of
  `applyAlert` is `AlertFlow`'s.
* `AlertFlow`: value and threshold are reduced to good, bad or unknown; `DurationSec` and
  the `last_*` columns are left out; one API pause at a time. Reads that only fill a
  message are left out.
* `SchedulePlan`: one monitor, time in whole ticks; one handler that kicks at a time;
  a cycle that finds the monitor paused does nothing more, whatever the other monitors
  need; the dispatch and the end of a round are `ProbeRound`'s, here a round ends at any time.
* `AgentHub`: one node; an API handler's status check and its write are one step;
  one revocation at a time has its `ForceDisconnect` outstanding; a rejected
  node gets a new identity and is not followed; the frame queue, pings and
  credentials are left out. `AgentNotify`: the browser broadcast before the
  callback and the duration in AGENT_UP are left out; "sent" is the call of `EmitAgentEvent`, what becomes of it is `Notifier`'s.
* `PushMonitor`: the clock stands still between the list and the plan of a cycle. `applyAlert`'s look at the monitor and at the state are one step,
  and so are the write of a state and what follows it (record, event: `AlertFlow`). The administrator waits for one answer before his next request.
  An edit keeps the period and the number; edits of the number are `AlertFlow`'s, of the period `SchedulePlan`'s.
* `Notifier`: messages and their templates are left out; a receiver accepts, refuses or loses its answer.
* `Enrollment`: one identity with the right key; hello's other fields, heartbeats and the offline scan are
  left out, and so are the callbacks.
* `MonitorAdmin`: a form's names, targets and numbers are right or wrong together (`sane`); sorting and
  listing are left out; the rows of rounds and results are whether there are any (`data`, `count`). What a request does to other requests' rows is left to the model: the property only
  speaks of undisturbed ones, with the three exceptions that its comment names.
* `ConfigTransfer`: a monitor is its key, token, channels, switch and one text; the file's syntax is left out. Bad rounds that the scheduler counts during an import are left out (`counting` only shrinks).
* `KumaFetch`: transport and encryption are left out; an answer is one of the classes the code tells apart (a definite error that gives way to `connectHint`'s included); the metrics way
  (`kuma/kuma.go` with an API key) and the mapping of a monitor's fields are not modelled.
* `Probes`: no DNS, no timings; a body is the keywords found in it, and one value for the assertion; which text contains which is the constant `Within`.
  Pings that share an ICMP id are left out.
* `BrowserFeed`: one monitor, one page; rounds are scheduled and finalized one after another (two finalizers of one monitor are `AlertFlow`'s); an edit changes the number and the
  threshold of the row, and the scheduler works with the row of its last look. The row that an edit pushes is the one the handler has in memory. Pauses, which recolour
  the replay, are left out.
* `Compaction`: statements take no time that reaches the limit; the statistics cache is left out.
* Not modelled at all: see the inventory and `PROJECT.json`; mostly parsing, I/O,
  formatting and single-row request handlers.

## 8. Plan

In this order:

1. `AgentClient`: generations of connections, back-off, upgrade; composed with
   `Enrollment` for "a node that is approved comes back by itself".
2. Serial dispatch of download rounds: one node measures at a time.
3. Retention against the readers of rounds and results.
4. The refinement of the alert by a specification that only knows rounds and flips.
