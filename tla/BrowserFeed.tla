---------------------------- MODULE BrowserFeed ----------------------------
(***************************************************************************)
(* The status strip of one monitor, from the rounds the scheduler finalizes *)
(* to the cells a browser page shows (webhub, api/browser_push.go,          *)
(* api/monitor_strips.go, api/monitors.go, web MonitorsView.vue).           *)
(* The page asks for one snapshot per connection and then appends what is   *)
(* pushed.  Snapshots replay the alert machine over the last Limit rounds,  *)
(* pushes carry the colour the machine gave at the time.                    *)
(* Rounds are numbered in the order they are scheduled and finalized.       *)
(***************************************************************************)
EXTENDS AlertMachine, SequencesExt

CONSTANTS Configs,      \* what an edit may make of consecutive and threshold
          Values,       \* results of a round, 0 for none that is valid
          Limit,        \* cells of a strip (statusStripRounds)
          QueueCap,     \* frames a connection can hold (32 in the code)
          MaxRounds,    \* bound
          MaxExtras     \* bound: HTTP fallbacks, edits, reconnections and faults in a run

VARIABLES rounds,    \* finalized rounds, with the colour they were pushed with
          config,    \* the monitor's row, and the configuration the scheduler works with
          state,     \* monitor_states
          closing,   \* how far the scheduler is with the last round
          link,      \* the page's connection and its send queue
          reads,     \* the reads under way: snapshot, HTTP fallback, edited row
          page,      \* what the page shows and has asked for
          left       \* how many of these are still allowed

feedVars == <<rounds, config, state, closing, link, reads, page, left>>

Readers == {"snapshot", "http", "row"}
NoRead == [stage |-> "none", config |-> CHOOSE c \in Configs : TRUE, state |-> Fresh, cells |-> <<>>]

\* A round by its value and the threshold, as finalize and roundStatusStrip judge it.
Judge(value, c) == IF value = 0 THEN "unknown" ELSE IF value < c.threshold THEN "bad" ELSE "good"

\* RoundCellStatus
RoundCellStatus(kind, alert) ==
  CASE kind = "unknown" -> "unknown"
    [] kind = "good"    -> "up"
    [] OTHER            -> IF alert = "DOWN" THEN "down" ELSE "breach"

(* ---- the replay of a window of rounds ---- *)
First == IF Len(rounds) > Limit THEN Len(rounds) - Limit + 1 ELSE 1
Window == First..Len(rounds)

\* Bad rounds at the end of the window, unknown ones not counted.
Visible(c) ==
  LET good == {i \in Window : Judge(rounds[i].value, c) = "good"}
  IN Cardinality({i \in Window : Judge(rounds[i].value, c) = "bad" /\ \A g \in good : g < i})

StripSeed(st, c) ==
  IF st.alert # "DOWN" \/ st.cons <= Visible(c) THEN 0 ELSE st.cons - Visible(c)

Replay(st, c) ==
  LET seed == StripSeed(st, c)
      start == [alert |-> IF seed >= c.consecutive THEN "DOWN" ELSE "UP", cons |-> seed]
      after[i \in (First - 1)..Len(rounds)] ==
        IF i < First THEN start
        ELSE Apply(after[i - 1], Judge(rounds[i].value, c), c.consecutive)
  IN [i \in Window |-> RoundCellStatus(Judge(rounds[i].value, c), after[i].alert)]

\* The state that the finalized rounds call for.
Current ==
  IF closing = "closed" THEN Apply(state, Last(rounds).kind, Last(rounds).config.consecutive)
  ELSE state

\* Every round was carried out under this one configuration.
Even(c) == \A i \in DOMAIN rounds : rounds[i].config = c /\ ~rounds[i].split

\* An alarm that was already running before the window and recovered in it: the
\* stored count is back to zero and cannot seed the replay.
CutAlarm(n) ==
  \E a \in 1..(First - 1), b \in Window :
    /\ rounds[a].kind = "bad" /\ rounds[b].kind = "bad"
    /\ \A i \in a..b : rounds[i].kind # "good"
    /\ Cardinality({i \in a..b : rounds[i].kind = "bad"}) >= n
    /\ \E g \in b..Len(rounds) : rounds[g].kind = "good"

\* roundStatusStrip. "sure" only serves the property: the replayed colour is
\* bound to be right.
RoundStatusStrip(st, c) ==
  LET status == Replay(st, c)
      sure == Even(c) /\ st = Current /\ ~CutAlarm(c.consecutive)
  IN [k \in 1..Cardinality(Window) |->
        LET i == First + k - 1
        IN [round |-> i, status |-> status[i], id |-> FALSE,
            sure |-> sure]]

(* ---- the page ---- *)
ClampStrip(cells) == IF Len(cells) > Limit THEN SubSeq(cells, Len(cells) - Limit + 1, Len(cells))
                     ELSE cells

\* Mutant: the snapshot replaces what was pushed in the meantime.
MergeByReplacing(snapshot, current) == IF snapshot = <<>> THEN current ELSE snapshot

\* The cells of a later round, in their order.
Newer(cells, round) ==
  LET newer == {k \in DOMAIN cells : cells[k].round > round}
  IN [n \in 1..Cardinality(newer) |-> cells[CHOOSE k \in newer : Cardinality({j \in newer : j <= k}) = n]]

MergeStrip(snapshot, current) ==
  IF snapshot = <<>> THEN current
  ELSE ClampStrip(snapshot \o Newer(current, Last(snapshot).round))

\* A cell of a snapshot has no round id: a push of a round that the snapshot
\* already holds is appended all the same.
ApplyRound(cells, frame) ==
  LET cell == [round |-> frame.round, status |-> frame.status, id |-> TRUE,
               sure |-> FALSE]
  IN IF cells # <<>> /\ Last(cells).id /\ Last(cells).round = frame.round
     THEN ReplaceAt(cells, Len(cells), cell)
     ELSE ClampStrip(Append(cells, cell))

(* ---- the scheduler's side ---- *)
\* planRound: the next round is carried out under the row of its slot.
ScheduleRound ==
  /\ closing = "no" /\ config.held # config.row
  /\ config' = [config EXCEPT !.held = config.row]
  /\ UNCHANGED <<rounds, state, closing, link, reads, page, left>>

CloseRound ==
  /\ closing = "no" /\ Len(rounds) < MaxRounds
  /\ \E value \in Values :
       rounds' = Append(rounds, [value |-> value, kind |-> Judge(value, config.held),
                                 config |-> config.held, live |-> "", split |-> FALSE])
  /\ closing' = "closed"
  /\ UNCHANGED <<config, state, link, reads, page, left>>

\* The machine is stepped by the round's configuration; the row found meanwhile
\* goes with the push.
ApplyAlert ==
  /\ closing = "closed"
  /\ state' = Apply(state, Last(rounds).kind, Last(rounds).config.consecutive)
  /\ config' = [config EXCEPT !.held = config.row]
  /\ closing' = "stepped"
  /\ UNCHANGED <<rounds, link, reads, page, left>>

\* Row or state cannot be read, or not be written: the round is never pushed.
ApplyAlertFails ==
  /\ closing = "closed" /\ left > 0
  /\ rounds' = [rounds EXCEPT ![Len(rounds)].split = TRUE]
  /\ closing' = "no"
  /\ config' = [config EXCEPT !.held = config.row]
  /\ page' = [page EXCEPT !.torn = @ \/ link.up]
  /\ left' = left - 1
  /\ UNCHANGED <<state, link, reads>>

\* Hub.Broadcast and Conn.Send: a full queue loses the frame.
Broadcast(frame) ==
  IF link.up /\ Len(link.queue) < QueueCap
  THEN link' = [link EXCEPT !.queue = Append(@, frame)] /\ UNCHANGED page
  ELSE page' = [page EXCEPT !.torn = @ \/ link.up] /\ UNCHANGED link

BroadcastRoundFinalized ==
  LET last == Last(rounds)
      status == RoundCellStatus(Judge(last.value, config.held), state.alert)
  IN /\ closing = "stepped"
     /\ rounds' = [rounds EXCEPT ![Len(rounds)] =
                     [last EXCEPT !.live = status, !.split = config.held # last.config]]
     /\ Broadcast([type |-> "round", round |-> Len(rounds), status |-> status])
     /\ closing' = "no"
     /\ config' = [config EXCEPT !.held = config.row]
     /\ UNCHANGED <<state, reads, left>>

(* ---- reads of the strip: row, state, rounds, and the answer ---- *)
BeginRead(r, stage, c) ==
  reads' = [reads EXCEPT ![r] = [NoRead EXCEPT !.stage = stage, !.config = c]]

Faultless == UNCHANGED left
Fault == left > 0 /\ left' = left - 1

\* ListMonitors; if it fails there is no answer, or one that the page ignores.
ListMonitors(r) ==
  /\ reads[r].stage = "begun"
  /\ \/ Faultless /\ reads' = [reads EXCEPT ![r].stage = "listed", ![r].config = config.row]
     \/ Fault /\ reads' = [reads EXCEPT ![r] = NoRead]
  /\ UNCHANGED <<rounds, config, state, closing, link, page>>

\* GetMonitorStatesByIDs, GetMonitorState: without an answer there is no state.
ReadState(r) ==
  /\ reads[r].stage = "listed"
  /\ \/ Faultless /\ reads' = [reads EXCEPT ![r].stage = "state", ![r].state = state]
     \/ Fault /\ reads' = [reads EXCEPT ![r].stage = "state", ![r].state = Fresh]
  /\ UNCHANGED <<rounds, config, state, closing, link, page>>

ReadRounds(r) ==
  /\ reads[r].stage = "state" /\ Faultless
  /\ LET strip == RoundStatusStrip(reads[r].state, reads[r].config)
     IN reads' = [reads EXCEPT ![r] = [NoRead EXCEPT !.stage = "ready", !.cells = strip]]
  /\ UNCHANGED <<rounds, config, state, closing, link, page>>

\* The query of the rounds fails: a row goes without a strip, a snapshot with an
\* empty one that the page takes for the answer.
ReadRoundsFails(r) ==
  /\ reads[r].stage = "state" /\ Fault
  /\ reads' = [reads EXCEPT ![r] = [NoRead EXCEPT !.stage = IF r = "row" THEN "bare" ELSE "ready"]]
  /\ page' = [page EXCEPT !.torn = @ \/ r = "snapshot"]
  /\ UNCHANGED <<rounds, config, state, closing, link>>

\* SendWait: the chunk waits for a place in the queue, or the batch is given up.
PushMonitorStrips ==
  /\ reads["snapshot"].stage = "ready" /\ link.up
  /\ reads' = [reads EXCEPT !["snapshot"] = NoRead]
  /\ \/ /\ Len(link.queue) < QueueCap
        /\ link' = [link EXCEPT !.queue =
                      Append(@, [type |-> "strips", cells |-> reads["snapshot"].cells])]
     \/ Len(link.queue) = QueueCap /\ UNCHANGED link
  /\ UNCHANGED <<rounds, config, state, closing, page, left>>

\* applyStrips, from the socket or from the HTTP answer.
ApplyStrips(cells, aligned) ==
  page' = [page EXCEPT !.cells = MergeStrip(cells, @), !.aligned = @ \/ aligned]

HttpAnswer ==
  /\ reads["http"].stage = "ready"
  /\ ApplyStrips(reads["http"].cells, FALSE)
  /\ reads' = [reads EXCEPT !["http"] = NoRead]
  /\ UNCHANGED <<rounds, config, state, closing, link, left>>

\* BroadcastMonitorChanged after an edit: the row carries the strip.
BroadcastMonitorChanged ==
  /\ \/ reads["row"].stage = "ready" /\ Broadcast([type |-> "row", cells |-> reads["row"].cells])
     \/ reads["row"].stage = "bare" /\ Broadcast([type |-> "bare", cells |-> <<>>])
  /\ reads' = [reads EXCEPT !["row"] = NoRead]
  /\ UNCHANGED <<rounds, config, state, closing, left>>

UpdateMonitor ==
  /\ left > 0 /\ reads["row"].stage = "none"
  /\ \E c \in Configs : config' = [config EXCEPT !.row = c] /\ BeginRead("row", "listed", c)
  /\ left' = left - 1
  /\ UNCHANGED <<rounds, state, closing, link, page>>

(* ---- the page's side ---- *)
Connect ==
  /\ ~link.up /\ (link.n > 0 => left > 0)
  /\ link' = [n |-> link.n + 1, up |-> TRUE, queue |-> <<>>]
  /\ page' = [page EXCEPT !.aligned = FALSE, !.torn = FALSE]
  /\ left' = IF link.n > 0 THEN left - 1 ELSE left
  /\ UNCHANGED <<rounds, config, state, closing, reads>>

\* requestStrips: once per connection.
RequestStrips ==
  /\ link.up /\ page.asked # link.n
  /\ page' = [page EXCEPT !.asked = link.n]
  /\ BeginRead("snapshot", "begun", NoRead.config)
  /\ UNCHANGED <<rounds, config, state, closing, link, left>>

\* The connection ends with what is queued; its handler gets no further.
Disconnect ==
  /\ link.up
  /\ link' = [link EXCEPT !.up = FALSE, !.queue = <<>>]
  /\ reads' = [reads EXCEPT !["snapshot"] = NoRead]
  /\ UNCHANGED <<rounds, config, state, closing, page, left>>

\* loadStripsHttp while the socket is down.
LoadStripsHttp ==
  /\ ~link.up /\ reads["http"].stage = "none" /\ left > 0
  /\ BeginRead("http", "begun", NoRead.config)
  /\ left' = left - 1
  /\ UNCHANGED <<rounds, config, state, closing, link, page>>

\* A row replaces the cells; the rounds pushed after it was read are gone.
UpsertMonitor(cells) ==
  page' = [page EXCEPT !.cells = cells,
             !.torn = @ \/ (page.cells # <<>> /\
                              (cells = <<>> \/ Last(cells).round < Last(page.cells).round))]

Receive ==
  /\ link.up /\ link.queue # <<>>
  /\ LET frame == Head(link.queue)
     IN \/ /\ frame.type = "round"
           /\ page' = [page EXCEPT !.cells = ApplyRound(@, frame),
                         !.torn = @ \/ \E k \in DOMAIN page.cells :
                                          page.cells[k].round >= frame.round]
        \/ frame.type = "strips" /\ ApplyStrips(frame.cells, TRUE)
        \/ frame.type = "row" /\ UpsertMonitor(ClampStrip(frame.cells))
        \/ frame.type = "bare" /\ UNCHANGED page
  /\ link' = [link EXCEPT !.queue = Tail(@)]
  /\ UNCHANGED <<rounds, config, state, closing, reads, left>>

Init ==
  /\ rounds = <<>>
  /\ state = Fresh
  /\ closing = "no"
  /\ link = [n |-> 0, up |-> FALSE, queue |-> <<>>]
  /\ \E c \in Configs : config = [row |-> c, held |-> c]
  /\ reads = [r \in Readers |-> NoRead]
  /\ page = [cells |-> <<>>, asked |-> 0, aligned |-> FALSE, torn |-> FALSE]
  /\ left = MaxExtras

Scheduler == ScheduleRound \/ CloseRound \/ ApplyAlert \/ ApplyAlertFails \/ BroadcastRoundFinalized
Reading == \/ \E r \in Readers : ListMonitors(r) \/ ReadState(r) \/ ReadRounds(r) \/ ReadRoundsFails(r)
           \/ PushMonitorStrips \/ HttpAnswer \/ BroadcastMonitorChanged \/ UpdateMonitor
Browser == Connect \/ RequestStrips \/ Disconnect \/ LoadStripsHttp \/ Receive

Next == Scheduler \/ Reading \/ Browser

Spec == Init /\ [][Next]_feedVars

-----------------------------------------------------------------------------
(* Properties.                                                             *)

Cells == [round : 1..MaxRounds, status : {"up", "breach", "down", "unknown"},
          id : BOOLEAN, sure : BOOLEAN]

\* The type of every variable, and the bounds of the strip and of the queue.
TypeOK ==
  /\ config \in [row : Configs, held : Configs]
  /\ state \in States /\ closing \in {"no", "closed", "stepped"}
  /\ link.n \in 0..(MaxExtras + 1) /\ Len(link.queue) <= QueueCap
  /\ Len(page.cells) <= Limit /\ \A k \in DOMAIN page.cells : page.cells[k] \in Cells
  /\ \A r \in Readers : reads[r].stage \in {"none", "begun", "listed", "state", "ready", "bare"}

\* A page that has its snapshot shows the finalized rounds without a gap and,
\* once its frames are in, up to the newest - however snapshot reads, pushes,
\* edits, reconnections and the HTTP fallback interleave.  Excused by "torn",
\* until the next connection: a frame lost to a full queue, a row read before a
\* push it wipes out, a push that comes after a read that holds its round already,
\* a round that is never pushed as its alert cannot be stepped, and a snapshot
\* that is empty as its rounds cannot be read (mergeStrip, applyRound, Conn.Send,
\* applyAlert, monitorStrips).
StripIsComplete ==
  link.up /\ page.aligned /\ ~page.torn =>
    /\ \A k \in 1..(Len(page.cells) - 1) : page.cells[k + 1].round = page.cells[k].round + 1
    /\ (link.queue = <<>> /\ closing = "no" /\ rounds # <<>>
        /\ \A r \in Readers : reads[r].stage = "none")
         => page.cells # <<>> /\ Last(page.cells).round = Len(rounds)

\* The replayed colour of a round is the one it was pushed with, if no edit and no
\* failing alert step came between: all rounds read were judged by the consecutive
\* and threshold of the replay and the round was pushed with them, the state was
\* read and is that of these rounds, and no alarm was cut by the left edge and is
\* over.  An edited number or threshold recolours the rounds before it
\* (roundStatusStrip, stripSeed, RoundCellStatus, applyAlert).
StripTellsTheColour ==
  \A k \in DOMAIN page.cells :
    LET c == page.cells[k]
        r == rounds[c.round]
    IN c.sure /\ r.live # "" /\ ~r.split => c.status = r.live

\* What the page shows of the monitor is what the store has: its rounds and their
\* colours.
StripIsFaithful == StripIsComplete /\ StripTellsTheColour
=============================================================================
