--------------------------- MODULE RoundAggregate ---------------------------
(***************************************************************************)
(* The decision table of a probe round: what becomes of the samples the    *)
(* assigned nodes reported and of the nodes that reported nothing.         *)
(* Translated from dashboard/internal/scheduler/round.go (EffOK,           *)
(* aggregate) and from the start-up recount of                             *)
(* dashboard/internal/store/rounds.go (recoverOrphanRound).                *)
(* Latencies and speeds are sums the properties never look at; they are    *)
(* abstracted away.                                                        *)
(***************************************************************************)
EXTENDS Naturals, FiniteSets

CONSTANTS Agents,    \* the nodes assigned to a round (the snapshot in RoundSpec.AgentIDs)
          Rounds,    \* identities of the rounds of one monitor
          Inverted   \* the rounds whose InvertMode snapshot is set

ASSUME AgentsAssumption == IsFiniteSet(Agents)
ASSUME InvertedAssumption == Inverted \subseteq Rounds

\* A node's entry in InFlightRound.results: nothing yet, or the raw verdict.
Samples == {"none", "ok", "fail"}

\* What a decided round stores: the state and the counters of RoundClose.
DecidedStates == {"CLOSED", "UNKNOWN"}

Outcome == [state   : DecidedStates,
            valid   : Nat,
            success : Nat,
            alive   : SUBSET Agents,    \* MissingAlive
            dead    : SUBSET Agents,    \* MissingDead
            undisp  : SUBSET Agents]    \* MissingUndispatched

Verdict(ok) == IF ok THEN "ok" ELSE "fail"

\* RoundSpec.EffOK: the inverted monitor counts a failed probe as a success.
EffOK(r, ok) == ok # (r \in Inverted)

Reported(res) == {a \in Agents : res[a] # "none"}

\* Mutant: the inverted monitor is forgotten.
SucceededRaw(r, res) == {a \in Reported(res) : res[a] = "ok"}

Succeeded(r, res) == {a \in Reported(res) : EffOK(r, res[a] = "ok")}

\* Mutant: a round without a valid sample keeps the state it was created with.
StateOfCount(valid) == IF valid = 0 THEN "OPEN" ELSE "CLOSED"

StateOf(valid) == IF valid = 0 THEN "UNKNOWN" ELSE "CLOSED"

\* A stored round without any count.
Blank(state) == [state |-> state, valid |-> 0, success |-> 0,
                 alive |-> {}, dead |-> {}, undisp |-> {}]

\* forceCloseOpenRounds(): nothing is read, the round is closed as UNKNOWN.
Swept == Blank("UNKNOWN")

\* aggregate(): a reported sample always wins over the probe of the node; a
\* dead node and a node that never got the task are left out of the
\* denominator, every other silent node is a failed sample.
Aggregate(r, res, dead, undisp) ==
  LET silent   == Agents \ Reported(res)
      left     == silent \cap dead
      unsent   == (silent \ dead) \cap undisp
      mute     == silent \ (dead \cup undisp)
      valid    == Cardinality(Reported(res) \cup mute)
  IN [state   |-> StateOf(valid),
      valid   |-> valid,
      success |-> Cardinality(Succeeded(r, res)),
      alive   |-> mute,
      dead    |-> left,
      undisp  |-> unsent]

\* Mutant: an interrupted round is closed without looking at its rows.
RecountNothing(rows) == Swept

\* recoverOrphanRound(): one valid sample per stored on-time ROW of an
\* assigned node. The verdict in the row is already folded by EffOK, and a
\* silent node is always recorded as dead.
Recount(rows) ==
  LET onTime == {w \in rows : ~w.late /\ w.agent \in Agents}
      valid  == Cardinality(onTime)
  IN [state   |-> StateOf(valid),
      valid   |-> valid,
      success |-> Cardinality({w \in onTime : w.ok}),
      alive   |-> {},
      dead    |-> Agents \ {w.agent : w \in onTime},
      undisp  |-> {}]
=============================================================================
