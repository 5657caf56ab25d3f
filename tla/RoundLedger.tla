---------------------------- MODULE RoundLedger ----------------------------
(***************************************************************************)
(* What the dashboard promises about the rounds of a monitor, whatever     *)
(* threads, messages and crashes produce them: a round is opened, gets one *)
(* outcome that never changes, is added to the hourly counters at most     *)
(* once and with exactly that outcome, and drives the alert at most once.  *)
(***************************************************************************)
EXTENDS Naturals

CONSTANTS Rounds,
          None, Opened,   \* a round that does not exist yet, a round without outcome
          Outcomes        \* the outcomes a round can get

VARIABLES outcome,   \* per round: None, Opened, or its outcome
          total,     \* the counters of the hourly statistics
          booked,    \* rounds included in the counters
          notified   \* rounds that have driven the alert

lvars == <<outcome, total, booked, notified>>

IsDecided(r) == outcome[r] \in Outcomes

Init ==
  /\ outcome = [r \in Rounds |-> None]
  /\ total = [rounds |-> 0, valid |-> 0, success |-> 0]
  /\ booked = {} /\ notified = {}

Open(r) ==
  /\ outcome[r] = None
  /\ outcome' = [outcome EXCEPT ![r] = Opened]
  /\ UNCHANGED <<total, booked, notified>>

\* One round is decided by its samples; a start-up may decide several at once.
Decide ==
  /\ outcome' \in [Rounds -> {None, Opened} \cup Outcomes]
  /\ \A r \in Rounds : outcome'[r] # outcome[r] => outcome[r] = Opened /\ outcome'[r] \in Outcomes
  /\ UNCHANGED <<total, booked, notified>>

Book(r) ==
  /\ IsDecided(r) /\ r \notin booked
  /\ total' = [rounds  |-> total.rounds + 1,
               valid   |-> total.valid + outcome[r].valid,
               success |-> total.success + outcome[r].success]
  /\ booked' = booked \cup {r}
  /\ UNCHANGED <<outcome, notified>>

Notify(r) ==
  /\ IsDecided(r) /\ r \notin notified
  /\ notified' = notified \cup {r}
  /\ UNCHANGED <<outcome, total, booked>>

Next == Decide \/ \E r \in Rounds : Open(r) \/ Book(r) \/ Notify(r)

Spec == Init /\ [][Next]_lvars
=============================================================================
