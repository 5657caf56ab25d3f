---------------------------- MODULE AlertMachine ----------------------------
(***************************************************************************)
(* The alert state machine of a monitor (dashboard/internal/alert/alert.go *)
(* Apply), and what it is meant to compute, stated without a machine: a    *)
(* function of the history of the rounds that were applied.                *)
(* A round's value and the threshold are abstracted to the comparison of   *)
(* the two: a "bad" round is below the threshold, a "good" one is not, an  *)
(* "unknown" one has no valid sample.                                      *)
(***************************************************************************)
EXTENDS Naturals, Sequences

Kinds == {"unknown", "good", "bad"}

States == [alert : {"UP", "DOWN"}, cons : Nat]

\* Mutant: the initial row is the zero value of the record.
FreshZero == [alert |-> "", cons |-> 0]

\* A monitor without a row in monitor_states.
Fresh == [alert |-> "UP", cons |-> 0]

\* Mutant: a good round recovers the alert but leaves the count.
ApplyKeepingCount(s, kind, n) ==
  IF kind = "bad"
    THEN [alert |-> IF s.cons + 1 >= n THEN "DOWN" ELSE s.alert, cons |-> s.cons + 1]
    ELSE IF kind = "good" THEN [s EXCEPT !.alert = "UP"] ELSE s

\* Mutant: a round without a valid sample counts as a bad one.
ApplyUnknownAsBad(s, kind, n) ==
  IF kind # "good"
    THEN [alert |-> IF s.cons + 1 >= n THEN "DOWN" ELSE s.alert, cons |-> s.cons + 1]
    ELSE Fresh

\* Apply: the n-th consecutive bad round is an alarm, a good round recovers at
\* once, and an unknown round freezes the state.
Apply(s, kind, n) ==
  IF kind = "bad"
    THEN [alert |-> IF s.cons + 1 >= n THEN "DOWN" ELSE s.alert, cons |-> s.cons + 1]
    ELSE IF kind = "good" THEN Fresh ELSE s

-----------------------------------------------------------------------------
(* The reference. A history is the sequence of what happened to the        *)
(* monitor: applied rounds, each with the number of bad rounds its own     *)
(* configuration asks for, resets of the count by a pause, and removals.   *)

Entries == [kind : {"good", "bad", "reset", "removed"}, n : Nat]

\* The c entries of h that end at position i are bad rounds, and no more are.
EndsRun(h, i, c) ==
  /\ c <= i
  /\ \A k \in (i - c + 1)..i : h[k].kind = "bad"
  /\ c < i => h[i - c].kind # "bad"

\* The monitor is down: some round completed a run as long as it asked for,
\* and nothing has recovered the monitor since.
IsDown(h) ==
  \E i \in 1..Len(h) :
    /\ \E c \in 1..i : EndsRun(h, i, c) /\ c >= h[i].n
    /\ \A k \in (i + 1)..Len(h) : h[k].kind \in {"bad", "reset"}

\* The state that the history h calls for.
Follows(s, h) ==
  /\ EndsRun(h, Len(h), s.cons)
  /\ s.alert = "DOWN" <=> IsDown(h)
=============================================================================
