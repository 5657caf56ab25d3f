----------------------------- MODULE Compaction -----------------------------
(***************************************************************************)
(* Compacting the database from the settings page (store/compact.go,       *)
(* api/settings.go): a request starts a goroutine of its own, which counts *)
(* pages, truncates the log, runs VACUUM and does both again, while a      *)
(* second goroutine estimates the progress from the growth of the log and  *)
(* the page polls the status. All of it has one context with a limit.      *)
(*                                                                         *)
(* Time is counted in parts of that limit. Statements take time too, but   *)
(* as the limit is meant for the extreme case only (the comment of         *)
(* compactMaxDuration), no compaction here spends all of it on them.       *)
(***************************************************************************)
EXTENDS Integers

CONSTANTS
  Limit,        \* compactMaxDuration
  MaxRuns,      \* bound: compactions
  MaxFaults     \* bound: failing statements

VARIABLES
  compactMu,    \* held by the compaction there is
  status,       \* compactStatus
  stage,        \* where runCompact is
  meter,        \* the goroutine that estimates the progress: "off", "ticking", "ended"
  estBytes,     \* what it expects the log to grow to, in units; 0 if that is unknown
  age,          \* of the context
  started, failures

vars == <<compactMu, status, stage, meter, estBytes, age, started, failures>>

Statements == {"before", "checkpoint", "vacuum", "truncate", "after"}
Stages == Statements \cup {"idle", "join", "abort"}
Progress == {-1, 0, 5, 50, 95, 99, 100}
Idle == [running |-> FALSE, progress |-> 0, stage |-> "", outcome |-> "none"]

\* ctx.Done(): database/sql refuses a statement whose context is over.
Expired == age >= Limit
Step(to) == stage' = to /\ UNCHANGED <<compactMu, estBytes, age, started>>

\* setCompactProgress
SetCompactProgress(name, progress) == status' = [status EXCEPT !.stage = name, !.progress = progress]

-----------------------------------------------------------------------------
(* The requests.                                                           *)

\* StartCompact: whoever gets the lock starts; the status is that of a new run.
StartCompact ==
  /\ ~compactMu /\ started < MaxRuns
  /\ compactMu' = TRUE /\ started' = started + 1
  /\ status' = [running |-> TRUE, progress |-> 0, stage |-> "preparing", outcome |-> "none"]
  /\ stage' = "before" /\ meter' = "off" /\ age' = 0
  /\ UNCHANGED <<estBytes, failures>>

\* ErrCompactBusy: everybody else is told to come back, and nothing happens.
RefuseCompact == compactMu /\ UNCHANGED vars

-----------------------------------------------------------------------------
(* runCompactTracked and runCompact.                                       *)

\* The outcome is stored, the lock given up and the context cancelled, which also
\* ends what still listens to it.
EndCompact(outcome) ==
  /\ status' = [status EXCEPT !.running = FALSE, !.progress = 100, !.outcome = outcome]
  /\ compactMu' = FALSE
  /\ stage' = "idle" /\ meter' = "off" /\ age' = 0 /\ estBytes' = 0
  /\ UNCHANGED started

\* A statement that fails, by itself or because the context is over, ends the run.
Fails(s) ==
  /\ stage = s
  /\ \/ Expired /\ UNCHANGED failures
     \/ failures < MaxFaults /\ failures' = failures + 1
  /\ EndCompact("failed")
Works(s) == stage = s /\ ~Expired /\ UNCHANGED failures

\* pageBytes, after a statistics refresh that was under way has been cancelled.
PageBytes ==
  \/ Fails("before")
  \/ Works("before") /\ Step("checkpoint") /\ UNCHANGED <<status, meter>>

\* checkpointWAL, the estimate, and the start of the meter.
CheckpointWAL ==
  \/ Fails("checkpoint")
  \/ /\ Works("checkpoint")
     /\ SetCompactProgress("preparing", 5)
     /\ estBytes' \in 0..2
     /\ meter' = "ticking" /\ stage' = "vacuum"
     /\ UNCHANGED <<compactMu, age, started>>

\* The meter looks at the log: it may have grown by any part, or beyond the estimate.
Measure ==
  /\ meter = "ticking"
  /\ \E grown \in 1..3 :
       SetCompactProgress("vacuum",
         IF estBytes = 0 THEN -1
         ELSE LET p == 5 + (grown * 90) \div estBytes IN IF p > 99 THEN 99 ELSE p)
  /\ UNCHANGED <<compactMu, stage, meter, estBytes, age, started, failures>>

\* The meter's only way out is the end of the context.
EndMeter ==
  /\ meter = "ticking" /\ Expired
  /\ meter' = "ended"
  /\ UNCHANGED <<compactMu, status, stage, estBytes, age, started, failures>>

\* VACUUM; an error of it is looked at after the meter has ended.
Vacuum ==
  /\ stage = "vacuum"
  /\ \/ ~Expired /\ Step("join") /\ UNCHANGED <<status, meter, failures>>
     \/ /\ Expired \/ failures < MaxFaults
        /\ failures' = IF Expired THEN failures ELSE failures + 1
        /\ Step("abort") /\ UNCHANGED <<status, meter>>

\* <-vacuumDone
JoinMeter ==
  /\ meter = "ended" /\ UNCHANGED failures
  /\ \/ stage = "abort" /\ EndCompact("failed")
     \/ stage = "join" /\ SetCompactProgress("finishing", 99) /\ Step("truncate") /\ UNCHANGED meter

TruncateWAL ==
  \/ Fails("truncate")
  \/ Works("truncate") /\ Step("after") /\ UNCHANGED <<status, meter>>

\* pageBytes and invalidateDBStats.
PageBytesAfter ==
  \/ Fails("after")
  \/ Works("after") /\ EndCompact("ok")

-----------------------------------------------------------------------------
\* Time passes, with the statements done before the limit is reached.
Tick ==
  /\ compactMu /\ ~Expired
  /\ stage \in Statements => age + 1 < Limit
  /\ age' = age + 1
  /\ UNCHANGED <<compactMu, status, stage, meter, estBytes, started, failures>>

Init ==
  /\ compactMu = FALSE /\ status = Idle
  /\ stage = "idle" /\ meter = "off"
  /\ estBytes = 0 /\ age = 0 /\ started = 0 /\ failures = 0

Compact == PageBytes \/ CheckpointWAL \/ Vacuum \/ JoinMeter \/ TruncateWAL \/ PageBytesAfter

Next == StartCompact \/ RefuseCompact \/ Compact \/ Measure \/ EndMeter \/ Tick

Spec == Init /\ [][Next]_vars
-----------------------------------------------------------------------------
(* Properties.                                                             *)

\* The type of every variable; the lock is held while a compaction runs.
TypeOK ==
  /\ status \in [running : BOOLEAN, progress : Progress, stage : {"", "preparing", "vacuum", "finishing"},
                 outcome : {"none", "ok", "failed"}]
  /\ compactMu = (stage # "idle") /\ status.running = compactMu
  /\ stage \in Stages /\ meter \in {"off", "ticking", "ended"}
  /\ estBytes \in 0..2 /\ age \in 0..Limit /\ started \in 0..MaxRuns /\ failures \in 0..MaxFaults

\* A compaction whose statements all work, in less time than the limit, ends with a
\* result: the limit is for the extreme case only.
SoundCompactionSucceeds ==
  ~status.running /\ failures = 0 => status.outcome # "failed"
=============================================================================
