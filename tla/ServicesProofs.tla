--------------------------- MODULE ServicesProofs ---------------------------
(***************************************************************************)
(* What TLAPS proves of the services around the round engine, for any      *)
(* channels, alerts, requests, connections, periods, bounds, groups,       *)
(* probes, forms and monitors.                                             *)
(***************************************************************************)
EXTENDS AdministrationProofs

-----------------------------------------------------------------------------
(* The notifier.                                                           *)

\* The notifier's variables move by its own steps only.
LEMMA NotifyMoves == Init => Notify!Init
  BY DEF Init

LEMMA NotifyAlone == [Next]_<<part, vars>> => [Notify!Next]_(notifierVars)
  BY DEF Next, vars, PushStep, NotifyStep, EnrollStep, AdminStep, TransferStep, KumaStep, ProbesStep,
     FeedStep, Others4, Others8

\* The goroutine of an alert and its record, and the alert as it was raised.
Deliveries == [stage : Notify!Stages, attempts : 0..MaxAttempts, received : 0..MaxAttempts,
               delivered : BOOLEAN, lost : BOOLEAN, row : Notify!Rows]
Raised == [kind : Notify!Kinds, byRequest : BOOLEAN, ended : BOOLEAN]
Attempts(al) == IF al.kind = "test" THEN 1 ELSE MaxAttempts

\* How far a delivery is: it is posted while it has attempts left, and recorded
\* once it was received, has used its attempts or may have lost its context.
Paced(d, al) ==
  /\ d.received <= d.attempts /\ (d.delivered => d.received >= 1)
  /\ d.stage \in {"posting", "waiting", "recording"} => d.row = "none"
  /\ d.stage \in {"posting", "waiting"} => d.attempts < Attempts(al)
  /\ d.stage = "recording" =>
       d.delivered \/ d.attempts = Attempts(al) \/ al.byRequest

Accounted(d, al) ==
  d.stage = "over" =>
    \/ d.row = "success" /\ d.received >= 1
    \/ d.row = "failed" /\ (d.attempts = Attempts(al) \/ al.byRequest)
    \/ d.row = "none" /\ (al.ended \/ d.lost)

\* A context ends only with the request it belongs to.
NotifyInv ==
  /\ Notify!TypeOK
  /\ \A a \in Alerts : alert[a].ended => alert[a].byRequest
  /\ \A a \in Alerts, c \in Channels :
       Paced(delivery[a][c], alert[a]) /\ Accounted(delivery[a][c], alert[a])

LEMMA NotifyTyped ==
  Notify!TypeOK <=>
    /\ channel \in [Channels -> [exists : BOOLEAN, enabled : BOOLEAN, agentNotify : BOOLEAN]]
    /\ routes \subseteq Channels
    /\ alert \in [Alerts -> Raised]
    /\ delivery \in [Alerts -> [Channels -> Deliveries]]
    /\ toggles \in 0..MaxToggles /\ faults \in 0..MaxFaults
  BY DEF Notify!TypeOK, Raised, Deliveries

LEMMA IdleFits ==
  ASSUME NEW al \in Raised
  PROVE  /\ Notify!Idle \in Deliveries /\ [Notify!Idle EXCEPT !.stage = "posting"] \in Deliveries
         /\ Paced(Notify!Idle, al) /\ Accounted(Notify!Idle, al)
         /\ Paced([Notify!Idle EXCEPT !.stage = "posting"], al)
         /\ Accounted([Notify!Idle EXCEPT !.stage = "posting"], al)
<1> DEFINE posting == [Notify!Idle EXCEPT !.stage = "posting"]
<1>1. Notify!Idle \in Deliveries /\ posting \in Deliveries
  <2>1. 0 \in 0..MaxAttempts
    BY NotifyAssumption
  <2>2. Notify!Idle \in Deliveries
    BY <2>1 DEF Notify!Idle, Deliveries, Notify!Stages, Notify!Rows
  <2> QED
    BY <2>2 DEF Deliveries, Notify!Stages
<1>2. /\ Notify!Idle.stage = "none" /\ posting.stage = "posting" /\ posting.row = "none"
      /\ Notify!Idle.received = 0 /\ Notify!Idle.attempts = 0 /\ ~Notify!Idle.delivered
      /\ posting.received = 0 /\ posting.attempts = 0 /\ ~posting.delivered
  BY DEF Notify!Idle
<1>3. Attempts(al) >= 1
  BY NotifyAssumption DEF Attempts
<1> HIDE DEF posting
<1>4. Paced(Notify!Idle, al) /\ Accounted(Notify!Idle, al)
  BY <1>2, <1>3 DEF Paced, Accounted
<1>5. Paced(posting, al) /\ Accounted(posting, al)
  BY <1>2, <1>3, NotifyAssumption DEF Paced, Accounted, Attempts
<1> QED
  BY <1>1, <1>4, <1>5 DEF posting

LEMMA NotifyStart == Init => NotifyInv
<1> SUFFICES ASSUME Init PROVE NotifyInv
  OBVIOUS
<1>1. Notify!Init
  BY DEF Init
<1>2. channel \in [Channels -> [exists : BOOLEAN, enabled : BOOLEAN, agentNotify : BOOLEAN]]
  <2>1. \A e \in BOOLEAN : [exists |-> TRUE, enabled |-> e, agentNotify |-> TRUE]
                           \in [exists : BOOLEAN, enabled : BOOLEAN, agentNotify : BOOLEAN]
    OBVIOUS
  <2>2. ASSUME NEW c \in Channels
        PROVE  channel[c] \in [exists : BOOLEAN, enabled : BOOLEAN, agentNotify : BOOLEAN]
    <3>1. channel[c] \in {[exists |-> TRUE, enabled |-> e, agentNotify |-> TRUE] : e \in BOOLEAN}
      BY <1>1 DEF Notify!Init
    <3> QED
      BY <2>1, <3>1
  <2> QED
    BY <1>1, <2>2 DEF Notify!Init
<1>3. routes \subseteq Channels /\ toggles \in 0..MaxToggles /\ faults \in 0..MaxFaults
  BY <1>1, NotifyAssumption DEF Notify!Init
<1>4. alert \in [Alerts -> Raised] /\ \A a \in Alerts : ~alert[a].ended
  BY <1>1 DEF Notify!Init, Raised, Notify!Kinds
<1>5. delivery \in [Alerts -> [Channels -> Deliveries]]
  <2>1. [kind |-> "unraised", byRequest |-> FALSE, ended |-> FALSE] \in Raised
    BY DEF Raised, Notify!Kinds
  <2> QED
    BY <1>1, <2>1, IdleFits DEF Notify!Init
<1>6. ASSUME NEW a \in Alerts, NEW c \in Channels
      PROVE  Paced(delivery[a][c], alert[a]) /\ Accounted(delivery[a][c], alert[a])
  BY <1>1, <1>4, IdleFits DEF Notify!Init
<1> QED
  BY <1>2, <1>3, <1>4, <1>5, <1>6, NotifyTyped DEF NotifyInv

\* The goroutine of one alert and channel moves to a delivery that fits.
LEMMA OneDelivery ==
  ASSUME NotifyInv, NEW a \in Alerts, NEW c \in Channels, NEW new \in Deliveries,
         Paced(new, alert[a]), Accounted(new, alert[a]),
         delivery' = [delivery EXCEPT ![a][c] = new],
         UNCHANGED <<channel, routes, alert, toggles>>, faults' \in 0..MaxFaults
  PROVE  NotifyInv'
<1>1. delivery' \in [Alerts -> [Channels -> Deliveries]]
  BY NotifyTyped DEF NotifyInv
<1>2. Notify!TypeOK'
  BY <1>1, NotifyTyped DEF NotifyInv, Notify!TypeOK, Deliveries
<1>3. ASSUME NEW b \in Alerts, NEW k \in Channels
      PROVE  Paced(delivery'[b][k], alert'[b]) /\ Accounted(delivery'[b][k], alert'[b])
  <2>1. CASE b = a /\ k = c
    BY <2>1, NotifyTyped DEF NotifyInv
  <2>2. CASE ~(b = a /\ k = c)
    <3>1. delivery'[b][k] = delivery[b][k]
      BY <2>2, NotifyTyped DEF NotifyInv
    <3> QED
      BY <3>1 DEF NotifyInv
  <2> QED
    BY <2>1, <2>2
<1> QED
  BY <1>2, <1>3 DEF NotifyInv

LEMMA FaultTyped ==
  ASSUME NotifyInv, Notify!Fault \/ Notify!Works PROVE faults' \in 0..MaxFaults
  BY NotifyAssumption DEF NotifyInv, Notify!TypeOK, Notify!Fault, Notify!Works

LEMMA PostKeeps ==
  ASSUME NotifyInv, NEW a \in Alerts, NEW c \in Channels, Notify!Post(a, c)
  PROVE  NotifyInv'
<1> DEFINE d == delivery[a][c]
           tried == [d EXCEPT !.attempts = @ + 1]
           failed == [tried EXCEPT !.stage =
                        IF tried.attempts >= Attempts(alert[a]) THEN "recording" ELSE "waiting"]
<1>1. d \in Deliveries /\ alert[a] \in Raised
  BY NotifyTyped DEF NotifyInv
<1>2. d.stage = "posting" /\ UNCHANGED <<channel, routes, alert, toggles>>
  BY DEF Notify!Post
<1>3. /\ d.received <= d.attempts /\ d.attempts < Attempts(alert[a]) /\ d.row = "none"
      /\ d.delivered => d.received >= 1
      /\ Attempts(alert[a]) \in 1..MaxAttempts
  BY <1>1, <1>2, NotifyAssumption DEF NotifyInv, Paced, Attempts
<1>4. tried \in Deliveries /\ tried.attempts = d.attempts + 1 /\ tried.received = d.received
      /\ tried.row = "none" /\ tried.delivered = d.delivered
  BY <1>1, <1>3, NotifyAssumption DEF Deliveries
<1>8. /\ tried.attempts \in 1..Attempts(alert[a]) /\ tried.received \in Nat /\ tried.received < tried.attempts
      /\ tried.delivered => tried.received >= 1
      /\ tried.attempts <= MaxAttempts
  BY <1>1, <1>3, <1>4, NotifyAssumption DEF Deliveries
<1>9. failed \in Deliveries /\ failed.attempts = tried.attempts /\ failed.received = tried.received
      /\ failed.row = "none" /\ failed.delivered = tried.delivered
      /\ failed.stage = IF tried.attempts >= Attempts(alert[a]) THEN "recording" ELSE "waiting"
  BY <1>4 DEF Deliveries, Notify!Stages
<1> HIDE DEF d, tried, failed
<1>5. CASE /\ Notify!Alive(a) /\ Notify!Works
           /\ delivery' = [delivery EXCEPT ![a][c] =
                [tried EXCEPT !.received = @ + 1, !.delivered = TRUE, !.stage = "recording"]]
  <2> DEFINE new == [tried EXCEPT !.received = @ + 1, !.delivered = TRUE, !.stage = "recording"]
  <2>1. new \in Deliveries /\ new.stage = "recording" /\ new.attempts = tried.attempts
        /\ new.received = tried.received + 1 /\ new.delivered /\ new.row = "none"
    <3>1. tried.received + 1 \in 0..MaxAttempts
      BY <1>3, <1>8, NotifyAssumption
    <3>2. new = [tried EXCEPT !.received = tried.received + 1, !.delivered = TRUE, !.stage = "recording"]
      BY <1>4 DEF Deliveries
    <3> QED
      BY <1>4, <3>1, <3>2 DEF Deliveries, Notify!Stages
  <2> HIDE DEF new
  <2>2. Paced(new, alert[a]) /\ Accounted(new, alert[a])
    BY <2>1, <1>8 DEF Paced, Accounted
  <2> QED
    BY <1>2, <1>5, <2>1, <2>2, OneDelivery, FaultTyped DEF new
<1>6. CASE Notify!Works /\ delivery' = [delivery EXCEPT ![a][c] = failed]
  <2>2. Paced(failed, alert[a]) /\ Accounted(failed, alert[a])
    BY <1>3, <1>8, <1>9, NotifyAssumption DEF Paced, Accounted
  <2> QED
    BY <1>2, <1>6, <1>9, <2>2, OneDelivery, FaultTyped
<1>7. CASE /\ Notify!Alive(a) /\ Notify!Fault
           /\ delivery' = [delivery EXCEPT ![a][c] = [failed EXCEPT !.received = @ + 1]]
  <2> DEFINE new == [failed EXCEPT !.received = @ + 1]
  <2>1. new \in Deliveries /\ new.stage = failed.stage /\ new.attempts = tried.attempts
        /\ new.received = tried.received + 1 /\ new.row = "none"
    BY <1>8, <1>9, NotifyAssumption DEF Deliveries
  <2> HIDE DEF new
  <2>2. Paced(new, alert[a]) /\ Accounted(new, alert[a])
    BY <2>1, <1>3, <1>8, <1>9, NotifyAssumption DEF Paced, Accounted
  <2> QED
    BY <1>2, <1>7, <2>1, <2>2, OneDelivery, FaultTyped DEF new
<1> QED
  BY <1>5, <1>6, <1>7 DEF Notify!Post, Notify!Step, Notify!Tries, Attempts, d, tried, failed

LEMMA WaitKeeps ==
  ASSUME NotifyInv, NEW a \in Alerts, NEW c \in Channels, Notify!Wait(a, c)
  PROVE  NotifyInv'
<1> DEFINE d == delivery[a][c]
<1>1. /\ d \in Deliveries /\ alert[a] \in Raised /\ d.stage = "waiting"
      /\ d.received <= d.attempts /\ d.attempts < Attempts(alert[a]) /\ d.row = "none"
      /\ d.delivered => d.received >= 1
  BY NotifyTyped DEF NotifyInv, Notify!Wait, Paced
<1>2. UNCHANGED <<channel, routes, alert, toggles>> /\ faults' \in 0..MaxFaults
  BY NotifyTyped DEF NotifyInv, Notify!Wait
<1>3. ASSUME NEW st \in {"posting", "recording"}, st = "recording" => alert[a].byRequest,
             delivery' = [delivery EXCEPT ![a][c] = [d EXCEPT !.stage = st]]
      PROVE  NotifyInv'
  <2> DEFINE new == [d EXCEPT !.stage = st]
  <2>1. new \in Deliveries /\ new.stage = st /\ new.attempts = d.attempts
        /\ new.received = d.received /\ new.delivered = d.delivered /\ new.row = "none"
    BY <1>1 DEF Deliveries, Notify!Stages
  <2> HIDE DEF new, d
  <2>2. Paced(new, alert[a]) /\ Accounted(new, alert[a])
    BY <1>1, <1>3, <2>1 DEF Paced, Accounted
  <2> QED
    BY <1>2, <1>3, <2>1, <2>2, OneDelivery DEF new, d
<1>4. ~Notify!Alive(a) => alert[a].byRequest
  BY DEF Notify!Alive, NotifyInv
<1> QED
  BY <1>3, <1>4 DEF Notify!Wait, Notify!Step

LEMMA RecordKeeps ==
  ASSUME NotifyInv, NEW a \in Alerts, NEW c \in Channels, Notify!RecordDelivery(a, c)
  PROVE  NotifyInv'
<1> DEFINE d == delivery[a][c]
<1>1. /\ d \in Deliveries /\ alert[a] \in Raised /\ d.stage = "recording"
      /\ d.received <= d.attempts /\ d.row = "none" /\ (d.delivered => d.received >= 1)
      /\ d.delivered \/ d.attempts = Attempts(alert[a]) \/ alert[a].byRequest
  BY NotifyTyped DEF NotifyInv, Notify!RecordDelivery, Paced
<1>2. UNCHANGED <<channel, routes, alert, toggles>> /\ faults' \in 0..MaxFaults
  BY FaultTyped DEF Notify!RecordDelivery
<1>3. ASSUME NEW r \in Notify!Rows, NEW l \in BOOLEAN,
             delivery' = [delivery EXCEPT ![a][c] = [d EXCEPT !.stage = "over", !.row = r, !.lost = l]],
             \/ r = "none" /\ (l \/ alert[a].ended)
             \/ r = IF d.delivered THEN "success" ELSE "failed"
      PROVE  NotifyInv'
  <2> DEFINE new == [d EXCEPT !.stage = "over", !.row = r, !.lost = l]
  <2>1. new \in Deliveries /\ new.stage = "over" /\ new.attempts = d.attempts /\ new.lost = l
        /\ new.received = d.received /\ new.delivered = d.delivered /\ new.row = r
    BY <1>1 DEF Deliveries, Notify!Stages
  <2> HIDE DEF new, d
  <2>2. Paced(new, alert[a])
    BY <1>1, <2>1 DEF Paced
  <2>3. Accounted(new, alert[a])
    BY <1>1, <1>3, <2>1 DEF Accounted
  <2> QED
    BY <1>2, <1>3, <2>1, <2>2, <2>3, OneDelivery DEF new, d
<1>4. d.row = "none" /\ d.lost \in BOOLEAN /\ {"none", "success", "failed"} = Notify!Rows
  BY <1>1 DEF Deliveries, Notify!Rows
<1>5. CASE delivery' = [delivery EXCEPT ![a][c] = [d EXCEPT !.stage = "over",
                                              !.row = IF d.delivered THEN "success" ELSE "failed"]]
  <2>1. [d EXCEPT !.stage = "over", !.row = IF d.delivered THEN "success" ELSE "failed"]
          = [d EXCEPT !.stage = "over", !.row = IF d.delivered THEN "success" ELSE "failed", !.lost = d.lost]
    BY <1>1 DEF Deliveries
  <2> QED
    BY <1>3, <1>4, <1>5, <2>1
<1>6. CASE ~Notify!Alive(a) /\ delivery' = [delivery EXCEPT ![a][c] = [d EXCEPT !.stage = "over"]]
  <2>1. [d EXCEPT !.stage = "over"] = [d EXCEPT !.stage = "over", !.row = "none", !.lost = d.lost]
    BY <1>1 DEF Deliveries
  <2> QED
    BY <1>3, <1>4, <1>6, <2>1 DEF Notify!Alive
<1>7. CASE delivery' = [delivery EXCEPT ![a][c] = [d EXCEPT !.stage = "over", !.lost = TRUE]]
  <2>1. [d EXCEPT !.stage = "over", !.lost = TRUE] = [d EXCEPT !.stage = "over", !.row = "none", !.lost = TRUE]
    BY <1>1 DEF Deliveries
  <2> QED
    BY <1>3, <1>4, <1>7, <2>1
<1> QED
  BY <1>5, <1>6, <1>7 DEF Notify!RecordDelivery, Notify!Step

\* An alert is raised with a fresh goroutine for each chosen channel.
LEMMA RaisedFresh ==
  ASSUME NotifyInv, NEW a \in Alerts, NEW kind \in Notify!Kinds, NEW byRequest \in BOOLEAN,
         NEW chosen, Notify!Raise(a, kind, byRequest), Notify!Dispatch(a, chosen),
         Notify!Fault \/ Notify!Works, UNCHANGED <<channel, routes, toggles>>
  PROVE  NotifyInv'
<1> DEFINE new == [kind |-> kind, byRequest |-> byRequest, ended |-> FALSE]
           fresh == [c \in Channels |-> IF c \in chosen THEN [Notify!Idle EXCEPT !.stage = "posting"]
                                                        ELSE Notify!Idle]
<1>1. new \in Raised /\ ~new.ended
  BY DEF Raised
<1>2. alert' = [alert EXCEPT ![a] = new] /\ delivery' = [delivery EXCEPT ![a] = fresh]
  BY DEF Notify!Raise, Notify!Dispatch
<1> HIDE DEF new
<1>3. fresh \in [Channels -> Deliveries]
      /\ \A c \in Channels : Paced(fresh[c], new) /\ Accounted(fresh[c], new)
  BY <1>1, IdleFits
<1> HIDE DEF fresh
<1>4. alert' \in [Alerts -> Raised] /\ delivery' \in [Alerts -> [Channels -> Deliveries]]
  BY <1>1, <1>2, <1>3, NotifyTyped DEF NotifyInv
<1>5. Notify!TypeOK'
  BY <1>4, NotifyTyped, FaultTyped DEF NotifyInv, Notify!TypeOK, Raised, Deliveries
<1>6. ASSUME NEW b \in Alerts PROVE alert'[b].ended => alert'[b].byRequest
  BY <1>1, <1>2, NotifyTyped DEF NotifyInv
<1>7. ASSUME NEW b \in Alerts, NEW c \in Channels
      PROVE  Paced(delivery'[b][c], alert'[b]) /\ Accounted(delivery'[b][c], alert'[b])
  <2>1. CASE b = a
    BY <1>2, <1>3, <2>1, NotifyTyped DEF NotifyInv
  <2>2. CASE b # a
    BY <1>2, <2>2, NotifyTyped DEF NotifyInv
  <2> QED
    BY <2>1, <2>2
<1> QED
  BY <1>5, <1>6, <1>7 DEF NotifyInv

LEMMA EmitKeeps ==
  ASSUME NotifyInv, NEW a \in Alerts, Notify!Emit(a) \/ Notify!EmitTest(a) PROVE NotifyInv'
<1>1. CASE Notify!Emit(a)
  <2>1. PICK kind \in Notify!Kinds, byRequest \in BOOLEAN : Notify!Raise(a, kind, byRequest)
    BY <1>1 DEF Notify!Emit, Notify!Kinds
  <2>2. PICK chosen : Notify!Dispatch(a, chosen) /\ (Notify!Fault \/ Notify!Works)
    BY <1>1 DEF Notify!Emit
  <2> QED
    BY <1>1, <2>1, <2>2, RaisedFresh DEF Notify!Emit
<1>2. CASE Notify!EmitTest(a)
  <2>1. Notify!Raise(a, "test", TRUE) /\ "test" \in Notify!Kinds
    BY <1>2 DEF Notify!EmitTest, Notify!Kinds
  <2>2. PICK c \in Channels : Notify!Dispatch(a, {c})
    BY <1>2 DEF Notify!EmitTest
  <2> QED
    BY <1>2, <2>1, <2>2, RaisedFresh DEF Notify!EmitTest
<1> QED
  BY <1>1, <1>2

\* An end of the context changes no kind, and a delivery that is accounted for stays so.
LEMMA EndKeeps ==
  ASSUME NotifyInv, NEW a \in Alerts, Notify!EndRequest(a) PROVE NotifyInv'
<1> DEFINE new == [alert[a] EXCEPT !.ended = TRUE]
<1>1. alert[a] \in Raised /\ alert[a].byRequest /\ alert' = [alert EXCEPT ![a] = new]
  BY NotifyTyped DEF NotifyInv, Notify!EndRequest
<1>2. new \in Raised /\ new.kind = alert[a].kind /\ new.byRequest /\ new.ended
  BY <1>1 DEF Raised
<1>3. UNCHANGED <<channel, routes, delivery, toggles, faults>>
  BY DEF Notify!EndRequest
<1> HIDE DEF new
<1>4. Notify!TypeOK'
  BY <1>1, <1>2, <1>3 DEF NotifyInv, Notify!TypeOK, Raised
<1>5. \A b \in Alerts : b # a => alert'[b] = alert[b]
  BY <1>1, NotifyTyped DEF NotifyInv
<1>6. alert'[a] = new
  BY <1>1, NotifyTyped DEF NotifyInv
<1>7. ASSUME NEW b \in Alerts, NEW c \in Channels
      PROVE  Paced(delivery'[b][c], alert'[b]) /\ Accounted(delivery'[b][c], alert'[b])
  <2>1. CASE b = a
    <3>1. Paced(delivery[a][c], alert[a]) /\ Accounted(delivery[a][c], alert[a])
      BY DEF NotifyInv
    <3>2. Attempts(new) = Attempts(alert[a])
      BY <1>2 DEF Attempts
    <3> QED
      BY <1>1, <1>2, <1>3, <1>6, <2>1, <3>1, <3>2 DEF Paced, Accounted
  <2>2. CASE b # a
    BY <1>3, <1>5, <2>2 DEF NotifyInv
  <2> QED
    BY <2>1, <2>2
<1>8. \A b \in Alerts : alert'[b].ended => alert'[b].byRequest
  BY <1>2, <1>5, <1>6 DEF NotifyInv
<1> QED
  BY <1>4, <1>7, <1>8 DEF NotifyInv

LEMMA ExitKeeps == ASSUME NotifyInv, Notify!Exit PROVE NotifyInv'
<1> DEFINE lostOf(d) == IF d.stage \in {"none", "over"} THEN d ELSE [d EXCEPT !.stage = "over", !.lost = TRUE]
<1>1. /\ delivery' = [a \in Alerts |-> [c \in Channels |-> lostOf(delivery[a][c])]]
      /\ alert' = [a \in Alerts |-> [alert[a] EXCEPT !.ended = alert[a].byRequest]]
      /\ UNCHANGED <<channel, routes, toggles>> /\ faults' \in 0..MaxFaults
  BY FaultTyped DEF Notify!Exit
<1>2. ASSUME NEW d \in Deliveries
      PROVE  /\ lostOf(d) \in Deliveries /\ lostOf(d).stage \in {"none", "over"}
             /\ lostOf(d).received = d.received /\ lostOf(d).attempts = d.attempts
             /\ lostOf(d).row = d.row /\ lostOf(d).delivered = d.delivered
             /\ d.stage \in {"none", "over"} => lostOf(d) = d
             /\ d.stage \notin {"none", "over"} => lostOf(d).lost
  BY DEF Deliveries, Notify!Stages
<1> HIDE DEF lostOf
<1>3. alert \in [Alerts -> Raised] /\ delivery \in [Alerts -> [Channels -> Deliveries]]
  BY NotifyTyped DEF NotifyInv
<1>4. ASSUME NEW a \in Alerts
      PROVE  /\ alert'[a] \in Raised /\ alert'[a].kind = alert[a].kind
             /\ alert'[a].byRequest = alert[a].byRequest /\ alert'[a].ended = alert[a].byRequest
  BY <1>1, <1>3 DEF Raised
<1>5. ASSUME NEW a \in Alerts, NEW c \in Channels PROVE delivery'[a][c] = lostOf(delivery[a][c])
  BY <1>1
<1>6. alert' \in [Alerts -> Raised] /\ delivery' \in [Alerts -> [Channels -> Deliveries]]
  <2>1. alert' \in [Alerts -> Raised]
    BY <1>1, <1>4
  <2>2. \A a \in Alerts, c \in Channels : lostOf(delivery[a][c]) \in Deliveries
    BY <1>2, <1>3
  <2>3. \A a \in Alerts : [c \in Channels |-> lostOf(delivery[a][c])] \in [Channels -> Deliveries]
    BY <2>2
  <2> QED
    BY <1>1, <2>1, <2>3
<1>7. Notify!TypeOK'
  BY <1>1, <1>6 DEF NotifyInv, Notify!TypeOK, Raised, Deliveries
<1>8. ASSUME NEW a \in Alerts, NEW c \in Channels
      PROVE  Paced(delivery'[a][c], alert'[a]) /\ Accounted(delivery'[a][c], alert'[a])
  <2> DEFINE d == delivery[a][c]
             e == delivery'[a][c]
  <2>1. /\ d \in Deliveries /\ Paced(d, alert[a]) /\ Accounted(d, alert[a])
        /\ alert[a].ended => alert[a].byRequest
    BY <1>3 DEF NotifyInv
  <2>2. /\ e.stage \in {"none", "over"} /\ e.row = d.row
        /\ e.received = d.received /\ e.attempts = d.attempts /\ e.delivered = d.delivered
        /\ d.stage \in {"none", "over"} => e = d
        /\ d.stage \notin {"none", "over"} => e.lost
    BY <1>2, <1>5, <2>1
  <2>3. Attempts(alert'[a]) = Attempts(alert[a])
    BY <1>4 DEF Attempts
  <2>4. d.stage \in Notify!Stages
    BY <2>1 DEF Deliveries
  <2> HIDE DEF d, e
  <2>5. Paced(e, alert'[a])
    BY <2>1, <2>2 DEF Paced
  <2>6. Accounted(e, alert'[a])
    <3>1. CASE d.stage \in {"none", "over"}
      BY <1>4, <2>1, <2>2, <2>3, <3>1 DEF Accounted
    <3>2. CASE d.stage \notin {"none", "over"}
      <4>1. e.row = "none" /\ e.lost
        BY <2>1, <2>2, <2>4, <3>2 DEF Paced, Notify!Stages
      <4> QED
        BY <4>1 DEF Accounted
    <3> QED
      BY <3>1, <3>2
  <2> QED
    BY <2>5, <2>6 DEF d, e
<1>9. \A a \in Alerts : alert'[a].ended => alert'[a].byRequest
  BY <1>4
<1> QED
  BY <1>7, <1>8, <1>9 DEF NotifyInv

LEMMA PageKeeps ==
  ASSUME NotifyInv, NEW c \in Channels,
         Notify!SetChannelEnabled(c) \/ Notify!SetChannelAgentNotify(c) \/ Notify!DeleteChannel(c)
  PROVE  NotifyInv'
<1> DEFINE Row == [exists : BOOLEAN, enabled : BOOLEAN, agentNotify : BOOLEAN]
<1>1. UNCHANGED <<alert, delivery, faults>>
  BY DEF Notify!SetChannelEnabled, Notify!SetChannelAgentNotify, Notify!DeleteChannel, Notify!deliveryVars
<1>2. toggles' \in 0..MaxToggles /\ routes' \subseteq Channels
  BY NotifyAssumption
  DEF NotifyInv, Notify!TypeOK, Notify!SetChannelEnabled, Notify!SetChannelAgentNotify,
      Notify!DeleteChannel, Notify!Toggled
<1>3. channel \in [Channels -> Row]
  BY DEF NotifyInv, Notify!TypeOK
<1>4. channel' \in [Channels -> Row]
  <2>1. CASE Notify!SetChannelEnabled(c)
    BY <1>3, <2>1 DEF Notify!SetChannelEnabled
  <2>2. CASE Notify!SetChannelAgentNotify(c)
    BY <1>3, <2>2 DEF Notify!SetChannelAgentNotify
  <2>3. CASE Notify!DeleteChannel(c)
    BY <1>3, <2>3 DEF Notify!DeleteChannel
  <2> QED
    BY <2>1, <2>2, <2>3
<1>5. Notify!TypeOK'
  BY <1>1, <1>2, <1>4 DEF NotifyInv, Notify!TypeOK
<1> QED
  BY <1>1, <1>5 DEF NotifyInv

LEMMA NotifyInductive == ASSUME NotifyInv, [Notify!Next]_notifierVars PROVE NotifyInv'
<1>1. CASE UNCHANGED notifierVars
  BY <1>1 DEF notifierVars, NotifyInv, Notify!TypeOK
<1>2. CASE Notify!Next
  BY <1>2, EmitKeeps, EndKeeps, PostKeeps, WaitKeeps, RecordKeeps, PageKeeps, ExitKeeps
  DEF Notify!Next, Notify!Delivering
<1> QED
  BY <1>1, <1>2

\* What a delivery record says is what happened to the delivery: a "success" was
\* received, a "failed" one used its attempts or lost its context, and one without a
\* record lost its context, the process or the write (recordDelivery in notifier.go).
THEOREM DeliveryCorrect == Spec => []DeliveryIsAccounted
<1>1. NotifyInv => DeliveryIsAccounted
  BY DEF NotifyInv, DeliveryIsAccounted, Notify!DeliveryIsAccounted, Accounted, Attempts, Notify!Tries
<1>2. NotifyInv /\ [Next]_<<part, vars>> => NotifyInv'
  BY NotifyAlone, NotifyInductive
<1> QED
  BY <1>1, <1>2, NotifyStart, PTL DEF Spec

-----------------------------------------------------------------------------
(* The push monitor.                                                       *)

LEMMA PushAlone == [Next]_<<part, vars>> => [Push!Next]_pushVars
  BY DEF Next, vars, PushStep, NotifyStep, EnrollStep, AdminStep, TransferStep, KumaStep, ProbesStep,
     FeedStep, Others4, Others8, pushVars

LEMMA MinTwo ==
  ASSUME NEW a \in Int, NEW b \in Int
  PROVE  Push!Min({a, b}) = IF a <= b THEN a ELSE b
<1>1. PICK m \in {a, b} : m = (IF a <= b THEN a ELSE b) /\ \A y \in {a, b} : m <= y
  OBVIOUS
<1>2. \A x \in {a, b} : (\A y \in {a, b} : x <= y) => x = m
  BY <1>1
<1> QED
  BY <1>1, <1>2 DEF Push!Min

\* Ages and excuses, as far as they count.
LEMMA AlarmType == Push!Alarm \in Nat \ {0} /\ Push!Alarm = Period * Consecutive
<1>1. Period \in Nat /\ Consecutive \in Nat /\ Period >= 1 /\ Consecutive >= 1
  BY PushAssumption
<1>2. Period * Consecutive \in Nat
  BY <1>1
<1>3. Period * Consecutive >= 1
  BY <1>1, Z3
<1> QED
  BY <1>2, <1>3 DEF Push!Alarm

LEMMA OlderType ==
  ASSUME NEW a \in Nat, NEW cap \in Nat
  PROVE  Push!Older(a, cap) = IF a + 1 <= cap THEN a + 1 ELSE cap
  BY MinTwo DEF Push!Older

LEMMA ExcuseType ==
  ASSUME NEW k \in Nat PROVE Push!Excuse(k) = IF k <= Consecutive THEN k ELSE Consecutive
  BY MinTwo, PushAssumption DEF Push!Excuse

\* The end of a thread's flight.
LEMMA LeaveType ==
  ASSUME Push!TypeOK, NEW t \in Push!Threads, NEW f \in Push!Flights, Push!Leave(t, f)
  PROVE  /\ pc' \in [Push!Threads -> Push!Stages] /\ flight' \in [Push!Threads -> Push!Flights]
         /\ pc' = [pc EXCEPT ![t] = IF t = Watchdog THEN "scan" ELSE "idle"]
         /\ \/ flight' = [flight EXCEPT ![Push!Flight(t)] = f]
            \/ flight' = [flight EXCEPT ![Push!Flight(t)] = Push!NoFlight]
<1>1. Push!Flight(t) \in Push!Threads
  BY DEF Push!Flight, Push!TypeOK, Push!Threads
<1>2. Push!NoFlight \in Push!Flights
  <2>1. 0 \in 0..Push!Alarm /\ 0 \in 0..Consecutive
    BY AlarmType, PushAssumption
  <2> QED
    BY <2>1 DEF Push!NoFlight, Push!Flights, Push!Fresh
<1>3. pc' \in [Push!Threads -> Push!Stages]
      /\ pc' = [pc EXCEPT ![t] = IF t = Watchdog THEN "scan" ELSE "idle"]
  BY DEF Push!Leave, Push!Goto, Push!TypeOK, Push!Stages
<1>4. flight' = [flight EXCEPT ![Push!Flight(t)] = IF Push!OthersHave(t) THEN f ELSE Push!NoFlight]
  BY DEF Push!Leave
<1>5. \/ flight' = [flight EXCEPT ![Push!Flight(t)] = f]
      \/ flight' = [flight EXCEPT ![Push!Flight(t)] = Push!NoFlight]
  BY <1>4
<1> QED
  BY <1>1, <1>2, <1>3, <1>5 DEF Push!TypeOK

LEMMA NoFlightType == Push!NoFlight \in Push!Flights
<1>1. 0 \in 0..Push!Alarm /\ 0 \in 0..Consecutive
  BY AlarmType, PushAssumption
<1> QED
  BY <1>1 DEF Push!NoFlight, Push!Flights, Push!Fresh

LEMMA GotoType ==
  ASSUME Push!TypeOK, NEW t \in Push!Threads, NEW stage \in Push!Stages, Push!Goto(t, stage)
  PROVE  pc' \in [Push!Threads -> Push!Stages] /\ pc' = [pc EXCEPT ![t] = stage]
  BY DEF Push!Goto, Push!TypeOK

LEMMA UpsetType == ASSUME Push!TypeOK, Push!Upset \/ Push!Works PROVE upsets' \in 0..MaxUpsets
  BY PushAssumption DEF Push!TypeOK, Push!Upset, Push!Works

\* The row and the ages, and what the threads do, of Push!TypeOK.
AlertRows == [alert : {"UP", "DOWN"}, cons : 0..Consecutive]
RowTyped ==
  /\ enabled \in BOOLEAN /\ state \in AlertRows
  /\ pausing \in [stage : {"none", "read", "write"}, saw : AlertRows]
  /\ quiet \in 0..Push!Alarm /\ calm \in 0..Push!Alarm /\ slot \in 0..Period
  /\ excuses \in 0..Consecutive /\ upsets \in 0..MaxUpsets
ThreadsTyped ==
  /\ pc \in [Push!Threads -> Push!Stages] /\ flight \in [Push!Threads -> Push!Flights]
  /\ on \in Push!Threads /\ base \in 0..Period /\ todo \subseteq Reports

LEMMA PushTyped == Push!TypeOK <=> RowTyped /\ ThreadsTyped
  BY DEF Push!TypeOK, RowTyped, ThreadsTyped, AlertRows

LEMMA PushStart == Init => Push!TypeOK
<1> SUFFICES ASSUME Init PROVE Push!TypeOK
  OBVIOUS
<1>1. Push!Init
  BY DEF Init
<1>2. RowTyped
  BY <1>1, AlarmType, PushAssumption DEF Push!Init, Push!Fresh, Push!NoPause, RowTyped, AlertRows
<1>3. ThreadsTyped
  BY <1>1, AlarmType, NoFlightType, PushAssumption DEF Push!Init, ThreadsTyped, Push!Stages, Push!Threads
<1> QED
  BY <1>2, <1>3, PushTyped

LEMMA NextType ==
  ASSUME NEW f \in Push!Flights PROVE Push!NextState(f) \in AlertRows
<1> DEFINE next == Push!Apply(f.saw, f.agg, Consecutive)
<1>1. f.saw \in AlertRows
  BY DEF Push!Flights, AlertRows
<1>2. next.alert \in {"UP", "DOWN"} /\ next.cons \in Nat /\ next = [alert |-> next.alert, cons |-> next.cons]
  BY <1>1, PushAssumption DEF Push!Apply, Push!Fresh, AlertRows
<1>3. Push!NextState(f) = [next EXCEPT !.cons = Push!Min({next.cons, Consecutive})]
  BY DEF Push!NextState
<1> HIDE DEF next
<1>4. Push!Min({next.cons, Consecutive}) \in 0..Consecutive
  BY <1>2, MinTwo, PushAssumption
<1> QED
  BY <1>2, <1>3, <1>4 DEF AlertRows

\* The row and the ages keep their types.
LEMMA PushRow == ASSUME Push!TypeOK, Push!Next PROVE RowTyped'
<1> USE DEF RowTyped
<1>1. RowTyped
  BY PushTyped
<1>2. upsets' \in 0..MaxUpsets
  BY UpsetType
  DEF Push!Next, Push!Cycle, Push!Request, Push!PushRound, Push!Receive, Push!RecordPushReport,
      Push!BeginCycle, Push!Plan, Push!ListFlights, Push!PickFlight, Push!InsertRound, Push!AddResult,
      Push!CloseFlight, Push!CloseRound, Push!ReadState, Push!WriteState, Push!Pause, Push!PauseRead, Push!PauseWrite, Push!Kick,
      Push!Crash, Push!Second, Push!Works
<1>3. ASSUME NEW p \in Reports, Push!Receive(p) PROVE RowTyped'
  BY <1>1, <1>2, <1>3 DEF Push!Receive, Push!row, Push!ages
<1>4. ASSUME NEW p \in Reports, Push!RecordPushReport(p) PROVE RowTyped'
  <2>1. flight[p].age \in 0..Push!Alarm
    BY DEF Push!TypeOK, Push!Threads, Push!Flights
  <2>2. quiet' \in 0..Push!Alarm
    BY <1>1, <1>4, <2>1 DEF Push!RecordPushReport
  <2>3. Push!Excuse(excuses + 1) \in 0..Consecutive
    BY <1>1, ExcuseType, PushAssumption
  <2>4. excuses' \in 0..Consecutive
    BY <1>1, <1>4, <2>3 DEF Push!RecordPushReport
  <2> QED
    BY <1>1, <1>2, <1>4, <2>2, <2>4 DEF Push!RecordPushReport, Push!row
<1>5. CASE Push!BeginCycle \/ Push!ListFlights \/ Push!PickFlight
  BY <1>1, <1>2, <1>5 DEF Push!BeginCycle, Push!ListFlights, Push!PickFlight, Push!row, Push!ages
<1>6. CASE Push!Plan
  BY <1>1, <1>2, <1>6, PushAssumption DEF Push!Plan, Push!row
<1>7. ASSUME NEW t \in Push!Threads, Push!PushRound(t) PROVE RowTyped'
  <2>1. CASE Push!InsertRound(t) \/ Push!AddResult(t) \/ Push!CloseFlight(t) \/ Push!CloseRound(t)
    BY <1>1, <1>2, <2>1
    DEF Push!InsertRound, Push!AddResult, Push!CloseFlight, Push!CloseRound, Push!row, Push!ages
  <2>2. CASE Push!ReadState(t)
    BY <1>1, <1>2, <2>2 DEF Push!ReadState, Push!row, Push!ages
  <2>3. CASE Push!WriteState(t)
    <3> DEFINE f == flight[Push!Flight(t)]
    <3>0. f \in Push!Flights
      BY DEF Push!TypeOK, Push!Flight, Push!Threads
    <3>1. f.age \in 0..Push!Alarm
      BY <3>0 DEF Push!Flights
    <3>2. Push!NextState(f) \in AlertRows
      BY <3>0, NextType
    <3>3. state' \in AlertRows
      BY <1>1, <2>3, <3>2 DEF Push!WriteState
    <3>6. calm' \in 0..Push!Alarm
      <4>1. PICK a, b, top : a = calm /\ b = f.age /\ top = Push!Alarm
        OBVIOUS
      <4>2. a \in 0..top /\ b \in 0..top
        BY <1>1, <3>1, <4>1
      <4>3. top \in Nat
        BY <4>1, AlarmType
      <4>4. Push!Min({a, b}) = IF a <= b THEN a ELSE b
        BY <4>2, <4>3, MinTwo
      <4>5. Push!Min({a, b}) \in 0..top
        BY <4>2, <4>4
      <4>6. Push!Min({calm, f.age}) \in 0..Push!Alarm
        BY <4>1, <4>5
      <4> QED
        BY <1>1, <2>3, <4>6 DEF Push!WriteState
    <3>7. /\ \A P, Q : Push!Excuse(Push!Count(P) + Push!Count(Q)) \in 0..Consecutive
          /\ \A P : Push!Excuse(excuses + Push!Count(P)) \in 0..Consecutive
          /\ Consecutive \in 0..Consecutive
      BY <1>1, ExcuseType, PushAssumption DEF Push!Count
    <3>8. excuses' \in 0..Consecutive
      BY <1>1, <2>3, <3>7 DEF Push!WriteState
    <3> QED
      BY <1>1, <1>2, <2>3, <3>3, <3>6, <3>8 DEF Push!WriteState
  <2> QED
    BY <1>7, <2>1, <2>2, <2>3 DEF Push!PushRound
<1>8. CASE Push!Pause \/ Push!PauseRead \/ Push!PauseWrite
  <2>1. Push!NoPause \in [stage : {"none", "read", "write"}, saw : AlertRows]
    BY PushAssumption DEF Push!NoPause, Push!Fresh, AlertRows
  <2>2. CASE Push!Pause
    BY <1>1, <1>2, <2>2 DEF Push!Pause, Push!ages
  <2>3. CASE Push!PauseRead
    BY <1>1, <1>2, <2>1, <2>3 DEF Push!PauseRead, Push!row, Push!ages
  <2>4. CASE Push!PauseWrite
    <3>1. [pausing.saw EXCEPT !.cons = 0] \in AlertRows /\ Consecutive \in 0..Consecutive
      BY <1>1, PushAssumption DEF AlertRows
    <3>2. state' \in AlertRows /\ excuses' \in 0..Consecutive
      BY <1>1, <2>4, <3>1 DEF Push!PauseWrite
    <3> QED
      BY <1>1, <1>2, <2>1, <2>4, <3>2 DEF Push!PauseWrite, Push!ages
  <2> QED
    BY <1>8, <2>2, <2>3, <2>4
<1>9. CASE Push!Kick \/ Push!Crash
  <2>1. Push!Excuse(excuses + 1) \in 0..Consecutive
    BY <1>1, ExcuseType, PushAssumption
  <2>2. slot' \in 0..Period /\ excuses' \in 0..Consecutive
    BY <1>9, <2>1, PushAssumption DEF Push!Kick, Push!Crash
  <2>3. enabled' \in BOOLEAN /\ UNCHANGED <<state, quiet, calm>>
    BY <1>1, <1>9 DEF Push!Kick, Push!Crash, Push!row
  <2>4. pausing' \in [stage : {"none", "read", "write"}, saw : AlertRows]
    BY <1>1, <1>9, PushAssumption DEF Push!Kick, Push!Crash, Push!NoPause, Push!Fresh, AlertRows
  <2> QED
    BY <1>1, <1>2, <2>2, <2>3, <2>4
<1>10. CASE Push!Second
  <2>1. quiet' \in 0..Push!Alarm /\ calm' \in 0..Push!Alarm
    BY <1>1, <1>10, OlderType, AlarmType DEF Push!Second
  <2>2. slot' \in 0..Period
    BY <1>1, <1>10, OlderType, PushAssumption DEF Push!Second
  <2> QED
    BY <1>1, <1>2, <1>10, <2>1, <2>2 DEF Push!Second, Push!row
<1> QED
  BY <1>3, <1>4, <1>5, <1>6, <1>7, <1>8, <1>9, <1>10
  DEF Push!Next, Push!Cycle, Push!Request, Push!Threads

\* The threads and their flights keep their types.
LEMMA PushThreads == ASSUME Push!TypeOK, Push!Next PROVE ThreadsTyped'
<1> USE DEF ThreadsTyped
<1>1. ThreadsTyped /\ quiet \in 0..Push!Alarm
  BY PushTyped DEF RowTyped
<1>2. \A p \in Reports : p \in Push!Threads
  BY DEF Push!Threads
<1>3. Watchdog \in Push!Threads /\ 0 \in 0..Push!Alarm /\ 0 \in 0..Period
  BY AlarmType, PushAssumption DEF Push!Threads
<1>4. ASSUME NEW p \in Reports, Push!Receive(p) PROVE ThreadsTyped'
  <2>1. pc' \in [Push!Threads -> Push!Stages]
    BY <1>2, <1>4, GotoType DEF Push!Receive, Push!Stages
  <2>2. \A v \in {"good", "bad"} : [Push!NoFlight EXCEPT !.verdict = v] \in Push!Flights
    BY NoFlightType DEF Push!Flights
  <2>3. flight' \in [Push!Threads -> Push!Flights]
    BY <1>1, <1>4, <2>2 DEF Push!Receive
  <2> QED
    BY <1>1, <1>4, <2>1, <2>3 DEF Push!Receive, Push!cycleVars
<1>5. ASSUME NEW p \in Reports, Push!RecordPushReport(p) PROVE ThreadsTyped'
  <2>1. pc' \in [Push!Threads -> Push!Stages]
    BY <1>2, <1>5, GotoType DEF Push!RecordPushReport, Push!Stages
  <2> QED
    BY <1>1, <1>5, <2>1 DEF Push!RecordPushReport, Push!cycleVars
<1>6. CASE Push!BeginCycle
  <2>1. pc' \in [Push!Threads -> Push!Stages]
    BY <1>1, <1>3, <1>6, GotoType DEF Push!BeginCycle, Push!Stages
  <2>2. \A f \in Push!Flights, b \in BOOLEAN : [f EXCEPT !.due = b] \in Push!Flights
    BY DEF Push!Flights
  <2>3. flight' = [p \in Push!Threads |-> [flight[p] EXCEPT !.due = p # Watchdog /\ (@ \/ pc[p] # "idle")]]
    BY <1>6 DEF Push!BeginCycle
  <2>4. flight' \in [Push!Threads -> Push!Flights]
    BY <1>1, <2>2, <2>3
  <2>5. Push!Min({quiet, Period}) \in 0..Period
    <3>1. quiet \in Nat /\ Period \in Nat
      BY <1>1, AlarmType, PushAssumption
    <3> QED
      BY <3>1, MinTwo
  <2> QED
    BY <1>1, <1>6, <2>1, <2>4, <2>5 DEF Push!BeginCycle
<1>7. CASE Push!Plan
  <2>1. pc' \in [Push!Threads -> Push!Stages]
    BY <1>3, <1>7, GotoType DEF Push!Plan, Push!Stages
  <2> QED
    BY <1>1, <1>3, <1>7, <2>1 DEF Push!Plan
<1>8. ASSUME NEW rest \in SUBSET Reports, Push!EndCycle \/ Push!TakeNext(rest)
      PROVE  /\ pc' \in [Push!Threads -> Push!Stages] /\ on' \in Push!Threads
             /\ base' \in 0..Period /\ todo' \subseteq Reports
  <2>1. CASE Push!EndCycle
    <3>1. pc' \in [Push!Threads -> Push!Stages]
      BY <1>3, <2>1, GotoType DEF Push!EndCycle, Push!Stages
    <3> QED
      BY <1>1, <1>3, <2>1, <3>1 DEF Push!EndCycle
  <2>2. CASE Push!TakeNext(rest)
    BY <1>1, <1>2, <2>2 DEF Push!TakeNext
  <2> QED
    BY <1>8, <2>1, <2>2
<1>9. CASE Push!ListFlights
  <2>1. {p \in Reports : flight[p].listed} \in SUBSET Reports
    OBVIOUS
  <2>2. Push!EndCycle \/ Push!TakeNext({p \in Reports : flight[p].listed})
    BY <1>9 DEF Push!ListFlights
  <2> QED
    BY <1>1, <1>8, <1>9, <2>1, <2>2 DEF Push!ListFlights
<1>10. CASE Push!PickFlight
  <2>1. /\ pc' \in [Push!Threads -> Push!Stages] /\ on' \in Push!Threads
        /\ base' \in 0..Period /\ todo' \subseteq Reports
    <3>1. CASE Push!Goto(Watchdog, "close") /\ UNCHANGED Push!cycleVars
      <4>1. pc' \in [Push!Threads -> Push!Stages]
        BY <1>3, <3>1, GotoType DEF Push!Stages
      <4> QED
        BY <1>1, <3>1, <4>1 DEF Push!cycleVars
    <3>2. CASE Push!EndCycle \/ Push!TakeNext(todo)
      BY <1>1, <1>8, <3>2
    <3> QED
      BY <1>10, <3>1, <3>2 DEF Push!PickFlight
  <2>2. flight' \in [Push!Threads -> Push!Flights]
    BY <1>1, <1>10, NoFlightType DEF Push!PickFlight
  <2> QED
    BY <2>1, <2>2
<1>11. ASSUME NEW t \in Push!Threads, Push!PushRound(t) PROVE ThreadsTyped'
  <2>1. Push!Flight(t) \in Push!Threads
    BY <1>1, <1>11 DEF Push!Flight
  <2>2. on' = on /\ base' = base /\ todo' = todo
    BY <1>11
    DEF Push!PushRound, Push!InsertRound, Push!AddResult, Push!CloseFlight, Push!CloseRound,
        Push!ReadState, Push!WriteState, Push!cycleVars
  <2>3. CASE Push!InsertRound(t)
    <3>1. CASE Push!Goto(t, "add") /\ flight' = [flight EXCEPT ![t].stored = "OPEN", ![t].listed = TRUE]
      <4>1. pc' \in [Push!Threads -> Push!Stages]
        BY <3>1, GotoType DEF Push!Stages
      <4>2. flight' \in [Push!Threads -> Push!Flights]
        <5>1. PICK f, g : f = flight[t] /\ g = [[f EXCEPT !.stored = "OPEN"] EXCEPT !.listed = TRUE]
          OBVIOUS
        <5>2. g \in Push!Flights
          <6>1. f \in Push!Flights
            BY <1>1, <5>1
          <6> QED
            BY <5>1, <6>1 DEF Push!Flights
        <5>3. flight' = [flight EXCEPT ![t] = g]
          BY <3>1, <5>1
        <5> QED
          BY <1>1, <5>2, <5>3
      <4> QED
        BY <1>1, <2>2, <4>1, <4>2
    <3>2. CASE Push!Leave(t, Push!NoFlight)
      BY <1>1, <2>2, <3>2, LeaveType, NoFlightType
    <3> QED
      BY <2>3, <3>1, <3>2 DEF Push!InsertRound
  <2>4. CASE Push!AddResult(t)
    <3>1. CASE Push!Leave(t, flight[t])
      BY <1>1, <2>2, <3>1, LeaveType
    <3>2. CASE Push!Goto(t, "close") /\ flight' = [flight EXCEPT ![t].sample = Push!Verdict(t)]
      <4>1. pc' \in [Push!Threads -> Push!Stages]
        BY <3>2, GotoType DEF Push!Stages
      <4>2. Push!Verdict(t) \in {"good", "bad"}
        BY <1>1 DEF Push!Verdict, Push!Flights
      <4>3. flight' \in [Push!Threads -> Push!Flights]
        <5>1. PICK f, g : f = flight[t] /\ g = [f EXCEPT !.sample = Push!Verdict(t)]
          OBVIOUS
        <5>2. f \in Push!Flights
          BY <1>1, <5>1
        <5>3. g \in Push!Flights
          BY <4>2, <5>1, <5>2 DEF Push!Flights
        <5>4. flight' = [flight EXCEPT ![t] = g]
          BY <3>2, <5>1
        <5> QED
          BY <1>1, <5>3, <5>4
      <4> QED
        BY <1>1, <2>2, <4>1, <4>3
    <3> QED
      BY <2>4, <3>1, <3>2 DEF Push!AddResult
  <2>5. CASE Push!CloseFlight(t)
    <3> DEFINE f == flight[Push!Flight(t)]
               agg == IF f.agg # "none" THEN f.agg ELSE IF f.sample = "none" THEN "unknown" ELSE f.sample
    <3>1. pc' \in [Push!Threads -> Push!Stages]
      BY <2>5, GotoType DEF Push!CloseFlight, Push!Stages
    <3>2. f \in Push!Flights
      BY <1>1, <2>1
    <3>3. agg \in {"none", "unknown", "good", "bad"}
      BY <3>2 DEF Push!Flights
    <3>4. flight' = [flight EXCEPT ![Push!Flight(t)].listed = FALSE, ![Push!Flight(t)].agg = agg]
      BY <2>5 DEF Push!CloseFlight
    <3> HIDE DEF agg
    <3>5. flight' \in [Push!Threads -> Push!Flights]
      <4>1. PICK g : g = [f EXCEPT !.listed = FALSE]
        OBVIOUS
      <4>2. PICK h : h = [g EXCEPT !.agg = agg]
        OBVIOUS
      <4>3. g \in Push!Flights
        BY <3>2, <4>1 DEF Push!Flights
      <4>4. h \in Push!Flights
        BY <3>3, <4>2, <4>3 DEF Push!Flights
      <4>5. flight' = [flight EXCEPT ![Push!Flight(t)] = h]
        BY <1>1, <2>1, <3>4, <4>1, <4>2
      <4> QED
        BY <1>1, <2>1, <4>4, <4>5
    <3> QED
      BY <1>1, <2>2, <3>1, <3>5
  <2>6. CASE Push!CloseRound(t)
    <3>1. CASE Push!Goto(t, "read") /\ flight' = [flight EXCEPT ![Push!Flight(t)].stored = "decided"]
      <4>1. pc' \in [Push!Threads -> Push!Stages]
        BY <3>1, GotoType DEF Push!Stages
      <4>2. flight' \in [Push!Threads -> Push!Flights]
        BY <1>1, <2>1, <3>1 DEF Push!Flights
      <4> QED
        BY <1>1, <2>2, <4>1, <4>2
    <3>2. CASE Push!Leave(t, flight[Push!Flight(t)])
      BY <1>1, <2>1, <2>2, <3>2, LeaveType
    <3> QED
      BY <2>6, <3>1, <3>2 DEF Push!CloseRound
  <2>7. CASE Push!ReadState(t)
    <3>1. CASE Push!Goto(t, "write") /\ flight' = [flight EXCEPT ![Push!Flight(t)].saw = state]
      <4>1. pc' \in [Push!Threads -> Push!Stages]
        BY <3>1, GotoType DEF Push!Stages
      <4>2. state \in [alert : {"UP", "DOWN"}, cons : 0..Consecutive]
        BY DEF Push!TypeOK
      <4>3. flight' \in [Push!Threads -> Push!Flights]
        BY <1>1, <2>1, <3>1, <4>2 DEF Push!Flights
      <4> QED
        BY <1>1, <2>2, <4>1, <4>3
    <3>2. CASE Push!Leave(t, flight[Push!Flight(t)])
      BY <1>1, <2>1, <2>2, <3>2, LeaveType
    <3> QED
      BY <2>7, <3>1, <3>2 DEF Push!ReadState
  <2>8. CASE Push!WriteState(t)
    <3>1. Push!Leave(t, [flight[Push!Flight(t)] EXCEPT !.saw = Push!Fresh])
      BY <2>8 DEF Push!WriteState
    <3>2. [flight[Push!Flight(t)] EXCEPT !.saw = Push!Fresh] \in Push!Flights
      BY <1>1, <2>1, PushAssumption DEF Push!Flights, Push!Fresh
    <3> QED
      BY <1>1, <2>1, <2>2, <3>1, <3>2, LeaveType
  <2> QED
    BY <1>11, <2>3, <2>4, <2>5, <2>6, <2>7, <2>8 DEF Push!PushRound
<1>12. CASE Push!Pause \/ Push!PauseRead \/ Push!PauseWrite \/ Push!Kick
  BY <1>1, <1>12 DEF Push!Pause, Push!PauseRead, Push!PauseWrite, Push!Kick, Push!cycleVars
<1>13. CASE Push!Crash
  BY <1>3, <1>13, NoFlightType DEF Push!Crash, Push!Stages
<1>14. CASE Push!Second
  <2>1. \A f \in Push!Flights : [f EXCEPT !.age = Push!Older(@, Push!Alarm)] \in Push!Flights
    <3>1. \A a \in 0..Push!Alarm : Push!Older(a, Push!Alarm) \in 0..Push!Alarm
      BY OlderType, AlarmType
    <3> QED
      BY <3>1 DEF Push!Flights
  <2>2. flight' \in [Push!Threads -> Push!Flights]
    BY <1>1, <1>14, <2>1 DEF Push!Second
  <2> QED
    BY <1>1, <1>14, <2>2 DEF Push!Second, Push!cycleVars
<1> QED
  BY <1>2, <1>3, <1>4, <1>5, <1>6, <1>7, <1>9, <1>10, <1>11, <1>12, <1>13, <1>14
  DEF Push!Next, Push!Cycle, Push!Request

LEMMA PushTypeKept == ASSUME Push!TypeOK, [Push!Next]_pushVars PROVE Push!TypeOK'
<1>1. CASE Push!Next
  BY <1>1, PushRow, PushThreads DEF Push!TypeOK, RowTyped, ThreadsTyped, AlertRows
<1>2. CASE UNCHANGED pushVars
  BY <1>2 DEF Push!TypeOK, pushVars
<1> QED
  BY <1>1, <1>2

\* k rounds of silence, counted or under way, have been paid for by the silence since
\* the latest good report and by excuses, e of them; early excuses are left for
\* a round that comes too early. The slot is the part of the next round's price.
Owed(k, early, since, silence, e) ==
  \/ k + early <= e
  \/ Period * k + since <= silence + Period * e
  \/ silence = Push!Alarm \/ e = Consecutive

LEMMA Prices ==
  /\ Period \in Nat /\ Period >= 1 /\ Consecutive \in Nat /\ Consecutive >= 1
  /\ \A x \in Nat : Period * x \in Nat /\ Period * (x + 1) = Period * x + Period
  /\ \A x, y \in Nat : x <= y => Period * x <= Period * y
  /\ Push!Alarm = Period * Consecutive /\ Push!Alarm \in Nat
<1>1. Period \in Nat /\ Period >= 1 /\ Consecutive \in Nat /\ Consecutive >= 1
  BY PushAssumption
<1>2. ASSUME NEW x \in Nat PROVE Period * x \in Nat /\ Period * (x + 1) = Period * x + Period
  BY <1>1
<1>3. ASSUME NEW x \in Nat, NEW y \in Nat, x <= y PROVE Period * x <= Period * y
  <2>1. PICK z \in Nat : y = x + z
    <3>1. y - x \in Nat /\ y = x + (y - x)
      BY <1>3
    <3> QED
      BY <3>1
  <2>2. Period * y = Period * x + Period * z
    BY <1>1, <2>1
  <2> QED
    BY <1>2, <2>2
<1> QED
  BY <1>1, <1>2, <1>3, AlarmType

LEMMA OwedEnough ==
  ASSUME NEW k \in Nat, NEW r \in Nat, NEW s \in Nat, NEW c \in Nat, NEW e \in Nat,
         Owed(k, r, s, c, e), k >= Consecutive
  PROVE  c + Period * e >= Push!Alarm
<1>1. Period * k \in Nat /\ Period * e \in Nat /\ Period * Consecutive \in Nat
  BY Prices
<1>2. CASE k + r <= e \/ e = Consecutive
  <2>1. Consecutive <= e
    BY <1>2, Prices
  <2>2. Period * Consecutive <= Period * e
    BY <2>1, Prices
  <2> QED
    BY <1>1, <2>2, Prices
<1>3. CASE Period * k + s <= c + Period * e
  <2>1. Period * Consecutive <= Period * k
    BY Prices
  <2> QED
    BY <1>1, <1>3, <2>1, Prices
<1>4. CASE c = Push!Alarm
  BY <1>1, <1>4, Prices
<1> QED
  BY <1>2, <1>3, <1>4 DEF Owed

LEMMA OwedLess ==
  ASSUME NEW k \in Nat, NEW r \in Nat, NEW s \in Nat, NEW c \in Nat, NEW e \in Nat,
         Owed(k, r, s, c, e), NEW k2 \in Nat, NEW r2 \in Nat, k2 <= k, r2 <= r
  PROVE  Owed(k2, r2, s, c, e)
<1>1. Period * k2 <= Period * k /\ Period * k2 \in Nat /\ Period * k \in Nat /\ Period * e \in Nat
  BY Prices
<1>2. k + r <= e => k2 + r2 <= e
  OBVIOUS
<1>3. Period * k + s <= c + Period * e => Period * k2 + s <= c + Period * e
  BY <1>1
<1> QED
  BY <1>2, <1>3 DEF Owed

\* A silent round is planned: the slot pays for it, or the silence since the report
\* where there was no round before, or the excuse that was left for it.
LEMMA OwedPlan ==
  ASSUME NEW k \in Nat, NEW r \in Nat, NEW s \in Nat, NEW c \in Nat, NEW e \in Nat,
         Owed(k, r, s, c, e), s >= Period, r = 0 => c >= Period, NEW r2 \in Nat
  PROVE  Owed(k + 1, r2, 0, c, e)
<1>1. Period * k \in Nat /\ Period * e \in Nat /\ Period * (k + 1) = Period * k + Period
  BY Prices
<1>2. CASE k + r <= e
  <2>1. CASE r = 0
    <3>1. Period * k <= Period * e
      BY <1>2, <2>1, Prices
    <3> QED
      BY <1>1, <2>1, <3>1, Prices DEF Owed
  <2>2. CASE r # 0
    <3>1. Period * (k + 1) <= Period * e
      BY <1>2, <2>2, Prices
    <3> QED
      BY <1>1, <3>1, Prices DEF Owed
  <2> QED
    BY <2>1, <2>2
<1>3. CASE Period * k + s <= c + Period * e
  BY <1>1, <1>3, Prices DEF Owed
<1> QED
  BY <1>2, <1>3 DEF Owed

\* An excuse pays for one round, an early one too, or for a full slot.
LEMMA OwedExcuse ==
  ASSUME NEW k \in Nat, NEW r \in Nat, NEW s \in Nat, NEW c \in Nat, NEW e \in 0..Consecutive,
         Owed(k, r, s, c, e), NEW k2 \in Nat, NEW r2 \in Nat, NEW s2 \in Nat, k2 + r2 <= k + r + 1,
         (k2 <= k + 1 /\ s2 <= s) \/ (k2 <= k /\ s2 <= Period)
  PROVE  Owed(k2, r2, s2, c, Push!Excuse(e + 1))
<1>1. Push!Excuse(e + 1) = IF e + 1 <= Consecutive THEN e + 1 ELSE Consecutive
  BY ExcuseType
<1>2. CASE e = Consecutive
  BY <1>1, <1>2, Prices DEF Owed
<1>3. CASE e # Consecutive
  <2>1. Push!Excuse(e + 1) = e + 1
    BY <1>1, <1>3, Prices
  <2>2. /\ Period * e \in Nat /\ Period * (e + 1) = Period * e + Period
        /\ Period * k \in Nat /\ Period * (k + 1) = Period * k + Period /\ Period * k2 \in Nat
    BY Prices
  <2>3. CASE k + r <= e
    BY <2>1, <2>3 DEF Owed
  <2>4. CASE Period * k + s <= c + Period * e
    <3>1. CASE k2 <= k + 1 /\ s2 <= s
      <4>1. Period * k2 <= Period * (k + 1)
        BY <3>1, Prices
      <4> QED
        BY <2>1, <2>2, <2>4, <3>1, <4>1, Prices DEF Owed
    <3>2. CASE k2 <= k /\ s2 <= Period
      <4>1. Period * k2 <= Period * k
        BY <3>2, Prices
      <4> QED
        BY <2>1, <2>2, <2>4, <3>2, <4>1, Prices DEF Owed
    <3> QED
      BY <3>1, <3>2
  <2>5. CASE c = Push!Alarm
    BY <2>5 DEF Owed
  <2> QED
    BY <1>3, <2>3, <2>4, <2>5 DEF Owed
<1> QED
  BY <1>2, <1>3

LEMMA OwedTick ==
  ASSUME NEW k \in Nat, NEW r \in Nat, NEW s \in Nat, NEW c \in 0..Push!Alarm, NEW e \in Nat,
         Owed(k, r, s, c, e), NEW r2 \in Nat, r2 <= r
  PROVE  Owed(k, r2, Push!Older(s, Period), Push!Older(c, Push!Alarm), e)
<1>1. Period * k \in Nat /\ Period * e \in Nat /\ c \in Nat
  BY Prices
<1>2. /\ Push!Older(s, Period) \in Nat /\ Push!Older(s, Period) <= s + 1
      /\ Push!Older(c, Push!Alarm) = IF c + 1 <= Push!Alarm THEN c + 1 ELSE Push!Alarm
  BY OlderType, Prices, <1>1
<1>3. CASE k + r <= e
  BY <1>3 DEF Owed
<1>4. CASE Period * k + s <= c + Period * e
  BY <1>1, <1>2, <1>4, Prices DEF Owed
<1>5. CASE c = Push!Alarm
  BY <1>2, <1>5, Prices DEF Owed
<1> QED
  BY <1>3, <1>4, <1>5 DEF Owed

\* A silent round is under way, and the next one may come too early: the time that
\* is stored, or that the cycle has listed, is behind the latest good report.
Silent == on = Watchdog /\ pc[Watchdog] \in {"insert", "add", "close", "decide", "read", "write"}
Early == \/ Push!Behind(quiet, calm)
         \/ pc[Watchdog] = "plan" /\ base >= Period /\ Push!Behind(base, calm)

\* The scheduler's own round comes from a silence, and never says "good".
Own ==
  /\ pc[Watchdog] \in {"idle", "plan", "insert", "add"} => on = Watchdog
  /\ Silent => base >= Period
  /\ flight[Watchdog].sample # "good" /\ flight[Watchdog].agg # "good"

Paid == Owed(state.cons + Push!Count(Silent), Push!Count(Early), slot, calm, excuses)

PushInv == Push!TypeOK /\ Own /\ Paid /\ Push!SilenceTakesItsTime

LEMMA WatchdogApart ==
  /\ Watchdog \in Push!Threads /\ Watchdog \notin Reports
  /\ \A p \in Reports : p \in Push!Threads /\ p # Watchdog
  /\ \A t \in Push!Threads : t = Watchdog \/ t \in Reports
  BY PushAssumption DEF Push!Threads

\* A request's own steps leave the scheduler's goroutine and its round alone.
LEMMA RequestApart ==
  ASSUME Push!TypeOK, NEW p \in Reports, Push!Receive(p) \/ Push!RecordPushReport(p) \/ Push!PushRound(p)
  PROVE  /\ pc'[Watchdog] = pc[Watchdog] /\ flight'[Watchdog] = flight[Watchdog]
         /\ UNCHANGED <<on, base>>
<1>1. /\ pc \in [Push!Threads -> Push!Stages] /\ flight \in [Push!Threads -> Push!Flights]
      /\ p \in Push!Threads /\ p # Watchdog /\ Watchdog \in Push!Threads /\ Push!Flight(p) = p
  BY WatchdogApart DEF Push!TypeOK, Push!Flight
<1>2. UNCHANGED <<on, base>>
  BY DEF Push!Receive, Push!RecordPushReport, Push!PushRound, Push!InsertRound, Push!AddResult,
         Push!CloseFlight, Push!CloseRound, Push!ReadState, Push!WriteState, Push!cycleVars
<1>3. ASSUME NEW f \in Push!Flights, Push!Leave(p, f)
      PROVE  pc'[Watchdog] = pc[Watchdog] /\ flight'[Watchdog] = flight[Watchdog]
  BY <1>1, <1>3, LeaveType
<1>4. ASSUME NEW stage, Push!Goto(p, stage) PROVE pc'[Watchdog] = pc[Watchdog]
  BY <1>1, <1>4 DEF Push!Goto
<1>5. CASE Push!Receive(p) \/ Push!RecordPushReport(p)
  BY <1>1, <1>2, <1>4, <1>5 DEF Push!Receive, Push!RecordPushReport
<1>6. CASE Push!InsertRound(p)
  BY <1>1, <1>2, <1>3, <1>4, <1>6, NoFlightType DEF Push!InsertRound
<1>7. CASE Push!AddResult(p)
  BY <1>1, <1>2, <1>3, <1>4, <1>7 DEF Push!AddResult
<1>8. CASE Push!CloseFlight(p)
  BY <1>1, <1>2, <1>4, <1>8 DEF Push!CloseFlight
<1>9. CASE Push!CloseRound(p)
  BY <1>1, <1>2, <1>3, <1>4, <1>9 DEF Push!CloseRound
<1>10. CASE Push!ReadState(p)
  BY <1>1, <1>2, <1>3, <1>4, <1>10 DEF Push!ReadState
<1>11. CASE Push!WriteState(p)
  <2>1. [flight[p] EXCEPT !.saw = Push!Fresh] \in Push!Flights
    <3>1. PICK f : f = flight[p]
      OBVIOUS
    <3>2. PICK z : z = Push!Fresh
      OBVIOUS
    <3>3. z \in [alert : {"UP", "DOWN"}, cons : 0..Consecutive]
      BY <3>2, PushAssumption DEF Push!Fresh
    <3>4. f \in Push!Flights
      BY <1>1, <3>1
    <3>5. [f EXCEPT !.saw = z] \in Push!Flights
      BY <3>3, <3>4 DEF Push!Flights
    <3> QED
      BY <3>1, <3>2, <3>5
  <2>2. Push!Leave(p, [flight[p] EXCEPT !.saw = Push!Fresh])
    BY <1>1, <1>11 DEF Push!WriteState
  <2> QED
    BY <1>2, <1>3, <2>1, <2>2
<1> QED
  BY <1>5, <1>6, <1>7, <1>8, <1>9, <1>10, <1>11 DEF Push!PushRound

\* The scheduler's own steps on a round: where it goes, and what its own round says.
LEMMA WatchdogRound ==
  ASSUME Push!TypeOK, Own, Push!PushRound(Watchdog)
  PROVE  /\ UNCHANGED <<on, base>>
         /\ pc[Watchdog] \in {"insert", "add", "close", "decide", "read", "write"}
         /\ pc'[Watchdog] \in {"scan", "add", "close", "decide", "read", "write"}
         /\ pc'[Watchdog] = "add" => pc[Watchdog] = "insert"
         /\ Push!WriteState(Watchdog) => pc'[Watchdog] = "scan"
         /\ flight'[Watchdog].sample # "good" /\ flight'[Watchdog].agg # "good"
<1> DEFINE W == Watchdog
           f == flight[Push!Flight(W)]
<1>1. /\ pc \in [Push!Threads -> Push!Stages] /\ flight \in [Push!Threads -> Push!Flights]
      /\ W \in Push!Threads /\ on \in Push!Threads /\ Push!Flight(W) = on
  BY WatchdogApart DEF Push!TypeOK, Push!Flight
<1>2. UNCHANGED <<on, base>>
  BY DEF Push!PushRound, Push!InsertRound, Push!AddResult,
         Push!CloseFlight, Push!CloseRound, Push!ReadState, Push!WriteState, Push!cycleVars
<1>3. ASSUME NEW g \in Push!Flights, Push!Leave(W, g), g = flight[W] \/ g = f \/ g = [f EXCEPT !.saw = Push!Fresh] \/ g = Push!NoFlight
      PROVE  /\ pc'[W] = "scan" /\ flight'[W].sample # "good" /\ flight'[W].agg # "good"
  <2>1. pc'[W] = "scan"
    BY <1>1, <1>3, LeaveType
  <2>2. flight' = [flight EXCEPT ![on] = g] \/ flight' = [flight EXCEPT ![on] = Push!NoFlight]
    BY <1>1, <1>3, LeaveType
  <2>3. flight'[W] = flight[W] \/ (on = W /\ flight'[W] = g) \/ flight'[W] = Push!NoFlight
    BY <1>1, <2>2
  <2>4. Push!NoFlight.sample # "good" /\ Push!NoFlight.agg # "good"
    BY DEF Push!NoFlight
  <2>5. on = W => f = flight[W] /\ [f EXCEPT !.saw = Push!Fresh].sample = f.sample
                  /\ [f EXCEPT !.saw = Push!Fresh].agg = f.agg
    BY <1>1 DEF Push!Flights
  <2> QED
    BY <1>3, <2>1, <2>3, <2>4, <2>5 DEF Own
<1>4. ASSUME NEW stage, Push!Goto(W, stage) PROVE pc'[W] = stage
  BY <1>1, <1>4 DEF Push!Goto
<1>5. CASE Push!InsertRound(W)
  <2>1. CASE Push!Goto(W, "add") /\ flight' = [flight EXCEPT ![W].stored = "OPEN", ![W].listed = TRUE]
    <3>1. flight'[W].sample = flight[W].sample /\ flight'[W].agg = flight[W].agg
      BY <1>1, <2>1 DEF Push!Flights
    <3> QED
      BY <1>2, <1>4, <1>5, <2>1, <3>1 DEF Push!InsertRound, Push!WriteState, Own
  <2>2. CASE Push!Leave(W, Push!NoFlight)
    BY <1>2, <1>3, <1>5, <2>2, NoFlightType DEF Push!InsertRound
  <2> QED
    BY <1>5, <2>1, <2>2 DEF Push!InsertRound
<1>6. CASE Push!AddResult(W)
  <2>1. CASE Push!Goto(W, "close") /\ flight' = [flight EXCEPT ![W].sample = Push!Verdict(W)]
    <3>1. flight'[W].sample = "bad" /\ flight'[W].agg = flight[W].agg
      BY <1>1, <2>1 DEF Push!Flights, Push!Verdict
    <3> QED
      BY <1>2, <1>4, <1>6, <2>1, <3>1 DEF Push!AddResult, Push!WriteState, Own
  <2>2. CASE Push!Leave(W, flight[W])
    BY <1>1, <1>2, <1>3, <1>6, <2>2 DEF Push!AddResult
  <2> QED
    BY <1>6, <2>1, <2>2 DEF Push!AddResult
<1>7. CASE Push!CloseFlight(W)
  <2> DEFINE agg == IF f.agg # "none" THEN f.agg ELSE IF f.sample = "none" THEN "unknown" ELSE f.sample
  <2>1. flight' = [flight EXCEPT ![on].listed = FALSE, ![on].agg = agg]
    BY <1>1, <1>7 DEF Push!CloseFlight
  <2>2. on = W => agg # "good"
    BY <1>1 DEF Own
  <2> HIDE DEF agg
  <2>3. flight'[W].sample = flight[W].sample /\ (flight'[W].agg = flight[W].agg \/ (on = W /\ flight'[W].agg = agg))
    BY <1>1, <2>1 DEF Push!Flights
  <2>4. pc[W] = "close" /\ pc'[W] = "decide"
    BY <1>4, <1>7 DEF Push!CloseFlight
  <2>5. ~Push!WriteState(W)
    BY <2>4 DEF Push!WriteState
  <2>6. flight'[W].sample # "good" /\ flight'[W].agg # "good"
    BY <2>2, <2>3 DEF Own
  <2> QED
    BY <1>2, <2>4, <2>5, <2>6
<1>8. CASE Push!CloseRound(W)
  <2>1. CASE Push!Goto(W, "read") /\ flight' = [flight EXCEPT ![Push!Flight(W)].stored = "decided"]
    <3>1. flight'[W].sample = flight[W].sample /\ flight'[W].agg = flight[W].agg
      BY <1>1, <2>1 DEF Push!Flights
    <3> QED
      BY <1>2, <1>4, <1>8, <2>1, <3>1 DEF Push!CloseRound, Push!WriteState, Own
  <2>2. CASE Push!Leave(W, f)
    BY <1>1, <1>2, <1>3, <1>8, <2>2 DEF Push!CloseRound
  <2> QED
    BY <1>8, <2>1, <2>2 DEF Push!CloseRound
<1>9. CASE Push!ReadState(W)
  <2>1. CASE Push!Goto(W, "write") /\ flight' = [flight EXCEPT ![Push!Flight(W)].saw = state]
    <3>1. flight'[W].sample = flight[W].sample /\ flight'[W].agg = flight[W].agg
      BY <1>1, <2>1 DEF Push!Flights
    <3> QED
      BY <1>2, <1>4, <1>9, <2>1, <3>1 DEF Push!ReadState, Push!WriteState, Own
  <2>2. CASE Push!Leave(W, f)
    BY <1>1, <1>2, <1>3, <1>9, <2>2 DEF Push!ReadState
  <2> QED
    BY <1>9, <2>1, <2>2 DEF Push!ReadState
<1>10. CASE Push!WriteState(W)
  <2>1. Push!Leave(W, [f EXCEPT !.saw = Push!Fresh])
    BY <1>10 DEF Push!WriteState
  <2>2. [f EXCEPT !.saw = Push!Fresh] \in Push!Flights
    BY <1>1, PushAssumption DEF Push!Flights, Push!Fresh
  <2> QED
    BY <1>2, <1>3, <1>10, <2>1, <2>2 DEF Push!WriteState
<1> QED
  BY <1>5, <1>6, <1>7, <1>8, <1>9, <1>10 DEF Push!PushRound

LEMMA OwnKept ==
  ASSUME Push!TypeOK, Own, Push!Next PROVE Own' /\ (Silent' => Silent \/ Push!Plan)
<1> DEFINE W == Watchdog
<1>1. /\ pc \in [Push!Threads -> Push!Stages] /\ flight \in [Push!Threads -> Push!Flights]
      /\ W \in Push!Threads /\ on \in Push!Threads
  BY WatchdogApart DEF Push!TypeOK
<1>2. ASSUME pc'[W] = pc[W], flight'[W].sample = flight[W].sample, flight'[W].agg = flight[W].agg,
             UNCHANGED <<on, base>>
      PROVE  Own' /\ (Silent' => Silent)
  BY <1>2 DEF Own, Silent
<1>3. ASSUME NEW p \in Reports, Push!Receive(p) \/ Push!Request(p) PROVE Own' /\ (Silent' => Silent)
  BY <1>2, <1>3, RequestApart DEF Push!Request
<1>4. CASE Push!BeginCycle
  <2>1. flight'[W].sample = flight[W].sample /\ flight'[W].agg = flight[W].agg
    BY <1>1, <1>4 DEF Push!BeginCycle, Push!Flights
  <2>2. pc[W] = "idle" /\ pc'[W] \in {"idle", "plan", "scan"} /\ on' = on
    BY <1>1, <1>4 DEF Push!BeginCycle, Push!Goto
  <2> QED
    BY <2>1, <2>2 DEF Own, Silent
<1>5. CASE Push!Plan
  <2>1. /\ flight' = flight /\ on' = on /\ pc[W] = "plan"
        /\ \/ pc'[W] = "scan"
           \/ pc'[W] = "insert" /\ base >= Period /\ base' = base
    BY <1>1, <1>5 DEF Push!Plan, Push!Goto
  <2> QED
    BY <1>5, <2>1 DEF Own, Silent
<1>6. ASSUME Push!EndCycle \/ \E rest \in SUBSET Reports : Push!TakeNext(rest), pc[W] = "scan"
      PROVE  \/ pc'[W] = "idle" /\ on' = W
             \/ pc'[W] = "scan" /\ on' # W
  BY <1>1, <1>6, WatchdogApart DEF Push!EndCycle, Push!TakeNext, Push!Goto
<1>7. CASE Push!ListFlights
  <2>1. pc[W] = "scan" /\ UNCHANGED flight
    BY <1>7 DEF Push!ListFlights
  <2>2. {p \in Reports : flight[p].listed} \in SUBSET Reports
    OBVIOUS
  <2>3. Push!EndCycle \/ \E rest \in SUBSET Reports : Push!TakeNext(rest)
    BY <1>7, <2>2 DEF Push!ListFlights
  <2> QED
    BY <1>6, <2>1, <2>3 DEF Own, Silent
<1>8. CASE Push!PickFlight
  <2>1. pc[W] = "scan" /\ on # W
    BY <1>8 DEF Push!PickFlight
  <2>2. flight'[W] = flight[W]
    BY <1>1, <1>8, <2>1 DEF Push!PickFlight
  <2>3. \/ pc'[W] = "idle" /\ on' = W
        \/ pc'[W] = "scan" /\ on' # W
        \/ pc'[W] = "close" /\ on' # W
    <3>1. CASE Push!EndCycle \/ Push!TakeNext(todo)
      <4>1. todo \in SUBSET Reports
        BY DEF Push!TypeOK
      <4> QED
        BY <1>6, <2>1, <3>1, <4>1
    <3>2. CASE Push!Goto(W, "close") /\ UNCHANGED Push!cycleVars
      BY <1>1, <2>1, <3>2 DEF Push!Goto, Push!cycleVars
    <3> QED
      BY <1>8, <3>1, <3>2 DEF Push!PickFlight
  <2> QED
    BY <2>1, <2>2, <2>3 DEF Own, Silent
<1>9. CASE Push!PushRound(W)
  BY <1>9, WatchdogRound DEF Own, Silent
<1>10. CASE Push!Pause \/ Push!PauseRead \/ Push!PauseWrite \/ Push!Kick
  BY <1>2, <1>10 DEF Push!Pause, Push!PauseRead, Push!PauseWrite, Push!Kick, Push!cycleVars
<1>11. CASE Push!Crash
  <2>1. pc'[W] = "idle" /\ on' = W /\ flight'[W] = Push!NoFlight
    BY <1>1, <1>11 DEF Push!Crash
  <2> QED
    BY <2>1 DEF Own, Silent, Push!NoFlight
<1>12. CASE Push!Second
  <2>1. flight'[W] = flight[W]
    BY <1>1, <1>12, WatchdogApart DEF Push!Second
  <2> QED
    BY <1>2, <1>12, <2>1 DEF Push!Second, Push!cycleVars
<1> QED
  BY <1>3, <1>4, <1>5, <1>7, <1>8, <1>9, <1>10, <1>11, <1>12 DEF Push!Next, Push!Cycle

\* A step that counts no round, forgets no silence, and makes no other round come
\* too early.
LEMMA PaidStays ==
  ASSUME Push!TypeOK, Push!TypeOK', Paid, Push!SilenceTakesItsTime,
         state'.cons <= state.cons, state'.alert = state.alert,
         UNCHANGED <<slot, calm, excuses>>, Silent' => Silent, Early' => Early
  PROVE  Paid' /\ Push!SilenceTakesItsTime'
<1> DEFINE k == state.cons + Push!Count(Silent)
           r == Push!Count(Early)
           k2 == state'.cons + Push!Count(Silent')
           r2 == Push!Count(Early')
<1>1. /\ state.cons \in Nat /\ state'.cons \in Nat /\ slot \in Nat /\ calm \in Nat /\ excuses \in Nat
  BY AlarmType, PushAssumption DEF Push!TypeOK
<1>2. k \in Nat /\ k2 \in Nat /\ k2 <= k
  BY <1>1 DEF Push!Count
<1>3. r \in Nat /\ r2 \in Nat /\ r2 <= r
  BY DEF Push!Count
<1>4. Owed(k, r, slot, calm, excuses)
  BY DEF Paid
<1> HIDE DEF k, r, k2, r2
<1>5. Owed(k2, r2, slot, calm, excuses)
  BY <1>1, <1>2, <1>3, <1>4, OwedLess
<1>6. Paid'
  BY <1>5 DEF Paid, k2, r2
<1> QED
  BY <1>6 DEF Push!SilenceTakesItsTime

\* A report that stores its time excuses the round it may make come early.
LEMMA PaidRecord ==
  ASSUME PushInv, Push!TypeOK', NEW p \in Reports, Push!RecordPushReport(p)
  PROVE  Paid' /\ Push!SilenceTakesItsTime'
<1> DEFINE k == state.cons + Push!Count(Silent)
<1>1. /\ state.cons \in Nat /\ slot \in Nat /\ calm \in Nat /\ excuses \in 0..Consecutive
      /\ excuses \in Nat /\ k \in Nat
  BY AlarmType, PushAssumption DEF PushInv, Push!TypeOK, Push!Count
<1>2. /\ pc'[Watchdog] = pc[Watchdog] /\ UNCHANGED <<on, base, state, slot, calm>>
  BY RequestApart DEF PushInv, Push!RecordPushReport, Push!row
<1>3. Silent' = Silent
  BY <1>2 DEF Silent
<1>4. CASE UNCHANGED excuses /\ (Early' => Early)
  <2>1. state'.cons <= state.cons
    BY <1>1, <1>2
  <2> QED
    BY <1>2, <1>3, <1>4, <2>1, PaidStays DEF PushInv
<1>5. CASE excuses' = Push!Excuse(excuses + 1)
  <2>1. Push!Count(Early) \in Nat /\ Push!Count(Early') \in Nat /\ Push!Count(Early') <= Push!Count(Early) + 1
    BY DEF Push!Count
  <2>2. Owed(k, Push!Count(Early), slot, calm, excuses)
    BY DEF PushInv, Paid
  <2> HIDE DEF k
  <2>3. k + Push!Count(Early') <= k + Push!Count(Early) + 1 /\ k <= k + 1 /\ slot <= slot
    BY <1>1, <2>1
  <2>4. Owed(k, Push!Count(Early'), slot, calm, excuses')
    <3> DEFINE r == Push!Count(Early)
               r2 == Push!Count(Early')
    <3>1. r \in Nat /\ r2 \in Nat /\ k + r2 <= k + r + 1 /\ Owed(k, r, slot, calm, excuses)
      BY <2>1, <2>2, <2>3
    <3> HIDE DEF r, r2
    <3>2. Owed(k, r2, slot, calm, Push!Excuse(excuses + 1))
      BY <1>1, <2>3, <3>1, OwedExcuse
    <3> QED
      BY <1>5, <3>2 DEF r2
  <2>5. Paid'
    BY <1>2, <1>3, <2>4 DEF Paid, k
  <2>6. excuses' \in Nat /\ excuses' >= excuses
    BY <1>1, <1>5, ExcuseType, PushAssumption
  <2>7. Period * excuses' >= Period * excuses /\ Period * excuses \in Nat /\ Period * excuses' \in Nat
    BY <1>1, <2>6, Prices
  <2>8. Push!SilenceTakesItsTime'
    <3>1. calm' = calm /\ state' = state /\ Push!Alarm \in Nat
      BY <1>2, Prices
    <3> QED
      BY <1>1, <2>7, <3>1 DEF PushInv, Push!SilenceTakesItsTime
  <2> QED
    BY <2>5, <2>8
<1>6. \/ UNCHANGED <<quiet, excuses>>
      \/ excuses' = IF Push!Behind(quiet', calm) /\ ~Push!Behind(quiet, calm)
                      THEN Push!Excuse(excuses + 1) ELSE excuses
  BY DEF Push!RecordPushReport
<1>7. UNCHANGED quiet => (Early' => Early)
  BY <1>2 DEF Early, Push!Behind
<1>8. ~(Push!Behind(quiet', calm) /\ ~Push!Behind(quiet, calm)) => (Early' => Early)
  BY <1>2 DEF Early, Push!Behind
<1> QED
  BY <1>4, <1>5, <1>6, <1>7, <1>8

LEMMA PaidPlan ==
  ASSUME PushInv, Push!TypeOK', Own', Push!Plan PROVE Paid' /\ Push!SilenceTakesItsTime'
<1>1. /\ state.cons \in Nat /\ slot \in Nat /\ calm \in Nat /\ base \in Nat /\ quiet \in Nat /\ excuses \in Nat
      /\ Watchdog \in Push!Threads /\ pc \in [Push!Threads -> Push!Stages]
  BY AlarmType, PushAssumption, WatchdogApart DEF PushInv, Push!TypeOK
<1>2. /\ pc[Watchdog] = "plan" /\ on = Watchdog /\ ~Silent
      /\ UNCHANGED <<state, quiet, calm, on, excuses>>
  BY DEF PushInv, Own, Silent, Push!Plan, Push!row
<1>3. CASE base >= Period /\ slot >= Period
  <2>1. pc'[Watchdog] = "insert" /\ slot' = 0 /\ UNCHANGED base
    BY <1>1, <1>3 DEF Push!Plan, Push!Goto
  <2>2. Silent'
    BY <1>2, <2>1 DEF Silent
  <2>3. Push!Count(Early) \in Nat /\ Push!Count(Early') \in Nat /\ (Push!Count(Early) = 0 => ~Early)
        /\ Push!Count(Silent) = 0 /\ Push!Count(Silent') = 1
    BY <1>2, <2>2 DEF Push!Count
  <2>4. ~Early => calm >= Period
    BY <1>1, <1>2, <1>3, PushAssumption DEF Early, Push!Behind
  <2>5. Owed(state.cons, Push!Count(Early), slot, calm, excuses)
    BY <1>1, <2>3 DEF PushInv, Paid
  <2>6. Owed(state.cons + 1, Push!Count(Early'), 0, calm, excuses)
    BY <1>1, <1>3, <2>3, <2>4, <2>5, OwedPlan
  <2>7. Paid'
    BY <1>2, <2>1, <2>3, <2>6 DEF Paid
  <2> QED
    BY <1>2, <2>7 DEF PushInv, Push!SilenceTakesItsTime
<1>4. CASE ~(base >= Period /\ slot >= Period)
  <2>1. pc'[Watchdog] = "scan" /\ UNCHANGED slot
    BY <1>1, <1>4 DEF Push!Plan, Push!Goto
  <2>2. ~Silent' /\ (Early' => Early) /\ state'.cons <= state.cons
    BY <1>1, <1>2, <2>1 DEF Silent, Early, Push!Behind
  <2> QED
    BY <1>2, <2>1, <2>2, PaidStays DEF PushInv
<1> QED
  BY <1>3, <1>4

\* A cleared slot, by an edit, a resume or a restart.
LEMMA PaidKick ==
  ASSUME PushInv, Push!TypeOK', Push!Kick \/ Push!Crash PROVE Paid' /\ Push!SilenceTakesItsTime'
<1> DEFINE k == state.cons + Push!Count(Silent)
           r == Push!Count(Early)
           k2 == state'.cons + Push!Count(Silent')
           r2 == Push!Count(Early')
<1>1. /\ state.cons \in Nat /\ slot \in Nat /\ calm \in Nat /\ excuses \in 0..Consecutive /\ excuses \in Nat
      /\ Watchdog \in Push!Threads
  BY AlarmType, PushAssumption, WatchdogApart DEF PushInv, Push!TypeOK
<1>2. /\ slot' = Period /\ excuses' = Push!Excuse(excuses + 1) /\ UNCHANGED <<state, quiet, calm>>
  BY DEF Push!Kick, Push!Crash, Push!row
<1>3. (Silent' => Silent) /\ (Early' => Early)
  <2>1. CASE Push!Kick
    BY <1>2, <2>1 DEF Push!Kick, Push!cycleVars, Silent, Early
  <2>2. CASE Push!Crash
    <3>1. pc'[Watchdog] = "idle"
      BY <1>1, <2>2 DEF Push!Crash
    <3> QED
      BY <1>2, <3>1 DEF Silent, Early
  <2> QED
    BY <2>1, <2>2
<1>4. /\ k \in Nat /\ r \in Nat /\ k2 \in Nat /\ r2 \in Nat /\ k2 <= k /\ r2 <= r
      /\ Owed(k, r, slot, calm, excuses)
  BY <1>1, <1>2, <1>3 DEF Push!Count, PushInv, Paid
<1> HIDE DEF k, r, k2, r2
<1>5. Owed(k2, r2, Period, calm, Push!Excuse(excuses + 1))
  <2>1. k2 + r2 <= k + r + 1 /\ Period \in Nat /\ Period <= Period
    BY <1>4, Prices
  <2> QED
    BY <1>1, <1>4, <2>1, OwedExcuse
<1>6. Paid'
  BY <1>2, <1>5 DEF Paid, k2, r2
<1>7. excuses' \in Nat /\ excuses' >= excuses
  BY <1>1, <1>2, ExcuseType, PushAssumption
<1>8. Period * excuses' >= Period * excuses /\ Period * excuses \in Nat /\ Period * excuses' \in Nat
      /\ Push!Alarm \in Nat
  BY <1>1, <1>7, Prices
<1>9. Push!SilenceTakesItsTime'
  BY <1>1, <1>2, <1>8 DEF PushInv, Push!SilenceTakesItsTime
<1> QED
  BY <1>6, <1>9

\* Time passes for the silence and for the slot alike.
LEMMA PaidSecond ==
  ASSUME PushInv, Push!TypeOK', Push!Second PROVE Paid' /\ Push!SilenceTakesItsTime'
<1> DEFINE k == state.cons + Push!Count(Silent)
           r == Push!Count(Early)
           r2 == Push!Count(Early')
<1>1. /\ state.cons \in Nat /\ slot \in Nat /\ calm \in 0..Push!Alarm /\ quiet \in 0..Push!Alarm
      /\ excuses \in Nat /\ Push!Alarm \in Nat /\ calm \in Nat /\ quiet \in Nat
  BY AlarmType, PushAssumption DEF PushInv, Push!TypeOK
<1>2. /\ pc[Watchdog] # "plan" /\ UNCHANGED <<state, pc, on, base, excuses>>
      /\ quiet' = Push!Older(quiet, Push!Alarm) /\ calm' = Push!Older(calm, Push!Alarm)
      /\ slot' = Push!Older(slot, Period)
  BY DEF Push!Second, Push!row, Push!cycleVars
<1>3. Early' => Early
  BY <1>1, <1>2, OlderType DEF Early, Push!Behind
<1>4. Push!Count(Silent') = Push!Count(Silent)
  BY <1>2 DEF Silent
<1>5. k \in Nat /\ r \in Nat /\ r2 \in Nat /\ r2 <= r /\ Owed(k, r, slot, calm, excuses)
  BY <1>1, <1>3 DEF Push!Count, PushInv, Paid
<1> HIDE DEF k, r, r2
<1>6. Owed(k, r2, slot', calm', excuses)
  BY <1>1, <1>2, <1>5, OwedTick
<1>7. Paid'
  BY <1>2, <1>4, <1>6 DEF Paid, k, r2
<1>8. calm' \in Nat /\ calm' >= calm
  BY <1>1, <1>2, OlderType
<1>9. Push!SilenceTakesItsTime'
  <2>1. Period * excuses \in Nat
    BY <1>1, Prices
  <2> QED
    BY <1>1, <1>2, <1>8, <2>1 DEF PushInv, Push!SilenceTakesItsTime
<1> QED
  BY <1>7, <1>9

\* A round is applied: a good one starts the silence anew, with an excuse for a silent
\* round that is under way and for a stored time that is behind; a bad report is its
\* own excuse; the silent round is counted now and no longer under way.
LEMMA PaidApply ==
  ASSUME PushInv, Push!TypeOK', Own', Silent' => Silent, NEW t \in Push!Threads, Push!WriteState(t)
  PROVE  Paid' /\ Push!SilenceTakesItsTime'
<1> DEFINE f == flight[Push!Flight(t)]
           k == state.cons + Push!Count(Silent)
           r == Push!Count(Early)
           k2 == state'.cons + Push!Count(Silent')
           r2 == Push!Count(Early')
<1>1. /\ state.cons \in Nat /\ state.alert \in {"UP", "DOWN"} /\ state = [alert |-> state.alert, cons |-> state.cons]
      /\ state'.cons \in Nat /\ slot \in Nat /\ calm \in Nat /\ calm' \in Nat /\ quiet \in Nat
      /\ excuses \in 0..Consecutive /\ excuses \in Nat /\ excuses' \in Nat
      /\ on \in Push!Threads /\ Consecutive \in Nat /\ Consecutive >= 1
  BY AlarmType, PushAssumption DEF PushInv, Push!TypeOK
<1>2. k \in Nat /\ r \in Nat /\ k2 \in Nat /\ r2 \in Nat /\ Owed(k, r, slot, calm, excuses)
  BY <1>1 DEF Push!Count, PushInv, Paid
<1>a. UNCHANGED <<quiet, slot, on, base>> /\ pc[t] = "write"
  BY DEF Push!WriteState, Push!cycleVars
<1>5. IF t = Watchdog THEN pc'[Watchdog] = "scan" ELSE pc'[Watchdog] = pc[Watchdog]
  BY WatchdogRound, RequestApart, WatchdogApart DEF PushInv, Push!PushRound
<1>b. CASE UNCHANGED <<state, calm, excuses>>
  <2>1. Early' => Early
    BY <1>a, <1>b, <1>5 DEF Early
  <2> QED
    BY <1>1, <1>a, <1>b, <2>1, PaidStays DEF PushInv
<1>c. SUFFICES ASSUME state' = Push!NextState(f),
                     calm' = IF f.agg = "good" THEN Push!Min({calm, f.age}) ELSE calm,
                     excuses' = CASE f.agg = "good" -> Push!Excuse(Push!Count(Push!SilenceUnderWay)
                                                         + Push!Count(Push!Behind(quiet, calm')))
                                  [] f.agg # "good" /\ state # f.saw -> Consecutive
                                  [] OTHER -> Push!Excuse(excuses + Push!Count(f.agg = "bad"
                                                                               /\ Push!Flight(t) # Watchdog))
               PROVE  Paid' /\ Push!SilenceTakesItsTime'
  BY <1>b DEF Push!WriteState
<1>3. /\ UNCHANGED <<quiet, slot, on, base>>
      /\ calm' = IF f.agg = "good" THEN Push!Min({calm, f.age}) ELSE calm
      /\ f.agg = "good" =>
           excuses' = Push!Excuse(Push!Count(Push!SilenceUnderWay) + Push!Count(Push!Behind(quiet, calm')))
      /\ f.agg = "bad" /\ state = f.saw /\ Push!Flight(t) # Watchdog => excuses' = Push!Excuse(excuses + 1)
      /\ f.agg # "good" /\ state = f.saw /\ ~(f.agg = "bad" /\ Push!Flight(t) # Watchdog) => excuses' = excuses
      /\ f.agg # "good" /\ state # f.saw => excuses' = Consecutive
      /\ pc[t] = "write"
  <2>1. Push!Excuse(excuses + 0) = excuses
    BY <1>1, ExcuseType
  <2> QED
    BY <1>a, <1>c, <2>1 DEF Push!Count
<1>4. state' = [Push!Apply(f.saw, f.agg, Consecutive) EXCEPT
                  !.cons = Push!Min({Push!Apply(f.saw, f.agg, Consecutive).cons, Consecutive})]
  BY <1>c DEF Push!NextState
<1>6. CASE f.agg = "good"
  <2>1. state' = [alert |-> "UP", cons |-> 0]
    <3>1. Push!Min({0, Consecutive}) = 0
      BY <1>1, MinTwo
    <3> QED
      BY <1>4, <1>6, <3>1 DEF Push!Apply, Push!Fresh
  <2>2. Push!Flight(t) # Watchdog
    BY <1>6 DEF PushInv, Own
  <2>3. Push!Count(Silent') + Push!Count(Early')
          <= Push!Count(Push!SilenceUnderWay) + Push!Count(Push!Behind(quiet, calm'))
    <3>1. CASE t = Watchdog
      BY <1>3, <1>5, <3>1 DEF Silent, Early, Push!Count
    <3>2. CASE t # Watchdog
      <4>1. Silent' => Push!SilenceUnderWay
        BY DEF PushInv, Own, Push!SilenceUnderWay, Silent
      <4>2. Early' => Push!Behind(quiet, calm') \/ (Push!SilenceUnderWay /\ ~Silent')
        BY <1>3, <1>5, <3>2 DEF PushInv, Own, Early, Silent, Push!SilenceUnderWay
      <4> QED
        BY <4>1, <4>2 DEF Push!Count
    <3> QED
      BY <3>1, <3>2
  <2>4. k2 + r2 <= excuses' \/ excuses' = Consecutive
    <3>1. Push!Count(Push!SilenceUnderWay) + Push!Count(Push!Behind(quiet, calm')) \in Nat
      BY DEF Push!Count
    <3>2. excuses' = Push!Excuse(Push!Count(Push!SilenceUnderWay) + Push!Count(Push!Behind(quiet, calm')))
      BY <1>3, <1>6
    <3>3. k2 + r2 = Push!Count(Silent') + Push!Count(Early')
      BY <2>1 DEF Push!Count
    <3> QED
      BY <1>1, <1>2, <2>3, <3>1, <3>2, <3>3, ExcuseType
  <2>5. Paid'
    BY <2>4 DEF Paid, Owed
  <2> QED
    BY <2>1, <2>5 DEF Push!SilenceTakesItsTime
<1>7. CASE f.agg = "bad" /\ state = f.saw
  <2>1. /\ state'.cons = (IF state.cons + 1 <= Consecutive THEN state.cons + 1 ELSE Consecutive)
        /\ state'.alert = (IF state.cons + 1 >= Consecutive THEN "DOWN" ELSE state.alert)
    <3>1. Push!Apply(f.saw, f.agg, Consecutive) =
            [alert |-> IF state.cons + 1 >= Consecutive THEN "DOWN" ELSE state.alert, cons |-> state.cons + 1]
      BY <1>7 DEF Push!Apply
    <3>2. Push!Min({state.cons + 1, Consecutive})
            = IF state.cons + 1 <= Consecutive THEN state.cons + 1 ELSE Consecutive
      BY <1>1, MinTwo
    <3> QED
      BY <1>4, <3>1, <3>2
  <2>2. calm' = calm
    BY <1>3, <1>7
  <2>3. Early' => Early
    BY <1>3, <1>5, <2>2 DEF Early
  <2>4. r2 <= r
    BY <2>3 DEF Push!Count
  <2>5. Owed(k2, r2, slot, calm, excuses')
    <3>1. CASE Push!Flight(t) = Watchdog
      <4>1. t = Watchdog /\ on = Watchdog
        BY <3>1, WatchdogApart DEF Push!Flight
      <4>2. Silent /\ ~Silent' /\ excuses' = excuses
        BY <1>3, <1>5, <1>7, <3>1, <4>1 DEF Silent
      <4>3. k2 <= k
        BY <1>1, <2>1, <4>2 DEF Push!Count
      <4> HIDE DEF k, k2, r, r2
      <4> QED
        BY <1>1, <1>2, <2>4, <4>2, <4>3, OwedLess
    <3>2. CASE Push!Flight(t) # Watchdog
      <4>1. excuses' = Push!Excuse(excuses + 1)
        BY <1>3, <1>7, <3>2
      <4>2. k2 <= k + 1
        BY <1>1, <2>1 DEF Push!Count
      <4> HIDE DEF k, k2, r, r2
      <4>3. k2 + r2 <= k + r + 1 /\ slot <= slot
        BY <1>1, <1>2, <2>4, <4>2
      <4> QED
        BY <1>1, <1>2, <4>1, <4>2, <4>3, OwedExcuse
    <3> QED
      BY <3>1, <3>2
  <2>6. Paid'
    BY <1>3, <2>2, <2>5 DEF Paid
  <2>7. Push!SilenceTakesItsTime'
    <3>1. excuses' >= excuses
      BY <1>1, <1>3, <1>7, ExcuseType
    <3>2. Period * excuses \in Nat /\ Period * excuses' \in Nat /\ Period * excuses <= Period * excuses'
          /\ Push!Alarm \in Nat
      BY <1>1, <3>1, Prices
    <3>3. CASE state.cons + 1 >= Consecutive
      <4>1. state'.cons >= Consecutive
        BY <1>1, <2>1, <3>3
      <4>2. k2 >= Consecutive
        BY <1>1, <4>1 DEF Push!Count
      <4> HIDE DEF k2, r2
      <4>3. calm + Period * excuses' >= Push!Alarm
        BY <1>1, <1>2, <2>5, <4>2, OwedEnough
      <4> QED
        BY <2>2, <4>3 DEF Push!SilenceTakesItsTime
    <3>4. CASE ~(state.cons + 1 >= Consecutive)
      BY <1>1, <2>1, <2>2, <3>2, <3>4 DEF PushInv, Push!SilenceTakesItsTime
    <3> QED
      BY <3>3, <3>4
  <2> QED
    BY <2>6, <2>7
<1>8. CASE f.agg \notin {"good", "bad"} /\ state = f.saw
  <2>1. Push!Apply(f.saw, f.agg, Consecutive) = state
    BY <1>8 DEF Push!Apply
  <2>2. state'.cons <= state.cons /\ state'.alert = state.alert
    <3>1. Push!Min({state.cons, Consecutive}) <= state.cons
      BY <1>1, MinTwo
    <3> QED
      BY <1>1, <1>4, <2>1, <3>1
  <2>3. calm' = calm /\ excuses' = excuses
    BY <1>3, <1>8
  <2>4. Early' => Early
    BY <1>3, <1>5, <2>3 DEF Early
  <2> QED
    BY <1>3, <2>2, <2>3, <2>4, PaidStays DEF PushInv
<1>9. CASE f.agg # "good" /\ state # f.saw
  <2>1. excuses' = Consecutive /\ calm' = calm
    BY <1>3, <1>9
  <2>2. Period * excuses' = Push!Alarm /\ Push!Alarm \in Nat
    BY <2>1, Prices
  <2>3. Paid'
    BY <2>1 DEF Paid, Owed
  <2> QED
    BY <1>1, <2>1, <2>2, <2>3 DEF Push!SilenceTakesItsTime
<1> QED
  BY <1>6, <1>7, <1>8, <1>9

LEMMA PushInductive == ASSUME PushInv, [Push!Next]_pushVars PROVE PushInv'
<1> DEFINE Goal == Paid' /\ Push!SilenceTakesItsTime'
<1>1. CASE UNCHANGED pushVars
  BY <1>1 DEF pushVars, PushInv, Push!TypeOK, Own, Silent, Early, Paid, Push!SilenceTakesItsTime
<1>2. CASE Push!Next
  <2>1. Push!TypeOK' /\ Own' /\ (Silent' => Silent \/ Push!Plan)
    BY <1>2, PushTypeKept, OwnKept DEF PushInv
  <2>2. /\ state.cons \in Nat /\ Watchdog \in Push!Threads /\ pc \in [Push!Threads -> Push!Stages]
        /\ calm \in Nat /\ quiet \in Nat
    BY WatchdogApart, PushAssumption, AlarmType DEF PushInv, Push!TypeOK
  <2> SUFFICES Goal
    BY <2>1 DEF PushInv
  <2>3. ASSUME Silent' => Silent, Early' => Early, UNCHANGED <<state, slot, calm, excuses>> PROVE Goal
    BY <2>1, <2>2, <2>3, PaidStays DEF PushInv
  <2>4. ASSUME NEW p \in Reports, Push!Receive(p) \/ (Push!PushRound(p) /\ ~Push!WriteState(p)) PROVE Goal
    <3>1. UNCHANGED <<state, slot, quiet, calm, excuses>>
      BY <2>4
      DEF Push!Receive, Push!PushRound, Push!InsertRound, Push!AddResult, Push!CloseFlight,
          Push!CloseRound, Push!ReadState, Push!row, Push!ages
    <3>2. pc'[Watchdog] = pc[Watchdog] /\ UNCHANGED <<on, base>>
      BY <2>4, RequestApart DEF PushInv
    <3> QED
      BY <2>3, <3>1, <3>2 DEF Silent, Early
  <2>5. ASSUME NEW p \in Reports, Push!RecordPushReport(p) PROVE Goal
    BY <2>1, <2>5, PaidRecord
  <2>6. CASE Push!BeginCycle
    <3>1. /\ UNCHANGED <<state, slot, quiet, calm, excuses, on>> /\ pc[Watchdog] = "idle"
          /\ (pc'[Watchdog] # "plan" \/ base' = Push!Min({quiet, Period}))
          /\ pc'[Watchdog] \in {"idle", "plan", "scan"}
      BY <2>2, <2>6 DEF Push!BeginCycle, Push!Goto, Push!row, Push!ages
    <3>2. Push!Min({quiet, Period}) = IF quiet <= Period THEN quiet ELSE Period
      BY <2>2, Prices, MinTwo
    <3>3. Early' => Early
      BY <2>2, <3>1, <3>2, Prices DEF Early, Push!Behind
    <3> QED
      BY <2>3, <3>1, <3>3 DEF Silent
  <2>7. CASE Push!Plan
    BY <2>1, <2>7, PaidPlan
  <2>8. CASE Push!ListFlights \/ Push!PickFlight
    <3>1. /\ UNCHANGED <<state, slot, quiet, calm, excuses>> /\ pc[Watchdog] = "scan"
          /\ pc'[Watchdog] # "plan"
      BY <2>2, <2>8
      DEF Push!ListFlights, Push!PickFlight, Push!EndCycle, Push!TakeNext, Push!Goto, Push!row, Push!ages
    <3>2. ~Push!Plan
      BY <3>1 DEF Push!Plan
    <3> QED
      BY <2>1, <2>3, <3>1, <3>2 DEF Early
  <2>9. CASE Push!PushRound(Watchdog) /\ ~Push!WriteState(Watchdog)
    <3>1. UNCHANGED <<state, slot, quiet, calm, excuses>>
      BY <2>9
      DEF Push!PushRound, Push!InsertRound, Push!AddResult, Push!CloseFlight,
          Push!CloseRound, Push!ReadState, Push!row, Push!ages
    <3>2. pc[Watchdog] # "plan" /\ pc'[Watchdog] # "plan"
      BY <2>9, WatchdogRound DEF PushInv
    <3>3. ~Push!Plan
      BY <3>2 DEF Push!Plan
    <3> QED
      BY <2>1, <2>3, <3>1, <3>2, <3>3 DEF Early
  <2>10. ASSUME NEW t \in Push!Threads, Push!WriteState(t) PROVE Goal
    <3>1. Silent' => Silent
      <4>1. IF t = Watchdog THEN pc'[Watchdog] = "scan" ELSE pc'[Watchdog] = pc[Watchdog]
        BY <2>10, WatchdogRound, RequestApart, WatchdogApart DEF PushInv, Push!PushRound
      <4>2. UNCHANGED on
        BY <2>10 DEF Push!WriteState, Push!cycleVars
      <4> QED
        BY <4>1, <4>2 DEF Silent
    <3> QED
      BY <2>1, <2>10, <3>1, PaidApply
  <2>11. CASE Push!Pause \/ Push!PauseRead \/ Push!PauseWrite
    <3>1. UNCHANGED <<slot, quiet, calm, pc, on, base>> /\ (Silent' => Silent) /\ (Early' => Early)
      BY <2>11 DEF Push!Pause, Push!PauseRead, Push!PauseWrite, Push!row, Push!ages, Push!cycleVars, Silent, Early
    <3>2. CASE UNCHANGED <<state, excuses>>
      BY <2>3, <3>1, <3>2
    <3>3. CASE state' = [pausing.saw EXCEPT !.cons = 0] /\ state = pausing.saw /\ UNCHANGED excuses
      <4>1. state'.cons <= state.cons /\ state'.alert = state.alert
        BY <2>2, <3>3 DEF PushInv, Push!TypeOK
      <4> QED
        BY <2>1, <3>1, <3>3, <4>1, PaidStays DEF PushInv
    <3>4. CASE excuses' = Consecutive
      <4>1. Period * excuses' = Push!Alarm /\ Push!Alarm \in Nat
        BY <3>4, Prices
      <4>2. Paid'
        BY <3>4 DEF Paid, Owed
      <4> QED
        BY <2>2, <3>1, <4>1, <4>2 DEF Push!SilenceTakesItsTime
    <3> QED
      BY <2>11, <3>2, <3>3, <3>4 DEF Push!Pause, Push!PauseRead, Push!PauseWrite, Push!row
  <2>12. CASE Push!Kick \/ Push!Crash
    BY <2>1, <2>12, PaidKick
  <2>13. CASE Push!Second
    BY <2>1, <2>13, PaidSecond
  <2>14. ASSUME NEW p \in Reports, Push!Request(p) PROVE Goal
    <3>1. p \in Push!Threads
      BY WatchdogApart
    <3> QED
      BY <2>4, <2>5, <2>10, <2>14, <3>1 DEF Push!Request
  <2>15. CASE Push!PushRound(Watchdog)
    BY <2>2, <2>9, <2>10, <2>15
  <2> HIDE DEF Goal
  <2> QED
    BY <1>2, <2>4, <2>6, <2>7, <2>8, <2>11, <2>12, <2>13, <2>14, <2>15 DEF Push!Next, Push!Cycle
<1> QED
  BY <1>1, <1>2

\* A push monitor goes DOWN only after its Period x Consecutive of silence, less one
\* period for each excuse, however many reports are on their way at once
\* (cyclePush and ReportPush in scheduler/push.go).
THEOREM SilenceCorrect == Spec => []SilenceTakesItsTime
<1>1. Init => PushInv
  <2> SUFFICES ASSUME Init PROVE PushInv
    OBVIOUS
  <2>1. Push!Init /\ Push!TypeOK /\ Watchdog \in Push!Threads
    BY PushStart, WatchdogApart DEF Init
  <2>2. /\ pc[Watchdog] = "idle" /\ on = Watchdog /\ flight[Watchdog] = Push!NoFlight
        /\ quiet = 0 /\ calm = 0 /\ excuses = 0 /\ state = [alert |-> "UP", cons |-> 0]
    BY <2>1 DEF Push!Init, Push!Fresh
  <2>3. ~Silent /\ ~Early /\ Own
    BY <2>2 DEF Silent, Early, Push!Behind, Own, Push!NoFlight
  <2>4. Paid
    BY <2>2, <2>3 DEF Paid, Owed, Push!Count
  <2> QED
    BY <2>1, <2>2, <2>3, <2>4 DEF PushInv, Push!SilenceTakesItsTime
<1>2. PushInv /\ [Next]_<<part, vars>> => PushInv'
  BY PushAlone, PushInductive
<1>3. PushInv => SilenceTakesItsTime
  BY DEF PushInv, SilenceTakesItsTime
<1> QED
  BY <1>1, <1>2, <1>3, PTL DEF Spec

-----------------------------------------------------------------------------
(* Reading an Uptime Kuma.                                                 *)

LEMMA KumaAlone == [Next]_<<part, vars>> => [Kuma!Next]_kumaVars
  BY DEF Next, vars, PushStep, NotifyStep, EnrollStep, AdminStep, TransferStep, KumaStep, ProbesStep,
     FeedStep, Others4, Others8, kumaVars

Errors == Kuma!Definite \cup Kuma!Broken
Reported == Errors \ {"noBetterAuth"}
Phases == {"probe", "signIn", "connect", "socket", "map", "done"}
Clients == [phase : Phases, outer : 1..2, inner : 1..2,
            session : BOOLEAN, fallback : BOOLEAN, result : Errors \cup {"none", "list"}]
Events == {"connect", "session", "loginRequired", "list", "accepted", "refused", "codeAsked"}
Sockets == [open : BOOLEAN, coming : SUBSET Events,
            attempt : {"none", "send", "sent", "sendCode", "codeSent", "over"},
            required : BOOLEAN, loggedIn : BOOLEAN, list : BOOLEAN, error : Reported \cup {"none"}]

KumaTyped ==
  /\ server \in [kind : {"event", "session"}, twoFactor : BOOLEAN, empty : BOOLEAN, limits : BOOLEAN]
  /\ login \in [password : BOOLEAN, code : {"none", "wrong", "right"}]
  /\ client \in Clients /\ socket \in Sockets /\ submitted \in Nat /\ losses \in Nat

\* What the account says where the call ends with the error e.
Proper(e, lost) ==
  CASE e = "failed" -> ~Kuma!Accepts \/ server.limits
    [] e = "codeRequired" -> login.password /\ server.twoFactor /\ login.code = "none"
    [] e = "codeInvalid" ->
         login.password /\ server.twoFactor /\ login.code # "none" /\ (login.code = "wrong" \/ server.limits)
    [] e = "noList" -> Kuma!Accepts /\ (server.empty \/ lost > 0)
    [] OTHER -> lost > 0

\* A session was opened by an account that is right; without a session, the server
\* knows none, or something was lost on the way.
ClientSound(c, lost) ==
  /\ c.phase = "signIn" => server.kind = "session" \/ lost > 0
  /\ c.phase \in {"connect", "socket"} =>
       IF c.session THEN Kuma!Accepts /\ server.kind = "session" ELSE server.kind = "event" \/ lost > 0
  /\ c.fallback => lost > 0
  /\ c.phase \notin {"map", "done"} => c.result = "none"
  /\ c.phase = "map" => c.result = "list"
  /\ c.result = "list" => Kuma!Accepts /\ ~server.empty
  /\ c.phase = "done" => c.result = "list" \/ (c.result \in Errors /\ Proper(c.result, lost))

\* What has come, or will, and the error that was reported, follow from the account.
SocketSound(s, session_, lost) ==
  /\ s.coming \cap {"list", "accepted", "session"} # {} \/ s.loggedIn \/ s.list => Kuma!Accepts
  /\ s.list => ~server.empty
  /\ "refused" \in s.coming => ~Kuma!Accepts \/ server.limits
  /\ "codeAsked" \in s.coming => login.password /\ server.twoFactor /\ s.attempt \in {"sent", "over"}
  /\ s.attempt \in {"sendCode", "codeSent"} => login.code # "none"
  /\ s.attempt # "none" => ~session_ /\ "connect" \notin s.coming
  /\ "loginRequired" \in s.coming /\ session_ => lost > 0
  /\ s.error # "none" => Proper(s.error, lost)

\* After a refusal and without a loss, no other login is under way.
AskedOnce ==
  losses = 0 /\ submitted > 0 =>
    /\ submitted = 1 /\ client.phase \in {"socket", "map", "done"}
    /\ client.phase = "socket" =>
         socket.attempt \notin {"send", "sendCode"} /\ socket.coming \cap {"connect", "codeAsked"} = {}

KumaInv ==
  /\ KumaTyped /\ ClientSound(client, losses) /\ SocketSound(socket, client.session, losses) /\ AskedOnce
  /\ client.phase # "socket" => socket = Kuma!NoSocket

LEMMA BlankSockets ==
  /\ Kuma!NoSocket \in Sockets /\ Kuma!Opening \in Sockets /\ Kuma!Opening.coming = {"connect"}
  /\ \A b \in BOOLEAN, lost \in Nat :
       SocketSound(Kuma!NoSocket, b, lost) /\ SocketSound(Kuma!Opening, b, lost)
<1>1. Kuma!NoSocket \in Sockets /\ Kuma!Opening \in Sockets
  BY DEF Kuma!NoSocket, Kuma!Opening, Sockets, Events
<1>2. /\ Kuma!NoSocket.coming = {} /\ Kuma!Opening.coming = {"connect"}
      /\ \A s \in {Kuma!NoSocket, Kuma!Opening} :
           s.attempt = "none" /\ ~s.loggedIn /\ ~s.list /\ s.error = "none"
  BY DEF Kuma!NoSocket, Kuma!Opening
<1>3. ASSUME NEW s \in {Kuma!NoSocket, Kuma!Opening}, NEW b \in BOOLEAN, NEW lost \in Nat
      PROVE  SocketSound(s, b, lost)
  <2>1. s.coming \cap {"list", "accepted", "session", "refused", "codeAsked", "loginRequired"} = {}
    BY <1>2, <1>3
  <2> QED
    BY <1>2, <1>3, <2>1 DEF SocketSound
<1> QED
  BY <1>1, <1>2, <1>3

LEMMA ErrorNames ==
  /\ {"failed", "codeRequired", "codeInvalid", "noList", "rejected", "loginTimeout", "noBetterAuth",
      "useBetterAuth", "network", "unreachable"} = Errors
  /\ "none" \notin Errors /\ "list" \notin Errors
  /\ {"failed", "codeRequired", "codeInvalid", "noList", "rejected", "loginTimeout", "useBetterAuth", "network",
      "unreachable"} = Reported
  BY DEF Errors, Reported, Kuma!Definite, Kuma!Broken

\* A client whose fields have changed is a client.
LEMMA ClientMoves ==
  ASSUME client \in Clients
  PROVE  /\ client.outer \in 1..2 /\ client.inner \in 1..2 /\ client.session \in BOOLEAN /\ client.fallback \in BOOLEAN
         /\ client.result \in Errors \cup {"none", "list"} /\ client.phase \in Phases
         /\ \A p \in Phases, o \in 1..2, i \in 1..2, s \in BOOLEAN, f \in BOOLEAN, r \in Errors \cup {"none", "list"} :
              [phase |-> p, outer |-> o, inner |-> i, session |-> s, fallback |-> f, result |-> r] \in Clients
         /\ client = [phase |-> client.phase, outer |-> client.outer, inner |-> client.inner,
                      session |-> client.session, fallback |-> client.fallback, result |-> client.result]
  BY DEF Clients

LEMMA PhaseNames == {"probe", "signIn", "connect", "socket", "map", "done"} = Phases
  BY DEF Phases

\* Every end of a route leads on, or to a verdict that is so; and to a verdict at once
\* where nothing was lost.
LEMMA OuterSound ==
  ASSUME KumaTyped, NEW e \in Errors, NEW lost \in Nat, Proper(e, lost), client.result = "none",
         client.fallback => lost > 0
  PROVE  /\ Kuma!EndOuter(e) \in Clients /\ ClientSound(Kuma!EndOuter(e), lost)
         /\ Kuma!EndOuter(e).phase \in {"probe", "done"}
         /\ lost = 0 => Kuma!EndOuter(e).phase = "done"
<1> DEFINE c == Kuma!EndOuter(e)
<1>0. client \in Clients
  BY DEF KumaTyped
<1>1. CASE e = "network" /\ client.outer = 1
  <2>1. c = [client EXCEPT !.phase = "probe", !.outer = 2, !.fallback = FALSE]
    BY <1>0, <1>1, ClientMoves DEF Kuma!EndOuter
  <2>2. c = [phase |-> "probe", outer |-> 2, inner |-> client.inner, session |-> client.session,
             fallback |-> FALSE, result |-> "none"]
    BY <1>0, <2>1, ClientMoves
  <2> HIDE DEF c
  <2>3. c \in Clients
    BY <1>0, <2>2, ClientMoves DEF Clients, Phases
  <2>4. lost > 0
    BY <1>1 DEF Proper
  <2>5. ClientSound(c, lost)
    BY <2>2 DEF ClientSound
  <2> QED
    BY <2>2, <2>3, <2>4, <2>5 DEF c
<1>2. CASE ~(e = "network" /\ client.outer = 1)
  <2>1. c = [client EXCEPT !.phase = "done", !.result = e]
    BY <1>0, <1>2, ClientMoves DEF Kuma!EndOuter
  <2>2. c = [phase |-> "done", outer |-> client.outer, inner |-> client.inner, session |-> client.session,
             fallback |-> client.fallback, result |-> e]
    BY <1>0, <2>1, ClientMoves
  <2> HIDE DEF c
  <2>3. c \in Clients
    BY <1>0, <2>2, ClientMoves DEF Clients, Phases
  <2>5. ClientSound(c, lost)
    BY <2>2, ErrorNames DEF ClientSound
  <2> QED
    BY <2>2, <2>3, <2>5 DEF c
<1> QED
  BY <1>1, <1>2

LEMMA SessionSound ==
  ASSUME KumaTyped, NEW e \in Errors, NEW lost \in Nat, client.result = "none",
         IF e = "noBetterAuth" THEN server.kind = "event" \/ lost > 0 ELSE Proper(e, lost),
         client.fallback => lost > 0
  PROVE  /\ Kuma!EndSession(e) \in Clients /\ ClientSound(Kuma!EndSession(e), lost)
         /\ Kuma!EndSession(e).phase \in {"probe", "done", "connect"}
         /\ lost = 0 /\ e # "noBetterAuth" => Kuma!EndSession(e).phase = "done"
<1> DEFINE c == Kuma!EndSession(e)
<1>0. client \in Clients
  BY DEF KumaTyped
<1>1. CASE e = "noBetterAuth" /\ client.fallback
  <2>1. Proper("loginTimeout", lost) /\ "loginTimeout" \in Errors
    BY <1>1, ErrorNames DEF Proper
  <2>2. c = Kuma!EndOuter("loginTimeout")
    BY <1>1 DEF Kuma!EndSession
  <2> HIDE DEF c
  <2>3. /\ c \in Clients /\ ClientSound(c, lost) /\ c.phase \in {"probe", "done"}
    BY <2>1, <2>2, OuterSound
  <2> QED
    BY <1>1, <2>3 DEF c
<1>2. CASE e = "noBetterAuth" /\ ~client.fallback
  <2>1. c = [client EXCEPT !.phase = "connect", !.session = FALSE]
    BY <1>0, <1>2, ClientMoves DEF Kuma!EndSession
  <2>2. c = [phase |-> "connect", outer |-> client.outer, inner |-> client.inner, session |-> FALSE,
             fallback |-> client.fallback, result |-> "none"]
    BY <1>0, <2>1, ClientMoves
  <2> HIDE DEF c
  <2>3. c \in Clients
    BY <1>0, <2>2, ClientMoves DEF Clients, Phases
  <2>4. ClientSound(c, lost)
    BY <1>2, <2>2 DEF ClientSound
  <2> QED
    BY <1>2, <2>2, <2>3, <2>4 DEF c
<1>3. CASE e # "noBetterAuth"
  <2>1. c = Kuma!EndOuter(e)
    BY <1>0, <1>3, ClientMoves DEF Kuma!EndSession
  <2> HIDE DEF c
  <2>2. /\ c \in Clients /\ ClientSound(c, lost) /\ c.phase \in {"probe", "done"}
        /\ lost = 0 => c.phase = "done"
    BY <1>3, <2>1, OuterSound
  <2> QED
    BY <2>2 DEF c
<1> QED
  BY <1>1, <1>2, <1>3

LEMMA SocketEndSound ==
  ASSUME KumaTyped, NEW e \in Errors, NEW lost \in Nat, client.result = "none",
         e # "noBetterAuth", Proper(e, lost), client.fallback => lost > 0,
         client.session => Kuma!Accepts /\ server.kind = "session"
  PROVE  /\ Kuma!EndSocket(e) \in Clients /\ ClientSound(Kuma!EndSocket(e), lost)
         /\ Kuma!EndSocket(e).phase \in {"probe", "done", "connect", "signIn"}
         /\ lost = 0 => Kuma!EndSocket(e).phase = "done"
<1> DEFINE c == Kuma!EndSocket(e)
<1>0. client \in Clients
  BY DEF KumaTyped
<1>1. CASE client.session /\ e = "network" /\ client.inner = 1
  <2>1. c = [client EXCEPT !.phase = "connect", !.inner = 2]
    BY <1>1 DEF Kuma!EndSocket
  <2>2. c = [phase |-> "connect", outer |-> client.outer, inner |-> 2, session |-> client.session,
             fallback |-> client.fallback, result |-> "none"]
    BY <1>0, <2>1, ClientMoves
  <2> HIDE DEF c
  <2>3. c \in Clients
    BY <1>0, <2>2, ClientMoves DEF Clients, Phases
  <2>4. lost > 0
    BY <1>1 DEF Proper
  <2>5. ClientSound(c, lost)
    BY <1>1, <2>2 DEF ClientSound
  <2> QED
    BY <2>2, <2>3, <2>4, <2>5 DEF c
<1>2. CASE client.session /\ ~(e = "network" /\ client.inner = 1)
  <2>1. c = Kuma!EndSession(e)
    BY <1>2 DEF Kuma!EndSocket
  <2> HIDE DEF c
  <2>2. /\ c \in Clients /\ ClientSound(c, lost) /\ c.phase \in {"probe", "done", "connect"}
        /\ lost = 0 => c.phase = "done"
    BY <2>1, SessionSound
  <2> QED
    BY <2>2 DEF c
<1>3. CASE ~client.session /\ e = "useBetterAuth"
  <2>1. c = [client EXCEPT !.phase = "signIn", !.fallback = TRUE]
    BY <1>0, <1>3, ClientMoves DEF Kuma!EndSocket
  <2>2. c = [phase |-> "signIn", outer |-> client.outer, inner |-> client.inner, session |-> client.session,
             fallback |-> TRUE, result |-> "none"]
    BY <1>0, <2>1, ClientMoves
  <2> HIDE DEF c
  <2>3. c \in Clients
    BY <1>0, <2>2, ClientMoves DEF Clients, Phases
  <2>4. lost > 0
    BY <1>3 DEF Proper
  <2>5. ClientSound(c, lost)
    BY <2>2, <2>4 DEF ClientSound
  <2> QED
    BY <2>2, <2>3, <2>4, <2>5 DEF c
<1>4. CASE ~client.session /\ e # "useBetterAuth"
  <2>1. c = Kuma!EndOuter(e)
    BY <1>0, <1>4, ClientMoves DEF Kuma!EndSocket
  <2> HIDE DEF c
  <2>2. /\ c \in Clients /\ ClientSound(c, lost) /\ c.phase \in {"probe", "done"}
        /\ lost = 0 => c.phase = "done"
    BY <2>1, OuterSound
  <2> QED
    BY <2>2 DEF c
<1> QED
  BY <1>1, <1>2, <1>3, <1>4

\* The account does not change, and what is lost stays lost.
LEMMA AccountStays ==
  ASSUME UNCHANGED <<server, login>>, NEW lost \in Nat, NEW more \in Nat, more >= lost
  PROVE  /\ Kuma!Accepts' <=> Kuma!Accepts
         /\ \A e : Proper(e, lost) => Proper(e, more)'
         /\ \A c : ClientSound(c, lost) => ClientSound(c, more)'
         /\ \A s, b : SocketSound(s, b, lost) => SocketSound(s, b, more)'
<1>1. Kuma!Accepts' <=> Kuma!Accepts
  BY DEF Kuma!Accepts
<1>2. (lost > 0 => more > 0) /\ server' = server /\ login' = login
  OBVIOUS
<1>3. ASSUME NEW e, Proper(e, lost) PROVE Proper(e, more)'
  BY <1>1, <1>2, <1>3 DEF Proper
<1>4. ASSUME NEW c, ClientSound(c, lost) PROVE ClientSound(c, more)'
  BY <1>1, <1>2, <1>3, <1>4 DEF ClientSound
<1>5. ASSUME NEW s, NEW b, SocketSound(s, b, lost) PROVE SocketSound(s, b, more)'
  BY <1>1, <1>2, <1>3, <1>5 DEF SocketSound
<1> QED
  BY <1>1, <1>3, <1>4, <1>5

LEMMA KumaInit == Kuma!Init => KumaInv
<1> SUFFICES ASSUME Kuma!Init PROVE KumaInv
  OBVIOUS
<1>1. KumaTyped
  BY BlankSockets DEF Kuma!Init, KumaTyped, Clients, Phases
<1>2. ClientSound(client, losses) /\ AskedOnce /\ socket = Kuma!NoSocket
  BY DEF Kuma!Init, ClientSound, AskedOnce
<1> QED
  BY <1>1, <1>2, BlankSockets DEF KumaInv, Kuma!Init

\* Steps of the call outside of a connection: the client moves, soundly.
LEMMA RouteStep ==
  ASSUME KumaInv, UNCHANGED <<server, login>>, socket' = Kuma!NoSocket \/ socket' = Kuma!Opening,
         losses' \in Nat, losses' >= losses, submitted' \in Nat,
         client' \in Clients, ClientSound(client, losses)',
         client'.phase = "socket" \/ socket' = Kuma!NoSocket,
         losses' = 0 /\ submitted' > 0 => submitted' = 1 /\ client'.phase \in {"map", "done"}
  PROVE  KumaInv'
<1>1. KumaTyped'
  BY BlankSockets DEF KumaInv, KumaTyped
<1>2. SocketSound(socket, client.session, losses)'
  BY <1>1, BlankSockets, AccountStays DEF KumaInv, KumaTyped, Clients
<1> QED
  BY <1>1, <1>2 DEF KumaInv, AskedOnce

LEMMA SocketStep ==
  ASSUME KumaInv, client.phase = "socket", UNCHANGED <<server, login, client>>, losses' \in Nat, losses' >= losses,
         submitted' \in Nat, socket' \in Sockets, SocketSound(socket', client.session, losses'),
         losses' = 0 /\ submitted' > 0 =>
           /\ submitted' = 1 /\ socket'.attempt \notin {"send", "sendCode"}
           /\ socket'.coming \cap {"connect", "codeAsked"} = {}
  PROVE  KumaInv'
<1>1. KumaTyped'
  BY DEF KumaInv, KumaTyped
<1>2. SocketSound(socket, client.session, losses)'
  BY AccountStays
<1>3. ClientSound(client, losses)'
  BY AccountStays DEF KumaInv, KumaTyped
<1> QED
  BY <1>1, <1>2, <1>3 DEF KumaInv, AskedOnce

\* What is reported is so, and what has come is taken away.
LEMMA ReportSound ==
  ASSUME NEW s \in Sockets, NEW b \in BOOLEAN, NEW lost \in Nat, SocketSound(s, b, lost), NEW e \in Reported, Proper(e, lost)
  PROVE  /\ Kuma!Report(s, e) \in Sockets /\ SocketSound(Kuma!Report(s, e), b, lost)
         /\ Kuma!Report(s, e).attempt = s.attempt /\ Kuma!Report(s, e).coming = s.coming
<1>1. CASE s.error = "none"
  <2> DEFINE t == Kuma!Report(s, e)
  <2>1. t = [s EXCEPT !.error = e]
    BY <1>1 DEF Kuma!Report
  <2>2. /\ t \in Sockets /\ t.error = e /\ t.open = s.open /\ t.coming = s.coming /\ t.attempt = s.attempt
        /\ t.required = s.required /\ t.loggedIn = s.loggedIn /\ t.list = s.list
    BY <2>1 DEF Sockets
  <2> HIDE DEF t
  <2>3. SocketSound(t, b, lost)
    BY <2>2 DEF SocketSound
  <2> QED
    BY <2>2, <2>3 DEF t
<1>2. CASE s.error # "none"
  BY <1>2 DEF Kuma!Report
<1> QED
  BY <1>1, <1>2

LEMMA DropSound ==
  ASSUME NEW s \in Sockets, NEW b \in BOOLEAN, NEW lost \in Nat, SocketSound(s, b, lost), NEW gone
  PROVE  /\ [s EXCEPT !.coming = @ \ gone] \in Sockets /\ SocketSound([s EXCEPT !.coming = @ \ gone], b, lost)
<1> DEFINE t == [s EXCEPT !.coming = @ \ gone]
<1>1. /\ t \in Sockets /\ t.error = s.error /\ t.open = s.open /\ t.coming = s.coming \ gone /\ t.attempt = s.attempt
      /\ t.required = s.required /\ t.loggedIn = s.loggedIn /\ t.list = s.list
  BY DEF Sockets
<1> HIDE DEF t
<1>2. SocketSound(t, b, lost)
  BY <1>1 DEF SocketSound
<1> QED
  BY <1>1, <1>2 DEF t

\* A loss makes everything sound that depends on it.
LEMMA LossSound ==
  ASSUME NEW s, NEW b, NEW lost \in Nat, NEW more \in Nat, more >= lost
  PROVE  /\ SocketSound(s, b, lost) => SocketSound(s, b, more)
         /\ \A e : Proper(e, lost) => Proper(e, more)
<1>1. lost > 0 => more > 0
  OBVIOUS
<1>2. ASSUME NEW e, Proper(e, lost) PROVE Proper(e, more)
  BY <1>1, <1>2 DEF Proper
<1>3. ASSUME SocketSound(s, b, lost) PROVE SocketSound(s, b, more)
  BY <1>1, <1>2, <1>3 DEF SocketSound
<1> QED
  BY <1>2, <1>3

LEMMA HelloStep ==
  ASSUME KumaInv, Kuma!OnConnect
  PROVE  KumaInv'
<1> DEFINE s == [socket EXCEPT !.coming = @ \ {"connect"}]
<1>0. /\ client.phase = "socket" /\ "connect" \in socket.coming /\ client.session \in BOOLEAN
      /\ losses \in Nat /\ submitted \in Nat /\ socket \in Sockets
      /\ SocketSound(socket, client.session, losses) /\ ClientSound(client, losses)
      /\ UNCHANGED <<server, login, client, submitted>>
  BY DEF Kuma!OnConnect, Kuma!Hears, Kuma!Live, KumaInv, KumaTyped, Clients
<1>1. ~(losses = 0 /\ submitted > 0)
  BY <1>0 DEF KumaInv, AskedOnce
<1>2. /\ s \in Sockets /\ SocketSound(s, client.session, losses)
  BY <1>0, DropSound
<1>3. CASE client.session /\ socket' = [s EXCEPT !.coming = @ \cup {"session", "list"}] /\ UNCHANGED losses
  <2>1. Kuma!Accepts
    BY <1>0, <1>3 DEF ClientSound
  <2>2. /\ socket' \in Sockets /\ socket'.coming = s.coming \cup {"session", "list"} /\ socket'.error = s.error
        /\ socket'.attempt = s.attempt /\ socket'.loggedIn = s.loggedIn /\ socket'.list = s.list
    BY <1>2, <1>3 DEF Sockets, Events
  <2> HIDE DEF s
  <2>3. SocketSound(socket', client.session, losses)
    BY <1>2, <2>1, <2>2, "connect" \notin {"session", "list"} DEF SocketSound
  <2> QED
    BY <1>0, <1>1, <1>3, <2>2, <2>3, SocketStep
<1>4. CASE client.session /\ socket' = [s EXCEPT !.coming = @ \cup {"loginRequired"}] /\ Kuma!Lose
  <2>1. losses' = losses + 1 /\ losses' > 0
    BY <1>0, <1>4 DEF Kuma!Lose
  <2>2. /\ socket' \in Sockets /\ socket'.coming = s.coming \cup {"loginRequired"} /\ socket'.error = s.error
        /\ socket'.attempt = s.attempt /\ socket'.loggedIn = s.loggedIn /\ socket'.list = s.list
    BY <1>2, <1>4 DEF Sockets, Events
  <2>3. SocketSound(s, client.session, losses')
    BY <1>0, <1>2, <2>1, LossSound
  <2> HIDE DEF s
  <2>4. SocketSound(socket', client.session, losses')
    BY <2>1, <2>2, <2>3 DEF SocketSound
  <2> QED
    BY <1>0, <2>1, <2>2, <2>4, SocketStep
<1>5. CASE ~client.session /\ UNCHANGED losses
           /\ socket' = [s EXCEPT !.coming = @ \cup {"loginRequired"}, !.attempt = "send"]
  <2>2. /\ socket' \in Sockets /\ socket'.coming = s.coming \cup {"loginRequired"} /\ socket'.error = s.error
        /\ socket'.attempt = "send" /\ socket'.loggedIn = s.loggedIn /\ socket'.list = s.list
    BY <1>2, <1>5 DEF Sockets, Events
  <2>3. s.coming = socket.coming \ {"connect"} /\ s.attempt = socket.attempt
    BY <1>0 DEF Sockets
  <2>5. "codeAsked" \notin s.coming
    BY <1>0, <2>3 DEF SocketSound
  <2> HIDE DEF s
  <2>4. SocketSound(socket', client.session, losses)
    BY <1>2, <1>5, <2>2, <2>3, <2>5 DEF SocketSound
  <2> QED
    BY <1>0, <1>1, <1>5, <2>2, <2>4, SocketStep
<1> QED
  BY <1>3, <1>4, <1>5 DEF Kuma!OnConnect

\* What a step of a live connection starts from.
LEMMA LiveFacts ==
  ASSUME KumaInv, Kuma!Live
  PROVE  /\ client.phase = "socket" /\ client.session \in BOOLEAN
         /\ losses \in Nat /\ submitted \in Nat /\ socket \in Sockets
         /\ SocketSound(socket, client.session, losses) /\ ClientSound(client, losses)
         /\ losses = 0 /\ submitted > 0 =>
              /\ submitted = 1 /\ socket.attempt \notin {"send", "sendCode"}
              /\ socket.coming \cap {"connect", "codeAsked"} = {}
  BY DEF Kuma!Live, KumaInv, KumaTyped, Clients, AskedOnce

LEMMA EventStep ==
  ASSUME KumaInv, Kuma!OnSession \/ Kuma!OnLoginRequired \/ Kuma!OnMonitorList
  PROVE  KumaInv'
<1>0. Kuma!Live /\ UNCHANGED <<server, login, client, losses, submitted>>
  BY DEF Kuma!OnSession, Kuma!OnLoginRequired, Kuma!OnMonitorList, Kuma!Hears, Kuma!Rest
<1> USE LiveFacts
<1>1. ASSUME NEW s \in Sockets, SocketSound(s, client.session, losses), s.attempt = socket.attempt,
             s.coming \subseteq socket.coming, socket' = s
      PROVE  KumaInv'
  BY <1>0, <1>1, SocketStep
<1>2. ASSUME NEW event
      PROVE  LET s == [socket EXCEPT !.coming = @ \ {event}]
             IN /\ s \in Sockets /\ SocketSound(s, client.session, losses) /\ s.attempt = socket.attempt
                /\ s.coming = socket.coming \ {event} /\ s.error = socket.error /\ s.loggedIn = socket.loggedIn
                /\ s.list = socket.list
  <2>1. socket \in Sockets /\ client.session \in BOOLEAN /\ losses \in Nat
        /\ SocketSound(socket, client.session, losses)
    BY <1>0, LiveFacts
  <2>2. LET s == [socket EXCEPT !.coming = @ \ {event}]
        IN s \in Sockets /\ SocketSound(s, client.session, losses)
    BY <2>1, DropSound
  <2>3. LET s == [socket EXCEPT !.coming = @ \ {event}]
        IN /\ s.attempt = socket.attempt /\ s.coming = socket.coming \ {event} /\ s.error = socket.error
           /\ s.loggedIn = socket.loggedIn /\ s.list = socket.list
    BY <2>1 DEF Sockets
  <2> QED
    BY <2>2, <2>3
<1>3. CASE Kuma!OnSession
  <2> DEFINE s == [socket EXCEPT !.coming = @ \ {"session"}]
             t == [socket EXCEPT !.coming = @ \ {"session"}, !.loggedIn = TRUE]
  <2>1. s \in Sockets /\ SocketSound(s, client.session, losses)
    BY <1>2
  <2>2. /\ t \in Sockets /\ t.attempt = socket.attempt /\ t.coming = s.coming /\ t.error = s.error /\ t.list = s.list
        /\ s.attempt = socket.attempt /\ s.coming = socket.coming \ {"session"}
    BY <1>0 DEF Sockets
  <2>3. Kuma!Accepts
    BY <1>0, <1>3 DEF Kuma!OnSession, Kuma!Hears, SocketSound
  <2> HIDE DEF s, t
  <2>4. SocketSound(t, client.session, losses)
    BY <2>1, <2>2, <2>3 DEF SocketSound
  <2> QED
    BY <1>1, <1>3, <2>2, <2>4 DEF Kuma!OnSession, t
<1>4. CASE Kuma!OnLoginRequired
  <2> DEFINE s == [socket EXCEPT !.coming = @ \ {"loginRequired"}]
  <2>1. /\ s \in Sockets /\ SocketSound(s, client.session, losses) /\ s.attempt = socket.attempt
        /\ s.coming = socket.coming \ {"loginRequired"}
    BY <1>2
  <2>2. CASE client.session
    <3>1. losses > 0
      BY <1>0, <1>4, <2>2 DEF Kuma!OnLoginRequired, Kuma!Hears, SocketSound
    <3>2. Proper("rejected", losses) /\ "rejected" \in Reported
      BY <3>1, ErrorNames DEF Proper
    <3>3. socket' = Kuma!Report(s, "rejected")
      BY <1>4, <2>2 DEF Kuma!OnLoginRequired
    <3> HIDE DEF s
    <3>4. /\ socket' \in Sockets /\ SocketSound(socket', client.session, losses)
          /\ socket'.attempt = s.attempt /\ socket'.coming = s.coming
      BY <1>0, <2>1, <3>2, <3>3, ReportSound
    <3> QED
      BY <1>0, <2>1, <3>4, SocketStep
  <2>3. CASE ~client.session
    <3>1. socket' = [s EXCEPT !.required = TRUE]
      BY <1>4, <2>3 DEF Kuma!OnLoginRequired
    <3> HIDE DEF s
    <3>2. /\ socket' \in Sockets /\ socket'.attempt = s.attempt /\ socket'.coming = s.coming
          /\ socket'.error = s.error /\ socket'.loggedIn = s.loggedIn /\ socket'.list = s.list
      BY <2>1, <3>1 DEF Sockets
    <3>3. SocketSound(socket', client.session, losses)
      BY <2>1, <3>2 DEF SocketSound
    <3> QED
      BY <1>0, <2>1, <3>2, <3>3, SocketStep
  <2> QED
    BY <2>2, <2>3
<1>5. CASE Kuma!OnMonitorList
  <2> DEFINE s == [socket EXCEPT !.coming = @ \ {"list"}]
  <2>1. /\ s \in Sockets /\ SocketSound(s, client.session, losses) /\ s.attempt = socket.attempt
        /\ s.coming = socket.coming \ {"list"}
    BY <1>2
  <2>2. Kuma!Accepts
    BY <1>0, <1>5 DEF Kuma!OnMonitorList, Kuma!Hears, SocketSound
  <2>3. CASE server.empty
    <3>1. Proper("noList", losses) /\ "noList" \in Reported
      BY <2>2, <2>3, ErrorNames DEF Proper
    <3>2. socket' = Kuma!Report(s, "noList")
      BY <1>5, <2>3 DEF Kuma!OnMonitorList
    <3> HIDE DEF s
    <3>3. /\ socket' \in Sockets /\ SocketSound(socket', client.session, losses)
          /\ socket'.attempt = s.attempt /\ socket'.coming = s.coming
      BY <1>0, <2>1, <3>1, <3>2, ReportSound
    <3> QED
      BY <1>0, <2>1, <3>3, SocketStep
  <2>4. CASE ~server.empty
    <3>1. socket' = [s EXCEPT !.list = TRUE]
      BY <1>5, <2>4 DEF Kuma!OnMonitorList
    <3> HIDE DEF s
    <3>2. /\ socket' \in Sockets /\ socket'.attempt = s.attempt /\ socket'.coming = s.coming
          /\ socket'.error = s.error /\ socket'.loggedIn = s.loggedIn
      BY <2>1, <3>1 DEF Sockets
    <3>3. SocketSound(socket', client.session, losses)
      BY <2>1, <2>2, <2>4, <3>2 DEF SocketSound
    <3> QED
      BY <1>0, <2>1, <3>2, <3>3, SocketStep
  <2> QED
    BY <2>3, <2>4
<1> QED
  BY <1>3, <1>4, <1>5

LEMMA CutStep ==
  ASSUME KumaInv, Kuma!OnDisconnect
  PROVE  KumaInv'
<1>0. Kuma!Live /\ UNCHANGED <<server, login, client, submitted>> /\ Kuma!Lose
  BY DEF Kuma!OnDisconnect
<1> USE LiveFacts
<1>1. losses' = losses + 1 /\ losses' > 0
  BY <1>0 DEF Kuma!Lose
<1> DEFINE s == [socket EXCEPT !.open = FALSE, !.coming = {}]
<1>2. /\ s \in Sockets /\ s.attempt = socket.attempt /\ s.coming = {} /\ s.error = socket.error
      /\ s.loggedIn = socket.loggedIn /\ s.list = socket.list
  BY <1>0 DEF Sockets
<1>3. SocketSound(socket, client.session, losses')
  BY <1>0, <1>1, LossSound
<1>4. PICK error \in Kuma!Broken : socket' = Kuma!Report(s, error)
  BY DEF Kuma!OnDisconnect
<1> HIDE DEF s
<1>5. SocketSound(s, client.session, losses')
  BY <1>2, <1>3 DEF SocketSound
<1>6. Proper(error, losses') /\ error \in Reported
  BY <1>1 DEF Proper, Errors, Reported, Kuma!Broken
<1>7. socket' \in Sockets /\ SocketSound(socket', client.session, losses')
  BY <1>0, <1>1, <1>2, <1>4, <1>5, <1>6, ReportSound
<1> QED
  BY <1>0, <1>1, <1>7, SocketStep

\* A login is sent only by a client without a session, before it has been refused.
LEMMA EmitStep ==
  ASSUME KumaInv, Kuma!EmitLogin
  PROVE  KumaInv'
<1>0. Kuma!Live /\ socket.attempt \in {"send", "sendCode"} /\ UNCHANGED <<server, login, client, losses>>
  BY DEF Kuma!EmitLogin, Kuma!Rest
<1> USE LiveFacts
<1> DEFINE code == socket.attempt = "sendCode"
           says == IF login.password /\ server.twoFactor /\ ~code THEN "codeAsked"
                   ELSE IF Kuma!Accepts THEN "accepted" ELSE "refused"
<1>a. PICK answer \in {says} \cup {no \in {"refused"} : server.limits} :
        LET sent == IF server.kind = "session" THEN {}
                    ELSE {answer} \cup IF answer = "accepted" THEN {"list"} ELSE {}
        IN /\ socket' = [socket EXCEPT !.attempt = IF code THEN "codeSent" ELSE "sent", !.coming = @ \cup sent]
           /\ submitted' = IF submitted > 0 \/ "refused" \in sent THEN submitted + 1 ELSE 0
  BY DEF Kuma!EmitLogin
<1>b. answer = says \/ (answer = "refused" /\ server.limits)
  BY <1>a
<1> DEFINE sends == IF server.kind = "session" THEN {}
                    ELSE {answer} \cup IF answer = "accepted" THEN {"list"} ELSE {}
           next == IF code THEN "codeSent" ELSE "sent"
<1>1. /\ socket' = [socket EXCEPT !.attempt = next, !.coming = @ \cup sends]
      /\ submitted' = IF submitted > 0 \/ "refused" \in sends THEN submitted + 1 ELSE 0
  BY <1>a
<1>2. /\ sends \subseteq {"codeAsked", "accepted", "refused", "list"}
      /\ "codeAsked" \in sends => login.password /\ server.twoFactor /\ next = "sent"
      /\ "accepted" \in sends \/ "list" \in sends => Kuma!Accepts
      /\ "refused" \in sends => (~Kuma!Accepts \/ server.limits) /\ "codeAsked" \notin sends
  BY <1>b
<1>3. next \in {"sent", "codeSent"} /\ (next = "codeSent" => code)
  OBVIOUS
<1> HIDE DEF sends, next, says
<1>4. /\ socket' \in Sockets /\ socket'.attempt = next /\ socket'.coming = socket.coming \cup sends
      /\ socket'.error = socket.error /\ socket'.loggedIn = socket.loggedIn /\ socket'.list = socket.list
  BY <1>0, <1>1, <1>2, <1>3 DEF Sockets, Events
<1>5. SocketSound(socket, client.session, losses)
  BY <1>0
<1>6. /\ ~client.session /\ "connect" \notin socket.coming /\ "codeAsked" \notin socket.coming
      /\ code => login.code # "none"
  BY <1>0, <1>5 DEF SocketSound
<1>7. SocketSound(socket', client.session, losses)
  <2>1. socket'.coming \cap {"list", "accepted", "session"} # {} \/ socket'.loggedIn \/ socket'.list => Kuma!Accepts
    BY <1>2, <1>4, <1>5 DEF SocketSound
  <2>2. /\ "refused" \in socket'.coming => ~Kuma!Accepts \/ server.limits
        /\ "codeAsked" \in socket'.coming => login.password /\ server.twoFactor /\ socket'.attempt \in {"sent", "over"}
        /\ "loginRequired" \in socket'.coming /\ client.session => losses > 0
        /\ "connect" \notin socket'.coming
    BY <1>2, <1>4, <1>5, <1>6 DEF SocketSound
  <2> QED
    BY <1>3, <1>4, <1>5, <1>6, <2>1, <2>2 DEF SocketSound
<1>8. losses' = 0 /\ submitted' > 0 =>
        /\ submitted' = 1 /\ socket'.attempt \notin {"send", "sendCode"}
        /\ socket'.coming \cap {"connect", "codeAsked"} = {}
  <2> SUFFICES ASSUME losses' = 0, submitted' > 0
               PROVE  submitted' = 1 /\ socket'.coming \cap {"connect", "codeAsked"} = {}
    BY <1>3, <1>4
  <2>1. ~(submitted > 0)
    BY <1>0
  <2>2. "refused" \in sends /\ submitted' = 1
    BY <1>0, <1>1, <2>1
  <2> QED
    BY <1>2, <1>4, <1>6, <2>2
<1>9. submitted' \in Nat
  BY <1>0, <1>1
<1> QED
  BY <1>0, <1>4, <1>7, <1>8, <1>9, SocketStep

LEMMA AnswerStep ==
  ASSUME KumaInv, Kuma!OnAnswer
  PROVE  KumaInv'
<1>0. /\ Kuma!Live /\ socket.attempt \in {"sent", "codeSent"}
      /\ UNCHANGED <<server, login, client, losses, submitted>>
  BY DEF Kuma!OnAnswer, Kuma!Rest
<1> USE LiveFacts
<1>1. PICK answer \in {"accepted", "refused", "codeAsked"} \cap socket.coming :
        socket' = Kuma!EndLogin([socket EXCEPT !.coming = @ \ {answer}], answer)
  BY DEF Kuma!OnAnswer
<1> DEFINE s == [socket EXCEPT !.coming = @ \ {answer}]
           over == [s EXCEPT !.attempt = "over"]
<1>2. /\ s \in Sockets /\ SocketSound(s, client.session, losses) /\ s.coming = socket.coming \ {answer}
      /\ s.attempt = socket.attempt
  <2>1. /\ s \in Sockets /\ SocketSound(s, client.session, losses)
    BY <1>0, DropSound
  <2>2. s.coming = socket.coming \ {answer} /\ s.attempt = socket.attempt
    BY <1>0 DEF Sockets
  <2> QED
    BY <2>1, <2>2
<1>3. /\ over \in Sockets /\ over.attempt = "over" /\ over.coming = s.coming /\ over.error = s.error
      /\ over.loggedIn = s.loggedIn /\ over.list = s.list
  BY <1>2 DEF Sockets
<1>4. socket' = IF answer = "accepted" THEN [over EXCEPT !.loggedIn = TRUE]
                ELSE IF answer = "refused" THEN Kuma!Report(over, "failed")
                ELSE IF s.attempt = "codeSent" THEN Kuma!Report(over, "codeInvalid")
                ELSE IF login.code = "none" THEN Kuma!Report(over, "codeRequired")
                ELSE [s EXCEPT !.attempt = "sendCode"]
  BY <1>1 DEF Kuma!EndLogin
<1> HIDE DEF s, over
<1>5. SocketSound(over, client.session, losses)
  BY <1>0, <1>2, <1>3 DEF SocketSound
<1>6. /\ answer = "accepted" => Kuma!Accepts
      /\ answer = "refused" => ~Kuma!Accepts \/ server.limits
      /\ answer = "codeAsked" => login.password /\ server.twoFactor /\ s.attempt # "codeSent"
  BY <1>0, <1>2 DEF SocketSound
<1>7. ASSUME NEW e \in Reported, Proper(e, losses), socket' = Kuma!Report(over, e) PROVE KumaInv'
  <2>1. /\ socket' \in Sockets /\ SocketSound(socket', client.session, losses)
        /\ socket'.attempt = "over" /\ socket'.coming = s.coming
    BY <1>0, <1>3, <1>5, <1>7, ReportSound
  <2> QED
    BY <1>0, <1>2, <2>1, SocketStep
<1>8. CASE answer = "accepted"
  <2>1. socket' = [over EXCEPT !.loggedIn = TRUE]
    BY <1>4, <1>8
  <2>2. /\ socket' \in Sockets /\ socket'.attempt = "over" /\ socket'.coming = s.coming /\ socket'.error = s.error
        /\ socket'.list = s.list
    BY <1>3, <2>1 DEF Sockets
  <2>3. SocketSound(socket', client.session, losses)
    BY <1>3, <1>5, <1>6, <1>8, <2>2 DEF SocketSound
  <2> QED
    BY <1>0, <1>2, <2>2, <2>3, SocketStep
<1>9. CASE answer = "refused"
  <2>1. Proper("failed", losses) /\ "failed" \in Reported
    BY <1>6, <1>9, ErrorNames DEF Proper
  <2> QED
    BY <1>4, <1>7, <1>9, <2>1
<1>10. CASE answer = "codeAsked" /\ login.code = "none"
  <2>1. Proper("codeRequired", losses) /\ "codeRequired" \in Reported
    BY <1>6, <1>10, ErrorNames DEF Proper
  <2> QED
    BY <1>4, <1>6, <1>7, <1>10, <2>1
<1>11. CASE answer = "codeAsked" /\ login.code # "none"
  <2>1. socket' = [s EXCEPT !.attempt = "sendCode"]
    BY <1>4, <1>6, <1>11
  <2>2. /\ socket' \in Sockets /\ socket'.attempt = "sendCode" /\ socket'.coming = s.coming /\ socket'.error = s.error
        /\ socket'.list = s.list /\ socket'.loggedIn = s.loggedIn
    BY <1>2, <2>1 DEF Sockets
  <2>3. ~client.session /\ "connect" \notin s.coming /\ "codeAsked" \notin s.coming
    BY <1>0, <1>2, <1>11 DEF SocketSound
  <2>4. SocketSound(socket', client.session, losses)
    BY <1>2, <1>11, <2>2, <2>3 DEF SocketSound
  <2>5. ~(losses = 0 /\ submitted > 0)
    BY <1>0, <1>11
  <2> QED
    BY <1>0, <2>2, <2>4, <2>5, SocketStep
<1> QED
  BY <1>8, <1>9, <1>10, <1>11

LEMMA TimeoutStep ==
  ASSUME KumaInv, Kuma!LoginTimeout
  PROVE  KumaInv'
<1>0. /\ Kuma!Live /\ socket.attempt \in {"sent", "codeSent"}
      /\ UNCHANGED <<server, login, client, submitted>>
  BY DEF Kuma!LoginTimeout
<1> USE LiveFacts
<1> DEFINE e == IF socket.required THEN "useBetterAuth" ELSE "loginTimeout"
           over == [socket EXCEPT !.attempt = "over"]
<1>1. socket' = Kuma!Report(over, e)
  BY DEF Kuma!LoginTimeout
<1>2. ~client.session
  BY <1>0 DEF SocketSound
<1>3. losses' \in Nat /\ losses' >= losses /\ losses' > 0
  <2>1. CASE server.kind = "session"
    <3>1. losses > 0
      BY <1>0, <1>2, <2>1 DEF ClientSound
    <3> QED
      BY <1>0, <2>1, <3>1 DEF Kuma!LoginTimeout
  <2>2. CASE server.kind # "session"
    BY <1>0, <2>2 DEF Kuma!LoginTimeout, Kuma!Lose
  <2> QED
    BY <2>1, <2>2
<1>4. e \in Reported /\ Proper(e, losses')
  <2>1. e \in {"useBetterAuth", "loginTimeout"}
    OBVIOUS
  <2> HIDE DEF e
  <2> QED
    BY <1>3, <2>1, ErrorNames DEF Proper
<1>5. /\ over \in Sockets /\ over.attempt = "over" /\ over.coming = socket.coming /\ over.error = socket.error
      /\ over.loggedIn = socket.loggedIn /\ over.list = socket.list
  BY <1>0 DEF Sockets
<1>6. SocketSound(socket, client.session, losses')
  BY <1>0, <1>3, LossSound
<1> HIDE DEF over, e
<1>7. SocketSound(over, client.session, losses')
  BY <1>0, <1>5, <1>6 DEF SocketSound
<1>8. /\ socket' \in Sockets /\ SocketSound(socket', client.session, losses')
  BY <1>0, <1>1, <1>3, <1>4, <1>5, <1>7, ReportSound
<1> QED
  BY <1>0, <1>3, <1>8, SocketStep

\* What a step outside of a connection starts from.
LEMMA RouteFacts ==
  ASSUME KumaInv
  PROVE  /\ client \in Clients /\ losses \in Nat /\ submitted \in Nat /\ ClientSound(client, losses)
         /\ client.phase \notin {"map", "done"} => client.result = "none"
         /\ client.fallback => losses > 0
         /\ losses = 0 /\ submitted > 0 => submitted = 1 /\ client.phase \in {"socket", "map", "done"}
         /\ client.phase # "socket" => socket = Kuma!NoSocket
  BY DEF KumaInv, KumaTyped, ClientSound, AskedOnce

LEMMA ProbeStep ==
  ASSUME KumaInv, Kuma!Probe
  PROVE  KumaInv'
<1> USE RouteFacts
<1>0. client.phase = "probe" /\ client.result = "none" /\ UNCHANGED <<server, login, socket, submitted>>
  BY DEF Kuma!Probe
<1>1. ASSUME client'.phase # "socket", client' \in Clients, ClientSound(client', losses'),
             losses' \in Nat, losses' >= losses
      PROVE  KumaInv'
  <2>1. ClientSound(client, losses)'
    BY <1>0, <1>1, AccountStays
  <2>2. ~(losses' = 0 /\ submitted' > 0)
    BY <1>0, <1>1
  <2> QED
    BY <1>0, <1>1, <2>1, <2>2, RouteStep
<1>2. CASE client' = [client EXCEPT !.phase = "signIn"] /\ server.kind = "session" /\ UNCHANGED losses
  <2>1. client' = [phase |-> "signIn", outer |-> client.outer, inner |-> client.inner, session |-> client.session,
                   fallback |-> client.fallback, result |-> "none"]
    BY <1>0, <1>2, ClientMoves
  <2>2. client' \in Clients
    BY <2>1, ClientMoves DEF Clients, Phases
  <2>3. ClientSound(client', losses')
    BY <1>2, <2>1 DEF ClientSound
  <2> QED
    BY <1>1, <1>2, <2>1, <2>2, <2>3
<1>3. CASE /\ client' = [client EXCEPT !.phase = "connect", !.session = FALSE]
           /\ (server.kind = "event" /\ UNCHANGED losses) \/ Kuma!Lose
  <2>1. client' = [phase |-> "connect", outer |-> client.outer, inner |-> client.inner, session |-> FALSE,
                   fallback |-> client.fallback, result |-> "none"]
    BY <1>0, <1>3, ClientMoves
  <2>2. client' \in Clients
    BY <2>1, ClientMoves DEF Clients, Phases
  <2>3. losses' \in Nat /\ losses' >= losses /\ (server.kind = "event" \/ losses' > 0) /\ (losses > 0 => losses' > 0)
    BY <1>3 DEF Kuma!Lose
  <2>4. ClientSound(client', losses')
    BY <2>1, <2>3 DEF ClientSound
  <2> QED
    BY <1>1, <2>1, <2>2, <2>3, <2>4
<1>4. server.kind = "session" \/ server.kind = "event"
  BY DEF KumaInv, KumaTyped
<1> QED
  BY <1>2, <1>3, <1>4 DEF Kuma!Probe

LEMMA SignInStep ==
  ASSUME KumaInv, Kuma!SignIn
  PROVE  KumaInv'
<1> USE RouteFacts
<1>0. /\ client.phase = "signIn" /\ client.result = "none" /\ UNCHANGED <<server, login, socket>>
      /\ server.kind = "session" \/ losses > 0
  BY DEF Kuma!SignIn, ClientSound
<1>1. ASSUME client' \in Clients, ClientSound(client', losses'), losses' \in Nat, losses' >= losses, submitted' \in Nat,
             client'.phase # "socket", losses' = 0 /\ submitted' > 0 => submitted' = 1 /\ client'.phase = "done"
      PROVE  KumaInv'
  <2>1. ClientSound(client, losses)'
    BY <1>0, <1>1, AccountStays
  <2> QED
    BY <1>0, <1>1, <2>1, RouteStep
<1>2. ASSUME NEW e \in Errors, client' = Kuma!EndSession(e), submitted' \in Nat, losses' \in Nat, losses' >= losses,
             e # "noBetterAuth", Proper(e, losses'), losses' = 0 => submitted' <= 1
      PROVE  KumaInv'
  <2>1. /\ client' \in Clients /\ ClientSound(client', losses') /\ client'.phase \in {"probe", "done", "connect"}
        /\ losses' = 0 => client'.phase = "done"
    <3>1. client.fallback => losses' > 0
      BY <1>2
    <3>2. KumaTyped
      BY DEF KumaInv
    <3> QED
      BY <1>0, <1>2, <3>1, <3>2, SessionSound
  <2> QED
    BY <1>1, <1>2, <2>1
<1>3. CASE server.kind # "session" /\ UNCHANGED losses /\ client' = Kuma!EndSession("noBetterAuth")
           /\ submitted' = IF submitted > 0 THEN submitted + 1 ELSE 0
  <2>1. losses' > 0 /\ losses' = losses /\ submitted' \in Nat
    BY <1>0, <1>3
  <2>2. "noBetterAuth" \in Errors /\ KumaTyped
    BY ErrorNames DEF KumaInv
  <2>3. /\ client' \in Clients /\ ClientSound(client', losses) /\ client'.phase \in {"probe", "done", "connect"}
    BY <1>0, <1>3, <2>1, <2>2, SessionSound
  <2> QED
    BY <1>1, <2>1, <2>3
<1>4. ASSUME server.kind = "session", UNCHANGED losses,
             NEW verdict \in Kuma!Verdicts \cup Kuma!LimitedVerdicts,
             submitted' = IF submitted > 0 \/ verdict # "none" THEN submitted + 1 ELSE 0,
             client' = IF verdict = "none" THEN [client EXCEPT !.phase = "connect", !.session = TRUE, !.inner = 1]
                       ELSE Kuma!EndSession(verdict)
      PROVE  KumaInv'
  <2>1. submitted' \in Nat /\ (losses' = 0 => submitted' <= 1)
    BY <1>0, <1>4
  <2>2. verdict \in Kuma!Verdicts \/ (verdict \in {"failed", "codeInvalid"} /\ server.limits
          /\ (verdict = "codeInvalid" => login.password /\ server.twoFactor /\ login.code # "none"))
    BY <1>4 DEF Kuma!LimitedVerdicts
  <2>3. login.code \in {"none", "wrong", "right"}
    BY DEF KumaInv, KumaTyped
  <2>4. CASE verdict = "none"
    <3>a. Kuma!Accepts
      BY <2>2, <2>4 DEF Kuma!Verdicts
    <3>1. client' = [client EXCEPT !.phase = "connect", !.session = TRUE, !.inner = 1]
      BY <1>4, <2>4
    <3>2. client' = [phase |-> "connect", outer |-> client.outer, inner |-> 1, session |-> TRUE,
                     fallback |-> client.fallback, result |-> "none"]
      BY <1>0, <3>1, ClientMoves
    <3>3. client' \in Clients
      BY <3>2, ClientMoves DEF Clients, Phases
    <3>6. losses' = losses /\ (client.fallback => losses > 0)
      BY <1>4 DEF KumaInv, ClientSound
    <3>4. ClientSound(client', losses')
      <4>1. PICK c : c = client'
        OBVIOUS
      <4>2. /\ c.phase = "connect" /\ c.session = TRUE /\ c.fallback = client.fallback /\ c.result = "none"
        BY <3>2, <4>1
      <4>3. c.fallback => losses > 0
        BY <3>6, <4>2
      <4>4. ClientSound(c, losses)
        BY <1>4, <3>a, <4>2, <4>3 DEF ClientSound
      <4> QED
        BY <3>6, <4>1, <4>4
    <3>5. losses' = 0 => submitted' = 0
      BY <1>0, <1>4, <2>4
    <3>7. losses' \in Nat /\ losses' >= losses /\ client'.phase # "socket"
      BY <3>2, <3>6
    <3> QED
      BY <1>1, <2>1, <3>3, <3>4, <3>5, <3>7
  <2>5. CASE verdict # "none"
    <3>1. verdict \in {"failed", "codeRequired", "codeInvalid"}
      BY <2>2, <2>5 DEF Kuma!Verdicts
    <3>2. verdict = "failed" => ~Kuma!Accepts \/ server.limits
      BY <2>2 DEF Kuma!Verdicts, Kuma!Accepts
    <3>3. verdict = "codeRequired" => login.password /\ server.twoFactor /\ login.code = "none"
      BY <2>2 DEF Kuma!Verdicts, Kuma!Accepts
    <3>4. verdict = "codeInvalid" => /\ login.password /\ server.twoFactor /\ login.code # "none"
                                     /\ login.code = "wrong" \/ server.limits
      BY <2>2, <2>3 DEF Kuma!Verdicts, Kuma!Accepts
    <3>5. Proper(verdict, losses')
      BY <3>1, <3>2, <3>3, <3>4 DEF Proper
    <3>6. verdict \in Errors /\ verdict # "noBetterAuth"
      BY <3>1, ErrorNames
    <3> QED
      BY <1>2, <1>4, <2>1, <2>5, <3>5, <3>6
  <2> QED
    BY <2>4, <2>5
<1>5. ASSUME Kuma!Lose, UNCHANGED submitted, NEW error \in Kuma!Broken \cup {"noBetterAuth"},
             client' = Kuma!EndSession(error)
      PROVE  KumaInv'
  <2>1. losses' \in Nat /\ losses' >= losses /\ losses' > 0
    BY <1>5 DEF Kuma!Lose
  <2>2. KumaTyped /\ error \in Errors
    BY <1>5 DEF KumaInv, Errors, Kuma!Broken, Kuma!Definite
  <2>3. IF error = "noBetterAuth" THEN server.kind = "event" \/ losses' > 0 ELSE Proper(error, losses')
    BY <1>5, <2>1 DEF Kuma!Broken, Proper
  <2>4. client' \in Clients /\ ClientSound(client', losses') /\ client'.phase \in {"probe", "done", "connect"}
    BY <1>0, <1>5, <2>1, <2>2, <2>3, SessionSound
  <2> QED
    BY <1>1, <1>5, <2>1, <2>4
<1> QED
  BY <1>3, <1>4, <1>5 DEF Kuma!SignIn

LEMMA ConnectStep ==
  ASSUME KumaInv, Kuma!Connect
  PROVE  KumaInv'
<1> USE RouteFacts
<1>0. /\ client.phase = "connect" /\ client.result = "none" /\ client' = [client EXCEPT !.phase = "socket"]
      /\ socket' = Kuma!Opening /\ UNCHANGED <<server, login, submitted, losses>>
  BY DEF Kuma!Connect
<1>1. client' = [phase |-> "socket", outer |-> client.outer, inner |-> client.inner, session |-> client.session,
                 fallback |-> client.fallback, result |-> "none"]
  BY <1>0, ClientMoves
<1>2. client' \in Clients
  BY <1>1, ClientMoves DEF Clients, Phases
<1>3. ClientSound(client', losses)
  BY <1>0, <1>1 DEF ClientSound
<1>4. ClientSound(client, losses)'
  BY <1>0, <1>3, AccountStays
<1>5. ~(losses = 0 /\ submitted > 0)
  BY <1>0
<1> QED
  BY <1>0, <1>1, <1>2, <1>4, <1>5, RouteStep

LEMMA LeaveStep ==
  ASSUME KumaInv, Kuma!Leave
  PROVE  KumaInv'
<1> USE RouteFacts
<1>0. /\ client.phase = "socket" /\ client.result = "none" /\ socket' = Kuma!NoSocket
      /\ UNCHANGED <<server, login, submitted>> /\ KumaTyped /\ socket \in Sockets
      /\ SocketSound(socket, client.session, losses)
      /\ client.session => Kuma!Accepts /\ server.kind = "session"
  BY DEF Kuma!Leave, KumaInv, KumaTyped, ClientSound
<1>1. ASSUME client' \in Clients, ClientSound(client', losses'), losses' \in Nat, losses' >= losses,
             client'.phase # "socket", losses' = 0 => client'.phase \in {"map", "done"}
      PROVE  KumaInv'
  <2>1. ClientSound(client, losses)'
    BY <1>0, <1>1, AccountStays
  <2> QED
    BY <1>0, <1>1, <2>1, RouteStep
<1>2. CASE socket.list /\ client' = [client EXCEPT !.phase = "map", !.result = "list"] /\ UNCHANGED losses
  <2>1. client' = [phase |-> "map", outer |-> client.outer, inner |-> client.inner, session |-> client.session,
                   fallback |-> client.fallback, result |-> "list"]
    BY <1>0, <1>2, ClientMoves
  <2>2. client' \in Clients
    BY <2>1, ClientMoves DEF Clients, Phases
  <2>3. Kuma!Accepts /\ ~server.empty
    BY <1>0, <1>2 DEF SocketSound
  <2>4. ClientSound(client', losses')
    BY <1>2, <2>1, <2>3 DEF ClientSound
  <2> QED
    BY <1>1, <1>2, <2>1, <2>2, <2>4
<1>3. ASSUME NEW e \in Reported, Proper(e, losses'), client' = Kuma!EndSocket(e), losses' \in Nat, losses' >= losses
      PROVE  KumaInv'
  <2>1. e \in Errors /\ e # "noBetterAuth" /\ (client.fallback => losses' > 0)
    BY <1>3 DEF Reported
  <2>2. /\ client' \in Clients /\ ClientSound(client', losses')
        /\ client'.phase \in {"probe", "done", "connect", "signIn"}
        /\ losses' = 0 => client'.phase = "done"
    BY <1>0, <1>3, <2>1, SocketEndSound
  <2> QED
    BY <1>1, <1>3, <2>2
<1>4. CASE socket.error # "none" /\ client' = Kuma!EndSocket(socket.error) /\ UNCHANGED losses
  <2>1. socket.error \in Reported /\ Proper(socket.error, losses)
    BY <1>0, <1>4 DEF Sockets, SocketSound
  <2> QED
    BY <1>3, <1>4, <2>1
<1>5. CASE /\ Kuma!Lose
           /\ \E error \in Kuma!Broken : client' = Kuma!EndSocket(IF socket.loggedIn THEN "noList" ELSE error)
  <2>1. losses' \in Nat /\ losses' >= losses /\ losses' > 0
    BY <1>5 DEF Kuma!Lose
  <2>2. CASE socket.loggedIn
    <3>1. Kuma!Accepts
      BY <1>0, <2>2 DEF SocketSound
    <3>2. Proper("noList", losses') /\ "noList" \in Reported
      BY <2>1, <3>1, ErrorNames DEF Proper
    <3> QED
      BY <1>3, <1>5, <2>1, <2>2, <3>2
  <2>3. CASE ~socket.loggedIn
    <3>1. PICK error \in Kuma!Broken : client' = Kuma!EndSocket(error)
      BY <1>5, <2>3
    <3>2. error \in Reported /\ Proper(error, losses')
      BY <2>1 DEF Errors, Reported, Kuma!Broken, Proper
    <3> QED
      BY <1>3, <2>1, <3>1, <3>2
  <2> QED
    BY <2>2, <2>3
<1>6. CASE Kuma!Lose /\ \E error \in Kuma!Broken : client' = Kuma!EndSocket(error)
  <2>1. losses' \in Nat /\ losses' >= losses /\ losses' > 0
    BY <1>6 DEF Kuma!Lose
  <2>2. PICK error \in Kuma!Broken : client' = Kuma!EndSocket(error)
    BY <1>6
  <2>3. error \in Reported /\ Proper(error, losses')
    BY <2>1 DEF Errors, Reported, Kuma!Broken, Proper
  <2> QED
    BY <1>3, <2>1, <2>2, <2>3
<1> QED
  BY <1>2, <1>4, <1>5, <1>6 DEF Kuma!Leave

LEMMA MapStep ==
  ASSUME KumaInv, Kuma!MapFullAll
  PROVE  KumaInv'
<1> USE RouteFacts
<1>0. /\ client.phase = "map" /\ client' = [client EXCEPT !.phase = "done"] /\ socket = Kuma!NoSocket
      /\ UNCHANGED <<server, login, socket, submitted, losses>>
  BY DEF Kuma!MapFullAll
<1>1. client.result = "list" /\ Kuma!Accepts /\ ~server.empty
  BY <1>0 DEF ClientSound
<1>2. client' = [phase |-> "done", outer |-> client.outer, inner |-> client.inner, session |-> client.session,
                 fallback |-> client.fallback, result |-> "list"]
  BY <1>0, <1>1, ClientMoves
<1>3. client' \in Clients
  BY <1>2, ClientMoves DEF Clients, Phases
<1>4. ClientSound(client', losses)
  BY <1>1, <1>2 DEF ClientSound
<1>5. ClientSound(client, losses)'
  BY <1>0, <1>4, AccountStays
<1> QED
  BY <1>0, <1>2, <1>3, <1>5, RouteStep

LEMMA KumaKept ==
  ASSUME KumaInv, [Kuma!Next]_kumaVars
  PROVE  KumaInv'
<1>1. CASE Kuma!Next
  BY <1>1, ProbeStep, SignInStep, ConnectStep, HelloStep, EventStep, EmitStep, AnswerStep, TimeoutStep, CutStep,
     LeaveStep, MapStep DEF Kuma!Next
<1>2. CASE UNCHANGED kumaVars
  <2>1. UNCHANGED <<server, login, client, socket, submitted, losses>>
    BY <1>2 DEF kumaVars
  <2> QED
    BY <2>1 DEF KumaInv, KumaTyped, ClientSound, SocketSound, AskedOnce, Proper, Kuma!Accepts
<1> QED
  BY <1>1, <1>2

LEMMA VerdictFollows == KumaInv => Kuma!VerdictIsTrue
<1> SUFFICES ASSUME KumaInv PROVE Kuma!VerdictIsTrue
  OBVIOUS
<1>1. losses = 0 => submitted <= 1
  BY RouteFacts
<1>2. ASSUME client.phase = "done"
      PROVE  client.result = "list" \/ (client.result \in Errors /\ Proper(client.result, losses))
  BY <1>2, RouteFacts DEF ClientSound
<1>3. client.result = "list" => Kuma!Accepts /\ ~server.empty
  BY RouteFacts DEF ClientSound
<1> QED
  BY <1>1, <1>2, <1>3, ErrorNames DEF Kuma!VerdictIsTrue, Proper

\* A climb is stuck where the groups end or begin again, and goes up otherwise.
Elements(path) == {path[j] : j \in DOMAIN path}
Stuck(list, c) == ~Kuma!IsGroup(list, c.at) \/ \E j \in DOMAIN c.path : c.path[j] = c.at
Up(list, c) == IF Stuck(list, c) THEN c ELSE [path |-> <<c.at>> \o c.path, at |-> list[c.at].parent]
Climbs(F, list, i, n) ==
  F = [k \in 0..n |-> IF k = 0 THEN [path |-> <<>>, at |-> list[i].parent] ELSE Up(list, F[k - 1])]

LEMMA ClimbExists ==
  ASSUME NEW list, NEW i, NEW n \in Nat
  PROVE  \E F : Climbs(F, list, i, n)
<1> DEFINE T == {m \in Nat : ~ \E F : Climbs(F, list, i, m)}
           Start == [path |-> <<>>, at |-> list[i].parent]
<1> SUFFICES ASSUME T # {} PROVE FALSE
  OBVIOUS
<1>1. T \in SUBSET Nat /\ \A m \in Nat : m \in T <=> ~ \E F : Climbs(F, list, i, m)
  OBVIOUS
<1> HIDE DEF T
<1>2. PICK m \in T : \A l \in T : m <= l
  BY <1>1, Least
<1>3. m \in Nat /\ ~ \E F : Climbs(F, list, i, m)
  BY <1>1, <1>2
<1>4. CASE m = 0
  <2> DEFINE F == [k \in 0..0 |-> Start]
  <2>1. F = [k \in 0..0 |-> IF k = 0 THEN Start ELSE Up(list, F[k - 1])]
    OBVIOUS
  <2> QED
    BY <1>3, <1>4, <2>1 DEF Climbs
<1>5. CASE m # 0
  <2>1. m - 1 \in Nat /\ m - 1 \notin T
    BY <1>2, <1>3, <1>5
  <2>2. PICK F : Climbs(F, list, i, m - 1)
    BY <1>1, <2>1
  <2> DEFINE G == [k \in 0..m |-> IF k = m THEN Up(list, F[m - 1]) ELSE F[k]]
             H == [k \in 0..m |-> IF k = 0 THEN Start ELSE Up(list, G[k - 1])]
  <2>3. \A k \in 0..(m - 1) : F[k] = IF k = 0 THEN Start ELSE Up(list, F[k - 1])
    BY <2>2 DEF Climbs
  <2>4. \A k \in 0..m : G[k] = IF k = m THEN Up(list, F[m - 1]) ELSE F[k]
    OBVIOUS
  <2> HIDE DEF Start
  <2>5. ASSUME NEW k \in 0..m PROVE G[k] = IF k = 0 THEN Start ELSE Up(list, G[k - 1])
    <3>1. CASE k = m
      <4>1. k # 0 /\ m - 1 \in 0..m /\ m - 1 # m
        BY <1>3, <1>5, <3>1
      <4>2. G[m - 1] = F[m - 1]
        BY <2>4, <4>1
      <4> QED
        BY <2>4, <3>1, <4>1, <4>2
    <3>2. CASE k = 0
      <4>1. k \in 0..(m - 1) /\ k # m
        BY <1>3, <1>5, <3>2
      <4> QED
        BY <2>3, <2>4, <3>2, <4>1
    <3>3. CASE k # m /\ k # 0
      <4>1. k \in 0..(m - 1) /\ k - 1 \in 0..m /\ k - 1 # m
        BY <1>3, <3>3
      <4>2. G[k - 1] = F[k - 1] /\ G[k] = F[k]
        BY <2>4, <3>3, <4>1
      <4> QED
        BY <2>3, <3>3, <4>1, <4>2
    <3> QED
      BY <3>1, <3>2, <3>3
  <2>6. G = H
    BY <2>5
  <2>7. Climbs(G, list, i, m)
    BY <2>6 DEF Climbs, Start
  <2> QED
    BY <1>3, <2>7
<1> QED
  BY <1>4, <1>5

\* A list as it is read: the items with their kind and their group.
Lists == [Items -> [kind : Kuma!Kinds, parent : Items \cup {NoItem}]]

\* Where a climb has come to after k groups: a path without a repetition from the
\* parent of the item upwards, and stuck unless it has as many groups.
OnTheWay(list, i, c, k) ==
  /\ c.path \in Seq(Items) /\ Cardinality(Elements(c.path)) = Len(c.path)
  /\ \A j \in DOMAIN c.path : Kuma!IsGroup(list, c.path[j])
  /\ c.path # <<>> => c.path[Len(c.path)] = list[i].parent
  /\ \A j \in 2..Len(c.path) : list[c.path[j]].parent = c.path[j - 1]
  /\ c.at = IF c.path = <<>> THEN list[i].parent ELSE list[c.path[1]].parent
  /\ Len(c.path) = k \/ Stuck(list, c)

LEMMA UpIsOnTheWay ==
  ASSUME IsFiniteSet(Items), NEW list \in Lists, NEW i \in Items, NEW c, NEW k \in Nat, OnTheWay(list, i, c, k)
  PROVE  OnTheWay(list, i, Up(list, c), k + 1)
<1>1. CASE Stuck(list, c)
  BY <1>1 DEF OnTheWay, Up
<1>2. CASE ~Stuck(list, c)
  <2> DEFINE path == c.path
             at == c.at
             longer == <<at>> \o path
  <2>1. Up(list, c) = [path |-> longer, at |-> list[at].parent]
    BY <1>2 DEF Up
  <2>2. /\ path \in Seq(Items) /\ Kuma!IsGroup(list, at) /\ at \in Items /\ at \notin Elements(path)
        /\ Len(path) = k
    BY <1>2 DEF OnTheWay, Stuck, Kuma!IsGroup, Lists, Elements
  <2>3. /\ longer \in Seq(Items) /\ Len(longer) = Len(path) + 1 /\ longer[1] = at /\ longer # <<>>
        /\ \A j \in 2..Len(longer) : longer[j] = path[j - 1] /\ j - 1 \in DOMAIN path
        /\ Len(path) \in Nat /\ DOMAIN path = 1..Len(path) /\ DOMAIN longer = 1..Len(longer)
    BY <2>2
  <2> HIDE DEF longer
  <2>4. Elements(longer) = Elements(path) \cup {at}
    <3>1. \A j \in DOMAIN path : j + 1 \in 2..Len(longer) /\ longer[j + 1] = path[j]
      BY <2>3
    <3>2. \A j \in DOMAIN longer : j = 1 \/ j \in 2..Len(longer)
      BY <2>3
    <3>3. 1 \in DOMAIN longer /\ \A j \in 2..Len(longer) : j \in DOMAIN longer
      BY <2>3
    <3>4. Elements(longer) \subseteq Elements(path) \cup {at}
      BY <2>3, <3>2 DEF Elements
    <3>5. ASSUME NEW j \in DOMAIN path PROVE path[j] \in Elements(longer)
      BY <3>1, <3>3 DEF Elements
    <3>6. at \in Elements(longer)
      BY <2>3, <3>3 DEF Elements
    <3>7. \A x \in Elements(path) : \E j \in DOMAIN path : x = path[j]
      BY DEF Elements
    <3> QED
      BY <3>4, <3>5, <3>6, <3>7
  <2>5. Elements(path) \subseteq Items
    BY <2>2 DEF Elements
  <2>6. Cardinality(Elements(longer)) = Len(longer)
    <3>1. IsFiniteSet(Elements(path))
      BY <2>5, FS_Subset
    <3>2. Cardinality(Elements(path)) = Len(path)
      BY DEF OnTheWay
    <3>3. Cardinality(Elements(path) \cup {at}) = Cardinality(Elements(path)) + 1
      BY <2>2, <3>1, FS_AddElement
    <3> QED
      BY <2>3, <2>4, <3>2, <3>3
  <2>7. \A j \in DOMAIN longer : Kuma!IsGroup(list, longer[j])
    <3>1. \A j \in DOMAIN path : Kuma!IsGroup(list, path[j])
      BY DEF OnTheWay
    <3>2. \A j \in DOMAIN longer : j = 1 \/ j \in 2..Len(longer)
      BY <2>3
    <3> QED
      BY <2>2, <2>3, <3>1, <3>2
  <2>8. longer[Len(longer)] = list[i].parent
    <3>1. CASE path = <<>>
      <4>1. Len(longer) = 1 /\ at = list[i].parent
        BY <2>3, <3>1 DEF OnTheWay
      <4> QED
        BY <2>3, <4>1
    <3>2. CASE path # <<>>
      <4>1. Len(path) >= 1 /\ path[Len(path)] = list[i].parent
        BY <2>2, <3>2 DEF OnTheWay
      <4>2. Len(longer) \in 2..Len(longer) /\ Len(longer) - 1 = Len(path)
        BY <2>3, <4>1
      <4> QED
        BY <2>3, <4>1, <4>2
    <3> QED
      BY <3>1, <3>2
  <2>9. ASSUME NEW j \in 2..Len(longer) PROVE list[longer[j]].parent = longer[j - 1]
    <3>1. longer[j] = path[j - 1]
      BY <2>3
    <3>2. CASE j = 2
      <4>1. path # <<>> /\ j - 1 = 1
        BY <2>3, <3>2
      <4>2. at = list[path[1]].parent
        BY <4>1 DEF OnTheWay
      <4> QED
        BY <2>3, <3>1, <4>1, <4>2
    <3>3. CASE j # 2
      <4>1. j - 1 \in 2..Len(path) /\ j - 1 \in 2..Len(longer)
        BY <2>3, <3>3
      <4>2. list[path[j - 1]].parent = path[j - 1 - 1]
        BY <4>1 DEF OnTheWay
      <4> QED
        BY <2>3, <3>1, <4>1, <4>2
    <3> QED
      BY <3>2, <3>3
  <2> QED
    BY <2>1, <2>2, <2>3, <2>6, <2>7, <2>8, <2>9 DEF OnTheWay
<1> QED
  BY <1>1, <1>2

LEMMA ClimbIsOnTheWay ==
  ASSUME IsFiniteSet(Items), NEW list \in Lists, NEW i \in Items, NEW n \in Nat, NEW F, Climbs(F, list, i, n)
  PROVE  OnTheWay(list, i, F[n], n)
<1> DEFINE T == {k \in Nat : k <= n /\ ~OnTheWay(list, i, F[k], k)}
<1> SUFFICES ASSUME T # {} PROVE FALSE
  BY DEF OnTheWay
<1>1. T \in SUBSET Nat /\ \A k \in Nat : k \in T <=> k <= n /\ ~OnTheWay(list, i, F[k], k)
  OBVIOUS
<1> HIDE DEF T
<1>2. PICK k \in T : \A l \in T : k <= l
  BY <1>1, Least
<1>3. k \in Nat /\ k <= n /\ ~OnTheWay(list, i, F[k], k)
  BY <1>1, <1>2
<1>4. \A m \in 0..n : F[m] = IF m = 0 THEN [path |-> <<>>, at |-> list[i].parent] ELSE Up(list, F[m - 1])
  BY DEF Climbs
<1>5. CASE k = 0
  <2>1. F[0] = [path |-> <<>>, at |-> list[i].parent]
    BY <1>3, <1>4
  <2>2. Elements(<<>>) = {} /\ Cardinality({}) = 0
    BY FS_EmptySet DEF Elements
  <2>3. OnTheWay(list, i, F[0], 0)
    BY <2>1, <2>2 DEF OnTheWay
  <2> QED
    BY <1>3, <1>5, <2>3
<1>6. CASE k # 0
  <2>1. k - 1 \in Nat /\ k - 1 <= n /\ k - 1 \notin T /\ k \in 0..n /\ k - 1 + 1 = k
    BY <1>2, <1>3, <1>6
  <2>2. OnTheWay(list, i, F[k - 1], k - 1)
    BY <1>1, <2>1
  <2>3. F[k] = Up(list, F[k - 1])
    BY <1>4, <1>6, <2>1
  <2> QED
    BY <1>3, <2>1, <2>2, <2>3, UpIsOnTheWay
<1> QED
  BY <1>5, <1>6

\* The label of an item.
LEMMA LabelIsPath ==
  ASSUME IsFiniteSet(Items), NEW list \in Lists, NEW i \in Items
  PROVE  LET path == Kuma!GroupLabel(list, i)
             top == IF path = <<>> THEN list[i].parent ELSE list[path[1]].parent
         IN /\ \A j \in DOMAIN path : Kuma!IsGroup(list, path[j])
            /\ path # <<>> => path[Len(path)] = list[i].parent
            /\ \A j \in 2..Len(path) : list[path[j]].parent = path[j - 1]
            /\ Kuma!IsGroup(list, top) => \E j \in DOMAIN path : path[j] = top
<1> DEFINE n == Cardinality(Items)
           Iter(G) == G = [k \in 0..n |->
                             IF k = 0 THEN [path |-> <<>>, at |-> list[i].parent]
                             ELSE LET c == G[k - 1]
                                  IN IF ~Kuma!IsGroup(list, c.at) \/ \E j \in DOMAIN c.path : c.path[j] = c.at
                                       THEN c
                                     ELSE [path |-> <<c.at>> \o c.path, at |-> list[c.at].parent]]
           F == CHOOSE G : Iter(G)
<1>1. n \in Nat
  BY FS_CardinalityType
<1>7. Kuma!Cardinality(Items) = n
  BY DEF Kuma!Cardinality, Cardinality
<1> HIDE DEF n
<1>2. Kuma!GroupLabel(list, i) = F[n].path
  BY <1>7 DEF Kuma!GroupLabel
<1>0. ASSUME NEW G PROVE Climbs(G, list, i, n) <=> Iter(G)
  BY DEF Climbs, Up, Stuck
<1> HIDE DEF Iter
<1>3. Climbs(F, list, i, n)
  BY <1>0, <1>1, ClimbExists
<1> HIDE DEF F
<1>4. PICK c : c = F[n]
  OBVIOUS
<1>5. OnTheWay(list, i, c, n)
  BY <1>1, <1>3, <1>4, ClimbIsOnTheWay
<1>6. ASSUME Kuma!IsGroup(list, c.at) PROVE \E j \in DOMAIN c.path : c.path[j] = c.at
  <2>1. CASE Len(c.path) = n
    <3>1. Elements(c.path) \subseteq Items /\ Cardinality(Elements(c.path)) = Cardinality(Items)
      BY <1>5, <2>1 DEF OnTheWay, Elements, n
    <3>2. Elements(c.path) = Items
      BY <3>1, FS_Subset
    <3>3. c.at \in Items
      BY <1>6 DEF Kuma!IsGroup, Lists
    <3> QED
      BY <3>2, <3>3 DEF Elements
  <2>2. CASE Stuck(list, c)
    BY <1>6, <2>2 DEF Stuck
  <2> QED
    BY <1>5, <2>1, <2>2 DEF OnTheWay
<1> QED
  BY <1>2, <1>4, <1>5, <1>6 DEF OnTheWay

\* The labels of a list stay with it: it is made into candidates in one step.
LEMMA LabelsKept ==
  ASSUME IsFiniteSet(Items), Kuma!LabelsFollowTheGroups, [Kuma!Next]_kumaVars
  PROVE  Kuma!LabelsFollowTheGroups'
<1>1. CASE Kuma!MapFullAll
  <2>1. PICK list \in Lists :
          /\ held' = list
          /\ candidates' = [i \in {i \in DOMAIN list : ~Kuma!IsGroup(list, i)} |-> Kuma!MapFull(list, i)]
    BY <1>1 DEF Kuma!MapFullAll, Lists
  <2>2. \A i \in DOMAIN candidates' : i \in Items /\ candidates'[i].group = Kuma!GroupLabel(list, i)
    BY <2>1 DEF Lists, Kuma!MapFull
  <2>3. ASSUME NEW i \in DOMAIN candidates'
        PROVE  LET path == candidates'[i].group
                   top == IF path = <<>> THEN list[i].parent ELSE list[path[1]].parent
               IN /\ \A j \in DOMAIN path : Kuma!IsGroup(list, path[j])
                  /\ path # <<>> => path[Len(path)] = list[i].parent
                  /\ \A j \in 2..Len(path) : list[path[j]].parent = path[j - 1]
                  /\ Kuma!IsGroup(list, top) => \E j \in DOMAIN path : path[j] = top
    <3>1. i \in Items /\ candidates'[i].group = Kuma!GroupLabel(list, i)
      BY <2>2, <2>3
    <3> QED
      BY <3>1, LabelIsPath
  <2>4. held' = list
    BY <2>1
  <2> QED
    BY <2>3, <2>4 DEF Kuma!LabelsFollowTheGroups, Kuma!IsGroup
<1>2. CASE UNCHANGED <<held, candidates>>
  BY <1>2 DEF Kuma!LabelsFollowTheGroups, Kuma!IsGroup
<1>3. CASE Kuma!Next /\ ~Kuma!MapFullAll
  <2>1. UNCHANGED <<held, candidates>>
    BY <1>3 DEF Kuma!Next, Kuma!Probe, Kuma!SignIn, Kuma!Connect, Kuma!OnConnect, Kuma!OnSession,
       Kuma!OnLoginRequired, Kuma!EmitLogin, Kuma!OnAnswer, Kuma!LoginTimeout, Kuma!OnMonitorList,
       Kuma!OnDisconnect, Kuma!Leave, Kuma!Rest
  <2> QED
    BY <1>2, <2>1
<1>4. CASE UNCHANGED kumaVars
  BY <1>2, <1>4 DEF kumaVars
<1> QED
  BY <1>1, <1>3, <1>4

-----------------------------------------------------------------------------
\* What a read of an Uptime Kuma comes to is right, over any monitors and groups and
\* any losses: its verdict on the login (socket.go, betterauth.go), and the labels that
\* MapFullAll gives the candidates, whose climb is never cut short of the top.
THEOREM KumaCorrect == Spec => []KumaIsReadRight
<1> DEFINE Right == KumaInv /\ Kuma!LabelsFollowTheGroups
<1>1. Init => Right
  <2> SUFFICES ASSUME Init PROVE Right
    OBVIOUS
  <2>1. Kuma!Init
    BY DEF Init
  <2>2. candidates = <<>>
    BY <2>1 DEF Kuma!Init
  <2>3. Kuma!LabelsFollowTheGroups
    BY <2>2 DEF Kuma!LabelsFollowTheGroups
  <2> QED
    BY <2>1, <2>3, KumaInit
<1>2. Right /\ [Next]_<<part, vars>> => Right'
  BY KumaAlone, KumaKept, LabelsKept, KumaAssumption
<1>3. Right => KumaIsReadRight
  BY VerdictFollows DEF KumaIsReadRight, Kuma!KumaIsReadRight
<1> QED
  BY <1>1, <1>2, <1>3, PTL DEF Spec

-----------------------------------------------------------------------------
(* The probes of a node.                                                   *)

LEMMA ProbesAlone == [Next]_<<part, vars>> => [Probing!Next]_probesVars
  BY DEF Next, vars, PushStep, NotifyStep, EnrollStep, AdminStep, TransferStep, KumaStep, ProbesStep,
     FeedStep, Others4, Others8, probesVars

\* The connections of one transport to one host, and how many they are.
SameOwner(bag, k) == {j \in DOMAIN bag : j.owner = k.owner /\ j.host = k.host}
Pooled(bag) ==
  /\ IsFiniteSet(DOMAIN bag)
  /\ \A k \in DOMAIN bag : bag[k] \in Nat /\ SumOf(bag, SameOwner(bag, k)) <= MaxIdle

\* The fold of the code's count is a sum.
LEMMA FoldIsSum ==
  ASSUME NEW bag, NEW S, IsFiniteSet(S)
  PROVE  Probing!MapThenSumSet(LAMBDA k : bag[k], S) = SumOf(bag, S)
<1> DEFINE Iter(F) == F = [s \in SUBSET S |-> IF s = {} THEN 0
                             ELSE bag[CHOOSE x \in s : TRUE] + F[s \ {CHOOSE x \in s : TRUE}]]
<1>1. Probing!MapThenSumSet(LAMBDA k : bag[k], S) = (CHOOSE F : Iter(F))[S]
  BY DEF Probing!MapThenSumSet, Probing!MapThenFoldSet
<1>2. ASSUME NEW F PROVE IsSum(F, bag, S) <=> Iter(F)
  BY DEF IsSum, Chosen
<1> HIDE DEF Iter
<1>3. PICK F : F = CHOOSE G : Iter(G)
  OBVIOUS
<1>4. IsSum(F, bag, S)
  BY <1>2, <1>3, SumExists
<1>5. PICK H : IsSum(H, bag, S) /\ SumOf(bag, S) = H[S]
  BY SumOfIs
<1>6. F[S] = H[S]
  BY <1>4, <1>5, SumUnique
<1> QED
  BY <1>1, <1>3, <1>5, <1>6

\* A pool with fewer connections is in order.
Thinner(bag, old) ==
  DOMAIN bag \subseteq DOMAIN old /\ \A k \in DOMAIN bag : bag[k] \in Nat /\ bag[k] <= old[k]

LEMMA ThinnerIsPooled ==
  ASSUME NEW old, Pooled(old), NEW bag, Thinner(bag, old)
  PROVE  Pooled(bag)
<1>1. IsFiniteSet(DOMAIN bag)
  BY FS_Subset DEF Pooled, Thinner
<1>2. ASSUME NEW k \in DOMAIN bag PROVE bag[k] \in Nat /\ SumOf(bag, SameOwner(bag, k)) <= MaxIdle
  <2> DEFINE A == SameOwner(bag, k)
             B == SameOwner(old, k)
  <2>1. /\ A \in SUBSET B /\ k \in DOMAIN old /\ B \subseteq DOMAIN old /\ A \subseteq DOMAIN bag
        /\ \A x \in A : bag[x] \in Nat /\ bag[x] <= old[x]
    BY DEF SameOwner, Thinner
  <2>2. IsFiniteSet(B) /\ \A x \in B : old[x] \in Nat
    BY <2>1, FS_Subset DEF Pooled
  <2> HIDE DEF A, B
  <2>3. SumOf(bag, A) <= SumOf(old, B)
    BY <2>1, <2>2, SumOfLess
  <2>4. SumOf(bag, A) \in Nat /\ SumOf(old, B) \in Nat
    <3>1. IsFiniteSet(A) /\ \A x \in A : bag[x] \in Nat
      BY <2>1, <2>2, FS_Subset
    <3>2. SumOf(bag, A) \in Nat
      BY <3>1, SumOfType
    <3>3. SumOf(old, B) \in Nat
      BY <2>2, SumOfType
    <3> QED
      BY <3>2, <3>3
  <2>5. SumOf(old, B) <= MaxIdle
    BY <2>1 DEF Pooled, B
  <2>6. MaxIdle \in Nat
    BY ProbesAssumption
  <2> QED
    BY <2>3, <2>4, <2>5, <2>6 DEF A, Thinner
<1> QED
  BY <1>1, <1>2 DEF Pooled

\* Closing a connection makes the pool thinner, and so does closing those of a probe.
LEMMA TakingThins ==
  ASSUME NEW bag, Pooled(bag), NEW c
  PROVE  Thinner(Probing!(-)(bag, Probing!SetToBag({c})), bag)
  BY DEF Pooled, Thinner, Probing!(-), Probing!SetToBag

LEMMA SomeThins ==
  ASSUME NEW bag, Pooled(bag), NEW S, S \subseteq DOMAIN bag
  PROVE  Thinner([k \in S |-> bag[k]], bag)
  BY DEF Pooled, Thinner

\* A transport takes a connection back while it has room.
LEMMA PutIsPooled ==
  ASSUME NEW bag, Pooled(bag), NEW c
  PROVE  Pooled(Probing!PutIdle(bag, c)) /\ DOMAIN Probing!PutIdle(bag, c) \subseteq DOMAIN bag \cup {c}
<1> DEFINE B == SameOwner(bag, c)
           new == [e \in DOMAIN bag \cup {c} |-> (IF e \in DOMAIN bag THEN bag[e] ELSE 0) + (IF e = c THEN 1 ELSE 0)]
<1>1. B \subseteq DOMAIN bag /\ IsFiniteSet(B) /\ \A x \in DOMAIN bag : bag[x] \in Nat
  BY FS_Subset DEF Pooled, SameOwner
<1>2. Probing!PutIdle(bag, c) = IF SumOf(bag, B) < MaxIdle THEN new ELSE bag
  <2>1. {k \in Probing!BagToSet(bag) : k.owner = c.owner /\ k.host = c.host} = B
    BY DEF Probing!BagToSet, SameOwner
  <2>2. Probing!MapThenSumSet(LAMBDA k : bag[k], B) = SumOf(bag, B)
    BY <1>1, FoldIsSum
  <2>3. Probing!(+)(bag, Probing!SetToBag({c})) = new
    <3>1. Probing!SetToBag({c}) = [e \in {c} |-> 1]
      BY DEF Probing!SetToBag
    <3> QED
      BY <3>1 DEF Probing!(+)
  <2> HIDE DEF B, new
  <2> QED
    BY <2>1, <2>2, <2>3 DEF Probing!PutIdle
<1>3. /\ DOMAIN new = DOMAIN bag \cup {c}
      /\ \A x \in DOMAIN bag : x # c => new[x] = bag[x]
      /\ new[c] = (IF c \in DOMAIN bag THEN bag[c] ELSE 0) + 1
  BY <1>1
<1> HIDE DEF new
<1>4. ASSUME SumOf(bag, B) < MaxIdle PROVE Pooled(new)
  <2>1. IsFiniteSet(DOMAIN new)
    BY <1>3, FS_AddElement DEF Pooled
  <2>2. ASSUME NEW k \in DOMAIN new PROVE new[k] \in Nat
    BY <1>1, <1>3
  <2>3. ASSUME NEW k \in DOMAIN new PROVE SumOf(new, SameOwner(new, k)) <= MaxIdle
    <3>1. CASE k.owner = c.owner /\ k.host = c.host
      <4>1. SameOwner(new, k) = B \cup {c} /\ c \in DOMAIN new
        BY <1>3, <3>1 DEF SameOwner
      <4>2. \A x \in B : bag[x] \in Nat
        BY <1>1
      <4>3. new[c] = (IF c \in B THEN bag[c] ELSE 0) + 1
        BY <1>3 DEF SameOwner
      <4>4. \A x \in B \ {c} : new[x] = bag[x]
        BY <1>1, <1>3
      <4> HIDE DEF B
      <4>5. SumOf(new, B \cup {c}) = SumOf(bag, B) + 1
        BY <1>1, <4>2, <4>3, <4>4, SumOfOneMore
      <4>6. SumOf(bag, B) \in Nat /\ MaxIdle \in Nat
        BY <1>1, <4>2, SumOfType, ProbesAssumption
      <4> QED
        BY <1>4, <4>1, <4>5, <4>6
    <3>2. CASE ~(k.owner = c.owner /\ k.host = c.host)
      <4>1. k \in DOMAIN bag /\ SameOwner(new, k) = SameOwner(bag, k) /\ c \notin SameOwner(bag, k)
        BY <1>3, <3>2 DEF SameOwner
      <4>2. SameOwner(bag, k) \subseteq DOMAIN bag
        BY DEF SameOwner
      <4>3. IsFiniteSet(SameOwner(bag, k)) /\ \A x \in SameOwner(bag, k) : new[x] = bag[x]
        BY <1>3, <4>1, <4>2, FS_Subset DEF Pooled
      <4>4. SumOf(new, SameOwner(bag, k)) = SumOf(bag, SameOwner(bag, k))
        BY <4>3, SumOfSame
      <4> QED
        BY <4>1, <4>4 DEF Pooled
    <3> QED
      BY <3>1, <3>2
  <2> QED
    BY <2>1, <2>2, <2>3 DEF Pooled
<1> QED
  BY <1>2, <1>3, <1>4

-----------------------------------------------------------------------------
\* The run of a goroutine, whatever its fields hold.
Run(stage, check, owner, hop, redirects, conn, reply, result) ==
  [stage |-> stage, check |-> check, owner |-> owner, hop |-> hop,
   redirects |-> redirects, conn |-> conn, reply |-> reply, result |-> result]
Same(r) == Run(r.stage, r.check, r.owner, r.hop, r.redirects, r.conn, r.reply, r.result)

\* A connection goes where its transport dials for its host, by a family allowed.
Dialled(k) ==
  /\ k.family \in Probing!Reachable(k.at, k.owner.params.version)
  /\ k.at = IF k.owner.params.dialAddr # None /\ k.host = k.owner.params.vhost
              THEN k.owner.params.dialAddr ELSE k.host

Travelling == {"send", "sent", "drain"}

\* What an HTTP probe says follows from the rules of its check.
Explained(c, reply, result) ==
  LET status == IF c.specs = {} THEN reply.status \in 200..299
                ELSE \E s \in c.specs : s.lo <= reply.status /\ reply.status <= s.hi
      seen == reply.raw \cup reply.decoded
      wanted == c.contains \ {""} \subseteq seen
      banned == (c.bans \ {""}) \cap seen # {}
      met == c.assert # None =>
               reply.value # None /\ Probing!Compare(reply.value, c.assert.op, c.assert.expected).ok
  IN result # None =>
       /\ result.ok = (result.reason = "")
       /\ result.speed => c.kind = "download" /\ result.ok /\ reply \in 200..299
       /\ c.kind = "http" /\ reply # None =>
            /\ result.ok = (status /\ wanted /\ ~banned /\ met)
            /\ CASE result.reason = ""          -> TRUE
                 [] result.reason = "status"    -> ~status
                 [] result.reason = "missing"   -> status /\ ~wanted
                 [] result.reason = "forbidden" -> status /\ banned
                 [] result.reason = "assert"    -> status /\ ~met
                 [] OTHER                       -> FALSE

\* A goroutine uses the transport that its check asks for, which is cached or its own.
RunSound(p, r, keys) ==
  /\ r = Same(r)
  /\ r.stage \in {"over", "send", "sent", "drain", "echo"}
  /\ r.stage # "over" => r.check \in Checks /\ r.result = None
  /\ r.stage \in {"over", "echo"} => r.owner = None
  /\ r.stage = "echo" => r.check.kind = "ping"
  /\ r.stage \in Travelling =>
       /\ r.check.kind \in {"http", "download"} /\ r.owner.params = Probing!Params(r.check)
       /\ r.owner = [params |-> Probing!Params(r.check), for |-> r.owner.for]
       /\ IF r.owner.for = None THEN r.owner.params \in keys ELSE r.owner.for = p
  /\ r.stage \in {"sent", "drain"} => Dialled(r.conn) /\ r.conn.owner = r.owner /\ r.conn.host = r.hop
  /\ r.stage = "drain" => r.check.kind = "download" /\ r.reply \in 200..299
  /\ Explained(r.check, r.reply, r.result)

\* An idle connection belongs to a cached transport, or to a probe under way.
Owned(k, keys, runs) ==
  /\ Dialled(k)
  /\ IF k.owner.for = None THEN k.owner.params \in keys
     ELSE k.owner.for \in Probes /\ runs[k.owner.for].stage \in Travelling

CacheSound ==
  /\ IsFiniteSet(DOMAIN cached) /\ Cardinality(DOMAIN cached) <= MaxCached
  /\ \A key \in DOMAIN cached : cached[key] = key

ProbesInv ==
  /\ Pooled(idle) /\ CacheSound
  /\ \A k \in DOMAIN idle : Owned(k, DOMAIN cached, run)
  /\ run = [p \in Probes |-> run[p]] /\ \A p \in Probes : RunSound(p, run[p], DOMAIN cached)

\* What the three kinds of verdicts say.
LEMMA FailedExplained ==
  ASSUME NEW c, NEW reply, NEW reason, reason # "", c.kind # "http" \/ reply = None
  PROVE  Explained(c, reply, Probing!Failed(reason))
<1>1. PICK result : result = Probing!Failed(reason)
  OBVIOUS
<1>2. result.ok = FALSE /\ result.speed = FALSE /\ result.reason # ""
  BY <1>1 DEF Probing!Failed
<1> QED
  BY <1>1, <1>2 DEF Explained

LEMMA PassedExplained ==
  ASSUME NEW c, NEW reply, NEW result, c.kind # "http", result.ok = TRUE, result.reason = "",
         result.speed => c.kind = "download" /\ reply \in 200..299
  PROVE  Explained(c, reply, result)
  BY DEF Explained

LEMMA HttpExplained ==
  ASSUME NEW c \in Checks, NEW reply \in Probing!Replies(c)
  PROVE  Explained(c, reply, Probing!HttpVerdict(c, reply))
<1> DEFINE status == IF c.specs = {} THEN reply.status \in 200..299
                     ELSE \E s \in c.specs : s.lo <= reply.status /\ reply.status <= s.hi
           seen == reply.raw \cup reply.decoded
           wanted == c.contains \ {""} \subseteq seen
           banned == (c.bans \ {""}) \cap seen # {}
           met == c.assert # None =>
                    reply.value # None /\ Probing!Compare(reply.value, c.assert.op, c.assert.expected).ok
<1>1. reply.status \in Int /\ (c.assert # None /\ reply.value # None => reply.value.is \in Int)
  <2>1. PICK values : values = IF c.assert = None THEN {None} ELSE {None} \cup [number : BOOLEAN, is : 0..1]
    OBVIOUS
  <2>2. PICK words : words = SUBSET ((c.contains \cup c.bans) \ {""})
    OBVIOUS
  <2>3. Probing!Replies(c) = [status : Probing!Statuses, raw : words, decoded : words, value : values]
    BY <2>1, <2>2 DEF Probing!Replies
  <2>4. reply.status \in Probing!Statuses /\ reply.value \in values
    BY <2>3
  <2> QED
    BY <2>1, <2>4 DEF Probing!Statuses
<1>2. Probing!HttpStatusOK(reply.status, c.specs) <=> status
  <2>1. \A s \in c.specs : s.lo \in Int /\ s.hi \in Int
    BY ProbesAssumption
  <2> QED
    BY <1>1, <2>1 DEF Probing!HttpStatusOK, Probing!ExpandStatusSpecs
<1>3. (Probing!Missing(c, reply) = {}) <=> wanted
  BY DEF Probing!Missing, Probing!ContainsKeyword
<1>4. (Probing!Forbidden(c, reply) # {}) <=> banned
  BY DEF Probing!Forbidden, Probing!ContainsKeyword
<1>5. Probing!KeywordOK(c, reply) <=> wanted /\ ~banned
  BY <1>3, <1>4 DEF Probing!KeywordOK
<1>6. ASSUME c.assert # None, reply.value # None
      PROVE  LET res == Probing!Compare(reply.value, c.assert.op, c.assert.expected) IN res.ok => ~res.err
  BY DEF Probing!Compare
<1>7. (c.assert # None => LET res == Probing!EvalJSONAssert(c.assert, reply.value) IN ~res.err /\ res.ok) <=> met
  BY <1>6 DEF Probing!EvalJSONAssert
<1> DEFINE ok == status /\ wanted /\ ~banned /\ met
<1>8. PICK result : result = Probing!HttpVerdict(c, reply)
  OBVIOUS
<1> HIDE DEF status, wanted, banned, met
<1>9. result.ok = ok /\ result.speed = FALSE
      /\ result.reason = IF ok THEN "" ELSE Probing!DescribeHTTPFail(c, reply)
  BY <1>2, <1>5, <1>7, <1>8 DEF Probing!HttpVerdict
<1>10. Probing!DescribeHTTPFail(c, reply) =
         IF ~status THEN "status" ELSE IF ~wanted THEN "missing" ELSE IF banned THEN "forbidden"
         ELSE IF c.assert # None THEN "assert" ELSE "failed"
  BY <1>2, <1>3, <1>4 DEF Probing!DescribeHTTPFail
<1>11. c.assert = None => met
  BY DEF met
<1> QED
  BY <1>8, <1>9, <1>10, <1>11 DEF Explained, status, wanted, banned, met

\* One goroutine moves; the others go on with what they have.
LEMMA ProbeMoves ==
  ASSUME ProbesInv, NEW p \in Probes, NEW r, run' = [run EXCEPT ![p] = r], CacheSound',
         DOMAIN cached \subseteq DOMAIN cached', RunSound(p, r, DOMAIN cached'), Pooled(idle'),
         \A k \in DOMAIN idle' : k \in DOMAIN idle \/ Owned(k, DOMAIN cached, run),
         r.stage \in Travelling \/ \A k \in DOMAIN idle' : k.owner.for # p
  PROVE  ProbesInv'
<1>1. /\ run' = [q \in Probes |-> run'[q]] /\ run'[p] = r
      /\ \A q \in Probes \ {p} : run'[q] = run[q]
  BY DEF ProbesInv
<1>2. ASSUME NEW q \in Probes PROVE RunSound(q, run'[q], DOMAIN cached')
  <2>1. CASE q = p
    BY <1>1, <2>1
  <2>2. CASE q # p
    <3>1. RunSound(q, run[q], DOMAIN cached)
      BY DEF ProbesInv
    <3>2. PICK t : t = run[q]
      OBVIOUS
    <3>3. RunSound(q, t, DOMAIN cached')
      BY <3>1, <3>2 DEF RunSound
    <3> QED
      BY <1>1, <2>2, <3>2, <3>3
  <2> QED
    BY <2>1, <2>2
<1>3. ASSUME NEW k \in DOMAIN idle' PROVE Owned(k, DOMAIN cached', run')
  <2>1. Owned(k, DOMAIN cached, run)
    BY <1>3 DEF ProbesInv
  <2>2. CASE k.owner.for = None
    BY <2>1, <2>2 DEF Owned
  <2>3. CASE k.owner.for # None
    <3>1. k.owner.for \in Probes /\ run[k.owner.for].stage \in Travelling
      BY <2>1, <2>3 DEF Owned
    <3>2. run'[k.owner.for].stage \in Travelling
      BY <1>1, <1>3, <3>1
    <3> QED
      BY <2>1, <2>3, <3>1, <3>2 DEF Owned
  <2> QED
    BY <2>2, <2>3
<1> QED
  BY <1>1, <1>2, <1>3 DEF ProbesInv

\* A connection that comes back from a probe is one of its transport.
LEMMA BackIsOwned ==
  ASSUME ProbesInv, NEW p \in Probes, run[p].stage \in {"sent", "drain"},
         NEW bag, bag = idle \/ bag = Probing!PutIdle(idle, run[p].conn)
  PROVE  Pooled(bag) /\ \A k \in DOMAIN bag : k \in DOMAIN idle \/ Owned(k, DOMAIN cached, run)
<1>1. Pooled(idle)
  BY DEF ProbesInv
<1>2. Owned(run[p].conn, DOMAIN cached, run)
  <2>1. PICK r : r = run[p]
    OBVIOUS
  <2>2. RunSound(p, r, DOMAIN cached) /\ r.stage \in Travelling
    BY <2>1 DEF ProbesInv, Travelling
  <2>3. Dialled(r.conn) /\ r.conn.owner = r.owner
    BY <2>1, <2>2 DEF RunSound
  <2>4. IF r.owner.for = None THEN r.owner.params \in DOMAIN cached ELSE r.owner.for = p
    BY <2>2 DEF RunSound
  <2>5. PICK c, o : c = r.conn /\ o = r.owner
    OBVIOUS
  <2>6. Dialled(c) /\ c.owner = o /\ IF o.for = None THEN o.params \in DOMAIN cached ELSE o.for = p
    BY <2>3, <2>4, <2>5
  <2>7. o.for = p => run[o.for].stage \in Travelling
    BY <2>1, <2>2
  <2>8. Owned(c, DOMAIN cached, run)
    <3>1. CASE o.for = None
      <4>1. Dialled(c) /\ c.owner.for = None /\ c.owner.params \in DOMAIN cached
        BY <2>6, <3>1
      <4> QED
        BY <4>1 DEF Owned
    <3>2. CASE o.for # None
      <4>1. Dialled(c) /\ c.owner.for # None /\ c.owner.for \in Probes /\ run[c.owner.for].stage \in Travelling
        BY <2>6, <2>7, <3>2
      <4> QED
        BY <4>1 DEF Owned
    <3> QED
      BY <3>1, <3>2
  <2>9. c = run[p].conn
    BY <2>1, <2>5
  <2> QED
    BY <2>8, <2>9
<1>3. CASE bag = idle
  BY <1>1, <1>3
<1>4. CASE bag = Probing!PutIdle(idle, run[p].conn)
  <2>1. PICK c : c = run[p].conn
    OBVIOUS
  <2>2. Pooled(bag) /\ DOMAIN bag \subseteq DOMAIN idle \cup {c}
    BY <1>1, <1>4, <2>1, PutIsPooled
  <2> QED
    BY <1>2, <2>1, <2>2
<1> QED
  BY <1>3, <1>4

\* What the updates of a run make of it, one field after the other.
LEMMA EndedRun ==
  ASSUME NEW c, NEW y, NEW e
  PROVE  [Probing!Idle EXCEPT !.check = c, !.reply = y, !.result = e]
           = Run("over", c, None, None, 0, None, y, e)
<1>1. PICK I : I = Run("over", None, None, None, 0, None, None, None)
  OBVIOUS
<1>2. Probing!Idle = I
  BY <1>1 DEF Probing!Idle, Run
<1>3. [I EXCEPT !.check = c, !.reply = y, !.result = e]
        = [[[I EXCEPT !.check = c] EXCEPT !.reply = y] EXCEPT !.result = e]
  OBVIOUS
<1>4. [Run("over", None, None, None, 0, None, None, None) EXCEPT !.check = c]
        = Run("over", c, None, None, 0, None, None, None)
  BY DEF Run
<1>5. [Run("over", c, None, None, 0, None, None, None) EXCEPT !.reply = y]
        = Run("over", c, None, None, 0, None, y, None)
  BY DEF Run
<1>6. [Run("over", c, None, None, 0, None, y, None) EXCEPT !.result = e]
        = Run("over", c, None, None, 0, None, y, e)
  BY DEF Run
<1> QED
  BY <1>1, <1>2, <1>3, <1>4, <1>5, <1>6

LEMMA FailedRun ==
  ASSUME NEW c, NEW e
  PROVE  [Probing!Idle EXCEPT !.check = c, !.result = e]
           = Run("over", c, None, None, 0, None, None, e)
<1>1. PICK I : I = Run("over", None, None, None, 0, None, None, None)
  OBVIOUS
<1>2. Probing!Idle = I
  BY <1>1 DEF Probing!Idle, Run
<1>3. [I EXCEPT !.check = c, !.result = e]
        = [[I EXCEPT !.check = c] EXCEPT !.result = e]
  OBVIOUS
<1>4. [Run("over", None, None, None, 0, None, None, None) EXCEPT !.check = c]
        = Run("over", c, None, None, 0, None, None, None)
  BY DEF Run
<1>5. [Run("over", c, None, None, 0, None, None, None) EXCEPT !.result = e]
        = Run("over", c, None, None, 0, None, None, e)
  BY DEF Run
<1> QED
  BY <1>1, <1>2, <1>3, <1>4, <1>5

LEMMA DialledRun ==
  ASSUME NEW c, NEW e, NEW k
  PROVE  [Probing!Idle EXCEPT !.check = c, !.result = e, !.conn = k]
           = Run("over", c, None, None, 0, k, None, e)
<1>1. PICK I : I = Run("over", None, None, None, 0, None, None, None)
  OBVIOUS
<1>2. Probing!Idle = I
  BY <1>1 DEF Probing!Idle, Run
<1>3. [I EXCEPT !.check = c, !.result = e, !.conn = k]
        = [[[I EXCEPT !.check = c] EXCEPT !.result = e] EXCEPT !.conn = k]
  OBVIOUS
<1>4. [Run("over", None, None, None, 0, None, None, None) EXCEPT !.check = c]
        = Run("over", c, None, None, 0, None, None, None)
  BY DEF Run
<1>5. [Run("over", c, None, None, 0, None, None, None) EXCEPT !.result = e]
        = Run("over", c, None, None, 0, None, None, e)
  BY DEF Run
<1>6. [Run("over", c, None, None, 0, None, None, e) EXCEPT !.conn = k]
        = Run("over", c, None, None, 0, k, None, e)
  BY DEF Run
<1> QED
  BY <1>1, <1>2, <1>3, <1>4, <1>5, <1>6

LEMMA HttpRun ==
  ASSUME NEW c, NEW h, NEW o
  PROVE  [Probing!Idle EXCEPT !.stage = "send", !.check = c, !.hop = h, !.owner = o]
           = Run("send", c, o, h, 0, None, None, None)
<1>1. PICK I : I = Run("over", None, None, None, 0, None, None, None)
  OBVIOUS
<1>2. Probing!Idle = I
  BY <1>1 DEF Probing!Idle, Run
<1>3. [I EXCEPT !.stage = "send", !.check = c, !.hop = h, !.owner = o]
        = [[[[I EXCEPT !.stage = "send"] EXCEPT !.check = c] EXCEPT !.hop = h] EXCEPT !.owner = o]
  OBVIOUS
<1>4. [Run("over", None, None, None, 0, None, None, None) EXCEPT !.stage = "send"]
        = Run("send", None, None, None, 0, None, None, None)
  BY DEF Run
<1>5. [Run("send", None, None, None, 0, None, None, None) EXCEPT !.check = c]
        = Run("send", c, None, None, 0, None, None, None)
  BY DEF Run
<1>6. [Run("send", c, None, None, 0, None, None, None) EXCEPT !.hop = h]
        = Run("send", c, None, h, 0, None, None, None)
  BY DEF Run
<1>7. [Run("send", c, None, h, 0, None, None, None) EXCEPT !.owner = o]
        = Run("send", c, o, h, 0, None, None, None)
  BY DEF Run
<1> QED
  BY <1>1, <1>2, <1>3, <1>4, <1>5, <1>6, <1>7

LEMMA EchoRun ==
  ASSUME NEW c, NEW k
  PROVE  [Probing!Idle EXCEPT !.stage = "echo", !.check = c, !.conn = k]
           = Run("echo", c, None, None, 0, k, None, None)
<1>1. PICK I : I = Run("over", None, None, None, 0, None, None, None)
  OBVIOUS
<1>2. Probing!Idle = I
  BY <1>1 DEF Probing!Idle, Run
<1>3. [I EXCEPT !.stage = "echo", !.check = c, !.conn = k]
        = [[[I EXCEPT !.stage = "echo"] EXCEPT !.check = c] EXCEPT !.conn = k]
  OBVIOUS
<1>4. [Run("over", None, None, None, 0, None, None, None) EXCEPT !.stage = "echo"]
        = Run("echo", None, None, None, 0, None, None, None)
  BY DEF Run
<1>5. [Run("echo", None, None, None, 0, None, None, None) EXCEPT !.check = c]
        = Run("echo", c, None, None, 0, None, None, None)
  BY DEF Run
<1>6. [Run("echo", c, None, None, 0, None, None, None) EXCEPT !.conn = k]
        = Run("echo", c, None, None, 0, k, None, None)
  BY DEF Run
<1> QED
  BY <1>1, <1>2, <1>3, <1>4, <1>5, <1>6

\* The request leaves on a connection, is sent again after a redirect, is answered.
Leaves(p, k) == run' = [run EXCEPT ![p].stage = "sent", ![p].conn = k]

LEMMA SentRun ==
  ASSUME ProbesInv, NEW p \in Probes, NEW r, r = run[p], NEW k,
         Leaves(p, k)
  PROVE  run' = [run EXCEPT ![p] = Run("sent", r.check, r.owner, r.hop, r.redirects, k, r.reply, r.result)]
<1>0. r = Same(r) /\ run = [q \in Probes |-> run[q]]
  BY DEF ProbesInv, RunSound
<1> DEFINE a == Run("sent", r.check, r.owner, r.hop, r.redirects, r.conn, r.reply, r.result)
           b == Run("sent", r.check, r.owner, r.hop, r.redirects, k, r.reply, r.result)
<1>1. [run EXCEPT ![p].stage = "sent", ![p].conn = k]
        = [[run EXCEPT ![p].stage = "sent"] EXCEPT ![p].conn = k]
  OBVIOUS
<1>2. [r EXCEPT !.stage = "sent"] = a
  BY <1>0 DEF Run, Same
<1>3. [a EXCEPT !.conn = k] = b
  BY DEF Run
<1> HIDE DEF a, b
<1>4. [run EXCEPT ![p].stage = "sent"] = [run EXCEPT ![p] = a]
  BY <1>0, <1>2
<1>5. [[run EXCEPT ![p] = a] EXCEPT ![p].conn = k] = [run EXCEPT ![p] = b]
  BY <1>0, <1>3
<1>6. [[run EXCEPT ![p].stage = "sent"] EXCEPT ![p].conn = k]
        = [run EXCEPT ![p] = b]
  BY <1>4, <1>5
<1> QED
  BY <1>1, <1>6 DEF b, Leaves

Redirected(p, h, n) == run' = [run EXCEPT ![p].stage = "send", ![p].hop = h, ![p].conn = None, ![p].redirects = n]

LEMMA RedirectedRun ==
  ASSUME ProbesInv, NEW p \in Probes, NEW r, r = run[p], NEW h, NEW n,
         Redirected(p, h, n)
  PROVE  run' = [run EXCEPT ![p] = Run("send", r.check, r.owner, h, n, None, r.reply, r.result)]
<1>0. r = Same(r) /\ run = [q \in Probes |-> run[q]]
  BY DEF ProbesInv, RunSound
<1> DEFINE a == Run("send", r.check, r.owner, r.hop, r.redirects, r.conn, r.reply, r.result)
           b == Run("send", r.check, r.owner, h, r.redirects, r.conn, r.reply, r.result)
           c == Run("send", r.check, r.owner, h, r.redirects, None, r.reply, r.result)
           d == Run("send", r.check, r.owner, h, n, None, r.reply, r.result)
<1>1. [run EXCEPT ![p].stage = "send", ![p].hop = h, ![p].conn = None, ![p].redirects = n]
        = [[[[run EXCEPT ![p].stage = "send"] EXCEPT ![p].hop = h] EXCEPT ![p].conn = None] EXCEPT ![p].redirects = n]
  OBVIOUS
<1>2. [r EXCEPT !.stage = "send"] = a
  BY <1>0 DEF Run, Same
<1>3. [a EXCEPT !.hop = h] = b
  BY DEF Run
<1>4. [b EXCEPT !.conn = None] = c
  BY DEF Run
<1>5. [c EXCEPT !.redirects = n] = d
  BY DEF Run
<1> HIDE DEF a, b, c, d
<1>6. [run EXCEPT ![p].stage = "send"] = [run EXCEPT ![p] = a]
  BY <1>0, <1>2
<1>7. [[run EXCEPT ![p] = a] EXCEPT ![p].hop = h] = [run EXCEPT ![p] = b]
  BY <1>0, <1>3
<1>8. [[run EXCEPT ![p].stage = "send"] EXCEPT ![p].hop = h]
        = [run EXCEPT ![p] = b]
  BY <1>6, <1>7
<1>9. [[run EXCEPT ![p] = b] EXCEPT ![p].conn = None] = [run EXCEPT ![p] = c]
  BY <1>0, <1>4
<1>10. [[[run EXCEPT ![p].stage = "send"] EXCEPT ![p].hop = h] EXCEPT ![p].conn = None]
        = [run EXCEPT ![p] = c]
  BY <1>8, <1>9
<1>11. [[run EXCEPT ![p] = c] EXCEPT ![p].redirects = n] = [run EXCEPT ![p] = d]
  BY <1>0, <1>5
<1>12. [[[[run EXCEPT ![p].stage = "send"] EXCEPT ![p].hop = h] EXCEPT ![p].conn = None] EXCEPT ![p].redirects = n]
        = [run EXCEPT ![p] = d]
  BY <1>10, <1>11
<1> QED
  BY <1>1, <1>12 DEF d, Redirected

Answered(p, y) == run' = [run EXCEPT ![p].stage = "drain", ![p].reply = y]

LEMMA DrainRun ==
  ASSUME ProbesInv, NEW p \in Probes, NEW r, r = run[p], NEW y,
         Answered(p, y)
  PROVE  run' = [run EXCEPT ![p] = Run("drain", r.check, r.owner, r.hop, r.redirects, r.conn, y, r.result)]
<1>0. r = Same(r) /\ run = [q \in Probes |-> run[q]]
  BY DEF ProbesInv, RunSound
<1> DEFINE a == Run("drain", r.check, r.owner, r.hop, r.redirects, r.conn, r.reply, r.result)
           b == Run("drain", r.check, r.owner, r.hop, r.redirects, r.conn, y, r.result)
<1>1. [run EXCEPT ![p].stage = "drain", ![p].reply = y]
        = [[run EXCEPT ![p].stage = "drain"] EXCEPT ![p].reply = y]
  OBVIOUS
<1>2. [r EXCEPT !.stage = "drain"] = a
  BY <1>0 DEF Run, Same
<1>3. [a EXCEPT !.reply = y] = b
  BY DEF Run
<1> HIDE DEF a, b
<1>4. [run EXCEPT ![p].stage = "drain"] = [run EXCEPT ![p] = a]
  BY <1>0, <1>2
<1>5. [[run EXCEPT ![p] = a] EXCEPT ![p].reply = y] = [run EXCEPT ![p] = b]
  BY <1>0, <1>3
<1>6. [[run EXCEPT ![p].stage = "drain"] EXCEPT ![p].reply = y]
        = [run EXCEPT ![p] = b]
  BY <1>4, <1>5
<1> QED
  BY <1>1, <1>6 DEF b, Answered

\* A probe ends: its own transport goes with it.
LEMMA EndSound ==
  ASSUME ProbesInv, NEW p \in Probes, run[p].stage # "over", NEW reply, NEW result, NEW bag,
         Probing!End(p, reply, result, bag), Pooled(bag),
         \A k \in DOMAIN bag : k \in DOMAIN idle \/ Owned(k, DOMAIN cached, run),
         Explained(run[p].check, reply, result)
  PROVE  ProbesInv'
<1> DEFINE S == {k \in DOMAIN bag : run[p].owner = None \/ k.owner.for # p}
<1>1. /\ run' = [run EXCEPT ![p] = [Probing!Idle EXCEPT !.check = run[p].check, !.reply = reply, !.result = result]]
      /\ idle' = [k \in S |-> bag[k]] /\ UNCHANGED cached
  BY DEF Probing!End, Probing!BagToSet
<1>2. PICK r : r = Run("over", run[p].check, None, None, 0, None, reply, result)
  OBVIOUS
<1>3. run' = [run EXCEPT ![p] = r]
  <2>1. [Probing!Idle EXCEPT !.check = run[p].check, !.reply = reply, !.result = result] = r
    BY <1>2, EndedRun
  <2> QED
    BY <1>1, <2>1
<1>4. RunSound(p, r, DOMAIN cached')
  <2>1. /\ r.stage = "over" /\ r.check = run[p].check /\ r.owner = None /\ r.reply = reply /\ r.result = result
        /\ r = Same(r)
    BY <1>2 DEF Run, Same
  <2> QED
    BY <2>1 DEF RunSound, Travelling
<1>5. Pooled(idle') /\ DOMAIN idle' = S /\ S \subseteq DOMAIN bag
  BY <1>1, SomeThins, ThinnerIsPooled
<1>6. ASSUME NEW k \in DOMAIN idle' PROVE k.owner.for # p
  <2>1. k \in S /\ k \in DOMAIN bag
    BY <1>5, <1>6
  <2>2. CASE run[p].stage \in Travelling
    <3>1. run[p].owner # None
      <4>1. /\ run[p].owner = [params |-> Probing!Params(run[p].check), for |-> run[p].owner.for]
            /\ run[p].check \in Checks /\ run[p].owner.for \in Probes \cup {None}
        BY <2>2 DEF ProbesInv, RunSound, Travelling
      <4> QED
        BY <4>1, ProbesAssumption
    <3> QED
      BY <2>1, <3>1
  <2>3. CASE run[p].stage \notin Travelling
    <3>1. Owned(k, DOMAIN cached, run)
      BY <2>1 DEF ProbesInv
    <3>2. p # None
      BY ProbesAssumption
    <3> QED
      BY <2>3, <3>1, <3>2 DEF Owned
  <2> QED
    BY <2>2, <2>3
<1>7. CacheSound'
  BY <1>1 DEF ProbesInv, CacheSound
<1> QED
  BY <1>1, <1>3, <1>4, <1>5, <1>6, <1>7, ProbeMoves

\* The fields of a run that was put together.
LEMMA RunParts ==
  ASSUME NEW s, NEW c, NEW o, NEW h, NEW n, NEW k, NEW y, NEW e, NEW r, r = Run(s, c, o, h, n, k, y, e)
  PROVE  /\ r = Same(r) /\ r.stage = s /\ r.check = c /\ r.owner = o /\ r.hop = h /\ r.redirects = n
         /\ r.conn = k /\ r.reply = y /\ r.result = e
  BY DEF Run, Same

\* A probe that ends where it begins.
LEMMA ImmediateEnd ==
  ASSUME ProbesInv, NEW p \in Probes, run[p].stage = "over", NEW c, NEW k, NEW result,
         NEW r, r = Run("over", c, None, None, 0, k, None, result), run' = [run EXCEPT ![p] = r],
         UNCHANGED <<cached, idle>>, Explained(c, None, result)
  PROVE  ProbesInv'
<1>2. RunSound(p, r, DOMAIN cached)
  BY RunParts DEF RunSound, Travelling
<1>3. ASSUME NEW x \in DOMAIN idle PROVE x.owner.for # p
  <2>1. p # None
    BY ProbesAssumption
  <2>2. Owned(x, DOMAIN cached, run)
    BY DEF ProbesInv
  <2> QED
    BY <2>1, <2>2 DEF Owned, Travelling
<1>4. CacheSound' /\ Pooled(idle')
  BY DEF ProbesInv, CacheSound
<1> QED
  BY <1>2, <1>3, <1>4, ProbeMoves

\* The cache takes a transport in while it has room, under its own parameters.
LEMMA CacheTakes ==
  ASSUME CacheSound, NEW key,
         cached' = IF key \in DOMAIN cached \/ Probing!Cardinality(DOMAIN cached) >= MaxCached THEN cached
                   ELSE [k \in DOMAIN cached \cup {key} |-> IF k = key THEN key ELSE cached[k]]
  PROVE  CacheSound' /\ DOMAIN cached \subseteq DOMAIN cached' /\ \A k \in DOMAIN cached' : cached'[k] = k
<1>1. Probing!Cardinality(DOMAIN cached) = Cardinality(DOMAIN cached)
  BY DEF Probing!Cardinality, Cardinality
<1>2. MaxCached \in Nat /\ Cardinality(DOMAIN cached) \in Nat
  BY FS_CardinalityType, ProbesAssumption DEF CacheSound
<1>3. CASE key \in DOMAIN cached \/ Cardinality(DOMAIN cached) >= MaxCached
  BY <1>1, <1>3 DEF CacheSound
<1>4. CASE ~(key \in DOMAIN cached \/ Cardinality(DOMAIN cached) >= MaxCached)
  <2>1. cached' = [k \in DOMAIN cached \cup {key} |-> IF k = key THEN key ELSE cached[k]]
    BY <1>1, <1>4
  <2>2. IsFiniteSet(DOMAIN cached \cup {key}) /\ Cardinality(DOMAIN cached \cup {key}) = Cardinality(DOMAIN cached) + 1
    BY <1>4, FS_AddElement DEF CacheSound
  <2>3. Cardinality(DOMAIN cached \cup {key}) <= MaxCached
    BY <1>2, <1>4, <2>2
  <2>4. DOMAIN cached' = DOMAIN cached \cup {key} /\ \A k \in DOMAIN cached' : cached'[k] = k
    BY <2>1 DEF CacheSound
  <2> QED
    BY <2>2, <2>3, <2>4 DEF CacheSound
<1> QED
  BY <1>3, <1>4

\* The steps of a probe, and a connection that times out.
LEMMA ExecuteStep ==
  ASSUME ProbesInv, NEW p \in Probes, Probing!Execute(p)
  PROVE  ProbesInv'
<1>1. run[p].stage = "over"
  BY DEF Probing!Execute
<1>2. PICK c \in Checks :
        \/ /\ c.kind \notin Probing!Kinds
           /\ run' = [run EXCEPT ![p] = [Probing!Idle EXCEPT !.check = c, !.result = Probing!Failed("unsupported")]]
           /\ UNCHANGED <<cached, idle>>
        \/ c.kind \in {"http", "download"} /\ Probing!TransportFor(p, c) /\ UNCHANGED idle
        \/ /\ c.kind = "ping"
           /\ LET families == Probing!ResolveIP(c.host, c.version)
              IN IF families = {}
                 THEN run' = [run EXCEPT ![p] = [Probing!Idle EXCEPT !.check = c, !.result = Probing!Failed("resolve")]]
                 ELSE \E family \in families :
                        run' = [run EXCEPT ![p] = [Probing!Idle EXCEPT !.stage = "echo", !.check = c,
                                                     !.conn = [host |-> c.host, family |-> family]]]
           /\ UNCHANGED <<cached, idle>>
        \/ /\ c.kind = "tcp"
           /\ \/ run' = [run EXCEPT ![p] = [Probing!Idle EXCEPT !.check = c, !.result = Probing!Failed("dial")]]
              \/ \E family \in Probing!Reachable(c.host, c.version) :
                   run' = [run EXCEPT ![p] = [Probing!Idle EXCEPT !.check = c, !.result = Probing!Passed,
                                                !.conn = [host |-> c.host, family |-> family]]]
           /\ UNCHANGED <<cached, idle>>
  BY DEF Probing!Execute
<1>3. ASSUME NEW reason, reason # "", UNCHANGED <<cached, idle>>,
             run' = [run EXCEPT ![p] = [Probing!Idle EXCEPT !.check = c, !.result = Probing!Failed(reason)]]
      PROVE  ProbesInv'
  <2>1. Explained(c, None, Probing!Failed(reason))
    BY <1>3, FailedExplained
  <2>2. PICK result, r, conn : /\ result = Probing!Failed(reason) /\ conn = None
                               /\ r = Run("over", c, None, None, 0, conn, None, result)
    OBVIOUS
  <2>3. run' = [run EXCEPT ![p] = r]
    <3>1. [Probing!Idle EXCEPT !.check = c, !.result = result] = r
      BY <2>2, FailedRun
    <3> QED
      BY <1>3, <2>2, <3>1
  <2>4. Explained(c, None, result)
    BY <2>1, <2>2
  <2>5. r = Run("over", c, None, None, 0, None, None, result)
    BY <2>2
  <2>6. run[p].stage = "over" /\ UNCHANGED <<cached, idle>>
    BY <1>1, <1>3
  <2> QED
    BY <2>3, <2>4, <2>5, <2>6, ImmediateEnd
<1>4. ASSUME NEW conn, c.kind = "tcp", UNCHANGED <<cached, idle>>,
             run' = [run EXCEPT ![p] = [Probing!Idle EXCEPT !.check = c, !.result = Probing!Passed, !.conn = conn]]
      PROVE  ProbesInv'
  <2>3. PICK result, r : result = Probing!Passed /\ r = Run("over", c, None, None, 0, conn, None, result)
    OBVIOUS
  <2>4. run' = [run EXCEPT ![p] = r]
    BY <1>4, <2>3, DialledRun
  <2>1. result.ok = TRUE /\ result.reason = "" /\ result.speed = FALSE
    BY <2>3 DEF Probing!Passed
  <2>5. Explained(c, None, result)
    BY <1>4, <2>1, PassedExplained
  <2> QED
    BY <1>1, <1>4, <2>3, <2>4, <2>5, ImmediateEnd
<1>5. ASSUME NEW conn, c.kind = "ping", UNCHANGED <<cached, idle>>,
             run' = [run EXCEPT ![p] = [Probing!Idle EXCEPT !.stage = "echo", !.check = c, !.conn = conn]]
      PROVE  ProbesInv'
  <2>1. PICK r : r = Run("echo", c, None, None, 0, conn, None, None)
    OBVIOUS
  <2>2. run' = [run EXCEPT ![p] = r]
    BY <1>5, <2>1, EchoRun
  <2>3. RunSound(p, r, DOMAIN cached)
    <3>1. /\ r = Same(r) /\ r.stage = "echo" /\ r.check = c /\ r.owner = None /\ r.result = None
      BY <2>1, RunParts
    <3> QED
      BY <1>5, <3>1 DEF RunSound, Travelling, Explained
  <2>4. ASSUME NEW x \in DOMAIN idle PROVE x.owner.for # p
    <3>1. p # None
      BY ProbesAssumption
    <3>2. Owned(x, DOMAIN cached, run)
      BY DEF ProbesInv
    <3> QED
      BY <1>1, <3>1, <3>2 DEF Owned, Travelling
  <2>5. CacheSound' /\ Pooled(idle')
    BY <1>5 DEF ProbesInv, CacheSound
  <2> QED
    BY <1>5, <2>2, <2>3, <2>4, <2>5, ProbeMoves
<1>6. ASSUME c.kind \in {"http", "download"}, Probing!TransportFor(p, c), UNCHANGED idle
      PROVE  ProbesInv'
  <2>1. PICK key : key = Probing!Params(c)
    OBVIOUS
  <2>2. PICK o : o = IF key \in DOMAIN cached' THEN [params |-> cached'[key], for |-> None]
                     ELSE [params |-> key, for |-> p]
    OBVIOUS
  <2>3. /\ cached' = IF key \in DOMAIN cached \/ Probing!Cardinality(DOMAIN cached) >= MaxCached THEN cached
                     ELSE [k \in DOMAIN cached \cup {key} |-> IF k = key THEN key ELSE cached[k]]
        /\ run' = [run EXCEPT ![p] = [Probing!Idle EXCEPT !.stage = "send", !.check = c,
                                        !.hop = Probing!VhostTarget(c), !.owner = o]]
    BY <1>6, <2>1, <2>2 DEF Probing!TransportFor, Probing!Key
  <2>4. CacheSound' /\ DOMAIN cached \subseteq DOMAIN cached' /\ \A k \in DOMAIN cached' : cached'[k] = k
    BY <2>3, CacheTakes DEF ProbesInv
  <2>5. PICK r : r = Run("send", c, o, Probing!VhostTarget(c), 0, None, None, None)
    OBVIOUS
  <2>6. run' = [run EXCEPT ![p] = r]
    BY <2>3, <2>5, HttpRun
  <2>7. /\ o = [params |-> key, for |-> o.for] /\ o.params = key
        /\ IF o.for = None THEN o.params \in DOMAIN cached' ELSE o.for = p
    <3>1. CASE key \in DOMAIN cached'
      <4>1. o = [params |-> key, for |-> None]
        BY <2>2, <2>4, <3>1
      <4> QED
        BY <3>1, <4>1
    <3>2. CASE key \notin DOMAIN cached'
      <4>1. o = [params |-> key, for |-> p] /\ p # None
        BY <2>2, <3>2, ProbesAssumption
      <4> QED
        BY <4>1
    <3> QED
      BY <3>1, <3>2
  <2>8. RunSound(p, r, DOMAIN cached')
    <3>1. /\ r = Same(r) /\ r.stage = "send" /\ r.check = c /\ r.owner = o /\ r.result = None
      BY <2>5, RunParts
    <3> QED
      BY <1>6, <2>1, <2>7, <3>1 DEF RunSound, Travelling, Explained
  <2>9. Pooled(idle') /\ r.stage \in Travelling
    BY <1>6, <2>5, RunParts DEF ProbesInv, Travelling
  <2> QED
    BY <1>6, <2>4, <2>6, <2>8, <2>9, ProbeMoves
<1> QED
  BY <1>2, <1>3, <1>4, <1>5, <1>6

\* A probe under way goes on with another connection or another answer.
LEMMA GoesOn ==
  ASSUME ProbesInv, NEW p \in Probes, run[p].stage \in Travelling, NEW r, run' = [run EXCEPT ![p] = r],
         r = Same(r), r.stage \in Travelling, r.check = run[p].check, r.owner = run[p].owner,
         r.result = run[p].result, UNCHANGED cached, Pooled(idle'),
         \A k \in DOMAIN idle' : k \in DOMAIN idle \/ Owned(k, DOMAIN cached, run),
         r.stage # "send" => Dialled(r.conn) /\ r.conn.owner = r.owner /\ r.conn.host = r.hop,
         r.stage = "drain" => r.check.kind = "download" /\ r.reply \in 200..299
  PROVE  ProbesInv'
<1>1. PICK t : t = run[p]
  OBVIOUS
<1>2. RunSound(p, t, DOMAIN cached) /\ t.stage \in Travelling
  BY <1>1 DEF ProbesInv
<1>3. r.check = t.check /\ r.owner = t.owner /\ r.result = t.result
  BY <1>1
<1>4. t.result = None /\ t.check \in Checks
  BY <1>2 DEF RunSound, Travelling
<1>5. /\ t.check.kind \in {"http", "download"} /\ t.owner.params = Probing!Params(t.check)
      /\ t.owner = [params |-> Probing!Params(t.check), for |-> t.owner.for]
      /\ IF t.owner.for = None THEN t.owner.params \in DOMAIN cached ELSE t.owner.for = p
  BY <1>2 DEF RunSound
<1>6. RunSound(p, r, DOMAIN cached)
  <2>1. Explained(r.check, r.reply, r.result)
    BY <1>3, <1>4 DEF Explained
  <2>2. r.stage \in {"send", "sent", "drain"}
    BY DEF Travelling
  <2>3. /\ r.check.kind \in {"http", "download"} /\ r.owner.params = Probing!Params(r.check)
        /\ r.owner = [params |-> Probing!Params(r.check), for |-> r.owner.for]
        /\ IF r.owner.for = None THEN r.owner.params \in DOMAIN cached ELSE r.owner.for = p
    <3>1. PICK c, o : c = t.check /\ o = t.owner
      OBVIOUS
    <3>2. r.check = c /\ r.owner = o
      BY <1>3, <3>1
    <3> QED
      BY <1>5, <3>1, <3>2
  <2> QED
    BY <1>3, <1>4, <2>1, <2>2, <2>3 DEF RunSound
<1>7. CacheSound'
  BY DEF ProbesInv, CacheSound
<1> QED
  BY <1>6, <1>7, ProbeMoves

LEMMA SendStep ==
  ASSUME ProbesInv, NEW p \in Probes, Probing!Send(p)
  PROVE  ProbesInv'
<1>1. PICK t : t = run[p]
  OBVIOUS
<1>2. RunSound(p, t, DOMAIN cached) /\ t.stage = "send" /\ t = Same(t)
  BY <1>1 DEF ProbesInv, RunSound, Probing!Send
<1> DEFINE ready == {k \in DOMAIN idle : k.owner = t.owner /\ k.host = t.hop}
           at == IF t.owner.params.dialAddr # None /\ t.hop = t.owner.params.vhost
                 THEN t.owner.params.dialAddr ELSE t.hop
<1>3. \/ \E k \in ready : /\ Leaves(p, k)
                          /\ idle' = Probing!(-)(idle, Probing!SetToBag({k})) /\ UNCHANGED cached
      \/ \E family \in Probing!Reachable(at, t.owner.params.version) :
           /\ Leaves(p, [owner |-> t.owner, host |-> t.hop, at |-> at, family |-> family])
           /\ UNCHANGED <<cached, idle>>
      \/ Probing!End(p, None, Probing!Failed("dial"), idle)
  BY <1>1 DEF Probing!Send, Probing!BagToSet, Leaves
<1> HIDE DEF at
<1>4. Pooled(idle) /\ run = [q \in Probes |-> run[q]]
  BY DEF ProbesInv
<1>5. ASSUME NEW k, Leaves(p, k), UNCHANGED cached,
             Dialled(k), k.owner = t.owner, k.host = t.hop, Pooled(idle'), DOMAIN idle' \subseteq DOMAIN idle
      PROVE  ProbesInv'
  <2>1. PICK r : r = Run("sent", t.check, t.owner, t.hop, t.redirects, k, t.reply, t.result)
    OBVIOUS
  <2>2. run' = [run EXCEPT ![p] = r]
    <3>1. run' = [run EXCEPT ![p] = Run("sent", t.check, t.owner, t.hop, t.redirects, k, t.reply, t.result)]
      BY <1>1, <1>5, SentRun
    <3> QED
      BY <2>1, <3>1
  <2>3. /\ r = Same(r) /\ r.stage = "sent" /\ r.check = t.check /\ r.owner = t.owner /\ r.hop = t.hop
        /\ r.conn = k /\ r.result = t.result
    BY <2>1, RunParts
  <2>4. Dialled(r.conn) /\ r.conn.owner = r.owner /\ r.conn.host = r.hop
    BY <1>5, <2>3
  <2>5. run[p].stage \in Travelling /\ r.stage \in Travelling
    BY <1>1, <1>2, <2>3 DEF Travelling
  <2>6. r.check = run[p].check /\ r.owner = run[p].owner /\ r.result = run[p].result
    BY <1>1, <2>3
  <2> QED
    BY <1>5, <2>2, <2>3, <2>4, <2>5, <2>6, GoesOn
<1>6. ASSUME NEW k \in ready, Leaves(p, k),
             idle' = Probing!(-)(idle, Probing!SetToBag({k})), UNCHANGED cached
      PROVE  ProbesInv'
  <2>1. Thinner(idle', idle)
    BY <1>4, <1>6, TakingThins
  <2>2. Pooled(idle') /\ DOMAIN idle' \subseteq DOMAIN idle
    BY <1>4, <2>1, ThinnerIsPooled DEF Thinner
  <2>3. Dialled(k)
    BY DEF ProbesInv, Owned
  <2> QED
    BY <1>5, <1>6, <2>2, <2>3
<1>7. ASSUME NEW family \in Probing!Reachable(at, t.owner.params.version), UNCHANGED <<cached, idle>>,
             Leaves(p, [owner |-> t.owner, host |-> t.hop, at |-> at, family |-> family])
      PROVE  ProbesInv'
  <2>1. PICK k : k = [owner |-> t.owner, host |-> t.hop, at |-> at, family |-> family]
    OBVIOUS
  <2>2. k.owner = t.owner /\ k.host = t.hop /\ k.at = at /\ k.family = family
    BY <2>1
  <2>3. Dialled(k)
    BY <2>2 DEF Dialled, at
  <2> QED
    BY <1>4, <1>5, <1>7, <2>1, <2>2, <2>3
<1>8. ASSUME Probing!End(p, None, Probing!Failed("dial"), idle) PROVE ProbesInv'
  <2>1. PICK result : result = Probing!Failed("dial")
    OBVIOUS
  <2>2. Explained(run[p].check, None, result)
    BY <2>1, FailedExplained
  <2> QED
    BY <1>1, <1>2, <1>4, <1>8, <2>1, <2>2, EndSound
<1> QED
  BY <1>3, <1>6, <1>7, <1>8

LEMMA ReceiveStep ==
  ASSUME ProbesInv, NEW p \in Probes, Probing!Receive(p)
  PROVE  ProbesInv'
<1>1. PICK t : t = run[p]
  OBVIOUS
<1>2. /\ RunSound(p, t, DOMAIN cached) /\ t.stage = "sent" /\ t = Same(t)
      /\ run[p].stage \in Travelling /\ run[p].stage # "over" /\ run[p].stage \in {"sent", "drain"}
  BY <1>1 DEF ProbesInv, RunSound, Probing!Receive, Travelling
<1>3. Dialled(t.conn) /\ t.conn.owner = t.owner /\ t.conn.host = t.hop /\ t.check \in Checks
  BY <1>2 DEF RunSound
<1> DEFINE Back == {idle, Probing!PutIdle(idle, run[p].conn)}
<1>4. \/ \E reason \in {"request", "redirects"}, bag \in Back : Probing!End(p, None, Probing!Failed(reason), bag)
      \/ \E bag \in Back, h \in Names :
           Redirected(p, h, run[p].redirects + 1) /\ idle' = bag /\ UNCHANGED cached
      \/ /\ t.check.kind = "http"
         /\ \E reply \in Probing!Replies(t.check), bag \in Back :
              Probing!End(p, reply, Probing!HttpVerdict(t.check, reply), bag)
      \/ /\ t.check.kind = "download"
         /\ \E status \in Probing!Statuses :
              IF Probing!HttpStatusOK(status, {}) THEN Answered(p, status) /\ UNCHANGED <<cached, idle>>
              ELSE Probing!End(p, status, Probing!Failed("status"), idle)
  BY <1>1 DEF Probing!Receive, Redirected, Answered
<1>5. Pooled(idle)
  BY DEF ProbesInv
<1>6. ASSUME NEW bag \in Back
      PROVE  Pooled(bag) /\ \A k \in DOMAIN bag : k \in DOMAIN idle \/ Owned(k, DOMAIN cached, run)
  BY <1>2, BackIsOwned
<1> HIDE DEF Back
<1>7. ASSUME NEW reason \in {"request", "redirects"}, NEW bag \in Back,
             Probing!End(p, None, Probing!Failed(reason), bag)
      PROVE  ProbesInv'
  <2>1. PICK result, reply : result = Probing!Failed(reason) /\ reply = None
    OBVIOUS
  <2>2. Explained(run[p].check, reply, result)
    BY <2>1, FailedExplained
  <2> QED
    BY <1>2, <1>6, <1>7, <2>1, <2>2, EndSound
<1>8. ASSUME NEW bag \in Back, NEW h \in Names, Redirected(p, h, run[p].redirects + 1), idle' = bag, UNCHANGED cached
      PROVE  ProbesInv'
  <2>1. PICK n, r : n = run[p].redirects + 1 /\ r = Run("send", t.check, t.owner, h, n, None, t.reply, t.result)
    OBVIOUS
  <2>2. run' = [run EXCEPT ![p] = r]
    BY <1>1, <1>8, <2>1, RedirectedRun
  <2>3. r = Same(r) /\ r.stage = "send" /\ r.check = t.check /\ r.owner = t.owner /\ r.result = t.result
    BY <2>1, RunParts
  <2>4. Pooled(idle') /\ \A k \in DOMAIN idle' : k \in DOMAIN idle \/ Owned(k, DOMAIN cached, run)
    BY <1>6, <1>8
  <2>5. /\ r.stage \in Travelling /\ r.stage # "drain"
        /\ r.check = run[p].check /\ r.owner = run[p].owner /\ r.result = run[p].result
    BY <1>1, <2>3 DEF Travelling
  <2> QED
    BY <1>2, <1>8, <2>2, <2>3, <2>4, <2>5, GoesOn
<1>9. ASSUME t.check.kind = "http", NEW reply \in Probing!Replies(t.check), NEW bag \in Back,
             Probing!End(p, reply, Probing!HttpVerdict(t.check, reply), bag)
      PROVE  ProbesInv'
  <2>1. PICK c, result : c = t.check /\ result = Probing!HttpVerdict(c, reply)
    OBVIOUS
  <2>2. Explained(c, reply, result)
    BY <1>3, <1>9, <2>1, HttpExplained
  <2>3. Explained(run[p].check, reply, result)
    BY <1>1, <2>1, <2>2
  <2>4. Probing!End(p, reply, result, bag)
    BY <1>9, <2>1
  <2>5. Pooled(bag) /\ \A k \in DOMAIN bag : k \in DOMAIN idle \/ Owned(k, DOMAIN cached, run)
    BY <1>6
  <2> QED
    BY <1>2, <2>3, <2>4, <2>5, EndSound
<1>10. ASSUME t.check.kind = "download", NEW status \in Probing!Statuses, Probing!HttpStatusOK(status, {}),
              Answered(p, status), UNCHANGED <<cached, idle>>
       PROVE  ProbesInv'
  <2>1. PICK r : r = Run("drain", t.check, t.owner, t.hop, t.redirects, t.conn, status, t.result)
    OBVIOUS
  <2>2. run' = [run EXCEPT ![p] = r]
    BY <1>1, <1>10, <2>1, DrainRun
  <2>3. /\ r = Same(r) /\ r.stage = "drain" /\ r.check = t.check /\ r.owner = t.owner /\ r.hop = t.hop
        /\ r.conn = t.conn /\ r.reply = status /\ r.result = t.result
    BY <2>1, RunParts
  <2>4. status \in 200..299
    BY <1>10 DEF Probing!HttpStatusOK
  <2>5. Dialled(r.conn) /\ r.conn.owner = r.owner /\ r.conn.host = r.hop
    <3>1. PICK k : k = t.conn
      OBVIOUS
    <3>2. Dialled(k) /\ k.owner = t.owner /\ k.host = t.hop /\ r.conn = k
      BY <1>3, <2>3, <3>1
    <3> QED
      BY <2>3, <3>2
  <2>6. /\ r.stage \in Travelling /\ r.check.kind = "download" /\ r.reply \in 200..299
        /\ r.check = run[p].check /\ r.owner = run[p].owner /\ r.result = run[p].result
    BY <1>1, <1>10, <2>3, <2>4 DEF Travelling
  <2>7. Pooled(idle') /\ \A k \in DOMAIN idle' : k \in DOMAIN idle
    BY <1>5, <1>10
  <2> QED
    BY <1>2, <1>10, <2>2, <2>3, <2>5, <2>6, <2>7, GoesOn
<1>11. ASSUME t.check.kind = "download", NEW status \in Probing!Statuses,
              Probing!End(p, status, Probing!Failed("status"), idle)
       PROVE  ProbesInv'
  <2>1. PICK c, result : c = t.check /\ result = Probing!Failed("status")
    OBVIOUS
  <2>2. Explained(c, status, result)
    BY <1>11, <2>1, FailedExplained
  <2>3. Explained(run[p].check, status, result)
    BY <1>1, <2>1, <2>2
  <2>4. Probing!End(p, status, result, idle)
    BY <1>11, <2>1
  <2> QED
    BY <1>2, <1>5, <2>3, <2>4, EndSound
<1> QED
  BY <1>4, <1>7, <1>8, <1>9, <1>10, <1>11

LEMMA DrainStep ==
  ASSUME ProbesInv, NEW p \in Probes, Probing!Drain(p)
  PROVE  ProbesInv'
<1>1. PICK t : t = run[p]
  OBVIOUS
<1>2. /\ RunSound(p, t, DOMAIN cached) /\ t.stage = "drain"
      /\ run[p].stage # "over" /\ run[p].stage \in {"sent", "drain"}
  BY <1>1 DEF ProbesInv, Probing!Drain
<1>3. t.check.kind = "download" /\ t.reply \in 200..299
  BY <1>2 DEF RunSound
<1>4. \/ Probing!End(p, t.reply, Probing!Failed("cut"), idle)
      \/ \E speed \in BOOLEAN, bag \in {idle, Probing!PutIdle(idle, run[p].conn)} :
           Probing!End(p, t.reply, [Probing!Passed EXCEPT !.speed = speed], bag)
  BY <1>1 DEF Probing!Drain
<1>5. ASSUME Probing!End(p, t.reply, Probing!Failed("cut"), idle) PROVE ProbesInv'
  <2>1. PICK c, reply, result : c = t.check /\ reply = t.reply /\ result = Probing!Failed("cut")
    OBVIOUS
  <2>2. Explained(c, reply, result)
    BY <1>3, <2>1, FailedExplained
  <2>3. Explained(run[p].check, reply, result) /\ Probing!End(p, reply, result, idle)
    BY <1>1, <1>5, <2>1, <2>2
  <2>4. Pooled(idle)
    BY DEF ProbesInv
  <2> QED
    BY <1>2, <2>3, <2>4, EndSound
<1>6. ASSUME NEW speed \in BOOLEAN, NEW bag \in {idle, Probing!PutIdle(idle, run[p].conn)},
             Probing!End(p, t.reply, [Probing!Passed EXCEPT !.speed = speed], bag)
      PROVE  ProbesInv'
  <2>1. PICK c, reply, result :
          c = t.check /\ reply = t.reply /\ result = [Probing!Passed EXCEPT !.speed = speed]
    OBVIOUS
  <2>2. result.ok = TRUE /\ result.reason = ""
    BY <2>1 DEF Probing!Passed
  <2>3. Explained(c, reply, result)
    BY <1>3, <2>1, <2>2, PassedExplained
  <2>4. Explained(run[p].check, reply, result) /\ Probing!End(p, reply, result, bag)
    BY <1>1, <1>6, <2>1, <2>3
  <2>5. Pooled(bag) /\ \A k \in DOMAIN bag : k \in DOMAIN idle \/ Owned(k, DOMAIN cached, run)
    BY <1>2, BackIsOwned
  <2> QED
    BY <1>2, <2>4, <2>5, EndSound
<1> QED
  BY <1>4, <1>5, <1>6

LEMMA EchoStep ==
  ASSUME ProbesInv, NEW p \in Probes, Probing!Echo(p)
  PROVE  ProbesInv'
<1>1. PICK t : t = run[p]
  OBVIOUS
<1>2. RunSound(p, t, DOMAIN cached) /\ t.stage = "echo" /\ run[p].stage # "over"
  BY <1>1 DEF ProbesInv, Probing!Echo
<1>3. t.check.kind = "ping" /\ Pooled(idle)
  BY <1>2 DEF RunSound, ProbesInv
<1>4. PICK reply, result : /\ Probing!End(p, reply, result, idle)
                           /\ \/ result = Probing!Failed("timeout") /\ reply = None
                              \/ result = Probing!Passed
  BY DEF Probing!Echo
<1>5. PICK c : c = t.check
  OBVIOUS
<1>6. CASE result = Probing!Failed("timeout")
  <2>1. Explained(c, reply, result)
    BY <1>3, <1>5, <1>6, FailedExplained
  <2>2. Explained(run[p].check, reply, result)
    BY <1>1, <1>5, <2>1
  <2> QED
    BY <1>2, <1>3, <1>4, <2>2, EndSound
<1>7. CASE result = Probing!Passed
  <2>1. result.ok = TRUE /\ result.reason = "" /\ result.speed = FALSE
    BY <1>7 DEF Probing!Passed
  <2>2. Explained(c, reply, result)
    BY <1>3, <1>5, <2>1, PassedExplained
  <2>3. Explained(run[p].check, reply, result)
    BY <1>1, <1>5, <2>2
  <2> QED
    BY <1>2, <1>3, <1>4, <2>3, EndSound
<1> QED
  BY <1>4, <1>6, <1>7

LEMMA ExpireStep ==
  ASSUME ProbesInv, Probing!Expire
  PROVE  ProbesInv'
<1>1. PICK k \in DOMAIN idle : idle' = Probing!(-)(idle, Probing!SetToBag({k})) /\ UNCHANGED <<cached, run>>
  BY DEF Probing!Expire, Probing!BagToSet
<1>2. Pooled(idle)
  BY DEF ProbesInv
<1>3. Thinner(idle', idle)
  BY <1>1, <1>2, TakingThins
<1>4. Pooled(idle') /\ DOMAIN idle' \subseteq DOMAIN idle
  BY <1>2, <1>3, ThinnerIsPooled DEF Thinner
<1> QED
  BY <1>1, <1>4 DEF ProbesInv, CacheSound

LEMMA ProbesInit == Init => ProbesInv
<1> SUFFICES ASSUME Init PROVE ProbesInv
  OBVIOUS
<1>1. /\ cached = [k \in {} |-> None] /\ idle = Probing!EmptyBag /\ run = [p \in Probes |-> Probing!Idle]
  BY DEF Init, Probing!Init
<1>2. DOMAIN cached = {} /\ DOMAIN idle = {}
  BY <1>1 DEF Probing!EmptyBag, Probing!SetToBag
<1>3. CacheSound
  <2>1. MaxCached \in Nat
    BY ProbesAssumption
  <2> QED
    BY <1>2, <2>1, FS_EmptySet DEF CacheSound
<1>4. Pooled(idle)
  BY <1>2, FS_EmptySet DEF Pooled
<1>5. ASSUME NEW p \in Probes PROVE RunSound(p, run[p], DOMAIN cached)
  <2>1. PICK r : r = Run("over", None, None, None, 0, None, None, None)
    OBVIOUS
  <2>2. run[p] = r
    BY <1>1, <2>1 DEF Probing!Idle, Run
  <2>3. r = Same(r) /\ r.stage = "over" /\ r.owner = None /\ r.result = None
    BY <2>1, RunParts
  <2>4. RunSound(p, r, DOMAIN cached)
    BY <2>3 DEF RunSound, Travelling, Explained
  <2> QED
    BY <2>2, <2>4
<1> QED
  BY <1>1, <1>2, <1>3, <1>4, <1>5 DEF ProbesInv

LEMMA ProbesKept == ProbesInv /\ [Probing!Next]_probesVars => ProbesInv'
<1> SUFFICES ASSUME ProbesInv, [Probing!Next]_probesVars PROVE ProbesInv'
  OBVIOUS
<1>1. CASE UNCHANGED probesVars
  BY <1>1 DEF probesVars, ProbesInv, CacheSound
<1>2. ASSUME NEW p \in Probes, Probing!Probe(p) PROVE ProbesInv'
  BY <1>2, ExecuteStep, SendStep, ReceiveStep, DrainStep, EchoStep DEF Probing!Probe
<1> QED
  BY <1>1, <1>2, ExpireStep DEF Probing!Next

LEMMA ConnectionsFit == ProbesInv => Probing!ConnectionFits
<1> SUFFICES ASSUME ProbesInv, NEW p \in Probes, run[p].stage \in {"sent", "drain"}
             PROVE  /\ run[p].conn.owner.params.insecure = run[p].check.insecure
                    /\ run[p].conn.family \in Families[run[p].conn.at] \cap Probing!Allowed(run[p].check.version)
                    /\ run[p].conn.at = IF Probing!Direct(run[p].check) /\ run[p].hop = run[p].check.vhost
                                        THEN run[p].check.host ELSE run[p].hop
  BY DEF Probing!ConnectionFits
<1>1. PICK t, c, k, o, h : t = run[p] /\ c = t.check /\ k = t.conn /\ o = t.owner.params /\ h = t.hop
  OBVIOUS
<1>2. RunSound(p, t, DOMAIN cached) /\ t.stage \in {"sent", "drain"}
  BY <1>1 DEF ProbesInv
<1>3. o = Probing!Params(c)
  BY <1>1, <1>2 DEF RunSound, Travelling
<1>4. Dialled(k) /\ k.owner.params = o /\ k.host = h
  BY <1>1, <1>2 DEF RunSound
<1>5. /\ o.insecure = c.insecure /\ o.version = c.version
      /\ o.vhost = (IF Probing!Direct(c) THEN c.vhost ELSE None)
      /\ o.dialAddr = (IF Probing!Direct(c) THEN c.host ELSE None)
  BY <1>3 DEF Probing!Params
<1>6. Probing!Direct(c) => c.host # None
  BY ProbesAssumption DEF Probing!Direct
<1>7. k.at = IF Probing!Direct(c) /\ h = c.vhost THEN c.host ELSE h
  BY <1>4, <1>5, <1>6 DEF Dialled
<1>8. k.family \in Families[k.at] \cap Probing!Allowed(c.version)
  BY <1>4, <1>5 DEF Dialled, Probing!Reachable
<1>9. k.owner.params.insecure = c.insecure
  BY <1>4, <1>5
<1> QED
  BY <1>1, <1>7, <1>8, <1>9

LEMMA NothingPilesUp == ProbesInv => Probing!NoIdlePileUp
<1> SUFFICES ASSUME ProbesInv PROVE Probing!NoIdlePileUp
  OBVIOUS
<1>1. Probing!Cardinality(DOMAIN cached) <= MaxCached
  <2>1. Probing!Cardinality(DOMAIN cached) = Cardinality(DOMAIN cached)
    BY DEF Probing!Cardinality, Cardinality
  <2> QED
    BY <2>1 DEF ProbesInv, CacheSound
<1>2. ASSUME NEW k \in DOMAIN idle
      PROVE  IF k.owner.for = None THEN \E key \in DOMAIN cached : cached[key] = k.owner.params
             ELSE run[k.owner.for].stage # "over"
  BY DEF ProbesInv, Owned, CacheSound, Travelling
<1>3. ASSUME NEW k \in DOMAIN idle
      PROVE  Probing!MapThenSumSet(LAMBDA j : idle[j],
               {j \in DOMAIN idle : j.owner = k.owner /\ j.host = k.host}) <= MaxIdle
  <2>1. IsFiniteSet(SameOwner(idle, k))
    BY FS_Subset DEF ProbesInv, Pooled, SameOwner
  <2>2. Probing!MapThenSumSet(LAMBDA j : idle[j], SameOwner(idle, k)) = SumOf(idle, SameOwner(idle, k))
    BY <2>1, FoldIsSum
  <2>3. SumOf(idle, SameOwner(idle, k)) <= MaxIdle
    BY DEF ProbesInv, Pooled
  <2>4. Probing!MapThenSumSet(LAMBDA j : idle[j], SameOwner(idle, k)) <= MaxIdle
    BY <2>2, <2>3
  <2> QED
    BY <2>4 DEF SameOwner
<1> QED
  BY <1>1, <1>2, <1>3 DEF Probing!NoIdlePileUp, Probing!BagToSet

LEMMA VerdictsExplained == ProbesInv => Probing!VerdictIsExplained
<1>1. ASSUME ProbesInv, NEW p \in Probes PROVE Explained(run[p].check, run[p].reply, run[p].result)
  BY <1>1 DEF ProbesInv, RunSound
<1> QED
  BY <1>1 DEF Probing!VerdictIsExplained, Explained

-----------------------------------------------------------------------------
\* Probes that run at once and share connections stay sound, for any probes, checks
\* and hosts and any bounds of the pool: a request travels on a connection made as its
\* own check asks (httpclient.go, transportFor), idle connections do not pile up
\* (net/http's MaxIdleConnsPerHost under the cache of transports), and a verdict
\* follows from the rules of the check and from the answer (runHTTP).
THEOREM ProbesCorrect == Spec => []ProbesAreSound
<1>1. Init => ProbesInv
  BY ProbesInit
<1>2. ProbesInv /\ [Next]_<<part, vars>> => ProbesInv'
  BY ProbesAlone, ProbesKept
<1>3. ProbesInv => ProbesAreSound
  BY ConnectionsFit, NothingPilesUp, VerdictsExplained DEF ProbesAreSound, Probing!ProbesAreSound
<1> QED
  BY <1>1, <1>2, <1>3, PTL DEF Spec

-----------------------------------------------------------------------------
(* The types of all parts.                                                 *)

\* What KumaInv does not say of the types: no error goes out that is a sign to try the
\* other way, for a connection with a session never tries to log in.
Inward == {"noBetterAuth", "useBetterAuth"}
KumaRest ==
  /\ losses \in 0..MaxLosses /\ client.result \notin Inward
  /\ socket.error = "useBetterAuth" => socket.attempt # "none"

LEMMA EndsOutward ==
  ASSUME client \in Clients, client.result \notin Inward, NEW e \in Errors
  PROVE  /\ e \notin Inward => Kuma!EndOuter(e).result \notin Inward
         /\ e # "useBetterAuth" => Kuma!EndSession(e).result \notin Inward
         /\ (client.session => e # "useBetterAuth") /\ e # "noBetterAuth" => Kuma!EndSocket(e).result \notin Inward
<1>1. ASSUME NEW x \in Errors \ Inward PROVE Kuma!EndOuter(x).result \notin Inward
  <2>1. CASE x = "network" /\ client.outer = 1
    <3>1. Kuma!EndOuter(x) = [client EXCEPT !.phase = "probe", !.outer = 2, !.fallback = FALSE]
      BY <2>1 DEF Kuma!EndOuter
    <3>2. [client EXCEPT !.phase = "probe", !.outer = 2, !.fallback = FALSE].result = client.result
      BY DEF Clients
    <3> QED
      BY <3>1, <3>2
  <2>2. CASE ~(x = "network" /\ client.outer = 1)
    <3>1. Kuma!EndOuter(x) = [client EXCEPT !.phase = "done", !.result = x]
      BY <2>2 DEF Kuma!EndOuter
    <3>2. [client EXCEPT !.phase = "done", !.result = x].result = x
      BY DEF Clients
    <3> QED
      BY <1>1, <3>1, <3>2
  <2> QED
    BY <2>1, <2>2
<1>2. "loginTimeout" \in Errors \ Inward
  BY ErrorNames DEF Inward
<1>3. ASSUME NEW x \in Errors, x # "useBetterAuth" PROVE Kuma!EndSession(x).result \notin Inward
  <2>1. CASE x # "noBetterAuth"
    BY <1>1, <1>3, <2>1 DEF Kuma!EndSession, Inward
  <2>2. CASE x = "noBetterAuth" /\ client.fallback
    BY <1>1, <1>2, <2>2 DEF Kuma!EndSession
  <2>3. CASE x = "noBetterAuth" /\ ~client.fallback
    <3>1. [client EXCEPT !.phase = "connect", !.session = FALSE].result = client.result
      BY DEF Clients
    <3> QED
      BY <2>3, <3>1 DEF Kuma!EndSession
  <2> QED
    BY <2>1, <2>2, <2>3
<1>4. ASSUME NEW x \in Errors, client.session => x # "useBetterAuth", x # "noBetterAuth"
      PROVE  Kuma!EndSocket(x).result \notin Inward
  <2>1. /\ [client EXCEPT !.phase = "connect", !.inner = 2].result = client.result
        /\ [client EXCEPT !.phase = "signIn", !.fallback = TRUE].result = client.result
    BY DEF Clients
  <2>2. CASE client.session
    BY <1>3, <1>4, <2>1, <2>2 DEF Kuma!EndSocket
  <2>3. CASE ~client.session
    BY <1>1, <1>4, <2>1, <2>3 DEF Kuma!EndSocket, Inward
  <2> QED
    BY <2>2, <2>3
<1> QED
  BY <1>1, <1>3, <1>4

LEMMA LossesTyped == ASSUME KumaInv, KumaRest, Kuma!Next PROVE losses' \in 0..MaxLosses
<1>1. ASSUME Kuma!Lose PROVE losses' \in 0..MaxLosses
  BY <1>1, KumaAssumption DEF Kuma!Lose, KumaRest
<1>2. losses' = losses \/ Kuma!Lose
  BY DEF Kuma!Next, Kuma!Probe, Kuma!SignIn, Kuma!Connect, Kuma!OnConnect, Kuma!OnSession, Kuma!OnLoginRequired,
         Kuma!EmitLogin, Kuma!OnAnswer, Kuma!LoginTimeout, Kuma!OnMonitorList, Kuma!OnDisconnect, Kuma!Leave,
         Kuma!MapFullAll, Kuma!Rest
<1> QED
  BY <1>1, <1>2 DEF KumaRest

LEMMA ResultTyped == ASSUME KumaInv, KumaRest, Kuma!Next PROVE client'.result \notin Inward
<1>1. client \in Clients /\ socket \in Sockets /\ client.result \notin Inward
  BY DEF KumaInv, KumaTyped, KumaRest
<1>2. CASE Kuma!Probe
  <2>1. /\ [client EXCEPT !.phase = "signIn"].result = client.result
        /\ [client EXCEPT !.phase = "connect", !.session = FALSE].result = client.result
    BY <1>1 DEF Clients
  <2> QED
    BY <1>1, <1>2, <2>1 DEF Kuma!Probe
<1>3. CASE Kuma!SignIn
  <2>1. [client EXCEPT !.phase = "connect", !.session = TRUE, !.inner = 1].result = client.result
    BY <1>1 DEF Clients
  <2>2. \A e \in {"noBetterAuth", "failed", "codeRequired", "codeInvalid"} \cup Kuma!Broken :
           Kuma!EndSession(e).result \notin Inward
    <3>1. ASSUME NEW e \in {"noBetterAuth", "failed", "codeRequired", "codeInvalid"} \cup Kuma!Broken
          PROVE  e \in Errors /\ e # "useBetterAuth"
      BY ErrorNames DEF Kuma!Broken
    <3> QED
      BY <1>1, <3>1, EndsOutward
  <2>3. \/ client' = [client EXCEPT !.phase = "connect", !.session = TRUE, !.inner = 1]
        \/ \E e \in {"noBetterAuth", "failed", "codeRequired", "codeInvalid"} \cup Kuma!Broken :
             client' = Kuma!EndSession(e)
    <3>1. \/ client' = [client EXCEPT !.phase = "connect", !.session = TRUE, !.inner = 1]
          \/ \E e \in (Kuma!Verdicts \cup Kuma!LimitedVerdicts) \ {"none"} : client' = Kuma!EndSession(e)
          \/ \E e \in Kuma!Broken \cup {"noBetterAuth"} : client' = Kuma!EndSession(e)
      BY <1>3 DEF Kuma!SignIn
    <3>2. (Kuma!Verdicts \cup Kuma!LimitedVerdicts) \ {"none"} \subseteq {"failed", "codeRequired", "codeInvalid"}
      BY DEF Kuma!Verdicts, Kuma!LimitedVerdicts
    <3> QED
      BY <3>1, <3>2
  <2> QED
    BY <1>1, <2>1, <2>2, <2>3
<1>4. CASE Kuma!Connect
  <2>1. [client EXCEPT !.phase = "socket"].result = client.result
    BY <1>1 DEF Clients
  <2> QED
    BY <1>1, <1>4, <2>1 DEF Kuma!Connect
<1>5. CASE Kuma!Leave
  <2>1. [client EXCEPT !.phase = "map", !.result = "list"].result \notin Inward
    BY <1>1 DEF Clients, Inward
  <2>2. ASSUME NEW e \in Reported, e = socket.error PROVE Kuma!EndSocket(e).result \notin Inward
    <3>1. client.session => e # "useBetterAuth"
      BY <2>2 DEF KumaInv, SocketSound, KumaRest
    <3> QED
      BY <1>1, <2>2, <3>1, EndsOutward DEF Reported
  <2>3. ASSUME NEW e \in {"noList"} \cup Kuma!Broken PROVE Kuma!EndSocket(e).result \notin Inward
    <3>1. e \in Errors /\ e \notin Inward
      BY <2>3, ErrorNames DEF Kuma!Broken, Inward
    <3> QED
      BY <1>1, <3>1, EndsOutward DEF Inward
  <2>4. \/ client' = [client EXCEPT !.phase = "map", !.result = "list"]
        \/ socket.error # "none" /\ client' = Kuma!EndSocket(socket.error)
        \/ \E e \in {"noList"} \cup Kuma!Broken : client' = Kuma!EndSocket(e)
    BY <1>5 DEF Kuma!Leave
  <2>5. socket.error \in Reported \cup {"none"}
    BY <1>1 DEF Sockets
  <2> QED
    BY <2>1, <2>2, <2>3, <2>4, <2>5
<1>6. CASE Kuma!MapFullAll
  <2>1. [client EXCEPT !.phase = "done"].result = client.result
    BY <1>1 DEF Clients
  <2> QED
    BY <1>1, <1>6, <2>1 DEF Kuma!MapFullAll
<1>7. Kuma!Probe \/ Kuma!SignIn \/ Kuma!Connect \/ Kuma!Leave \/ Kuma!MapFullAll \/ client' = client
  BY DEF Kuma!Next, Kuma!OnConnect, Kuma!OnSession, Kuma!OnLoginRequired, Kuma!EmitLogin, Kuma!OnAnswer,
         Kuma!LoginTimeout, Kuma!OnMonitorList, Kuma!OnDisconnect, Kuma!Rest
<1> QED
  BY <1>1, <1>2, <1>3, <1>4, <1>5, <1>6, <1>7

LEMMA ErrorTyped ==
  ASSUME KumaInv, KumaRest, Kuma!Next PROVE socket'.error = "useBetterAuth" => socket'.attempt # "none"
<1>1. socket \in Sockets /\ (socket.error = "useBetterAuth" => socket.attempt # "none")
  BY DEF KumaInv, KumaTyped, KumaRest
<1>2. \A s \in {Kuma!NoSocket, Kuma!Opening} : s.error = "none"
  <2>1. Kuma!NoSocket.error = "none"
    BY DEF Kuma!NoSocket
  <2>2. Kuma!NoSocket \in Sockets
    BY BlankSockets
  <2>3. [Kuma!NoSocket EXCEPT !.open = TRUE, !.coming = {"connect"}].error = Kuma!NoSocket.error
    BY <2>2 DEF Sockets
  <2> QED
    BY <2>1, <2>3 DEF Kuma!Opening
<1>3. ASSUME NEW s \in Sockets, s.error = "useBetterAuth" => s.attempt # "none",
             NEW e \in Reported, e = "useBetterAuth" => s.attempt # "none"
      PROVE  Kuma!Report(s, e).error = "useBetterAuth" => Kuma!Report(s, e).attempt # "none"
  BY <1>3 DEF Kuma!Report, Sockets
<1>4. ASSUME NEW c \in SUBSET Events
      PROVE  /\ [socket EXCEPT !.coming = c] \in Sockets
             /\ [socket EXCEPT !.coming = c].error = socket.error
             /\ [socket EXCEPT !.coming = c].attempt = socket.attempt
  BY <1>1 DEF Sockets
<1>5. socket.coming \in SUBSET Events
  BY <1>1 DEF Sockets
<1>6. CASE Kuma!OnConnect
  BY <1>1, <1>6 DEF Kuma!OnConnect, Sockets, Events
<1>7. CASE Kuma!OnSession
  BY <1>1, <1>7 DEF Kuma!OnSession, Sockets
<1>8. CASE Kuma!OnLoginRequired
  <2>1. PICK s : s = [socket EXCEPT !.coming = @ \ {"loginRequired"}]
    OBVIOUS
  <2>2. s \in Sockets /\ s.error = socket.error /\ s.attempt = socket.attempt
    BY <1>4, <1>5, <2>1
  <2>3. socket' = Kuma!Report(s, "rejected") \/ socket' = [s EXCEPT !.required = TRUE]
    BY <1>8, <2>1 DEF Kuma!OnLoginRequired
  <2>4. [s EXCEPT !.required = TRUE].error = s.error /\ [s EXCEPT !.required = TRUE].attempt = s.attempt
    BY <2>2 DEF Sockets
  <2>5. "rejected" \in Reported
    BY ErrorNames
  <2> QED
    BY <1>1, <1>3, <2>2, <2>3, <2>4, <2>5
<1>9. CASE Kuma!EmitLogin
  <2>1. ASSUME NEW stage \in {"codeSent", "sent"}, NEW c PROVE [socket EXCEPT !.attempt = stage, !.coming = c].attempt = stage
    BY <1>1, <2>1 DEF Sockets
  <2>2. PICK stage : /\ stage = IF socket.attempt = "sendCode" THEN "codeSent" ELSE "sent"
                     /\ \E c : socket' = [socket EXCEPT !.attempt = stage, !.coming = c]
    <3>1. \E sends : socket' = [socket EXCEPT !.attempt = IF socket.attempt = "sendCode" THEN "codeSent" ELSE "sent",
                                              !.coming = socket.coming \cup sends]
      BY <1>9 DEF Kuma!EmitLogin
    <3>2. PICK sends, stage, c :
            /\ stage = IF socket.attempt = "sendCode" THEN "codeSent" ELSE "sent"
            /\ c = socket.coming \cup sends /\ socket' = [socket EXCEPT !.attempt = stage, !.coming = c]
      BY <3>1
    <3> QED
      BY <3>2
  <2>3. stage \in {"codeSent", "sent"}
    BY <2>2
  <2>4. socket'.attempt = stage
    BY <2>1, <2>2, <2>3
  <2> QED
    BY <2>3, <2>4
<1>10. CASE Kuma!OnAnswer
  <2>1. PICK answer \in {"accepted", "refused", "codeAsked"} :
           socket' = Kuma!EndLogin([socket EXCEPT !.coming = @ \ {answer}], answer)
    BY <1>10 DEF Kuma!OnAnswer
  <2>2. PICK s : s = [socket EXCEPT !.coming = @ \ {answer}]
    OBVIOUS
  <2>3. s \in Sockets /\ s.error = socket.error /\ s.attempt = socket.attempt
    BY <1>4, <1>5, <2>2
  <2>4. PICK over : over = [s EXCEPT !.attempt = "over"]
    OBVIOUS
  <2>5. over \in Sockets /\ over.attempt = "over" /\ over.error = s.error
    BY <2>3, <2>4 DEF Sockets
  <2>6. \/ socket' = [over EXCEPT !.loggedIn = TRUE]
        \/ \E e \in {"failed", "codeInvalid", "codeRequired"} : socket' = Kuma!Report(over, e)
        \/ socket' = [s EXCEPT !.attempt = "sendCode"]
    BY <2>1, <2>2, <2>4 DEF Kuma!EndLogin
  <2>7. [over EXCEPT !.loggedIn = TRUE].attempt = "over" /\ [s EXCEPT !.attempt = "sendCode"].attempt = "sendCode"
    BY <2>3, <2>5 DEF Sockets
  <2>8. {"failed", "codeInvalid", "codeRequired"} \subseteq Reported
    BY ErrorNames
  <2> QED
    BY <1>3, <2>5, <2>6, <2>7, <2>8
<1>11. CASE Kuma!LoginTimeout
  <2>1. PICK over : over = [socket EXCEPT !.attempt = "over"]
    OBVIOUS
  <2>2. over \in Sockets /\ over.attempt = "over"
    BY <1>1, <2>1 DEF Sockets
  <2>3. PICK e \in {"useBetterAuth", "loginTimeout"} : socket' = Kuma!Report(over, e)
    BY <1>11, <2>1 DEF Kuma!LoginTimeout
  <2>4. e \in Reported
    BY ErrorNames
  <2> QED
    BY <1>3, <2>2, <2>3, <2>4
<1>12. CASE Kuma!OnMonitorList
  <2>1. PICK s : s = [socket EXCEPT !.coming = @ \ {"list"}]
    OBVIOUS
  <2>2. s \in Sockets /\ s.error = socket.error /\ s.attempt = socket.attempt
    BY <1>4, <1>5, <2>1
  <2>3. socket' = Kuma!Report(s, "noList") \/ socket' = [s EXCEPT !.list = TRUE]
    BY <1>12, <2>1 DEF Kuma!OnMonitorList
  <2>4. [s EXCEPT !.list = TRUE].error = s.error /\ [s EXCEPT !.list = TRUE].attempt = s.attempt
    BY <2>2 DEF Sockets
  <2>5. "noList" \in Reported
    BY ErrorNames
  <2> QED
    BY <1>1, <1>3, <2>2, <2>3, <2>4, <2>5
<1>13. CASE Kuma!OnDisconnect
  <2>1. PICK e \in Kuma!Broken : socket' = Kuma!Report([socket EXCEPT !.open = FALSE, !.coming = {}], e)
    BY <1>13 DEF Kuma!OnDisconnect
  <2>2. PICK s : s = [socket EXCEPT !.open = FALSE, !.coming = {}]
    OBVIOUS
  <2>3. s \in Sockets /\ s.error = socket.error /\ s.attempt = socket.attempt
    BY <1>1, <2>2 DEF Sockets
  <2>4. e \in Reported /\ e # "useBetterAuth"
    BY ErrorNames DEF Kuma!Broken
  <2> QED
    BY <1>1, <1>3, <2>1, <2>2, <2>3, <2>4
<1>14. \/ Kuma!OnConnect \/ Kuma!OnSession \/ Kuma!OnLoginRequired \/ Kuma!EmitLogin \/ Kuma!OnAnswer
       \/ Kuma!LoginTimeout \/ Kuma!OnMonitorList \/ Kuma!OnDisconnect
       \/ socket' \in {socket, Kuma!NoSocket, Kuma!Opening}
  BY DEF Kuma!Next, Kuma!Probe, Kuma!SignIn, Kuma!Connect, Kuma!Leave, Kuma!MapFullAll
<1> QED
  BY <1>1, <1>2, <1>6, <1>7, <1>8, <1>9, <1>10, <1>11, <1>12, <1>13, <1>14

LEMMA KumaTypes == Spec => []Kuma!TypeOK
<1>1. Init => KumaInv /\ KumaRest
  <2> SUFFICES ASSUME Init PROVE KumaInv /\ KumaRest
    OBVIOUS
  <2>1. Kuma!Init
    BY DEF Init
  <2>2. socket.error = "none" /\ client.result = "none" /\ losses = 0
    BY <2>1 DEF Kuma!Init, Kuma!NoSocket
  <2> QED
    BY <2>1, <2>2, KumaInit, KumaAssumption DEF KumaRest, Inward
<1>2. KumaInv /\ [Next]_<<part, vars>> => KumaInv'
  BY KumaAlone, KumaKept
<1>3. KumaInv /\ KumaRest /\ [Next]_<<part, vars>> => KumaRest'
  <2>1. ASSUME KumaRest, UNCHANGED kumaVars PROVE KumaRest'
    BY <2>1 DEF KumaRest, kumaVars
  <2>2. ASSUME KumaInv, KumaRest, Kuma!Next PROVE KumaRest'
    BY <2>2, LossesTyped, ResultTyped, ErrorTyped DEF KumaRest
  <2> QED
    BY <2>1, <2>2, KumaAlone
<1>4. KumaInv /\ KumaRest => Kuma!TypeOK
  <2> SUFFICES ASSUME KumaInv, KumaRest PROVE Kuma!TypeOK
    OBVIOUS
  <2>1. client \in Clients /\ socket \in Sockets
    BY DEF KumaInv, KumaTyped
  <2> QED
    BY <2>1 DEF KumaRest, Kuma!TypeOK, Clients, Sockets, Phases, Errors, Reported, Inward
<1> QED
  BY <1>1, <1>2, <1>3, <1>4, PTL DEF Spec

\* The transports, the idle connections and the runs have their types (Probes).
CacheTyped == \A key \in DOMAIN cached : key.insecure \in BOOLEAN
RunTyped(r) == r.check \in Checks \cup {None} /\ r.redirects \in 0..MaxRedirects
ProbesRest == CacheTyped /\ Probing!IsABag(idle) /\ \A p \in Probes : RunTyped(run[p])

LEMMA CacheStaysTyped ==
  ASSUME ProbesInv, CacheTyped, Probing!Next
  PROVE  CacheTyped'
<1>1. CASE UNCHANGED cached
  BY <1>1 DEF CacheTyped
<1>2. ASSUME NEW p \in Probes, NEW c \in Checks, Probing!TransportFor(p, c) PROVE CacheTyped'
  <2>1. PICK key : key = Probing!Params(c)
    OBVIOUS
  <2>2. DOMAIN cached' \subseteq DOMAIN cached \cup {key}
    BY <1>2, <2>1 DEF Probing!TransportFor, Probing!Key
  <2>3. key.insecure \in BOOLEAN
    BY <2>1, ProbesAssumption DEF Probing!Params
  <2> QED
    BY <2>2, <2>3 DEF CacheTyped
<1>3. UNCHANGED cached \/ \E p \in Probes, c \in Checks : Probing!TransportFor(p, c)
  <2>1. ASSUME Probing!Expire PROVE UNCHANGED cached
    BY <2>1 DEF Probing!Expire
  <2>2. ASSUME NEW p \in Probes, Probing!Execute(p)
        PROVE  UNCHANGED cached \/ \E c \in Checks : Probing!TransportFor(p, c)
    BY <2>2 DEF Probing!Execute
  <2>3. ASSUME NEW p \in Probes, Probing!Send(p) PROVE UNCHANGED cached
    BY <2>3 DEF Probing!Send, Probing!End
  <2>4. ASSUME NEW p \in Probes, Probing!Receive(p) PROVE UNCHANGED cached
    BY <2>4 DEF Probing!Receive, Probing!End
  <2>5. ASSUME NEW p \in Probes, Probing!Drain(p) PROVE UNCHANGED cached
    BY <2>5 DEF Probing!Drain, Probing!End
  <2>6. ASSUME NEW p \in Probes, Probing!Echo(p) PROVE UNCHANGED cached
    BY <2>6 DEF Probing!Echo, Probing!End
  <2> QED
    BY <2>1, <2>2, <2>3, <2>4, <2>5, <2>6 DEF Probing!Next, Probing!Probe
<1> QED
  BY <1>1, <1>2, <1>3

LEMMA LessIsABag ==
  ASSUME NEW bag, Probing!IsABag(bag)
  PROVE  /\ \A S : Probing!IsABag([k \in {k \in Probing!BagToSet(bag) : k \in S} |-> bag[k]])
         /\ \A k : Probing!IsABag(Probing!(-)(bag, Probing!SetToBag({k})))
<1>1. bag = [k \in DOMAIN bag |-> bag[k]] /\ \A k \in DOMAIN bag : bag[k] \in Nat /\ bag[k] > 0
  BY DEF Probing!IsABag
<1>2. ASSUME NEW S PROVE Probing!IsABag([k \in {k \in Probing!BagToSet(bag) : k \in S} |-> bag[k]])
  BY <1>1 DEF Probing!IsABag, Probing!BagToSet
<1>3. ASSUME NEW k PROVE Probing!IsABag(Probing!(-)(bag, Probing!SetToBag({k})))
  <2> DEFINE B == [e \in DOMAIN bag |-> IF e \in {k} THEN bag[e] - 1 ELSE bag[e]]
             new == [e \in {d \in DOMAIN B : B[d] > 0} |-> B[e]]
  <2>1. Probing!SetToBag({k}) = [e \in {k} |-> 1]
    BY DEF Probing!SetToBag
  <2>2. Probing!(-)(bag, Probing!SetToBag({k})) = new
    BY <2>1 DEF Probing!(-)
  <2>3. \A e \in DOMAIN bag : B[e] \in Int
    BY <1>1
  <2>4. \A e \in DOMAIN new : new[e] \in Nat /\ new[e] > 0
    BY <2>3
  <2>5. Probing!IsABag(new)
    BY <2>4 DEF Probing!IsABag
  <2> QED
    BY <2>2, <2>5
<1> QED
  BY <1>2, <1>3

LEMMA PutIsABag ==
  ASSUME NEW bag, Probing!IsABag(bag), NEW c
  PROVE  Probing!IsABag(Probing!PutIdle(bag, c))
<1>1. bag = [k \in DOMAIN bag |-> bag[k]] /\ \A k \in DOMAIN bag : bag[k] \in Nat /\ bag[k] > 0
  BY DEF Probing!IsABag
<1> DEFINE new == [e \in DOMAIN bag \cup {c} |-> (IF e \in DOMAIN bag THEN bag[e] ELSE 0) + (IF e \in {c} THEN 1 ELSE 0)]
<1>2. Probing!SetToBag({c}) = [e \in {c} |-> 1]
  BY DEF Probing!SetToBag
<1>3. Probing!(+)(bag, Probing!SetToBag({c})) = new
  BY <1>2 DEF Probing!(+)
<1>4. \A e \in DOMAIN new : new[e] \in Nat /\ new[e] > 0
  BY <1>1
<1>5. Probing!IsABag(new)
  BY <1>4 DEF Probing!IsABag
<1> HIDE DEF new
<1> QED
  BY <1>3, <1>5 DEF Probing!PutIdle

\* A run that ends: what becomes of the goroutine and of the idle connections.
LEMMA EndTyped ==
  ASSUME ProbesInv, NEW p \in Probes, RunTyped(run[p]), NEW reply, NEW result, NEW bag, Probing!IsABag(bag),
         Probing!End(p, reply, result, bag), MaxRedirects \in Nat
  PROVE  Probing!IsABag(idle') /\ \E r : RunTyped(r) /\ run' = [run EXCEPT ![p] = r]
<1>1. Probing!IsABag(idle')
  <2> DEFINE S == {k \in Probing!BagToSet(bag) : run[p].owner = None \/ k.owner.for # p}
  <2>1. idle' = [k \in S |-> bag[k]]
    BY DEF Probing!End
  <2>2. S = {k \in Probing!BagToSet(bag) : k \in S}
    OBVIOUS
  <2> HIDE DEF S
  <2> QED
    BY <2>1, <2>2, LessIsABag
<1>2. PICK c, r : c = run[p].check /\ r = Run("over", c, None, None, 0, None, reply, result)
  OBVIOUS
<1>3. run' = [run EXCEPT ![p] = r]
  <2>1. run' = [run EXCEPT ![p] = [Probing!Idle EXCEPT !.check = c, !.reply = reply, !.result = result]]
    BY <1>2 DEF Probing!End
  <2>2. [Probing!Idle EXCEPT !.check = c, !.reply = reply, !.result = result] = r
    BY <1>2, EndedRun
  <2> QED
    BY <2>1, <2>2
<1>4. RunTyped(r)
  <2>1. r.check = c /\ r.redirects = 0
    BY <1>2, RunParts
  <2> QED
    BY <1>2, <2>1 DEF RunTyped
<1> QED
  BY <1>1, <1>3, <1>4

Moved(p) == Probing!IsABag(idle') /\ \E r : RunTyped(r) /\ run' = [run EXCEPT ![p] = r]

LEMMA ExecuteTyped ==
  ASSUME ProbesInv, Probing!IsABag(idle), MaxRedirects \in Nat, NEW p \in Probes, RunTyped(run[p]),
         Probing!Execute(p)
  PROVE  Moved(p)
<1>1. PICK c \in Checks :
        \/ /\ c.kind \notin Probing!Kinds
           /\ run' = [run EXCEPT ![p] = [Probing!Idle EXCEPT !.check = c, !.result = Probing!Failed("unsupported")]]
           /\ UNCHANGED <<cached, idle>>
        \/ c.kind \in {"http", "download"} /\ Probing!TransportFor(p, c) /\ UNCHANGED idle
        \/ /\ c.kind = "ping"
           /\ LET families == Probing!ResolveIP(c.host, c.version)
              IN IF families = {}
                 THEN run' = [run EXCEPT ![p] = [Probing!Idle EXCEPT !.check = c, !.result = Probing!Failed("resolve")]]
                 ELSE \E family \in families :
                        run' = [run EXCEPT ![p] = [Probing!Idle EXCEPT !.stage = "echo", !.check = c,
                                                     !.conn = [host |-> c.host, family |-> family]]]
           /\ UNCHANGED <<cached, idle>>
        \/ /\ c.kind = "tcp"
           /\ \/ run' = [run EXCEPT ![p] = [Probing!Idle EXCEPT !.check = c, !.result = Probing!Failed("dial")]]
              \/ \E family \in Probing!Reachable(c.host, c.version) :
                   run' = [run EXCEPT ![p] = [Probing!Idle EXCEPT !.check = c, !.result = Probing!Passed,
                                                !.conn = [host |-> c.host, family |-> family]]]
           /\ UNCHANGED <<cached, idle>>
  BY DEF Probing!Execute
<1>2. UNCHANGED idle
  BY <1>1
<1>3. ASSUME NEW r, r.check = c, r.redirects = 0, run' = [run EXCEPT ![p] = r] PROVE Moved(p)
  <2>1. RunTyped(r)
    BY <1>3 DEF RunTyped
  <2> QED
    BY <1>2, <1>3, <2>1 DEF Moved
<1>4. ASSUME NEW e, run' = [run EXCEPT ![p] = [Probing!Idle EXCEPT !.check = c, !.result = e]] PROVE Moved(p)
  <2>1. PICK r : r = Run("over", c, None, None, 0, None, None, e)
    OBVIOUS
  <2>2. run' = [run EXCEPT ![p] = r]
    BY <1>4, <2>1, FailedRun
  <2>3. r.check = c /\ r.redirects = 0
    BY <2>1 DEF Run
  <2> QED
    BY <1>3, <2>2, <2>3
<1>5. ASSUME NEW e, NEW k, run' = [run EXCEPT ![p] = [Probing!Idle EXCEPT !.check = c, !.result = e, !.conn = k]] PROVE Moved(p)
  <2>1. PICK r : r = Run("over", c, None, None, 0, k, None, e)
    OBVIOUS
  <2>2. run' = [run EXCEPT ![p] = r]
    BY <1>5, <2>1, DialledRun
  <2>3. r.check = c /\ r.redirects = 0
    BY <2>1 DEF Run
  <2> QED
    BY <1>3, <2>2, <2>3
<1>6. ASSUME NEW k, run' = [run EXCEPT ![p] = [Probing!Idle EXCEPT !.stage = "echo", !.check = c, !.conn = k]] PROVE Moved(p)
  <2>1. PICK r : r = Run("echo", c, None, None, 0, k, None, None)
    OBVIOUS
  <2>2. run' = [run EXCEPT ![p] = r]
    BY <1>6, <2>1, EchoRun
  <2>3. r.check = c /\ r.redirects = 0
    BY <2>1 DEF Run
  <2> QED
    BY <1>3, <2>2, <2>3
<1>7. ASSUME Probing!TransportFor(p, c) PROVE Moved(p)
  <2>1. PICK h, o : run' = [run EXCEPT ![p] = [Probing!Idle EXCEPT !.stage = "send", !.check = c, !.hop = h, !.owner = o]]
    BY <1>7 DEF Probing!TransportFor
  <2>2. PICK r : r = Run("send", c, o, h, 0, None, None, None)
    OBVIOUS
  <2>3. run' = [run EXCEPT ![p] = r]
    BY <2>1, <2>2, HttpRun
  <2>4. r.check = c /\ r.redirects = 0
    BY <2>2 DEF Run
  <2> QED
    BY <1>3, <2>3, <2>4
<1>8. CASE c.kind \in {"http", "download"} /\ Probing!TransportFor(p, c)
  BY <1>7, <1>8
<1>9. CASE \/ run' = [run EXCEPT ![p] = [Probing!Idle EXCEPT !.check = c, !.result = Probing!Failed("unsupported")]]
           \/ run' = [run EXCEPT ![p] = [Probing!Idle EXCEPT !.check = c, !.result = Probing!Failed("resolve")]]
           \/ run' = [run EXCEPT ![p] = [Probing!Idle EXCEPT !.check = c, !.result = Probing!Failed("dial")]]
  BY <1>4, <1>9
<1>10. ASSUME NEW k, run' = [run EXCEPT ![p] = [Probing!Idle EXCEPT !.check = c, !.result = Probing!Passed, !.conn = k]]
       PROVE  Moved(p)
  BY <1>5, <1>10
<1> QED
  BY <1>1, <1>6, <1>8, <1>9, <1>10

\* A goroutine that goes on, with its check, after no more redirects than are allowed.
LEMMA OnTyped ==
  ASSUME NEW p \in Probes, NEW t, RunTyped(t), Probing!IsABag(idle'), NEW s, NEW h, NEW n \in 0..MaxRedirects, NEW k, NEW y,
         run' = [run EXCEPT ![p] = Run(s, t.check, t.owner, h, n, k, y, t.result)]
  PROVE  Moved(p)
<1>1. PICK r : r = Run(s, t.check, t.owner, h, n, k, y, t.result)
  OBVIOUS
<1>2. r.check = t.check /\ r.redirects = n
  BY <1>1 DEF Run
<1>3. RunTyped(r)
  BY <1>2 DEF RunTyped
<1> QED
  BY <1>1, <1>3 DEF Moved

LEMMA SendTyped ==
  ASSUME ProbesInv, Probing!IsABag(idle), MaxRedirects \in Nat, NEW p \in Probes, RunTyped(run[p]),
         Probing!Send(p)
  PROVE  Moved(p)
<1>1. PICK t : t = run[p]
  OBVIOUS
<1>2. \/ /\ \E k : Leaves(p, k)
         /\ \/ UNCHANGED idle
            \/ \E k : idle' = Probing!(-)(idle, Probing!SetToBag({k}))
      \/ Probing!End(p, None, Probing!Failed("dial"), idle)
  BY DEF Probing!Send, Leaves
<1>3. CASE Probing!End(p, None, Probing!Failed("dial"), idle)
  <2>1. PICK e : e = Probing!Failed("dial")
    OBVIOUS
  <2> QED
    BY <1>3, <2>1, EndTyped DEF Moved
<1>4. ASSUME NEW k, Leaves(p, k), Probing!IsABag(idle') PROVE Moved(p)
  <2>1. run' = [run EXCEPT ![p] = Run("sent", t.check, t.owner, t.hop, t.redirects, k, t.reply, t.result)]
    BY <1>1, <1>4, SentRun
  <2>2. RunTyped(t) /\ t.redirects \in 0..MaxRedirects
    BY <1>1 DEF RunTyped
  <2>3. PICK s : s = "sent"
    OBVIOUS
  <2>4. PICK h, n, y : h = t.hop /\ n = t.redirects /\ y = t.reply
    OBVIOUS
  <2>5. run' = [run EXCEPT ![p] = Run(s, t.check, t.owner, h, n, k, y, t.result)] /\ n \in 0..MaxRedirects
    BY <2>1, <2>2, <2>3, <2>4
  <2> QED
    BY <1>4, <2>2, <2>5, OnTyped
<1> QED
  BY <1>2, <1>3, <1>4, LessIsABag

LEMMA ReceiveTyped ==
  ASSUME ProbesInv, Probing!IsABag(idle), MaxRedirects \in Nat, NEW p \in Probes, RunTyped(run[p]),
         Probing!Receive(p)
  PROVE  Moved(p)
<1>1. PICK t : t = run[p]
  OBVIOUS
<1>2. RunTyped(t) /\ t.redirects \in 0..MaxRedirects
  BY <1>1 DEF RunTyped
<1> DEFINE Back == {idle, Probing!PutIdle(idle, run[p].conn)}
<1>3. \A bag \in Back : Probing!IsABag(bag)
  BY PutIsABag
<1>4. \/ \E reply, result, bag : bag \in Back /\ Probing!End(p, reply, result, bag)
      \/ \E bag \in Back, h \in Names :
           Redirected(p, h, t.redirects + 1) /\ idle' = bag /\ t.redirects < MaxRedirects
      \/ \E status : Answered(p, status) /\ UNCHANGED idle
  <2>1. CASE Probing!End(p, None, Probing!Failed("request"), idle)
    BY <2>1
  <2>2. CASE \E bag \in Back, h \in Names :
               IF t.redirects + 1 >= MaxRedirects THEN Probing!End(p, None, Probing!Failed("redirects"), bag)
               ELSE Redirected(p, h, t.redirects + 1) /\ idle' = bag /\ UNCHANGED cached
    <3>1. PICK bag \in Back, h \in Names :
            IF t.redirects + 1 >= MaxRedirects THEN Probing!End(p, None, Probing!Failed("redirects"), bag)
            ELSE Redirected(p, h, t.redirects + 1) /\ idle' = bag /\ UNCHANGED cached
      BY <2>2
    <3>2. CASE t.redirects + 1 >= MaxRedirects
      <4>1. Probing!End(p, None, Probing!Failed("redirects"), bag)
        BY <3>1, <3>2
      <4> HIDE DEF Back
      <4> QED
        BY <3>1, <4>1
    <3>3. CASE ~(t.redirects + 1 >= MaxRedirects)
      <4>1. t.redirects < MaxRedirects
        BY <1>2, <3>3
      <4> HIDE DEF Back
      <4> QED
        BY <3>1, <3>3, <4>1
    <3> QED
      BY <3>2, <3>3
  <2>3. CASE \E reply \in Probing!Replies(t.check), bag \in Back :
               Probing!End(p, reply, Probing!HttpVerdict(t.check, reply), bag)
    <3> HIDE DEF Back
    <3> QED
      BY <2>3
  <2>4. CASE \E status \in Probing!Statuses :
               IF Probing!HttpStatusOK(status, {}) THEN Answered(p, status) /\ UNCHANGED <<cached, idle>>
               ELSE Probing!End(p, status, Probing!Failed("status"), idle)
    BY <2>4
  <2>5. \/ Probing!End(p, None, Probing!Failed("request"), idle)
        \/ \E bag \in Back, h \in Names :
              IF t.redirects + 1 >= MaxRedirects THEN Probing!End(p, None, Probing!Failed("redirects"), bag)
              ELSE Redirected(p, h, t.redirects + 1) /\ idle' = bag /\ UNCHANGED cached
        \/ \E reply \in Probing!Replies(t.check), bag \in Back :
              Probing!End(p, reply, Probing!HttpVerdict(t.check, reply), bag)
        \/ \E status \in Probing!Statuses :
              IF Probing!HttpStatusOK(status, {}) THEN Answered(p, status) /\ UNCHANGED <<cached, idle>>
              ELSE Probing!End(p, status, Probing!Failed("status"), idle)
    BY <1>1 DEF Probing!Receive, Redirected, Answered
  <2> QED
    BY <2>1, <2>2, <2>3, <2>4, <2>5
<1> HIDE DEF Back
<1>5. ASSUME NEW reply, NEW result, NEW bag \in Back, Probing!End(p, reply, result, bag) PROVE Moved(p)
  BY <1>3, <1>5, EndTyped DEF Moved
<1>6. ASSUME NEW bag \in Back, NEW h, Redirected(p, h, t.redirects + 1), idle' = bag, t.redirects < MaxRedirects
      PROVE  Moved(p)
  <2>1. PICK n : n = t.redirects + 1
    OBVIOUS
  <2>2. run' = [run EXCEPT ![p] = Run("send", t.check, t.owner, h, n, None, t.reply, t.result)]
    BY <1>1, <1>6, <2>1, RedirectedRun
  <2>3. n \in 0..MaxRedirects /\ Probing!IsABag(idle')
    BY <1>2, <1>3, <1>6, <2>1
  <2>4. PICK s, k, y : s = "send" /\ k = None /\ y = t.reply
    OBVIOUS
  <2>5. run' = [run EXCEPT ![p] = Run(s, t.check, t.owner, h, n, k, y, t.result)]
    BY <2>2, <2>4
  <2> QED
    BY <1>2, <2>3, <2>5, OnTyped
<1>7. ASSUME NEW y, Answered(p, y), UNCHANGED idle PROVE Moved(p)
  <2>1. run' = [run EXCEPT ![p] = Run("drain", t.check, t.owner, t.hop, t.redirects, t.conn, y, t.result)]
    BY <1>1, <1>7, DrainRun
  <2>2. PICK s : s = "drain"
    OBVIOUS
  <2>3. PICK h, n, k : h = t.hop /\ n = t.redirects /\ k = t.conn
    OBVIOUS
  <2>4. /\ run' = [run EXCEPT ![p] = Run(s, t.check, t.owner, h, n, k, y, t.result)] /\ n \in 0..MaxRedirects
        /\ Probing!IsABag(idle')
    BY <1>2, <1>7, <2>1, <2>2, <2>3
  <2> QED
    BY <1>2, <2>4, OnTyped
<1> QED
  BY <1>4, <1>5, <1>6, <1>7

LEMMA ProbesRestKept ==
  ASSUME ProbesInv, ProbesRest, [Probing!Next]_probesVars
  PROVE  ProbesRest'
<1>0. MaxRedirects \in Nat /\ Probing!IsABag(idle) /\ CacheTyped
  BY ProbesAssumption DEF ProbesRest
<1>1. CASE UNCHANGED probesVars
  BY <1>1 DEF probesVars, ProbesRest, CacheTyped
<1>2. ASSUME NEW p \in Probes, Moved(p), CacheTyped' PROVE ProbesRest'
  <2>1. PICK r : RunTyped(r) /\ run' = [run EXCEPT ![p] = r]
    BY <1>2 DEF Moved
  <2>2. ASSUME NEW q \in Probes PROVE RunTyped(run'[q])
    <3>1. run = [x \in Probes |-> run[x]] /\ RunTyped(run[q])
      BY DEF ProbesInv, ProbesRest
    <3>2. run'[q] = IF q = p THEN r ELSE run[q]
      BY <2>1, <3>1
    <3> QED
      BY <2>1, <3>1, <3>2
  <2> QED
    BY <1>2, <2>2 DEF Moved, ProbesRest
<1>3. ASSUME NEW p \in Probes, Probing!Probe(p) PROVE Moved(p)
  <2>1. RunTyped(run[p])
    BY DEF ProbesRest
  <2>2. ASSUME Probing!Drain(p) PROVE Moved(p)
    <3>1. \/ Probing!End(p, run[p].reply, Probing!Failed("cut"), idle)
          \/ \E speed \in BOOLEAN, bag \in {idle, Probing!PutIdle(idle, run[p].conn)} :
               Probing!End(p, run[p].reply, [Probing!Passed EXCEPT !.speed = speed], bag)
      BY <2>2 DEF Probing!Drain
    <3>2. \E reply, result, bag : /\ bag \in {idle, Probing!PutIdle(idle, run[p].conn)}
                                 /\ Probing!End(p, reply, result, bag)
      BY <3>1
    <3>3. PICK reply, result, bag : /\ bag \in {idle, Probing!PutIdle(idle, run[p].conn)}
                                  /\ Probing!End(p, reply, result, bag)
      BY <3>2
    <3>4. Probing!IsABag(bag)
      BY <1>0, <3>3, PutIsABag
    <3> QED
      BY <1>0, <2>1, <3>3, <3>4, EndTyped DEF Moved
  <2>3. ASSUME Probing!Echo(p) PROVE Moved(p)
    <3>1. PICK reply, result : Probing!End(p, reply, result, idle)
      BY <2>3 DEF Probing!Echo
    <3> QED
      BY <1>0, <2>1, <3>1, EndTyped DEF Moved
  <2> QED
    BY <1>0, <1>3, <2>1, <2>2, <2>3, ExecuteTyped, SendTyped, ReceiveTyped DEF Probing!Probe
<1>4. CASE Probing!Expire
  <2>1. Probing!IsABag(idle') /\ UNCHANGED <<cached, run>>
    BY <1>0, <1>4, LessIsABag DEF Probing!Expire
  <2> QED
    BY <1>0, <2>1 DEF ProbesRest, CacheTyped
<1>5. ASSUME Probing!Next PROVE CacheTyped'
  BY <1>0, <1>5, CacheStaysTyped
<1> QED
  BY <1>1, <1>2, <1>3, <1>4, <1>5 DEF Probing!Next

LEMMA ProbesTypes == Spec => []Probing!TypeOK
<1>1. Init => ProbesInv /\ ProbesRest
  <2> SUFFICES ASSUME Init PROVE ProbesInv /\ ProbesRest
    OBVIOUS
  <2>1. cached = [k \in {} |-> None] /\ idle = Probing!EmptyBag /\ run = [p \in Probes |-> Probing!Idle]
    BY DEF Init, Probing!Init
  <2>2. CacheTyped
    BY <2>1 DEF CacheTyped
  <2>3. Probing!IsABag(idle)
    BY <2>1 DEF Probing!EmptyBag, Probing!SetToBag, Probing!IsABag
  <2>4. RunTyped(Probing!Idle)
    BY ProbesAssumption DEF RunTyped, Probing!Idle
  <2> QED
    BY <2>1, <2>2, <2>3, <2>4, ProbesInit DEF ProbesRest
<1>2. ProbesInv /\ [Next]_<<part, vars>> => ProbesInv'
  BY ProbesAlone, ProbesKept
<1>3. ProbesInv /\ ProbesRest /\ [Next]_<<part, vars>> => ProbesRest'
  BY ProbesAlone, ProbesRestKept
<1>4. ProbesInv /\ ProbesRest => Probing!TypeOK
  <2> SUFFICES ASSUME ProbesInv, ProbesRest PROVE Probing!TypeOK
    OBVIOUS
  <2>1. \A key \in DOMAIN cached : cached[key].insecure \in BOOLEAN
    BY DEF ProbesInv, CacheSound, ProbesRest, CacheTyped
  <2>2. \A p \in Probes : /\ run[p].stage \in {"over", "send", "sent", "drain", "echo"}
                          /\ run[p].stage # "over" => run[p].result = None
    BY DEF ProbesInv, RunSound
  <2> QED
    BY <2>1, <2>2 DEF ProbesRest, RunTyped, Probing!TypeOK
<1> QED
  BY <1>1, <1>2, <1>3, <1>4, PTL DEF Spec

\* The channels, what was read of them and what is answered have their types (MonitorAdmin).
ChannelRows == [exists : BOOLEAN, text : {"first", "second"}, enabled : BOOLEAN, agentNotify : BOOLEAN]
Answers == {"none", "ok", "okay", "missing", "error"}
AskRest(q) == q.channel \in ChannelRows /\ q.reply \in Answers /\ DOMAIN q.seen \subseteq MonitorIds
ChannelsTyped == \A c \in ChannelIds : channels[c] \in ChannelRows
AdminRest == ChannelsTyped /\ (\A r \in Submissions : AskRest(submission[r])) /\ broken \in BOOLEAN

\* How a request moves.
AskMoves(r) ==
  \/ \E s : Admin!Then(r, s)
  \/ \E y : y \in Answers /\ Admin!Answer(r, y)
  \/ \E n : /\ DOMAIN n \subseteq MonitorIds
            /\ Admin!Proceed(r, [submission[r] EXCEPT !.stage = "rewrite", !.seen = n])
  \/ \E op, ids, f, s, c : c \in ChannelRows /\ Admin!Submit(r, op, ids, f, c, s)

LEMMA NoChannelTyped == Admin!NoChannel \in ChannelRows
  BY DEF Admin!NoChannel, ChannelRows

LEMMA MovedAsk ==
  ASSUME AdminInv, NEW r \in Submissions, AskRest(submission[r]), AskMoves(r)
  PROVE  \E new : Admin!Proceed(r, new) /\ AskRest(new)
<1>1. PICK q : q = submission[r]
  OBVIOUS
<1>2. q = SameAsk(q) /\ AskRest(q)
  BY <1>1 DEF AdminInv, AskTyped
<1>3. ASSUME NEW s, Admin!Then(r, s) PROVE \E new : Admin!Proceed(r, new) /\ AskRest(new)
  <2>1. PICK new : new = Ask(q.op, s, q.ids, q.form, q.channel, q.seen, q.reply, q.before)
    OBVIOUS
  <2>2. Admin!Proceed(r, new)
    BY <1>1, <1>2, <1>3, <2>1, AskMoved DEF Admin!Then
  <2>3. new.channel = q.channel /\ new.reply = q.reply /\ new.seen = q.seen
    BY <2>1 DEF Ask
  <2> QED
    BY <1>2, <2>2, <2>3 DEF AskRest
<1>4. ASSUME NEW y \in Answers, Admin!Answer(r, y) PROVE \E new : Admin!Proceed(r, new) /\ AskRest(new)
  <2>1. PICK new : new = Ask(q.op, "done", q.ids, q.form, q.channel, q.seen, y, q.before)
    OBVIOUS
  <2>2. Admin!Proceed(r, new)
    BY <1>1, <1>2, <1>4, <2>1, AskDone DEF Admin!Answer
  <2>3. new.channel = q.channel /\ new.reply = y /\ new.seen = q.seen
    BY <2>1 DEF Ask
  <2> QED
    BY <1>2, <1>4, <2>2, <2>3 DEF AskRest
<1>5. ASSUME NEW n, DOMAIN n \subseteq MonitorIds,
             Admin!Proceed(r, [submission[r] EXCEPT !.stage = "rewrite", !.seen = n])
      PROVE  \E new : Admin!Proceed(r, new) /\ AskRest(new)
  <2>1. PICK new : new = Ask(q.op, "rewrite", q.ids, q.form, q.channel, n, q.reply, q.before)
    OBVIOUS
  <2>2. Admin!Proceed(r, new)
    BY <1>1, <1>2, <1>5, <2>1, AskSeen
  <2>3. new.channel = q.channel /\ new.reply = q.reply /\ new.seen = n
    BY <2>1 DEF Ask
  <2> QED
    BY <1>2, <1>5, <2>2, <2>3 DEF AskRest
<1>6. ASSUME NEW op, NEW ids, NEW f, NEW s, NEW c \in ChannelRows, Admin!Submit(r, op, ids, f, c, s)
      PROVE  \E new : Admin!Proceed(r, new) /\ AskRest(new)
  <2>1. PICK n, b : n = [m \in {} |-> {}] /\ b = <<monitors, channels>>
    OBVIOUS
  <2>2. PICK new : new = Ask(op, s, ids, f, c, n, "none", b)
    OBVIOUS
  <2>3. Admin!Unsent.seen = n
    BY <2>1 DEF Admin!Unsent
  <2>4. Asked(op, s, ids, f, c, b) = new
    BY <2>2, <2>3, AskNew
  <2>5. Admin!Proceed(r, Asked(op, s, ids, f, c, b))
    BY <1>6, <2>1 DEF Admin!Submit, Asked
  <2>6. new.channel = c /\ new.reply = "none" /\ new.seen = n
    BY <2>2 DEF Ask
  <2>7. AskRest(new)
    BY <2>1, <2>6 DEF AskRest, Answers
  <2> QED
    BY <2>4, <2>5, <2>7
<1> QED
  BY <1>3, <1>4, <1>5, <1>6 DEF AskMoves

LEMMA DisturbedRest ==
  ASSUME AdminInv, NEW q \in Submissions, AskRest(submission[q])
  PROVE  AskRest(Admin!Disturbed(q))
<1>1. PICK x : x = submission[q]
  OBVIOUS
<1>2. x = SameAsk(x) /\ AskRest(x)
  BY <1>1 DEF AdminInv, AskTyped
<1>3. PICK d : d = Ask(x.op, x.stage, x.ids, x.form, x.channel, x.seen, x.reply, <<>>)
  OBVIOUS
<1>4. [x EXCEPT !.before = <<>>] = d
  BY <1>2, <1>3, AskForgets
<1>5. d.channel = x.channel /\ d.seen = x.seen /\ d.reply = x.reply
  BY <1>3 DEF Ask
<1>6. AskRest(d)
  BY <1>2, <1>5 DEF AskRest
<1> QED
  BY <1>1, <1>2, <1>4, <1>6 DEF Admin!Disturbed

LEMMA SubmitMoves ==
  ASSUME AdminRest, NEW r \in Submissions, Admin!SubmitMonitor(r) \/ Admin!SubmitChannel(r)
  PROVE  AskMoves(r)
<1>1. ASSUME Admin!SubmitMonitor(r) PROVE AskMoves(r)
  <2>1. \E op, ids, f, s : Admin!Submit(r, op, ids, f, Admin!NoChannel, s)
    BY <1>1 DEF Admin!SubmitMonitor
  <2>2. \E op, ids, f, s, c : c \in ChannelRows /\ Admin!Submit(r, op, ids, f, c, s)
    BY <2>1, NoChannelTyped
  <2> QED
    BY <2>2 DEF AskMoves
<1>2. ASSUME Admin!SubmitChannel(r) PROVE AskMoves(r)
  <2>1. ASSUME NEW op, NEW ids, NEW f, NEW s, NEW c \in ChannelRows, Admin!Submit(r, op, ids, f, c, s)
        PROVE  AskMoves(r)
    BY <2>1 DEF AskMoves
  <2>2. ASSUME NEW c \in ChannelIds, NEW on_ \in BOOLEAN, NEW notify_ \in BOOLEAN, NEW text_ \in {"first", "second"}, NEW op,
               Admin!Submit(r, op, {c}, Reject,
                            [exists |-> TRUE, text |-> text_, enabled |-> on_, agentNotify |-> notify_], "write")
        PROVE  AskMoves(r)
    <3>1. PICK new, ids, s : /\ new = [exists |-> TRUE, text |-> text_, enabled |-> on_, agentNotify |-> notify_]
                             /\ ids = {c} /\ s = "write"
      OBVIOUS
    <3>2. new \in ChannelRows
      BY <3>1 DEF ChannelRows
    <3>3. Admin!Submit(r, op, ids, Reject, new, s)
      BY <2>2, <3>1
    <3> QED
      BY <2>1, <3>2, <3>3
  <2>3. ASSUME NEW c \in ChannelIds, NEW op, Admin!Submit(r, op, {c}, Reject, Admin!NoChannel, op)
        PROVE  AskMoves(r)
    <3>1. PICK ids, new : ids = {c} /\ new = Admin!NoChannel
      OBVIOUS
    <3>2. new \in ChannelRows
      BY <3>1, NoChannelTyped
    <3>3. Admin!Submit(r, op, ids, Reject, new, op)
      BY <2>3, <3>1
    <3> QED
      BY <2>1, <3>2, <3>3
  <2>4. \/ \E c \in ChannelIds, on_ \in BOOLEAN, notify_ \in BOOLEAN :
             Admin!Submit(r, "addChannel", {c}, Reject,
                          [exists |-> TRUE, text |-> "first", enabled |-> on_, agentNotify |-> notify_], "write")
        \/ \E c \in ChannelIds, on_ \in BOOLEAN, notify_ \in BOOLEAN :
             Admin!Submit(r, "editChannel", {c}, Reject,
                          [exists |-> TRUE, text |-> "second", enabled |-> on_, agentNotify |-> notify_], "write")
        \/ \E c \in ChannelIds, op \in Admin!ChannelOps : Admin!Submit(r, op, {c}, Reject, Admin!NoChannel, op)
    BY <1>2 DEF Admin!SubmitChannel
  <2> QED
    BY <2>2, <2>3, <2>4
<1> QED
  BY <1>1, <1>2

LEMMA StatementMoves ==
  ASSUME NEW r \in Submissions, Admin!Statement(r)
  PROVE  AskMoves(r)
<1>1. Admin!Answer(r, "ok") => AskMoves(r)
  BY DEF AskMoves, Answers
<1>2. Admin!Answer(r, "okay") => AskMoves(r)
  BY DEF AskMoves, Answers
<1>3. Admin!Answer(r, "missing") => AskMoves(r)
  BY DEF AskMoves, Answers
<1>4. Admin!Answer(r, "error") => AskMoves(r)
  BY DEF AskMoves, Answers
<1>5. \A s : Admin!Then(r, s) => AskMoves(r)
  BY DEF AskMoves
<1>6. Admin!Fail(r) => AskMoves(r)
  BY <1>4 DEF Admin!Fail
<1>7. ASSUME Admin!InsertMonitor(r) \/ Admin!DeleteMonitors(r) PROVE AskMoves(r)
  BY <1>1, <1>3, <1>6, <1>7 DEF Admin!InsertMonitor, Admin!DeleteMonitors
<1>8. ASSUME Admin!UpdateMonitor(r) PROVE AskMoves(r)
  <2>1. Admin!Fail(r) \/ Admin!Answer(r, "ok") \/ Admin!Answer(r, "missing")
    BY <1>8 DEF Admin!UpdateMonitor
  <2> QED
    BY <1>1, <1>3, <1>6, <2>1
<1>9. ASSUME Admin!SetMonitorsEnabled(r) PROVE AskMoves(r)
  <2>1. Admin!Fail(r) \/ Admin!Answer(r, "ok") \/ Admin!Answer(r, "missing") \/ \E s : Admin!Then(r, s)
    BY <1>9 DEF Admin!SetMonitorsEnabled
  <2> QED
    BY <1>1, <1>3, <1>5, <1>6, <2>1
<1>10. ASSUME Admin!ResetMonitorsConsecutive(r) \/ Admin!GetMonitorState(r) \/ Admin!PutMonitorState(r) PROVE AskMoves(r)
  BY <1>1, <1>2, <1>5, <1>10 DEF Admin!ResetMonitorsConsecutive, Admin!GetMonitorState, Admin!PutMonitorState
<1>11. ASSUME Admin!WriteChannel(r) PROVE AskMoves(r)
  BY <1>1, <1>4, <1>6, <1>11 DEF Admin!WriteChannel
<1>12. ASSUME Admin!SetSwitch(r) PROVE AskMoves(r)
  BY <1>1, <1>3, <1>6, <1>12 DEF Admin!SetSwitch
<1>13. ASSUME Admin!DeleteChannel(r) \/ Admin!FindChannel(r) PROVE AskMoves(r)
  BY <1>3, <1>4, <1>5, <1>6, <1>13 DEF Admin!DeleteChannel, Admin!FindChannel
<1>14. ASSUME Admin!RewriteRoutes(r) \/ Admin!RereadMonitors(r) PROVE AskMoves(r)
  <2>1. Admin!Fail(r) \/ Admin!Answer(r, "ok") \/ \E s : Admin!Then(r, s)
    BY <1>14 DEF Admin!RewriteRoutes, Admin!RereadMonitors
  <2> QED
    BY <1>1, <1>5, <1>6, <2>1
<1>15. ASSUME Admin!ListRoutes(r) PROVE AskMoves(r)
  <2>1. ASSUME NEW due, due \subseteq MonitorIds,
               Admin!Proceed(r, [submission[r] EXCEPT !.stage = "rewrite", !.seen = [m \in due |-> monitors[m].routes]])
        PROVE  AskMoves(r)
    <3>1. PICK n : n = [m \in due |-> monitors[m].routes]
      OBVIOUS
    <3>2. DOMAIN n \subseteq MonitorIds /\ Admin!Proceed(r, [submission[r] EXCEPT !.stage = "rewrite", !.seen = n])
      BY <2>1, <3>1
    <3> QED
      BY <3>2 DEF AskMoves
  <2>2. \/ Admin!Answer(r, "ok") \/ Admin!Answer(r, "error")
        \/ \E due : /\ due \subseteq MonitorIds
                     /\ Admin!Proceed(r, [submission[r] EXCEPT !.stage = "rewrite", !.seen = [m \in due |-> monitors[m].routes]])
    BY <1>15 DEF Admin!ListRoutes, Admin!Existing
  <2> QED
    BY <1>1, <1>4, <2>1, <2>2
<1> QED
  BY <1>7, <1>8, <1>9, <1>10, <1>11, <1>12, <1>13, <1>14, <1>15 DEF Admin!Statement

LEMMA ChannelsStayTyped ==
  ASSUME AdminRest, Admin!Next
  PROVE  ChannelsTyped' /\ broken' \in BOOLEAN
<1>1. ChannelsTyped /\ broken \in BOOLEAN
  BY DEF AdminRest
<1>2. CASE UNCHANGED <<channels, broken>>
  BY <1>1, <1>2 DEF ChannelsTyped
<1>3. ASSUME UNCHANGED channels, Admin!Fails \/ Admin!Works PROVE ChannelsTyped' /\ broken' \in BOOLEAN
  BY <1>1, <1>3 DEF ChannelsTyped, Admin!Fails, Admin!Works
<1>4. ASSUME NEW r, Admin!Fail(r) PROVE ChannelsTyped' /\ broken' \in BOOLEAN
  BY <1>1, <1>4 DEF ChannelsTyped, Admin!Fail, Admin!Fails, Admin!rows
<1>5. ASSUME NEW r, NEW x \in ChannelRows, Admin!PutChannel(r, x) PROVE ChannelsTyped'
  BY <1>1, <1>5 DEF ChannelsTyped, Admin!PutChannel
<1>6. ASSUME NEW r \in Submissions, Admin!WriteChannel(r) PROVE ChannelsTyped' /\ broken' \in BOOLEAN
  <2>1. PICK x : x = submission[r].channel
    OBVIOUS
  <2>2. x \in ChannelRows
    BY <2>1 DEF AdminRest, AskRest
  <2>3. CASE Admin!Fail(r)
    BY <1>4, <2>3
  <2>4. ASSUME Admin!Works, Admin!PutChannel(r, x) \/ UNCHANGED channels
        PROVE  ChannelsTyped' /\ broken' \in BOOLEAN
    BY <1>1, <1>5, <2>2, <2>4 DEF ChannelsTyped, Admin!Works
  <2>5. Admin!Fail(r) \/ (Admin!Works /\ (Admin!PutChannel(r, x) \/ UNCHANGED channels))
    BY <1>6, <2>1 DEF Admin!WriteChannel
  <2> QED
    BY <2>3, <2>4, <2>5
<1>7. ASSUME NEW r \in Submissions, Admin!SetSwitch(r) PROVE ChannelsTyped' /\ broken' \in BOOLEAN
  <2>1. CASE Admin!Fail(r)
    BY <1>4, <2>1
  <2>2. ASSUME Admin!Works, UNCHANGED channels PROVE ChannelsTyped' /\ broken' \in BOOLEAN
    BY <1>3, <2>2
  <2>3. ASSUME NEW x \in ChannelRows, NEW op PROVE Admin!Switch(op, x) \in ChannelRows
    <3>1. ASSUME NEW b \in BOOLEAN
          PROVE  [x EXCEPT !.agentNotify = b] \in ChannelRows /\ [x EXCEPT !.enabled = b] \in ChannelRows
      BY <3>1 DEF ChannelRows
    <3>2. PICK b \in BOOLEAN, n \in BOOLEAN : b = (op = "enableChannel") /\ n = (op = "notifyOn")
      OBVIOUS
    <3>3. Admin!Switch(op, x) = [x EXCEPT !.agentNotify = n] \/ Admin!Switch(op, x) = [x EXCEPT !.enabled = b]
      BY <3>2 DEF Admin!Switch
    <3> QED
      BY <3>1, <3>3
  <2>4. ASSUME Admin!Works,
               channels' = [c \in ChannelIds |-> IF c \in submission[r].ids
                             THEN Admin!Switch(submission[r].op, channels[c]) ELSE channels[c]]
        PROVE  ChannelsTyped' /\ broken' \in BOOLEAN
    <3>1. ASSUME NEW c \in ChannelIds PROVE channels'[c] \in ChannelRows
      <4>1. PICK x, op : x = channels[c] /\ op = submission[r].op
        OBVIOUS
      <4>2. x \in ChannelRows
        BY <1>1, <4>1 DEF ChannelsTyped
      <4>3. channels'[c] = x \/ channels'[c] = Admin!Switch(op, x)
        BY <2>4, <4>1
      <4> QED
        BY <2>3, <4>2, <4>3
    <3> QED
      BY <1>1, <2>4, <3>1 DEF ChannelsTyped, Admin!Works
  <2> QED
    BY <1>7, <2>1, <2>2, <2>4 DEF Admin!SetSwitch
<1>8. ASSUME NEW r \in Submissions, Admin!DeleteChannel(r) PROVE ChannelsTyped' /\ broken' \in BOOLEAN
  <2>1. CASE Admin!Fail(r)
    BY <1>4, <2>1
  <2>2. ASSUME Admin!Works, Admin!PutChannel(r, Admin!NoChannel) \/ UNCHANGED channels
        PROVE  ChannelsTyped' /\ broken' \in BOOLEAN
    <3>1. PICK x : x = Admin!NoChannel
      OBVIOUS
    <3>2. x \in ChannelRows
      BY <3>1, NoChannelTyped
    <3> QED
      BY <1>1, <1>5, <2>2, <3>1, <3>2 DEF ChannelsTyped, Admin!Works
  <2> QED
    BY <1>8, <2>1, <2>2 DEF Admin!DeleteChannel
<1>9. ASSUME NEW r \in Submissions, Admin!SubmitMonitor(r) \/ Admin!SubmitChannel(r) PROVE UNCHANGED <<channels, broken>>
  BY <1>9 DEF Admin!SubmitMonitor, Admin!SubmitChannel, Admin!Submit
<1>10. ASSUME NEW r \in Submissions,
              \/ Admin!InsertMonitor(r) \/ Admin!UpdateMonitor(r) \/ Admin!DeleteMonitors(r)
              \/ Admin!SetMonitorsEnabled(r) \/ Admin!RewriteRoutes(r)
              \/ Admin!RereadMonitors(r)
       PROVE  Admin!Fail(r) \/ (UNCHANGED channels /\ Admin!Works)
  BY <1>10 DEF Admin!InsertMonitor, Admin!UpdateMonitor, Admin!DeleteMonitors,
     Admin!SetMonitorsEnabled, Admin!RewriteRoutes, Admin!RereadMonitors, Admin!rows
<1>11. ASSUME NEW r \in Submissions,
              \/ Admin!ResetMonitorsConsecutive(r) \/ Admin!GetMonitorState(r) \/ Admin!PutMonitorState(r)
              \/ Admin!FindChannel(r) \/ Admin!ListRoutes(r)
       PROVE  UNCHANGED channels /\ (Admin!Fails \/ Admin!Works)
  BY <1>11 DEF Admin!ResetMonitorsConsecutive, Admin!GetMonitorState, Admin!PutMonitorState,
     Admin!FindChannel, Admin!ListRoutes, Admin!rows
<1>12. CASE Admin!RoundFinalized
  BY <1>2, <1>12 DEF Admin!RoundFinalized
<1>13. ASSUME NEW r \in Submissions, Admin!Statement(r) PROVE ChannelsTyped' /\ broken' \in BOOLEAN
  BY <1>3, <1>4, <1>6, <1>7, <1>8, <1>10, <1>11, <1>13 DEF Admin!Statement
<1> QED
  BY <1>2, <1>9, <1>12, <1>13 DEF Admin!Next

LEMMA AdminRestKept ==
  ASSUME AdminInv, AdminRest, [Admin!Next]_adminVars
  PROVE  AdminRest'
<1>1. CASE UNCHANGED adminVars
  BY <1>1 DEF adminVars, AdminRest, ChannelsTyped
<1>2. ASSUME NEW q \in Submissions PROVE AskRest(Admin!Disturbed(q))
  BY DisturbedRest DEF AdminRest
<1>3. ASSUME NEW r \in Submissions, AskMoves(r) PROVE \A q \in Submissions : AskRest(submission'[q])
  <2>1. AskRest(submission[r])
    BY DEF AdminRest
  <2>2. PICK new : Admin!Proceed(r, new) /\ AskRest(new)
    BY <1>3, <2>1, MovedAsk
  <2>3. ASSUME NEW q \in Submissions PROVE AskRest(submission'[q])
    <3>1. PICK d : d = Admin!Disturbed(q)
      OBVIOUS
    <3>2. submission'[q] = new \/ submission'[q] = d
      BY <2>2, <3>1 DEF Admin!Proceed
    <3> QED
      BY <1>2, <2>2, <3>1, <3>2
  <2> QED
    BY <2>3
<1>4. ASSUME Admin!RoundFinalized PROVE \A q \in Submissions : AskRest(submission'[q])
  <2>1. ASSUME NEW q \in Submissions PROVE AskRest(submission'[q])
    <3>1. PICK d : d = Admin!Disturbed(q)
      OBVIOUS
    <3>2. submission'[q] = d
      BY <1>4, <3>1 DEF Admin!RoundFinalized
    <3> QED
      BY <1>2, <3>1, <3>2
  <2> QED
    BY <2>1
<1>5. ASSUME Admin!Next PROVE \A q \in Submissions : AskRest(submission'[q])
  <2>1. ASSUME NEW r \in Submissions, Admin!SubmitMonitor(r) \/ Admin!SubmitChannel(r) PROVE AskMoves(r)
    BY <2>1, SubmitMoves
  <2>2. ASSUME NEW r \in Submissions, Admin!Statement(r) PROVE AskMoves(r)
    BY <2>2, StatementMoves
  <2> QED
    BY <1>3, <1>4, <1>5, <2>1, <2>2 DEF Admin!Next
<1> QED
  BY <1>1, <1>5, ChannelsStayTyped DEF AdminRest

LEMMA AdminTypes == Spec => []Admin!TypeOK
<1>1. Init => AdminInv /\ AdminRest
  <2> SUFFICES ASSUME Init PROVE AdminInv /\ AdminRest
    OBVIOUS
  <2>1. /\ \E first \in Installations : channels = first[2]
        /\ submission = [r \in Submissions |-> Admin!Unsent] /\ broken = FALSE
    BY DEF Init, Admin!Init
  <2>2. ChannelsTyped
    BY <2>1, AdminAssumption DEF ChannelsTyped, ChannelRows
  <2>3. AskRest(Admin!Unsent)
    BY NoChannelTyped DEF Admin!Unsent, AskRest, Answers
  <2> QED
    BY <2>1, <2>2, <2>3, AdminInit DEF AdminRest
<1>2. AdminInv /\ [Next]_<<part, vars>> => AdminInv'
  BY AdminAlone, AdminKept
<1>3. AdminInv /\ AdminRest /\ [Next]_<<part, vars>> => AdminRest'
  BY AdminAlone, AdminRestKept
<1>4. AdminInv /\ AdminRest => Admin!TypeOK
  <2> SUFFICES ASSUME AdminInv, AdminRest PROVE Admin!TypeOK
    OBVIOUS
  <2>1. monitors \in [MonitorIds -> Admin!Row]
    BY DEF AdminInv, RowsTyped
  <2>2. ASSUME NEW r \in Submissions
        PROVE  submission[r].op \in Admin!MonitorOps \cup Admin!ChannelOps \cup Admin!BatchOps \cup {"none"}
    BY DEF AdminInv, AskTyped
  <2>3. \A r \in Submissions : submission[r].reply \in Answers /\ DOMAIN submission[r].seen \subseteq MonitorIds
    BY DEF AdminRest, AskRest
  <2>4. \A c \in ChannelIds : channels[c] \in ChannelRows
    BY DEF AdminRest, ChannelsTyped
  <2>5. broken \in BOOLEAN
    BY DEF AdminRest
  <2> QED
    BY <2>1, <2>2, <2>3, <2>4, <2>5 DEF Admin!TypeOK, Answers, ChannelRows
<1> QED
  BY <1>1, <1>2, <1>3, <1>4, PTL DEF Spec

-----------------------------------------------------------------------------
(* The browser's feed, from its own proofs (BrowserFeedProofs).            *)

Feeding == INSTANCE BrowserFeedProofs WITH state <- alertState

LEMMA FeedAlone == [Next]_<<part, vars>> => [Feed!Next]_feedVars
  BY DEF Next, vars, PushStep, NotifyStep, EnrollStep, AdminStep, TransferStep, KumaStep, ProbesStep,
     FeedStep, Others4, Others8, feedVars

\* The two instances are the same specification.
LEMMA SameFeed ==
  /\ Feed!Next <=> Feeding!Next
  /\ Feed!Init <=> Feeding!Init
  /\ Feed!TypeOK <=> Feeding!TypeOK
  /\ Feed!StripIsFaithful <=> Feeding!StripIsFaithful
<1>1. ASSUME NEW S PROVE Feed!Cardinality(S) = Feeding!Cardinality(S)
  BY DEF Feed!Cardinality, Feeding!Cardinality
<1>2. ASSUME NEW c, NEW n PROVE Feed!Newer(c, n) = Feeding!Newer(c, n)
  BY DEF Feed!Newer, Feeding!Newer, Feed!Cardinality, Feeding!Cardinality
<1>3. Feed!First = Feeding!First /\ Feed!Window = Feeding!Window
  BY DEF Feed!First, Feeding!First, Feed!Window, Feeding!Window
<1>4. ASSUME NEW v, NEW c PROVE Feed!Judge(v, c) = Feeding!Judge(v, c)
  BY DEF Feed!Judge, Feeding!Judge
<1>5. ASSUME NEW st, NEW k, NEW n PROVE Feed!Apply(st, k, n) = Feeding!Apply(st, k, n)
  BY DEF Feed!Apply, Feeding!Apply, Feed!Fresh, Feeding!Fresh
<1>6. ASSUME NEW c PROVE Feed!Visible(c) = Feeding!Visible(c)
  BY <1>1, <1>3, <1>4 DEF Feed!Visible, Feeding!Visible
<1>7. ASSUME NEW st, NEW c PROVE Feed!StripSeed(st, c) = Feeding!StripSeed(st, c)
  BY <1>6 DEF Feed!StripSeed, Feeding!StripSeed
<1>8. ASSUME NEW k, NEW a PROVE Feed!RoundCellStatus(k, a) = Feeding!RoundCellStatus(k, a)
  BY DEF Feed!RoundCellStatus, Feeding!RoundCellStatus
<1>9. ASSUME NEW st, NEW c PROVE Feed!Replay(st, c) = Feeding!Replay(st, c)
  BY DEF Feed!Replay, Feeding!Replay, Feed!StripSeed, Feeding!StripSeed, Feed!Visible,
    Feeding!Visible, Feed!Window, Feeding!Window, Feed!First, Feeding!First, Feed!Judge,
    Feeding!Judge, Feed!Apply, Feeding!Apply, Feed!Fresh, Feeding!Fresh, Feed!RoundCellStatus,
    Feeding!RoundCellStatus, Feed!Cardinality, Feeding!Cardinality
<1>10. Feed!Current = Feeding!Current
  BY <1>5 DEF Feed!Current, Feeding!Current, Feed!Last, Feeding!Last
<1>11. ASSUME NEW n PROVE Feed!CutAlarm(n) <=> Feeding!CutAlarm(n)
  BY <1>1, <1>3 DEF Feed!CutAlarm, Feeding!CutAlarm
<1>12. ASSUME NEW c PROVE Feed!Even(c) <=> Feeding!Even(c)
  BY DEF Feed!Even, Feeding!Even
<1>13. ASSUME NEW st, NEW c PROVE Feed!RoundStatusStrip(st, c) = Feeding!RoundStatusStrip(st, c)
  BY <1>1, <1>3, <1>9, <1>10, <1>11, <1>12 DEF Feed!RoundStatusStrip, Feeding!RoundStatusStrip
<1>14. ASSUME NEW c, NEW d PROVE Feed!MergeStrip(c, d) = Feeding!MergeStrip(c, d)
  BY <1>2 DEF Feed!MergeStrip, Feeding!MergeStrip, Feed!ClampStrip, Feeding!ClampStrip,
    Feed!Last, Feeding!Last
<1>15. ASSUME NEW c, NEW f PROVE Feed!ApplyRound(c, f) = Feeding!ApplyRound(c, f)
  BY DEF Feed!ApplyRound, Feeding!ApplyRound, Feed!ClampStrip, Feeding!ClampStrip, Feed!Last,
    Feeding!Last, Feed!ReplaceAt, Feeding!ReplaceAt
<1>16. ASSUME NEW f PROVE Feed!Broadcast(f) <=> Feeding!Broadcast(f)
  BY DEF Feed!Broadcast, Feeding!Broadcast
<1>17. Feed!NoRead = Feeding!NoRead
  BY DEF Feed!NoRead, Feeding!NoRead, Feed!Fresh, Feeding!Fresh
<1>18. ASSUME NEW r, NEW stage, NEW c PROVE Feed!BeginRead(r, stage, c) <=> Feeding!BeginRead(r, stage, c)
  BY <1>17 DEF Feed!BeginRead, Feeding!BeginRead
<1>19. (Feed!Faultless <=> Feeding!Faultless) /\ (Feed!Fault <=> Feeding!Fault)
  BY DEF Feed!Faultless, Feeding!Faultless, Feed!Fault, Feeding!Fault
<1>20. Feed!ScheduleRound <=> Feeding!ScheduleRound
  BY DEF Feed!ScheduleRound, Feeding!ScheduleRound
<1>21. Feed!CloseRound <=> Feeding!CloseRound
  BY <1>4 DEF Feed!CloseRound, Feeding!CloseRound
<1>22. Feed!ApplyAlert <=> Feeding!ApplyAlert
  BY <1>5 DEF Feed!ApplyAlert, Feeding!ApplyAlert, Feed!Last, Feeding!Last
<1>23. Feed!ApplyAlertFails <=> Feeding!ApplyAlertFails
  BY DEF Feed!ApplyAlertFails, Feeding!ApplyAlertFails
<1>24. Feed!BroadcastRoundFinalized <=> Feeding!BroadcastRoundFinalized
  BY <1>4, <1>8, <1>16 DEF Feed!BroadcastRoundFinalized, Feeding!BroadcastRoundFinalized,
    Feed!Last, Feeding!Last
<1>25. Feed!Scheduler <=> Feeding!Scheduler
  BY <1>20, <1>21, <1>22, <1>23, <1>24 DEF Feed!Scheduler, Feeding!Scheduler
<1>26. ASSUME NEW r \in Feed!Readers PROVE Feed!ListMonitors(r) <=> Feeding!ListMonitors(r)
  BY <1>17, <1>19 DEF Feed!ListMonitors, Feeding!ListMonitors
<1>27. ASSUME NEW r \in Feed!Readers PROVE Feed!ReadState(r) <=> Feeding!ReadState(r)
  BY <1>19 DEF Feed!ReadState, Feeding!ReadState, Feed!Fresh, Feeding!Fresh
<1>28. ASSUME NEW r \in Feed!Readers PROVE Feed!ReadRounds(r) <=> Feeding!ReadRounds(r)
  BY <1>17, <1>19, <1>13 DEF Feed!ReadRounds, Feeding!ReadRounds
<1>29. ASSUME NEW r \in Feed!Readers PROVE Feed!ReadRoundsFails(r) <=> Feeding!ReadRoundsFails(r)
  BY <1>17, <1>19 DEF Feed!ReadRoundsFails, Feeding!ReadRoundsFails
<1>30. Feed!PushMonitorStrips <=> Feeding!PushMonitorStrips
  BY <1>17 DEF Feed!PushMonitorStrips, Feeding!PushMonitorStrips
<1>31. Feed!HttpAnswer <=> Feeding!HttpAnswer
  BY <1>17, <1>14 DEF Feed!HttpAnswer, Feeding!HttpAnswer, Feed!ApplyStrips, Feeding!ApplyStrips
<1>32. Feed!BroadcastMonitorChanged <=> Feeding!BroadcastMonitorChanged
  BY <1>17, <1>16 DEF Feed!BroadcastMonitorChanged, Feeding!BroadcastMonitorChanged
<1>33. Feed!UpdateMonitor <=> Feeding!UpdateMonitor
  BY <1>18 DEF Feed!UpdateMonitor, Feeding!UpdateMonitor
<1>34. Feed!Reading <=> Feeding!Reading
  BY <1>26, <1>27, <1>28, <1>29, <1>30, <1>31, <1>32, <1>33 DEF Feed!Reading, Feeding!Reading,
    Feed!Readers, Feeding!Readers
<1>35. Feed!Connect <=> Feeding!Connect
  BY DEF Feed!Connect, Feeding!Connect
<1>36. Feed!RequestStrips <=> Feeding!RequestStrips
  BY <1>17, <1>18 DEF Feed!RequestStrips, Feeding!RequestStrips
<1>37. Feed!Disconnect <=> Feeding!Disconnect
  BY <1>17 DEF Feed!Disconnect, Feeding!Disconnect
<1>38. Feed!LoadStripsHttp <=> Feeding!LoadStripsHttp
  BY <1>17, <1>18 DEF Feed!LoadStripsHttp, Feeding!LoadStripsHttp
<1>39. Feed!Receive <=> Feeding!Receive
  BY <1>14, <1>15 DEF Feed!Receive, Feeding!Receive, Feed!ApplyStrips, Feeding!ApplyStrips,
    Feed!UpsertMonitor, Feeding!UpsertMonitor, Feed!ClampStrip, Feeding!ClampStrip, Feed!Last,
    Feeding!Last
<1>40. Feed!Browser <=> Feeding!Browser
  BY <1>35, <1>36, <1>37, <1>38, <1>39 DEF Feed!Browser, Feeding!Browser
<1>41. Feed!Next <=> Feeding!Next
  BY <1>25, <1>34, <1>40 DEF Feed!Next, Feeding!Next
<1>42. Feed!Init <=> Feeding!Init
  BY <1>17 DEF Feed!Init, Feeding!Init, Feed!Fresh, Feeding!Fresh, Feed!Readers, Feeding!Readers
<1>43. Feed!TypeOK <=> Feeding!TypeOK
  BY DEF Feed!TypeOK, Feeding!TypeOK, Feed!States, Feeding!States, Feed!Cells, Feeding!Cells,
    Feed!Readers, Feeding!Readers
<1>44. Feed!StripIsFaithful <=> Feeding!StripIsFaithful
  BY DEF Feed!StripIsFaithful, Feeding!StripIsFaithful, Feed!StripIsComplete,
    Feeding!StripIsComplete, Feed!StripTellsTheColour, Feeding!StripTellsTheColour,
    Feed!Readers, Feeding!Readers, Feed!Last, Feeding!Last
<1> QED
  BY <1>41, <1>42, <1>43, <1>44

\* What an open page has of the strip is what the store has, however reads, pushes, edits,
\* faults and reconnections interleave (roundStatusStrip in api/monitor_strips.go, Hub.Broadcast, and
\* mergeStrip and applyRound of the page).
THEOREM StripCorrect == Spec => []StripIsFaithful
<1>1. Feeding!Bounds
  BY PushAssumption, FeedAssumption DEF Feeding!Bounds
<1>2. Feeding!Spec => [](Feeding!TypeOK /\ Feeding!StripIsFaithful)
  BY <1>1, Feeding!FeedCorrect
<1>3. Init => Feeding!Init
  BY SameFeed DEF Init
<1>4. [Next]_<<part, vars>> => [Feeding!Next]_(Feeding!feedVars)
  BY FeedAlone, SameFeed DEF feedVars, Feeding!feedVars
<1>5. Feeding!StripIsFaithful => StripIsFaithful
  BY SameFeed DEF StripIsFaithful
<1> QED
  BY <1>2, <1>3, <1>4, <1>5, PTL DEF Spec, Feeding!Spec

-----------------------------------------------------------------------------
(* All parts, from what is proved of each.                                 *)

LEMMA PushTypes == Spec => []Push!TypeOK
<1>1. Push!TypeOK /\ [Next]_<<part, vars>> => Push!TypeOK'
  BY PushAlone, PushTypeKept
<1> QED
  BY <1>1, PushStart, PTL DEF Spec

LEMMA NotifyTypes == Spec => []Notify!TypeOK
<1>1. NotifyInv => Notify!TypeOK
  BY DEF NotifyInv
<1>2. NotifyInv /\ [Next]_<<part, vars>> => NotifyInv'
  BY NotifyAlone, NotifyInductive
<1> QED
  BY <1>1, <1>2, NotifyStart, PTL DEF Spec

LEMMA EnrollmentTypes == Spec => []Enroll!TypeOK
<1>1. EnrollBounds
  BY EnrollAssumption DEF EnrollBounds
<1>2. Init => EnrollTypes
  BY <1>1, EnrollTypesInit DEF Init
<1>3. EnrollTypes /\ [Next]_<<part, vars>> => EnrollTypes'
  BY <1>1, EnrollAlone, EnrollTypesStep
<1>4. EnrollTypes => Enroll!TypeOK
  BY <1>1, TypesAreTypeOK
<1> QED
  BY <1>2, <1>3, <1>4, PTL DEF Spec

LEMMA TransferTypes == Spec => []Transfer!TypeOK
<1>1. Init => TransferInv /\ CountsRight
  BY TransferStarts, CountsStart
<1>2. TransferInv /\ CountsRight /\ [Next]_<<part, vars>> => TransferInv' /\ CountsRight'
  BY TransferAlone, TransferStays, TransferRests, CountsStay
<1> QED
  BY <1>1, <1>2, TransferIsTyped, PTL DEF Spec

LEMMA FeedTypes == Spec => []Feed!TypeOK
<1>1. Feeding!Bounds
  BY PushAssumption, FeedAssumption DEF Feeding!Bounds
<1>2. Feeding!Spec => [](Feeding!TypeOK /\ Feeding!StripIsFaithful)
  BY <1>1, Feeding!FeedCorrect
<1>3. Init => Feeding!Init
  BY SameFeed DEF Init
<1>4. [Next]_<<part, vars>> => [Feeding!Next]_(Feeding!feedVars)
  BY FeedAlone, SameFeed DEF feedVars, Feeding!feedVars
<1>5. Feeding!TypeOK => Feed!TypeOK
  BY SameFeed
<1> QED
  BY <1>2, <1>3, <1>4, <1>5, PTL DEF Spec, Feeding!Spec

\* Of every number of reports, channels, sessions, items, probes, forms and imports: each
\* of the eight parts keeps the types of its rows, queues, requests and sessions, whichever
\* of its requests fail, overlap or are cut off (every module of MCServices).
THEOREM TypeCorrect == Spec => []TypeOK
<1>1. Init => part \in Parts
  BY DEF Init
<1>2. part \in Parts /\ [Next]_<<part, vars>> => (part \in Parts)'
  BY DEF Next, vars, PushStep, NotifyStep, EnrollStep, AdminStep, TransferStep, KumaStep, ProbesStep, FeedStep
<1>3. /\ part \in Parts /\ Push!TypeOK /\ Notify!TypeOK /\ Enroll!TypeOK /\ Admin!TypeOK
      /\ Transfer!TypeOK /\ Kuma!TypeOK /\ Probing!TypeOK /\ Feed!TypeOK
      => TypeOK
  BY DEF TypeOK, Parts
<1> QED
  BY <1>1, <1>2, <1>3, PushTypes, NotifyTypes, EnrollmentTypes, AdminTypes, TransferTypes, KumaTypes,
     ProbesTypes, FeedTypes, PTL DEF Spec

=============================================================================
