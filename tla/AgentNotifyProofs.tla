-------------------------- MODULE AgentNotifyProofs --------------------------
(***************************************************************************)
(* What TLAPS proves of AgentNotify, for any number of connections and any *)
(* bounds.                                                                 *)
(***************************************************************************)
EXTENDS AgentNotify, FiniteSetTheorems, TLAPS

LEMMA HubTypeInit == Init => TypeOK
<1> SUFFICES ASSUME Init PROVE TypeOK
  OBVIOUS
<1>1. conns \in Conns \cup {NoConn} /\ stage \in [Conns -> Stages]
  BY DEF Init, HubInit, Stages
<1>2. closed \in SUBSET Conns /\ silent \in SUBSET Conns /\ killer \in SUBSET Killers
  BY DEF Init, HubInit
<1>3. status \in Statuses /\ edits \in Nat
  BY DEF Init, HubInit, Statuses
<1>4. pending \in Conns \cup {NoConn} /\ timer \in [Conns -> Timers]
  BY DEF Init, Timers
<1>5. downs \in Nat /\ ups \in Nat /\ faults \in Nat
  BY DEF Init
<1>6. /\ offlineNotify \in BOOLEAN /\ notified \in BOOLEAN
      /\ overtaken \in BOOLEAN /\ outdated \in BOOLEAN
  BY DEF Init
<1> QED
  BY <1>1, <1>2, <1>3, <1>4, <1>5, <1>6 DEF TypeOK, HubTypeOK

\* A step of the hub keeps the hub's types.
LEMMA HubTypeStep == HubTypeOK /\ HubNext => HubTypeOK'
<1> SUFFICES ASSUME HubTypeOK, HubNext PROVE HubTypeOK'
  OBVIOUS
<1> USE DEF HubTypeOK, Stages, Statuses, Killers, Registered, Departing
<1>1. ASSUME NEW c \in Conns, Serving(c) PROVE HubTypeOK'
  <2>1. CASE Dial(c)
    BY <2>1 DEF Dial, Move
  <2>2. CASE Register(c)
    BY <2>2 DEF Register, Move, adminVars
  <2>3. CASE SendAck(c)
    BY <2>3 DEF SendAck, Move, adminVars
  <2>4. CASE Heartbeat(c) \/ FallSilent(c)
    BY <2>4 DEF Heartbeat, FallSilent, adminVars
  <2>5. CASE Drop(c)
    BY <2>5 DEF Drop, Move, adminVars
  <2>6. CASE Unregister(c)
    BY <2>6 DEF Unregister, Move, adminVars
  <2> QED
    BY <1>1, <2>1, <2>2, <2>3, <2>4, <2>5, <2>6 DEF Serving
<1>2. CASE Closing
  <2>1. CASE ScanSilent
    BY <2>1 DEF ScanSilent, hubVars
  <2>2. ASSUME NEW k \in Killers, ForceDisconnect(k) PROVE HubTypeOK'
    BY <2>2 DEF ForceDisconnect, hubVars
  <2>3. CASE Approve
    BY <2>3 DEF Approve, Edited, hubVars
  <2>4. CASE Revoke
    BY <2>4 DEF Revoke, Edited, hubVars
  <2> QED
    BY <1>2, <2>1, <2>2, <2>3, <2>4 DEF Closing
<1> QED
  BY <1>1, <1>2 DEF HubNext

LEMMA TypeStep == TypeOK /\ [Next]_vars => TypeOK'
<1> SUFFICES ASSUME TypeOK, [Next]_vars PROVE TypeOK'
  OBVIOUS
<1> USE DEF TypeOK
<1>1. ASSUME HubNext, UNCHANGED <<offlineNotify, notifyVars, faults, overtaken, outdated>>
      PROVE  TypeOK'
  BY <1>1, HubTypeStep DEF notifyVars
<1>2. ASSUME NEW c \in Conns, Calling(c) PROVE TypeOK'
  <2>1. HubTypeOK'
    BY <1>2
    DEF Calling, OnConnected, Recover, OnDisconnected, Arm, Move, HubTypeOK, Stages, Registered,
        Departing, adminVars
  <2>2. faults' \in Nat /\ ups' \in Nat /\ downs' \in Nat
    BY <1>2 DEF Calling, OnConnected, Recover, OnDisconnected, Arm, Works, Fails, notifyVars
  <2>3. overtaken' \in BOOLEAN /\ outdated' \in BOOLEAN /\ offlineNotify' \in BOOLEAN
    BY <1>2, Zenon DEF Calling, OnConnected, Recover, OnDisconnected, Arm
  <2>4. pending' \in Conns \cup {NoConn} /\ notified' \in BOOLEAN /\ timer' \in [Conns -> Timers]
    BY <1>2 DEF Calling, OnConnected, Recover, OnDisconnected, Arm, DropEntry, notifyVars, Timers
  <2> QED
    BY <2>1, <2>2, <2>3, <2>4
<1>3. ASSUME NEW t \in Conns, Confirming(t) PROVE TypeOK'
  <2>1. HubTypeOK'
    BY <1>3
    DEF Confirming, Fire, Ask, Clear, Confirm, Emit, HubTypeOK, hubState, hubVars, adminVars
  <2>2. faults' \in Nat /\ ups' \in Nat /\ downs' \in Nat
    BY <1>3 DEF Confirming, Fire, Ask, Clear, Confirm, Emit, Works, Fails
  <2>3. overtaken' \in BOOLEAN /\ outdated' \in BOOLEAN /\ offlineNotify' \in BOOLEAN
    BY <1>3, Zenon DEF Confirming, Fire, Ask, Clear, Confirm, Emit
  <2>4. pending' \in Conns \cup {NoConn} /\ notified' \in BOOLEAN /\ timer' \in [Conns -> Timers]
    BY <1>3 DEF Confirming, Fire, Ask, Clear, Confirm, Emit, Step, Timers
  <2> QED
    BY <2>1, <2>2, <2>3, <2>4
<1>4. CASE SetOfflineNotify
  BY <1>4 DEF SetOfflineNotify, Edited, HubTypeOK, hubVars, notifyVars
<1>5. CASE UNCHANGED vars
  BY <1>5 DEF vars, hubState, hubVars, adminVars, notifyVars, HubTypeOK
<1> QED
  BY <1>1, <1>2, <1>3, <1>4, <1>5 DEF Next

\* Every variable of AgentNotify keeps its type.
THEOREM NotifyTypeCorrect == Spec => []TypeOK
BY HubTypeInit, TypeStep, PTL DEF Spec

-----------------------------------------------------------------------------
(* The registry. The entry's session is registered and the other ones that *)
(* are registered are closed: inductive as it stands.                      *)

LEMMA EntryInit == Init => EntryIsLive
BY ConnsAssumption DEF Init, HubInit, EntryIsLive, Registered

\* A callback moves its goroutine on within the same phase.
LEMMA EntryStep == TypeOK /\ EntryIsLive /\ [Next]_vars => EntryIsLive'
<1> SUFFICES ASSUME TypeOK, EntryIsLive, [Next]_vars PROVE EntryIsLive'
  OBVIOUS
<1> USE ConnsAssumption DEF EntryIsLive
<1>1. stage \in [Conns -> Stages] /\ conns \in Conns \cup {NoConn} /\ closed \in SUBSET Conns
  BY DEF TypeOK, HubTypeOK
<1>2. ASSUME NEW c \in Conns, Serving(c) PROVE EntryIsLive'
  <2>1. CASE Dial(c)
    BY <1>1, <2>1 DEF Dial, Move, Registered
  <2>2. CASE Register(c)
    BY <1>1, <2>2 DEF Register, Move, Registered
  <2>3. CASE SendAck(c) \/ Drop(c)
    BY <1>1, <2>3 DEF SendAck, Drop, Move, Registered
  <2>4. CASE Heartbeat(c) \/ FallSilent(c)
    BY <1>1, <2>4 DEF Heartbeat, FallSilent
  <2>5. CASE Unregister(c)
    BY <1>1, <2>5 DEF Unregister, Move, Registered
  <2> QED
    BY <1>2, <2>1, <2>2, <2>3, <2>4, <2>5 DEF Serving
<1>3. CASE Closing
  <2>1. stage' = stage /\ conns' = conns /\ closed \subseteq closed'
    BY <1>3 DEF Closing, ScanSilent, ForceDisconnect, Approve, Revoke, hubVars
  <2> QED
    BY <2>1
<1>4. ASSUME NEW c \in Conns, Calling(c) PROVE EntryIsLive'
  BY <1>1, <1>4 DEF Calling, OnConnected, Recover, OnDisconnected, Arm, Move, Registered
<1>5. ASSUME NEW t \in Conns, Confirming(t) PROVE UNCHANGED hubVars
  BY <1>5 DEF Confirming, Fire, Ask, Clear, Confirm, Emit, hubState
<1>6. SetOfflineNotify \/ UNCHANGED vars => UNCHANGED hubVars
  BY DEF SetOfflineNotify, vars, hubState
<1>7. CASE UNCHANGED hubVars
  BY <1>7 DEF hubVars
<1> QED
  BY <1>2, <1>3, <1>4, <1>5, <1>6, <1>7 DEF Next, HubNext

\* At any time the registry names the node's only usable connection, and an
\* entry of the registry has a session that will remove it.
THEOREM EntryCorrect == Spec => []EntryIsLive
BY HubTypeInit, TypeStep, EntryInit, EntryStep, PTL DEF Spec

-----------------------------------------------------------------------------
(* The table of outages.                                                   *)

Outages ==
  /\ TimerMatchesEntry /\ (notified => pending # NoConn)
  /\ \A c \in Conns : stage[c] # "gone" => timer[c] = "unset"

LEMMA OutagesInit == Init => Outages
BY ConnsAssumption DEF Init, HubInit, Outages, TimerMatchesEntry

LEMMA OutagesStep == TypeOK /\ Outages /\ [Next]_vars => Outages'
<1> SUFFICES ASSUME TypeOK, Outages, [Next]_vars PROVE Outages'
  OBVIOUS
<1> USE ConnsAssumption DEF Outages, TimerMatchesEntry
<1>1. /\ stage \in [Conns -> Stages] /\ timer \in [Conns -> Timers]
      /\ pending \in Conns \cup {NoConn} /\ notified \in BOOLEAN
  BY DEF TypeOK, HubTypeOK
<1>2. ASSUME UNCHANGED <<pending, notified, timer>>,
             \A c \in Conns : stage'[c] # "gone" => stage[c] # "gone"
      PROVE  Outages'
  BY <1>2
<1>3. HubNext => \A c \in Conns : stage'[c] # "gone" => stage[c] # "gone"
  BY <1>1
  DEF HubNext, Serving, Closing, Dial, Register, SendAck, Heartbeat, FallSilent, Drop,
      Unregister, ScanSilent, ForceDisconnect, Approve, Revoke, Move, hubVars
<1>4. ASSUME NEW c \in Conns, OnConnected(c) PROVE Outages'
  <2>1. \A t \in Conns : timer'[t] # "armed" /\ (timer[t] = "unset" => timer'[t] = "unset")
    BY <1>1, <1>4 DEF OnConnected, DropEntry
  <2>2. stage[c] = "notifyUp" /\ \A d \in Conns \ {c} : stage'[d] = stage[d]
    BY <1>1, <1>4 DEF OnConnected, Move
  <2>3. pending' = NoConn /\ notified' = FALSE
    BY <1>4 DEF OnConnected, DropEntry
  <2> QED
    BY <1>1, <2>1, <2>2, <2>3
<1>5. ASSUME NEW c \in Conns, Recover(c) \/ OnDisconnected(c) PROVE Outages'
  BY <1>1, <1>2, <1>5 DEF Recover, OnDisconnected, Move, notifyVars
<1>6. ASSUME NEW c \in Conns, Arm(c) PROVE Outages'
  <2>1. stage' = [stage EXCEPT ![c] = "gone"]
    BY <1>6 DEF Arm, Move
  <2>2. CASE pending = NoConn
    BY <1>1, <1>6, <2>1, <2>2 DEF Arm
  <2>3. CASE pending # NoConn
    BY <1>1, <1>6, <2>1, <2>3 DEF Arm
  <2> QED
    BY <2>2, <2>3
<1>7. ASSUME NEW t \in Conns, Fire(t) \/ Ask(t) PROVE Outages'
  <2>1. stage' = stage /\ UNCHANGED <<pending, notified>>
    BY <1>7 DEF Fire, Ask, hubState, hubVars
  <2>2. PICK to \in {"asked", "notify", "clear"} : timer' = [timer EXCEPT ![t] = to]
    BY <1>7 DEF Fire, Ask, Step
  <2>3. timer[t] # "unset"
    BY <1>7 DEF Fire, Ask
  <2> QED
    BY <1>1, <2>1, <2>2, <2>3 DEF Firing
<1>8. ASSUME NEW t \in Conns, Clear(t) PROVE Outages'
  <2>1. stage' = stage /\ pending' = NoConn /\ notified' = FALSE
    BY <1>8 DEF Clear, hubState, hubVars
  <2>2. \A u \in Conns : timer'[u] # "armed" /\ (timer[u] = "unset" => timer'[u] = "unset")
    BY <1>1, <1>8 DEF Clear
  <2> QED
    BY <1>1, <2>1, <2>2
<1>9. ASSUME NEW t \in Conns, Confirm(t) PROVE Outages'
  <2>1. stage' = stage /\ timer[t] = "notify" /\ pending' = pending
    BY <1>9 DEF Confirm, hubState, hubVars
  <2>2. CASE pending # NoConn
    BY <1>1, <1>9, <2>1, <2>2 DEF Confirm, Step
  <2>3. CASE pending = NoConn
    BY <1>1, <1>9, <2>1, <2>3 DEF Confirm, Step
  <2> QED
    BY <2>2, <2>3
<1>10. ASSUME NEW t \in Conns, Emit(t) PROVE Outages'
  <2>1. /\ stage' = stage /\ timer[t] = "emit" /\ UNCHANGED <<pending, notified>>
        /\ timer' = [timer EXCEPT ![t] = "over"]
    BY <1>10 DEF Emit, Step, hubState, hubVars
  <2> QED
    BY <1>1, <2>1 DEF Firing
<1>11. SetOfflineNotify \/ UNCHANGED vars => UNCHANGED <<stage, notifyVars>>
  BY DEF SetOfflineNotify, vars, hubState, hubVars
<1> QED
  BY <1>2, <1>3, <1>4, <1>5, <1>6, <1>7, <1>8, <1>9, <1>10, <1>11
  DEF Next, Calling, Confirming, notifyVars

\* An outage in the table that was not announced has a timer that will decide
\* it, and an armed timer has its outage.
THEOREM TimerCorrect == Spec => []TimerMatchesEntry
<1>1. Outages => TimerMatchesEntry
  BY DEF Outages
<1> QED
  BY <1>1, HubTypeInit, TypeStep, OutagesInit, OutagesStep, PTL DEF Spec

-----------------------------------------------------------------------------
(* The notifications, sent and on their way. The sets of goroutines that   *)
(* have one to send stay finite, and every step moves at most one of them  *)
(* in or out.                                                              *)

Answering == UpsAnswerDowns /\ IsFiniteSet(Leaving) /\ IsFiniteSet(Returning)

LEMMA AnsweringInit == Init => Answering
<1> SUFFICES ASSUME Init PROVE Answering
  OBVIOUS
<1>1. Leaving = {} /\ Returning = {} /\ ups = 0 /\ downs = 0 /\ notified = FALSE
  BY DEF Init, HubInit, Leaving, Returning
<1> QED
  BY <1>1, FS_EmptySet DEF Answering, UpsAnswerDowns

\* What is sent or on its way does not change where no goroutine decides or sends.
LEMMA AnsweringAsBefore ==
  ASSUME Answering, UNCHANGED <<ups, downs>>, Leaving' = Leaving, Returning' = Returning,
         notified' => notified,
         notified \in BOOLEAN, notified' \in BOOLEAN, ups \in Nat, downs \in Nat
  PROVE  Answering'
<1>1. Cardinality(Leaving) \in Nat /\ Cardinality(Returning) \in Nat
  BY FS_CardinalityType DEF Answering
<1> QED
  BY <1>1 DEF Answering, UpsAnswerDowns

LEMMA AnsweringStep == TypeOK /\ TypeOK' /\ Outages /\ Answering /\ [Next]_vars => Answering'
<1> SUFFICES ASSUME TypeOK, TypeOK', Outages, Answering, [Next]_vars PROVE Answering'
  OBVIOUS
<1>1. /\ stage \in [Conns -> Stages] /\ timer \in [Conns -> Timers]
      /\ downs \in Nat /\ ups \in Nat /\ notified \in BOOLEAN /\ notified' \in BOOLEAN
  BY DEF TypeOK, HubTypeOK
<1>2. /\ Cardinality(Leaving) \in Nat /\ Cardinality(Returning) \in Nat
      /\ IsFiniteSet(Leaving) /\ IsFiniteSet(Returning)
  BY FS_CardinalityType DEF Answering
<1>3. ASSUME HubNext, UNCHANGED notifyVars PROVE Answering'
  <2>1. \A c \in Conns : (stage'[c] = "recover") = (stage[c] = "recover")
    BY <1>1, <1>3
    DEF HubNext, Serving, Closing, Dial, Register, SendAck, Heartbeat, FallSilent, Drop,
        Unregister, ScanSilent, ForceDisconnect, Approve, Revoke, Move, hubVars
  <2> QED
    BY <1>1, <1>3, <2>1, AnsweringAsBefore DEF Leaving, Returning, notifyVars
<1>4. ASSUME NEW c \in Conns, OnConnected(c) PROVE Answering'
  <2>1. Leaving' = Leaving
    BY <1>1, <1>4 DEF OnConnected, DropEntry, Leaving
  <2>2. UNCHANGED <<ups, downs>> /\ notified' = FALSE
    BY <1>4 DEF OnConnected, DropEntry
  <2>3. CASE Announced
    <3>1. c \notin Returning /\ Returning' = Returning \cup {c}
      BY <1>1, <1>4, <2>3 DEF OnConnected, Move, Returning
    <3>2. IsFiniteSet(Returning') /\ Cardinality(Returning') = Cardinality(Returning) + 1
      BY <1>2, <3>1, FS_AddElement
    <3> QED
      BY <1>1, <1>2, <2>1, <2>2, <2>3, <3>2 DEF Answering, UpsAnswerDowns, Announced
  <2>4. CASE ~Announced
    <3>1. Returning' = Returning
      BY <1>1, <1>4, <2>4 DEF OnConnected, Move, Returning
    <3> QED
      BY <1>1, <2>1, <2>2, <3>1, AnsweringAsBefore
  <2> QED
    BY <2>3, <2>4
<1>5. ASSUME NEW c \in Conns, Recover(c) PROVE Answering'
  <2>1. c \in Returning /\ Returning' = Returning \ {c}
    BY <1>1, <1>5 DEF Recover, Move, Returning
  <2>2. IsFiniteSet(Returning') /\ Cardinality(Returning') = Cardinality(Returning) - 1
    BY <1>2, <2>1, FS_RemoveElement
  <2>3. Leaving' = Leaving /\ UNCHANGED <<downs, notified>> /\ ups' \in {ups, ups + 1}
    BY <1>5 DEF Recover, Leaving
  <2> QED
    BY <1>1, <1>2, <2>2, <2>3 DEF Answering, UpsAnswerDowns
<1>6. ASSUME NEW c \in Conns, OnDisconnected(c) \/ Arm(c) PROVE Answering'
  <2>1. Returning' = Returning
    BY <1>1, <1>6 DEF OnDisconnected, Arm, Move, Returning
  <2>2. Leaving' = Leaving
    <3>1. CASE timer' = timer
      BY <3>1 DEF Leaving
    <3>2. CASE timer' # timer
      <4>1. stage[c] = "arm" /\ timer' = [timer EXCEPT ![c] = "armed"]
        BY <1>6, <3>2 DEF OnDisconnected, Arm, notifyVars
      <4>2. timer[c] = "unset"
        BY <4>1 DEF Outages
      <4> QED
        BY <1>1, <4>1, <4>2 DEF Leaving
    <3> QED
      BY <3>1, <3>2
  <2>3. UNCHANGED <<ups, downs>> /\ (notified' => notified)
    BY <1>6 DEF OnDisconnected, Arm, notifyVars
  <2> QED
    BY <1>1, <2>1, <2>2, <2>3, AnsweringAsBefore
<1>7. ASSUME NEW t \in Conns, Fire(t) \/ Ask(t) \/ Clear(t) PROVE Answering'
  <2>1. Returning' = Returning /\ UNCHANGED <<ups, downs>> /\ (notified' => notified)
    BY <1>7 DEF Fire, Ask, Clear, Returning, hubState, hubVars
  <2>2. \A u \in Conns : (timer'[u] = "emit") = (timer[u] = "emit")
    BY <1>1, <1>7 DEF Fire, Ask, Clear, Step
  <2> QED
    BY <1>1, <2>1, <2>2, AnsweringAsBefore DEF Leaving
<1>8. ASSUME NEW t \in Conns, Confirm(t) PROVE Answering'
  <2>1. Returning' = Returning /\ UNCHANGED <<ups, downs>>
    BY <1>8 DEF Confirm, Returning, hubState, hubVars
  <2>2. CASE pending = NoConn
    <3>1. Leaving' = Leaving /\ notified' = notified
      BY <1>1, <1>8, <2>2 DEF Confirm, Step, Leaving
    <3> QED
      BY <1>1, <2>1, <3>1, AnsweringAsBefore
  <2>3. CASE pending # NoConn
    <3>1. t \notin Leaving /\ Leaving' = Leaving \cup {t}
      BY <1>1, <1>8, <2>3 DEF Confirm, Step, Leaving
    <3>2. IsFiniteSet(Leaving') /\ Cardinality(Leaving') = Cardinality(Leaving) + 1
      BY <1>2, <3>1, FS_AddElement
    <3> QED
      BY <1>1, <1>2, <2>1, <3>2 DEF Answering, UpsAnswerDowns
  <2> QED
    BY <2>2, <2>3
<1>9. ASSUME NEW t \in Conns, Emit(t) PROVE Answering'
  <2>1. t \in Leaving /\ Leaving' = Leaving \ {t}
    BY <1>1, <1>9 DEF Emit, Step, Leaving
  <2>2. IsFiniteSet(Leaving') /\ Cardinality(Leaving') = Cardinality(Leaving) - 1
    BY <1>2, <2>1, FS_RemoveElement
  <2>3. Returning' = Returning /\ UNCHANGED <<ups, notified>> /\ downs' = downs + 1
    BY <1>9 DEF Emit, Returning, hubState, hubVars
  <2> QED
    BY <1>1, <1>2, <2>2, <2>3 DEF Answering, UpsAnswerDowns
<1>10. CASE SetOfflineNotify \/ UNCHANGED vars
  <2>1. UNCHANGED <<stage, notifyVars>>
    BY <1>10 DEF SetOfflineNotify, vars, hubState, hubVars
  <2> QED
    BY <1>1, <2>1, AnsweringAsBefore DEF notifyVars, Leaving, Returning
<1> QED
  BY <1>3, <1>4, <1>5, <1>6, <1>7, <1>8, <1>9, <1>10 DEF Next, Calling, Confirming

\* Every AGENT_UP answers an AGENT_DOWN of its own, sent or on its way.
THEOREM UpsCorrect == Spec => []UpsAnswerDowns
<1>1. Answering => UpsAnswerDowns
  BY DEF Answering
<1> QED
  BY <1>1, HubTypeInit, TypeStep, OutagesInit, OutagesStep, AnsweringInit, AnsweringStep, PTL
  DEF Spec

-----------------------------------------------------------------------------
(* Outages that are watched. While nobody edits the node and its row can   *)
(* be read, it is worth a notification; a node without a connection has an *)
(* entry, or a callback under way that will make one, or has never been    *)
(* registered.                                                             *)

Watched ==
  /\ edits = 0 => Wanted
  /\ Orderly /\ conns = NoConn =>
       \/ pending # NoConn
       \/ \E c \in Conns : stage[c] \in Departing
       \/ \A c \in Conns : stage[c] \in {"new", "dialed"}

LEMMA WatchedInit == Init => Watched
BY DEF Init, HubInit, Watched, Wanted

\* A step that leaves the goroutines of the node where they are, or moves some of
\* them on between register and unregister, disturbs nothing.
LEMMA WatchedAsBefore ==
  ASSUME Watched, UNCHANGED <<pending, status, offlineNotify>>, edits' = edits,
         Orderly' => Orderly,
         conns' = NoConn => conns = NoConn,
         \A c \in Conns : stage[c] \in Departing => stage'[c] \in Departing,
         \A c \in Conns : stage'[c] \notin {"new", "dialed"} =>
                            stage[c] \notin {"new", "dialed"} \/ conns' # NoConn
  PROVE  Watched'
BY DEF Watched, Wanted

LEMMA WatchedStep == TypeOK /\ Watched /\ [Next]_vars => Watched'
<1> SUFFICES ASSUME TypeOK, Watched, [Next]_vars PROVE Watched'
  OBVIOUS
<1> USE ConnsAssumption
<1>1. /\ stage \in [Conns -> Stages] /\ conns \in Conns \cup {NoConn}
      /\ pending \in Conns \cup {NoConn} /\ edits \in Nat /\ faults \in Nat
      /\ overtaken \in BOOLEAN /\ outdated \in BOOLEAN
  BY DEF TypeOK, HubTypeOK
<1>2. ASSUME NEW c \in Conns, Serving(c),
             UNCHANGED <<offlineNotify, notifyVars, faults, overtaken, outdated>>
      PROVE  Watched'
  <2> USE <1>1, <1>2 DEF Orderly, notifyVars, adminVars, Move, Departing
  <2>1. CASE Dial(c)
    <3>1. status' = status \/ (status = "deleted" /\ edits # 0)
      BY <2>1 DEF Dial, Watched, Wanted
    <3> QED
      BY <2>1, <3>1 DEF Dial, Watched, Wanted
  <2>2. CASE Register(c)
    BY <2>2 DEF Register, Watched, Wanted
  <2>3. CASE SendAck(c) \/ Drop(c)
    BY <2>3, WatchedAsBefore DEF SendAck, Drop
  <2>4. CASE Heartbeat(c) \/ FallSilent(c)
    BY <2>4, WatchedAsBefore DEF Heartbeat, FallSilent
  <2>5. CASE Unregister(c)
    <3>1. CASE conns = c
      BY <2>5, <3>1 DEF Unregister, Watched, Wanted
    <3>2. CASE conns # c
      BY <2>5, <3>2, WatchedAsBefore DEF Unregister
    <3> QED
      BY <3>1, <3>2
  <2> QED
    BY <1>2, <2>1, <2>2, <2>3, <2>4, <2>5 DEF Serving
<1>3. ASSUME Closing, UNCHANGED <<offlineNotify, notifyVars, faults, overtaken, outdated>>
      PROVE  Watched'
  <2>1. UNCHANGED <<conns, stage>> /\ (UNCHANGED <<status, edits>> \/ edits' = edits + 1)
    BY <1>3 DEF Closing, ScanSilent, ForceDisconnect, Approve, Revoke, Edited, hubVars
  <2> QED
    BY <1>1, <1>3, <2>1 DEF Watched, Wanted, Orderly, notifyVars
<1>4. ASSUME NEW c \in Conns, OnConnected(c) PROVE Watched'
  <2>1. Orderly' => conns' # NoConn
    BY <1>1, <1>4 DEF OnConnected, Orderly
  <2> QED
    BY <1>4, <2>1 DEF OnConnected, Watched, Wanted, adminVars
<1>5. ASSUME NEW c \in Conns, OnDisconnected(c) PROVE Watched'
  <2>1. Orderly' => Orderly /\ stage' = [stage EXCEPT ![c] = "arm"]
    BY <1>1, <1>5 DEF OnDisconnected, Works, Fails, Orderly, Watched, Move, adminVars
  <2>2. Orderly' => stage'[c] \in Departing
    BY <1>1, <2>1 DEF Departing
  <2> QED
    BY <1>5, <2>2 DEF OnDisconnected, Watched, Wanted, adminVars
<1>6. ASSUME NEW c \in Conns, Arm(c) PROVE Watched'
  <2>1. pending' # NoConn
    BY <1>1, <1>6 DEF Arm
  <2> QED
    BY <1>6, <2>1 DEF Arm, Watched, Wanted, adminVars
<1>7. ASSUME NEW t \in Conns, Fire(t) \/ Ask(t) \/ Confirm(t) \/ Emit(t) PROVE Watched'
  <2>1. UNCHANGED <<hubState, offlineNotify, pending, overtaken, outdated>>
    BY <1>7 DEF Fire, Ask, Confirm, Emit
  <2>2. Orderly' => Orderly
    BY <1>1, <1>7, <2>1 DEF Fire, Ask, Confirm, Emit, Works, Fails, Orderly, hubState, adminVars
  <2> QED
    BY <2>1, <2>2, WatchedAsBefore DEF hubState, hubVars, adminVars
<1>8. ASSUME NEW t \in Conns, Clear(t) PROVE Watched'
  <2>1. UNCHANGED <<hubState, offlineNotify>> /\ (Orderly' => conns' # NoConn)
    BY <1>8 DEF Clear, Orderly, hubState, hubVars
  <2> QED
    BY <2>1 DEF Watched, Wanted, hubState, adminVars
<1>9. CASE SetOfflineNotify
  BY <1>1, <1>9 DEF SetOfflineNotify, Edited, Watched, Orderly
<1>10. CASE UNCHANGED vars
  BY <1>10 DEF vars, hubState, hubVars, adminVars, notifyVars, Watched, Wanted, Orderly
<1>11. ASSUME NEW c \in Conns, Recover(c) PROVE Watched'
  <2>1. Orderly' => Orderly
    BY <1>1, <1>11 DEF Recover, Works, Fails, Orderly, adminVars
  <2> QED
    BY <1>1, <1>11, <2>1, WatchedAsBefore DEF Recover, Move, Departing, adminVars
<1> QED
  BY <1>2, <1>3, <1>4, <1>5, <1>6, <1>7, <1>8, <1>9, <1>10, <1>11
  DEF Next, HubNext, Calling, Confirming

\* A node that is away has an entry, announced or about to be, unless it was edited
\* or could not be read, or a callback or a timer acted on what had ceased to hold.
THEOREM OutageCorrect == Spec => []OutageIsWatched
<1>1. Watched => OutageIsWatched
  BY DEF Watched, OutageIsWatched, Away
<1> QED
  BY <1>1, HubTypeInit, TypeStep, WatchedInit, WatchedStep, PTL DEF Spec
=============================================================================
