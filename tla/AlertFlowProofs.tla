--------------------------- MODULE AlertFlowProofs ---------------------------
(***************************************************************************)
(* What TLAPS proves of AlertFlow, for any finalizers, rounds, edits of n  *)
(* and any number of pauses, failing operations and crashes.               *)
(***************************************************************************)
EXTENDS AlertFlow, FiniteSetTheorems, SequenceTheorems, TLAPS

-----------------------------------------------------------------------------
(* The machine and the history.                                            *)

LEMMA ApplyType ==
  ASSUME NEW s \in States, NEW kind \in Kinds, NEW n
  PROVE  Apply(s, kind, n) \in States
BY DEF Apply, States, Kinds, Fresh

\* Appending an entry leaves the entries before it alone.
LEMMA Grown ==
  ASSUME NEW h \in Seq(Entries), NEW e \in Entries
  PROVE  /\ Append(h, e) \in Seq(Entries)
         /\ Len(h) \in Nat
         /\ Len(Append(h, e)) = Len(h) + 1
         /\ Append(h, e)[Len(h) + 1] = e
         /\ \A k \in 1..Len(h) : Append(h, e)[k] = h[k]
OBVIOUS

\* A position ends one run only.
LEMMA RunIsUnique ==
  ASSUME NEW h, NEW i \in Nat, NEW c \in Nat, NEW d \in Nat,
         EndsRun(h, i, c), EndsRun(h, i, d)
  PROVE  c = d
<1>1. ASSUME NEW x \in Nat, NEW y \in Nat, x < y, EndsRun(h, i, x), EndsRun(h, i, y)
      PROVE  FALSE
  <2>1. i - x \in (i - y + 1)..i
    BY <1>1 DEF EndsRun
  <2> QED
    BY <2>1, <1>1 DEF EndsRun
<1> QED
  BY <1>1

\* The runs that end before the appended entry stay what they were.
LEMMA RunIsLocal ==
  ASSUME NEW h \in Seq(Entries), NEW e \in Entries, NEW i \in 0..Len(h), NEW c \in Nat
  PROVE  EndsRun(Append(h, e), i, c) <=> EndsRun(h, i, c)
<1>1. \A k \in 1..Len(h) : Append(h, e)[k] = h[k]
  BY Grown
<1>2. CASE c > i
  BY <1>2 DEF EndsRun
<1>3. CASE c <= i
  <2>1. (i - c + 1)..i \subseteq 1..Len(h) /\ (c < i => i - c \in 1..Len(h))
    BY <1>3
  <2> QED
    BY <1>1, <1>3, <2>1 DEF EndsRun
<1> QED
  BY <1>2, <1>3

\* A bad round extends the run by one; anything else ends it.
LEMMA RunGrows ==
  ASSUME NEW h \in Seq(Entries), NEW e \in Entries, NEW c \in Nat, EndsRun(h, Len(h), c)
  PROVE  EndsRun(Append(h, e), Len(h) + 1, IF e.kind = "bad" THEN c + 1 ELSE 0)
<1> DEFINE g == Append(h, e)
           l == Len(h)
<1>1. l \in Nat /\ g[l + 1] = e /\ \A k \in 1..l : g[k] = h[k]
  BY Grown
<1>2. CASE e.kind = "bad"
  <2>1. c + 1 <= l + 1
    BY <1>1 DEF EndsRun
  <2>2. ASSUME NEW k \in ((l + 1) - (c + 1) + 1)..(l + 1)
        PROVE  g[k].kind = "bad"
    <3>1. k = l + 1 \/ k \in (l - c + 1)..l
      BY <1>1
    <3>2. (l - c + 1)..l \subseteq 1..l
      BY <1>1 DEF EndsRun
    <3> QED
      BY <3>1, <3>2, <1>1, <1>2 DEF EndsRun
  <2>3. c + 1 < l + 1 => g[(l + 1) - (c + 1)].kind # "bad"
    <3> SUFFICES ASSUME c < l PROVE g[l - c].kind # "bad"
      BY <1>1
    <3> QED
      BY <1>1 DEF EndsRun
  <2> HIDE DEF g, l
  <2> QED
    BY <1>2, <2>1, <2>2, <2>3 DEF EndsRun
<1>3. CASE e.kind # "bad"
  <2>1. g[(l + 1) - 0].kind # "bad" /\ 0 <= l + 1
    BY <1>1, <1>3
  <2>2. ((l + 1) - 0 + 1)..(l + 1) = {}
    BY <1>1
  <2> HIDE DEF g, l
  <2> QED
    BY <1>3, <2>1, <2>2 DEF EndsRun
<1> QED
  BY <1>2, <1>3

\* After a bad round the monitor is down if the run is long enough or it was.
LEMMA DownAfterBad ==
  ASSUME NEW h \in Seq(Entries), NEW e \in Entries, NEW c \in Nat,
         EndsRun(h, Len(h), c), e.kind = "bad"
  PROVE  IsDown(Append(h, e)) <=> c + 1 >= e.n \/ IsDown(h)
<1> DEFINE g == Append(h, e)
           l == Len(h)
<1>1. /\ l \in Nat /\ Len(g) = l + 1 /\ g[l + 1] = e
      /\ \A k \in 1..l : g[k] = h[k]
  BY Grown
<1>2. EndsRun(g, l + 1, c + 1) /\ c + 1 \in 1..(l + 1)
  BY RunGrows, <1>1 DEF EndsRun
<1>3. ASSUME c + 1 >= e.n PROVE IsDown(g)
  <2>1. /\ \E d \in 1..(l + 1) : EndsRun(g, l + 1, d) /\ d >= g[l + 1].n
        /\ \A k \in ((l + 1) + 1)..(l + 1) : g[k].kind \in {"bad", "reset"}
    BY <1>1, <1>2, <1>3
  <2> HIDE DEF g, l
  <2> QED
    BY <1>1, <2>1 DEF IsDown
<1>4. ASSUME IsDown(h) PROVE IsDown(g)
  <2>1. PICK i \in 1..l : /\ \E d \in 1..i : EndsRun(h, i, d) /\ d >= h[i].n
                          /\ \A k \in (i + 1)..l : h[k].kind \in {"bad", "reset"}
    BY <1>4 DEF IsDown
  <2>2. \E d \in 1..i : EndsRun(g, i, d) /\ d >= g[i].n
    <3>1. PICK d \in 1..i : EndsRun(h, i, d) /\ d >= h[i].n
      BY <2>1
    <3>2. EndsRun(g, i, d)
      BY <3>1, <1>1, RunIsLocal
    <3> QED
      BY <1>1, <3>1, <3>2
  <2>3. \A k \in (i + 1)..(l + 1) : g[k].kind \in {"bad", "reset"}
    <3> TAKE k \in (i + 1)..(l + 1)
    <3>1. k = l + 1 \/ k \in (i + 1)..l
      BY <1>1
    <3> QED
      BY <3>1, <2>1, <1>1
  <2> HIDE DEF g, l
  <2> QED
    BY <1>1, <2>2, <2>3 DEF IsDown
<1>5. ASSUME IsDown(g) PROVE c + 1 >= e.n \/ IsDown(h)
  <2>1. PICK i \in 1..(l + 1) :
             /\ \E d \in 1..i : EndsRun(g, i, d) /\ d >= g[i].n
             /\ \A k \in (i + 1)..(l + 1) : g[k].kind \in {"bad", "reset"}
    BY <1>5, <1>1 DEF IsDown
  <2>2. CASE i = l + 1
    <3>1. PICK d \in 1..(l + 1) : EndsRun(g, l + 1, d) /\ d >= e.n
      BY <2>1, <2>2, <1>1
    <3>2. d = c + 1
      <4> HIDE DEF g
      <4> QED
        BY <3>1, <1>1, <1>2, RunIsUnique
    <3> QED
      BY <3>1, <3>2
  <2>3. CASE i \in 1..l
    <3>1. \E d \in 1..i : EndsRun(h, i, d) /\ d >= h[i].n
      <4>1. PICK d \in 1..i : EndsRun(g, i, d) /\ d >= g[i].n
        BY <2>1
      <4>2. EndsRun(h, i, d)
        BY <4>1, <2>3, <1>1, RunIsLocal
      <4> QED
        BY <4>1, <4>2, <2>3, <1>1
    <3>2. \A k \in (i + 1)..l : h[k].kind \in {"bad", "reset"}
      BY <2>1, <2>3, <1>1
    <3> QED
      BY <2>3, <3>1, <3>2 DEF IsDown
  <2> QED
    BY <2>1, <2>2, <2>3, <1>1
<1> QED
  BY <1>3, <1>4, <1>5

\* A reset leaves the alert alone.
LEMMA DownAfterReset ==
  ASSUME NEW h \in Seq(Entries), NEW e \in Entries, e.kind = "reset"
  PROVE  IsDown(Append(h, e)) <=> IsDown(h)
<1> DEFINE g == Append(h, e)
           l == Len(h)
<1>1. /\ l \in Nat /\ Len(g) = l + 1 /\ g[l + 1] = e
      /\ \A k \in 1..l : g[k] = h[k]
  BY Grown
<1>2. ASSUME NEW i \in 1..(l + 1), NEW d \in 1..i, EndsRun(g, i, d)
      PROVE  i \in 1..l
  <2>1. g[i].kind = "bad"
    <3>1. i \in (i - d + 1)..i
      OBVIOUS
    <3> HIDE DEF g
    <3> QED
      BY <1>2, <3>1 DEF EndsRun
  <2> QED
    BY <2>1, <1>1
<1>3. ASSUME NEW i \in 1..l, NEW d \in 1..i
      PROVE  /\ EndsRun(g, i, d) <=> EndsRun(h, i, d)
             /\ g[i] = h[i]
  BY <1>1, RunIsLocal
<1>4. ASSUME NEW i \in 1..l
      PROVE  (\A k \in (i + 1)..(l + 1) : g[k].kind \in {"bad", "reset"})
               <=> (\A k \in (i + 1)..l : h[k].kind \in {"bad", "reset"})
  <2>1. \A k \in (i + 1)..(l + 1) : k = l + 1 \/ k \in (i + 1)..l
    BY <1>1
  <2>2. \A k \in (i + 1)..l : k \in (i + 1)..(l + 1) /\ g[k] = h[k]
    BY <1>1
  <2> HIDE DEF g, l
  <2> QED
    BY <2>1, <2>2, <1>1
<1>5. 1..l \subseteq 1..(l + 1)
  BY <1>1
<1> HIDE DEF g, l
<1>6. IsDown(g) <=> \E i \in 1..(l + 1) :
                      /\ \E d \in 1..i : EndsRun(g, i, d) /\ d >= g[i].n
                      /\ \A k \in (i + 1)..(l + 1) : g[k].kind \in {"bad", "reset"}
  BY <1>1 DEF IsDown
<1>7. IsDown(h) <=> \E i \in 1..l :
                      /\ \E d \in 1..i : EndsRun(h, i, d) /\ d >= h[i].n
                      /\ \A k \in (i + 1)..l : h[k].kind \in {"bad", "reset"}
  BY DEF IsDown, l
<1> QED
  <2>1. IsDown(g) => IsDown(h)
    <3> HAVE IsDown(g)
    <3>1. PICK i \in 1..(l + 1) :
               /\ \E d \in 1..i : EndsRun(g, i, d) /\ d >= g[i].n
               /\ \A k \in (i + 1)..(l + 1) : g[k].kind \in {"bad", "reset"}
      BY <1>6
    <3>2. i \in 1..l
      BY <3>1, <1>2
    <3> QED
      BY <3>1, <3>2, <1>3, <1>4, <1>7
  <2>2. IsDown(h) => IsDown(g)
    <3> HAVE IsDown(h)
    <3>1. PICK i \in 1..l :
               /\ \E d \in 1..i : EndsRun(h, i, d) /\ d >= h[i].n
               /\ \A k \in (i + 1)..l : h[k].kind \in {"bad", "reset"}
      BY <1>7
    <3> QED
      BY <3>1, <1>3, <1>4, <1>5, <1>6
  <2> QED
    BY <2>1, <2>2 DEF g

\* A good round and a removal leave nothing down.
LEMMA UpAfterTheRest ==
  ASSUME NEW h \in Seq(Entries), NEW e \in Entries, e.kind \in {"good", "removed"}
  PROVE  ~IsDown(Append(h, e))
<1> DEFINE g == Append(h, e)
           l == Len(h)
<1>1. l \in Nat /\ Len(g) = l + 1 /\ g[l + 1] = e
  BY Grown
<1> HIDE DEF g, l
<1> SUFFICES ASSUME IsDown(g) PROVE FALSE
  BY DEF g
<1>2. PICK i \in 1..(l + 1) :
           /\ \E d \in 1..i : EndsRun(g, i, d)
           /\ \A k \in (i + 1)..(l + 1) : g[k].kind \in {"bad", "reset"}
  BY <1>1 DEF IsDown
<1>3. i = l + 1
  <2>1. i < l + 1 => l + 1 \in (i + 1)..(l + 1)
    BY <1>1
  <2> QED
    BY <1>1, <1>2, <2>1
<1>4. g[i].kind = "bad"
  <2>1. PICK d \in 1..i : EndsRun(g, i, d)
    BY <1>2
  <2>2. i \in (i - d + 1)..i
    BY <1>1
  <2> QED
    BY <2>1, <2>2 DEF EndsRun
<1> QED
  BY <1>1, <1>3, <1>4

\* What a step of the machine does to a state that follows the history.
LEMMA FollowsOn ==
  ASSUME NEW h \in Seq(Entries), NEW s \in States, Follows(s, h), NEW n \in Nat
  PROVE  /\ \A kind \in {"good", "bad"} :
              Follows(Apply(s, kind, n), Append(h, [kind |-> kind, n |-> n]))
         /\ Follows([s EXCEPT !.cons = 0], Append(h, [kind |-> "reset", n |-> n]))
         /\ Follows(Fresh, Append(h, [kind |-> "removed", n |-> n]))
<1> DEFINE entry(kind) == [kind |-> kind, n |-> n]
<1>1. \A kind \in {"good", "bad", "reset", "removed"} :
        /\ entry(kind) \in Entries
        /\ entry(kind).kind = kind /\ entry(kind).n = n
        /\ Len(Append(h, entry(kind))) = Len(h) + 1
  BY DEF Entries
<1>2. /\ s.cons \in Nat /\ s.alert \in {"UP", "DOWN"}
      /\ EndsRun(h, Len(h), s.cons) /\ (s.alert = "DOWN" <=> IsDown(h))
  BY DEF States, Follows
<1>3. /\ Fresh.cons = 0 /\ Fresh.alert = "UP"
      /\ [s EXCEPT !.cons = 0].cons = 0 /\ [s EXCEPT !.cons = 0].alert = s.alert
  BY DEF States, Fresh
<1> HIDE DEF entry
<1>4. Follows(Apply(s, "bad", n), Append(h, entry("bad")))
  <2>1. /\ Apply(s, "bad", n).cons = s.cons + 1
        /\ Apply(s, "bad", n).alert = IF s.cons + 1 >= n THEN "DOWN" ELSE s.alert
    BY DEF Apply
  <2>2. EndsRun(Append(h, entry("bad")), Len(h) + 1, s.cons + 1)
    BY <1>1, <1>2, RunGrows
  <2>3. IsDown(Append(h, entry("bad"))) <=> s.cons + 1 >= n \/ IsDown(h)
    BY <1>1, <1>2, DownAfterBad
  <2> QED
    BY <1>1, <1>2, <2>1, <2>2, <2>3 DEF Follows
<1>5. \A kind \in {"good", "reset", "removed"} :
        EndsRun(Append(h, entry(kind)), Len(h) + 1, 0)
  BY <1>1, <1>2, RunGrows
<1>6. Follows(Apply(s, "good", n), Append(h, entry("good")))
  <2>1. Apply(s, "good", n) = Fresh
    BY DEF Apply
  <2> QED
    BY <1>1, <1>3, <1>5, <2>1, UpAfterTheRest DEF Follows
<1>7. Follows([s EXCEPT !.cons = 0], Append(h, entry("reset")))
  BY <1>1, <1>2, <1>3, <1>5, DownAfterReset DEF Follows
<1>8. Follows(Fresh, Append(h, entry("removed")))
  BY <1>1, <1>3, <1>5, UpAfterTheRest DEF Follows
<1> QED
  BY <1>4, <1>6, <1>7, <1>8 DEF entry

-----------------------------------------------------------------------------
(* Types.                                                                  *)

\* A finalizer that is at work has a round.
Shape == \A t \in Finalizers : pc[t] # "idle" => work[t].round \in Rounds

FlowType == TypeOK /\ Shape

LEMMA FreshType == Fresh \in States /\ NoWork \in Work /\ Quiet.saw = Fresh /\ Quiet.pc = "idle"
BY DEF Fresh, States, NoWork, Work, Kinds, Quiet

LEMMA NeedsAreNat == Needs \subseteq Nat /\ Needs \cup {0} \subseteq Nat
BY NeedsAssumption

\* What a finalizer computes is a state, and its flip a record of a change.
LEMMA AfterType ==
  ASSUME FlowType, NEW t \in Finalizers, pc[t] # "idle"
  PROVE  /\ After(t) \in States
         /\ Flip(t) \in Changes
         /\ work[t].kind \in Kinds /\ snap[work[t].round] \in Nat
<1>1. work[t].round \in Rounds /\ work[t].kind \in Kinds /\ seen[t] \in States
  BY DEF FlowType, TypeOK, Shape, Work
<1>2. snap[work[t].round] \in Nat
  BY <1>1, NeedsAreNat DEF FlowType, TypeOK
<1>3. After(t) \in States
  BY <1>1, ApplyType DEF After
<1> QED
  BY <1>1, <1>2, <1>3 DEF Flip, Changes, States

\* A failing operation is counted.
LEMMA FaultsType == TypeOK /\ (Works \/ Fails) => faults' \in Nat
BY DEF TypeOK, Works, Fails

LEMMA FlowTypeInit == Init => FlowType
<1> SUFFICES ASSUME Init PROVE FlowType
  OBVIOUS
<1>1. <<>> \in Seq(Changes) /\ <<>> \in Seq(Entries)
  OBVIOUS
<1> QED
  BY <1>1, FreshType DEF Init, FlowType, TypeOK, Shape, Quiet

LEMMA FlowTypeStep == FlowType /\ [Next]_vars => FlowType'
<1> SUFFICES ASSUME FlowType, [Next]_vars PROVE FlowType'
  OBVIOUS
<1> USE DEF FlowType
<1>1. ASSUME NEW r \in Rounds, CreateRound(r) PROVE FlowType'
  BY <1>1 DEF CreateRound, TypeOK, Shape, monitorVars, rowVars, threadVars, boundVars
<1>2. ASSUME NEW t \in Finalizers, NEW r \in Rounds, NEW kind \in Kinds, Begin(t, r, kind)
      PROVE  FlowType'
  <2>1. [round |-> r, kind |-> kind] \in Work
    BY DEF Work
  <2>2. faults' \in Nat
    BY <1>2, FaultsType DEF Begin
  <2>3. CASE pc[t] = "idle" /\ pc' = [pc EXCEPT ![t] = "read"]
             /\ work' = [work EXCEPT ![t] = [round |-> r, kind |-> kind]] /\ UNCHANGED seen
    BY <1>2, <2>1, <2>2, <2>3 DEF Begin, TypeOK, Shape, monitorVars, rowVars
  <2>4. CASE UNCHANGED threadVars
    BY <1>2, <2>2, <2>4 DEF Begin, TypeOK, Shape, monitorVars, rowVars, threadVars
  <2> QED
    BY <1>2, <2>3, <2>4 DEF Begin
<1>3. ASSUME NEW t \in Finalizers, Read(t) PROVE FlowType'
  <2>1. faults' \in Nat
    BY <1>3, FaultsType DEF Read
  <2>2. CASE pc' = [pc EXCEPT ![t] = "write"] /\ seen' = [seen EXCEPT ![t] = state]
             /\ UNCHANGED work
    BY <1>3, <2>1, <2>2 DEF Read, TypeOK, Shape, monitorVars, roundVars, rowVars
  <2>3. CASE Leave(t)
    BY <1>3, <2>1, <2>3, FreshType
    DEF Read, Leave, TypeOK, Shape, monitorVars, roundVars, rowVars
  <2> QED
    BY <1>3, <2>2, <2>3 DEF Read
<1>4. ASSUME NEW t \in Finalizers, Write(t) PROVE FlowType'
  <2>1. /\ After(t) \in States
        /\ work[t].kind \in Kinds /\ snap[work[t].round] \in Nat
    BY <1>4, AfterType DEF Write
  <2>2. /\ found' \in BOOLEAN /\ state' \in States /\ torn' \in BOOLEAN
        /\ history' \in Seq(Entries)
    <3>1. work[t].kind # "unknown" => [kind |-> work[t].kind, n |-> snap[work[t].round]] \in Entries
      BY <2>1 DEF Kinds, Entries
    <3>2. work[t].kind # "unknown"
            => Append(history, [kind |-> work[t].kind, n |-> snap[work[t].round]]) \in Seq(Entries)
      BY <3>1, AppendProperties DEF TypeOK
    <3> QED
      BY <1>4, <2>1, <3>2 DEF Write, Put, Log, TypeOK, rowVars
  <2>3. /\ pc' \in [Finalizers -> {"idle", "read", "write", "record", "tell"}]
        /\ work' \in [Finalizers -> Work] /\ seen' \in [Finalizers -> States]
        /\ Shape' /\ faults' \in Nat
    <3>1. faults' \in Nat
      BY <1>4, FaultsType DEF Write
    <3>2. CASE Goto(t, "record")
      BY <1>4, <3>1, <3>2 DEF Write, Goto, TypeOK, Shape, roundVars
    <3>3. CASE Leave(t)
      BY <1>4, <3>1, <3>3, FreshType DEF Write, Leave, TypeOK, Shape, roundVars
    <3> QED
      BY <1>4, <3>2, <3>3 DEF Write
  <2> QED
    BY <1>4, <2>2, <2>3 DEF Write, TypeOK, monitorVars, roundVars
<1>5. ASSUME NEW t \in Finalizers, Record(t) PROVE FlowType'
  <2>1. changes' \in Seq(Changes)
    <3>1. Flip(t) \in Changes
      BY <1>5, AfterType DEF Record
    <3>2. changes' = Append(changes, Flip(t)) \/ changes' = changes
      BY <1>5 DEF Record, Works, Fails
    <3>3. Append(changes, Flip(t)) \in Seq(Changes) /\ changes \in Seq(Changes)
      BY <3>1, AppendProperties DEF TypeOK
    <3> QED
      BY <3>2, <3>3
  <2> QED
    <3>1. faults' \in Nat
      BY <1>5, FaultsType DEF Record
    <3> QED
      BY <1>5, <2>1, <3>1 DEF Record, Goto, TypeOK, Shape, monitorVars, roundVars, rowVars
<1>6. ASSUME NEW t \in Finalizers, Tell(t) PROVE FlowType'
  <2>1. told' \in Seq(Changes)
    <3>1. Flip(t) \in Changes
      BY <1>6, AfterType DEF Tell
    <3> QED
      BY <1>6, <3>1 DEF Tell, TypeOK
  <2> QED
    BY <1>6, <2>1, FreshType
    DEF Tell, Leave, TypeOK, Shape, monitorVars, roundVars, rowVars, boundVars
<1>7. ASSUME NEW n \in Needs, NEW enabled \in BOOLEAN, Edit(n, enabled) PROVE FlowType'
  BY <1>7 DEF Edit, TypeOK, Shape, roundVars, rowVars, threadVars, boundVars
<1>8. CASE PauseOne \/ PauseRead \/ PauseBatch \/ Resume
  BY <1>8, FreshType
  DEF PauseOne, PauseRead, PauseBatch, Resume, Works, Fails, Quiet, TypeOK, Shape,
      monitorVars, roundVars, rowVars, threadVars, boundVars
<1>9. [kind |-> "reset", n |-> 0] \in Entries /\ [kind |-> "removed", n |-> 0] \in Entries
  BY DEF Entries
<1>10. CASE PauseWrite
  <2>1. [api.saw EXCEPT !.cons = 0] \in States
    BY DEF TypeOK, States
  <2>2. history' \in Seq(Entries)
    <3>1. history' = Append(history, [kind |-> "reset", n |-> 0]) \/ history' = history
      BY <1>10 DEF PauseWrite, Log, Works, Fails, rowVars
    <3>2. /\ Append(history, [kind |-> "reset", n |-> 0]) \in Seq(Entries)
          /\ history \in Seq(Entries)
      BY <1>9, AppendProperties DEF TypeOK
    <3> QED
      BY <3>1, <3>2
  <2> QED
    <3>1. faults' \in Nat
      BY <1>10, FaultsType DEF PauseWrite
    <3>2. found' \in BOOLEAN /\ state' \in States /\ torn' \in BOOLEAN
      BY <1>10, <2>1 DEF PauseWrite, Put, TypeOK, rowVars
    <3> QED
      BY <1>10, <2>2, <3>1, <3>2, FreshType
      DEF PauseWrite, Quiet, TypeOK, Shape, monitorVars, roundVars, threadVars
<1>11. CASE ResetConsecutive
  <2>1. [state EXCEPT !.cons = 0] \in States
    BY DEF TypeOK, States
  <2>2. history' \in Seq(Entries)
    <3>1. history' = Append(history, [kind |-> "reset", n |-> 0]) \/ history' = history
      BY <1>11 DEF ResetConsecutive, Log, Works, Fails
    <3>2. /\ Append(history, [kind |-> "reset", n |-> 0]) \in Seq(Entries)
          /\ history \in Seq(Entries)
      BY <1>9, AppendProperties DEF TypeOK
    <3> QED
      BY <3>1, <3>2
  <2> QED
    <3>1. faults' \in Nat
      BY <1>11, FaultsType DEF ResetConsecutive
    <3>2. state' \in States
      BY <1>11, <2>1 DEF ResetConsecutive, TypeOK
    <3> QED
      BY <1>11, <2>2, <3>1, <3>2, FreshType
      DEF ResetConsecutive, Quiet, TypeOK, Shape, monitorVars, roundVars, threadVars
<1>12. CASE Delete
  <2>1. history' \in Seq(Entries)
    BY <1>9, <1>12 DEF Delete, Log, TypeOK
  <2>2. changes' \in Seq(Changes)
    BY <1>12 DEF Delete
  <2> QED
    BY <1>12, <2>1, <2>2, FreshType
    DEF Delete, TypeOK, Shape, roundVars, threadVars, boundVars
<1>13. CASE Crash
  BY <1>13, FreshType DEF Crash, Quiet, TypeOK, Shape, monitorVars, rowVars
<1>14. CASE UNCHANGED vars
  BY <1>14
  DEF TypeOK, Shape, vars, monitorVars, roundVars, rowVars, threadVars, boundVars
<1> QED
  BY <1>1, <1>2, <1>3, <1>4, <1>5, <1>6, <1>7, <1>8, <1>10, <1>11, <1>12, <1>13, <1>14
  DEF Next, Applying, Administration

\* Every variable of AlertFlow keeps its type.
THEOREM FlowTypeCorrect == Spec => []TypeOK
<1>1. FlowType => TypeOK
  BY DEF FlowType
<1> QED
  BY <1>1, FlowTypeInit, FlowTypeStep, PTL DEF Spec

-----------------------------------------------------------------------------
(* The state follows the history. A write that tears nothing was computed  *)
(* from the very state it overwrites, so that every write is a step of the *)
(* machine from a state that followed the history; no other invariant of   *)
(* the threads is needed.                                                  *)

LEMMA FollowsInit == Init => StateFollowsHistory
<1> SUFFICES ASSUME Init PROVE Follows(state, history)
  BY DEF StateFollowsHistory
<1>1. state = Fresh /\ history = <<>> /\ Len(history) = 0
  BY DEF Init
<1>2. EndsRun(history, 0, 0)
  BY DEF EndsRun
<1>3. ~IsDown(history)
  BY <1>1 DEF IsDown
<1> QED
  BY <1>1, <1>2, <1>3 DEF Follows, Fresh

LEMMA FollowsStep == FlowType /\ StateFollowsHistory /\ [Next]_vars => StateFollowsHistory'
<1> SUFFICES ASSUME FlowType, StateFollowsHistory, [Next]_vars, ~torn'
             PROVE  Follows(state, history)'
  BY DEF StateFollowsHistory
<1>1. state \in States /\ history \in Seq(Entries)
  BY DEF FlowType, TypeOK
<1>2. CASE UNCHANGED rowVars
  BY <1>2 DEF StateFollowsHistory, rowVars
<1>3. ASSUME NEW t \in Finalizers, Write(t) PROVE Follows(state, history)'
  <2>1. CASE UNCHANGED rowVars
    BY <1>2, <2>1
  <2>2. CASE /\ Put(After(t), seen[t])
             /\ IF work[t].kind = "unknown"
                  THEN UNCHANGED history
                  ELSE Log(work[t].kind, snap[work[t].round])
    <3>1. state' = Apply(state, work[t].kind, snap[work[t].round]) /\ Follows(state, history)
      BY <2>2 DEF Put, After, StateFollowsHistory
    <3>2. work[t].kind \in Kinds /\ snap[work[t].round] \in Nat
      BY <1>3, AfterType DEF Write
    <3>3. CASE work[t].kind = "unknown"
      BY <2>2, <3>1, <3>3 DEF Apply
    <3>4. CASE work[t].kind # "unknown"
      <4>1. work[t].kind \in {"good", "bad"}
        BY <3>2, <3>4 DEF Kinds
      <4>2. history' = Append(history, [kind |-> work[t].kind, n |-> snap[work[t].round]])
        BY <2>2, <3>4 DEF Log
      <4> QED
        BY <1>1, <3>1, <3>2, <4>1, <4>2, FollowsOn
    <3> QED
      BY <3>3, <3>4
  <2> QED
    BY <1>3, <2>1, <2>2 DEF Write
<1>4. CASE PauseWrite
  <2>1. CASE UNCHANGED rowVars
    BY <1>2, <2>1
  <2>2. CASE Put([api.saw EXCEPT !.cons = 0], api.saw) /\ Log("reset", 0)
    <3>1. /\ state' = [state EXCEPT !.cons = 0] /\ Follows(state, history)
          /\ history' = Append(history, [kind |-> "reset", n |-> 0])
      BY <2>2 DEF Put, Log, StateFollowsHistory
    <3> QED
      BY <1>1, <3>1, FollowsOn
  <2> QED
    BY <1>4, <2>1, <2>2 DEF PauseWrite
<1>5. CASE ResetConsecutive
  <2>1. Follows(state, history)
    BY <1>5 DEF ResetConsecutive, StateFollowsHistory
  <2>2. CASE UNCHANGED <<state, history>>
    BY <2>1, <2>2
  <2>3. CASE /\ state' = [state EXCEPT !.cons = 0]
             /\ history' = Append(history, [kind |-> "reset", n |-> 0])
    BY <1>1, <2>1, <2>3, FollowsOn
  <2> QED
    BY <1>5, <2>2, <2>3 DEF ResetConsecutive, Log
<1>6. CASE Delete
  <2>1. /\ Follows(state, history) /\ state' = Fresh
        /\ history' = Append(history, [kind |-> "removed", n |-> 0])
    BY <1>6 DEF Delete, Log, StateFollowsHistory
  <2> QED
    BY <1>1, <2>1, FollowsOn
<1>7. ASSUME NEW t \in Finalizers, Applying(t), ~Write(t) PROVE UNCHANGED rowVars
  BY <1>7 DEF Applying, Begin, Read, Record, Tell
<1>8. Administration => PauseWrite \/ ResetConsecutive \/ Delete \/ UNCHANGED rowVars
  BY DEF Administration, Edit, PauseOne, PauseRead, PauseBatch, Resume
<1>9. (\E r \in Rounds : CreateRound(r)) \/ Crash \/ UNCHANGED vars => UNCHANGED rowVars
  BY DEF CreateRound, Crash, vars
<1> QED
  BY <1>2, <1>3, <1>4, <1>5, <1>6, <1>7, <1>8, <1>9 DEF Next

\* As long as no write has overwritten a state its writer had not read, the
\* stored alert and count are what the history calls for.
THEOREM FollowsCorrect == Spec => []StateFollowsHistory
<1>1. FlowType /\ FlowType' /\ StateFollowsHistory /\ [Next]_vars => StateFollowsHistory'
  BY FollowsStep
<1> QED
  BY <1>1, FlowTypeInit, FlowTypeStep, FollowsInit, PTL DEF Spec

-----------------------------------------------------------------------------
(* No phantom alarms. Lost updates included, every copy of the row, stored *)
(* or read, counts no more bad rounds than the history has.                *)

Alarmed(h) ==
  \E i \in 1..Len(h) : h[i].kind = "bad" /\ h[i].n <= Cardinality(BadOnes(h, i))

Backed(s, h) ==
  /\ s.cons <= Cardinality(BadOnes(h, Len(h)))
  /\ s.alert = "DOWN" => Alarmed(h)

AllBacked ==
  /\ Backed(state, history)
  /\ \A t \in Finalizers : Backed(seen[t], history)
  /\ Backed(api.saw, history)

LEMMA BadOnesFinite ==
  ASSUME NEW h, NEW i \in Nat
  PROVE  IsFiniteSet(BadOnes(h, i)) /\ Cardinality(BadOnes(h, i)) \in Nat
<1>1. IsFiniteSet(1..i)
  BY FS_Interval
<1>2. BadOnes(h, i) \subseteq 1..i
  BY DEF BadOnes
<1> QED
  BY <1>1, <1>2, FS_Subset, FS_CardinalityType

\* An entry takes nothing back, and a bad round adds one.
LEMMA BackedOn ==
  ASSUME NEW h \in Seq(Entries), NEW e \in Entries
  PROVE  /\ \A s \in States : Backed(s, h) => Backed(s, Append(h, e))
         /\ e.kind = "bad" =>
              \A s \in States : Backed(s, h) =>
                Backed([alert |-> IF s.cons + 1 >= e.n THEN "DOWN" ELSE s.alert,
                        cons  |-> s.cons + 1], Append(h, e))
<1> DEFINE g == Append(h, e)
           l == Len(h)
           before == BadOnes(h, l)
           after == BadOnes(g, l + 1)
<1>1. /\ l \in Nat /\ Len(g) = l + 1 /\ g[l + 1] = e
      /\ \A k \in 1..l : g[k] = h[k]
  BY Grown
<1>2. \A i \in 1..l : BadOnes(g, i) = BadOnes(h, i)
  BY <1>1 DEF BadOnes
<1>3. after = IF e.kind = "bad" THEN before \cup {l + 1} ELSE before
  BY <1>1 DEF BadOnes
<1>4. l + 1 \notin before
  BY <1>1 DEF BadOnes
<1>5. IsFiniteSet(before) /\ Cardinality(before) \in Nat
  BY <1>1, BadOnesFinite
<1> HIDE DEF g, l, before, after
<1>6. Cardinality(after) = IF e.kind = "bad" THEN Cardinality(before) + 1 ELSE Cardinality(before)
  BY <1>3, <1>4, <1>5, FS_AddElement
<1>7. Alarmed(h) => Alarmed(g)
  <2> HAVE Alarmed(h)
  <2>1. PICK i \in 1..l : h[i].kind = "bad" /\ h[i].n <= Cardinality(BadOnes(h, i))
    BY DEF Alarmed, l
  <2>2. i \in 1..(l + 1) /\ g[i] = h[i]
    BY <1>1
  <2> QED
    BY <1>1, <1>2, <2>1, <2>2 DEF Alarmed
<1>8. e.kind = "bad" /\ e.n <= Cardinality(before) + 1 => Alarmed(g)
  <2>1. l + 1 \in 1..(l + 1)
    BY <1>1
  <2> QED
    BY <1>1, <1>6, <2>1 DEF Alarmed, after
<1>9. ASSUME NEW s \in States, Backed(s, h)
      PROVE  Backed(s, g)
  <2>1. s.cons \in Nat /\ s.cons <= Cardinality(before)
    BY <1>9 DEF Backed, States, before, l
  <2>2. s.cons <= Cardinality(after)
    BY <1>5, <1>6, <2>1
  <2> QED
    BY <1>1, <1>7, <1>9, <2>2 DEF Backed, after
<1>10. ASSUME e.kind = "bad", NEW s \in States, Backed(s, h)
       PROVE  Backed([alert |-> IF s.cons + 1 >= e.n THEN "DOWN" ELSE s.alert,
                      cons  |-> s.cons + 1], g)
  <2>1. s.cons \in Nat /\ e.n \in Nat /\ s.cons <= Cardinality(before)
    BY <1>10 DEF Backed, States, Entries, before, l
  <2>2. s.cons + 1 <= Cardinality(after)
    BY <1>5, <1>6, <1>10, <2>1
  <2>3. s.cons + 1 >= e.n => Alarmed(g)
    BY <1>5, <1>8, <1>10, <2>1
  <2> QED
    BY <1>1, <1>7, <1>10, <2>2, <2>3 DEF Backed, after
<1> QED
  BY <1>9, <1>10 DEF g

\* A state without a count is backed if it is not down, or was backed before.
LEMMA BackedAnew ==
  ASSUME NEW h \in Seq(Entries)
  PROVE  /\ Backed(Fresh, h)
         /\ \A s \in States : Backed(s, h) => Backed([s EXCEPT !.cons = 0], h)
<1>1. Cardinality(BadOnes(h, Len(h))) \in Nat
  BY BadOnesFinite
<1>2. Fresh.cons = 0 /\ Fresh.alert = "UP"
  BY DEF Fresh
<1>3. ASSUME NEW s \in States, Backed(s, h) PROVE Backed([s EXCEPT !.cons = 0], h)
  <2>1. [s EXCEPT !.cons = 0].cons = 0 /\ [s EXCEPT !.cons = 0].alert = s.alert
    BY DEF States
  <2> QED
    BY <1>1, <1>3, <2>1 DEF Backed
<1> QED
  BY <1>1, <1>2, <1>3 DEF Backed

LEMMA BackedInit == Init => AllBacked
<1> SUFFICES ASSUME Init PROVE AllBacked
  OBVIOUS
<1>1. history \in Seq(Entries)
  BY DEF Init
<1> QED
  BY <1>1, BackedAnew DEF Init, AllBacked, Quiet

LEMMA BackedStep == FlowType /\ AllBacked /\ [Next]_vars => AllBacked'
<1> SUFFICES ASSUME FlowType, AllBacked, [Next]_vars PROVE AllBacked'
  OBVIOUS
<1>1. /\ state \in States /\ history \in Seq(Entries) /\ api.saw \in States
      /\ \A t \in Finalizers : seen[t] \in States
  BY DEF FlowType, TypeOK
<1>2. seen \in [Finalizers -> States]
  BY DEF FlowType, TypeOK
\* The copies outlive a growing history.
<1>3. ASSUME NEW e \in Entries, history' = Append(history, e), UNCHANGED seen
      PROVE  \A t \in Finalizers : Backed(seen[t], history)'
  BY <1>1, <1>3, BackedOn DEF AllBacked
<1>4. ASSUME NEW t \in Finalizers, NEW s \in States, Backed(s, history),
             seen' = [seen EXCEPT ![t] = s], UNCHANGED history
      PROVE  \A u \in Finalizers : Backed(seen[u], history)'
  BY <1>2, <1>4 DEF AllBacked
<1>5. ASSUME NEW t \in Finalizers, Leave(t), UNCHANGED history
      PROVE  \A u \in Finalizers : Backed(seen[u], history)'
  BY <1>1, <1>4, <1>5, FreshType, BackedAnew DEF Leave
<1>6. CASE UNCHANGED <<state, history, seen, api>>
  BY <1>6 DEF AllBacked
<1>7. ASSUME NEW t \in Finalizers, Read(t) PROVE AllBacked'
  <2>1. \A u \in Finalizers : Backed(seen[u], history)'
    <3>1. CASE seen' = [seen EXCEPT ![t] = state]
      BY <1>1, <1>4, <1>7, <3>1 DEF Read, rowVars, AllBacked
    <3>2. CASE Leave(t)
      BY <1>5, <1>7, <3>2 DEF Read, rowVars
    <3> QED
      BY <1>7, <3>1, <3>2 DEF Read
  <2> QED
    BY <1>7, <2>1 DEF Read, rowVars, AllBacked
<1>8. ASSUME NEW t \in Finalizers, Write(t) PROVE AllBacked'
  <2> DEFINE kind == work[t].kind
             n == snap[work[t].round]
             entry == [kind |-> kind, n |-> n]
  <2>1. kind \in Kinds /\ n \in Nat /\ After(t) = Apply(seen[t], kind, n)
    BY <1>8, AfterType DEF Write, After
  <2>2. UNCHANGED api
    BY <1>8 DEF Write
  <2>3. seen' = [seen EXCEPT ![t] = Fresh] \/ UNCHANGED seen
    BY <1>8 DEF Write, Goto, Leave
  <2>4. CASE UNCHANGED rowVars
    <3>1. \A u \in Finalizers : Backed(seen[u], history)'
      BY <1>1, <1>4, <2>3, <2>4, FreshType, BackedAnew DEF AllBacked, rowVars
    <3> QED
      BY <2>2, <2>4, <3>1 DEF AllBacked, rowVars
  <2>5. CASE state' = After(t) /\ kind = "unknown" /\ UNCHANGED history
    <3>1. state' = seen[t]
      BY <2>1, <2>5 DEF Apply
    <3>2. \A u \in Finalizers : Backed(seen[u], history)'
      BY <1>1, <1>4, <2>3, <2>5, FreshType, BackedAnew DEF AllBacked
    <3> QED
      BY <2>2, <2>5, <3>1, <3>2 DEF AllBacked
  <2>6. CASE state' = After(t) /\ kind # "unknown" /\ history' = Append(history, entry)
    <3>1. entry \in Entries /\ entry.kind = kind /\ entry.n = n
      BY <2>1, <2>6 DEF Entries, Kinds
    <3>2. history' \in Seq(Entries)
      BY <1>1, <2>6, <3>1, AppendProperties
    <3>3. Backed(Fresh, history')
      BY <3>2, BackedAnew
    <3>4. Backed(api.saw, history') /\ \A u \in Finalizers : Backed(seen[u], history')
      <4> HIDE DEF entry
      <4> QED
        BY <1>1, <2>6, <3>1, BackedOn DEF AllBacked
    <3>5. \A u \in Finalizers : Backed(seen[u], history)'
      BY <1>2, <2>3, <3>3, <3>4
    <3>6. Backed(state, history)'
      <4>1. CASE kind = "good"
        BY <2>1, <2>6, <3>3, <4>1 DEF Apply
      <4>2. CASE kind = "bad"
        <5>1. state' = [alert |-> IF seen[t].cons + 1 >= entry.n THEN "DOWN" ELSE seen[t].alert,
                        cons  |-> seen[t].cons + 1]
          BY <2>1, <2>6, <3>1, <4>2 DEF Apply
        <5>2. Backed(seen[t], history) /\ seen[t] \in States /\ entry.kind = "bad"
          BY <1>1, <3>1, <4>2 DEF AllBacked
        <5> HIDE DEF entry
        <5> QED
          BY <1>1, <2>6, <3>1, <5>1, <5>2, BackedOn
      <4> QED
        BY <2>1, <2>6, <4>1, <4>2 DEF Kinds
    <3> QED
      BY <2>2, <3>4, <3>5, <3>6 DEF AllBacked
  <2> QED
    BY <1>8, <2>4, <2>5, <2>6 DEF Write, Put, Log
<1>9. ASSUME NEW t \in Finalizers, Tell(t) PROVE AllBacked'
  <2>1. \A u \in Finalizers : Backed(seen[u], history)'
    BY <1>5, <1>9 DEF Tell, rowVars
  <2> QED
    BY <1>9, <2>1 DEF Tell, rowVars, AllBacked
<1>10. CASE PauseRead
  <2>1. api'.saw = state \/ api'.saw = Fresh
    BY <1>10, FreshType DEF PauseRead
  <2> QED
    BY <1>1, <1>10, <2>1, BackedAnew DEF PauseRead, rowVars, threadVars, AllBacked
<1>11. [kind |-> "reset", n |-> 0] \in Entries /\ [kind |-> "removed", n |-> 0] \in Entries
  BY DEF Entries
<1>12. CASE PauseWrite \/ ResetConsecutive \/ Delete
  <2>1. /\ \/ UNCHANGED history
           \/ \E e \in Entries : history' = Append(history, e)
        /\ UNCHANGED seen /\ (api' = api \/ api' = Quiet)
    BY <1>11, <1>12 DEF PauseWrite, ResetConsecutive, Delete, Log, threadVars, rowVars
  <2>2. history' \in Seq(Entries)
    BY <1>1, <2>1, AppendProperties
  <2>3. \A s \in States : Backed(s, history) => Backed(s, history')
    BY <1>1, <2>1, BackedOn
  <2>4. \/ state' = state \/ state' = Fresh
        \/ state' = [state EXCEPT !.cons = 0] \/ state' = [api.saw EXCEPT !.cons = 0]
    BY <1>12 DEF PauseWrite, ResetConsecutive, Delete, Put, rowVars
  <2>5. Backed(state, history)' /\ Backed(Fresh, history')
    BY <1>1, <2>2, <2>3, <2>4, BackedAnew DEF AllBacked, States
  <2> QED
    BY <1>1, <2>1, <2>3, <2>5, FreshType DEF AllBacked
<1>13. CASE Crash
  <2>1. \A t \in Finalizers : seen'[t] = Fresh
    BY <1>13 DEF Crash
  <2> QED
    BY <1>1, <1>13, <2>1, FreshType, BackedAnew DEF Crash, rowVars, AllBacked
<1>14. ASSUME NEW t \in Finalizers, Record(t) PROVE UNCHANGED <<state, history, seen, api>>
  BY <1>14 DEF Record, Goto, rowVars
<1>15. ASSUME NEW t \in Finalizers, NEW r \in Rounds, NEW kind \in Kinds, Begin(t, r, kind)
       PROVE  UNCHANGED <<state, history, seen, api>>
  BY <1>15 DEF Begin, rowVars, threadVars
<1>16. (\E r \in Rounds : CreateRound(r)) \/ UNCHANGED vars \/ Resume
         \/ (\E n \in Needs, enabled \in BOOLEAN : Edit(n, enabled))
         => UNCHANGED <<state, history, seen, api>>
  BY DEF CreateRound, Edit, Resume, vars, rowVars, threadVars
<1>17. CASE PauseOne \/ PauseBatch
  <2>1. UNCHANGED <<state, history, seen>> /\ api'.saw = api.saw
    BY <1>17 DEF PauseOne, PauseBatch, rowVars, threadVars, FlowType, TypeOK
  <2> QED
    BY <2>1 DEF AllBacked
<1> QED
  BY <1>6, <1>7, <1>8, <1>9, <1>10, <1>12, <1>13, <1>14, <1>15, <1>16, <1>17
  DEF Next, Applying, Administration

\* Whatever updates are lost, a monitor is down only after a bad round that had
\* at least as many bad rounds behind it, itself included, as it asked for.
THEOREM PhantomCorrect == Spec => []NoPhantomDown
<1>1. AllBacked => NoPhantomDown
  BY DEF AllBacked, Backed, Alarmed, NoPhantomDown
<1> QED
  BY <1>1, FlowTypeInit, FlowTypeStep, BackedInit, BackedStep, PTL DEF Spec

-----------------------------------------------------------------------------
(* Flips are told and recorded. The books are kept by counting: a write    *)
(* that flips the state puts its flip into the hands of its thread, which  *)
(* passes it on to the change log and to the notifier.                     *)

\* A round that waits or is worked on has its number of bad rounds, so that no
\* later creation changes what a thread in the middle of it computes.
Known ==
  /\ \A r \in waiting : snap[r] # 0
  /\ \A t \in Finalizers : pc[t] # "idle" => snap[work[t].round] # 0

LEMMA KnownInit == Init => Known
BY DEF Init, Known

LEMMA KnownStep == FlowType /\ Known /\ [Next]_vars => Known'
<1> SUFFICES ASSUME FlowType, Known, [Next]_vars PROVE Known'
  OBVIOUS
<1> USE DEF Known
<1>1. /\ waiting \in SUBSET Rounds /\ snap \in [Rounds -> Needs \cup {0}] /\ need \in Needs
      /\ pc \in [Finalizers -> {"idle", "read", "write", "record", "tell"}]
      /\ work \in [Finalizers -> Work]
      /\ \A t \in Finalizers : pc[t] # "idle" => work[t].round \in Rounds
  BY DEF FlowType, TypeOK, Shape
<1>2. ASSUME NEW r \in Rounds, CreateRound(r) PROVE Known'
  <2>1. need # 0
    BY <1>1, NeedsAssumption
  <2> QED
    BY <1>1, <1>2, <2>1 DEF CreateRound, threadVars
<1>3. ASSUME NEW t \in Finalizers, NEW r \in Rounds, NEW kind \in Kinds, Begin(t, r, kind)
      PROVE  Known'
  BY <1>1, <1>3 DEF Begin, threadVars
<1>4. ASSUME NEW t \in Finalizers, Read(t) \/ Write(t) \/ Record(t) \/ Tell(t) PROVE Known'
  <2>1. /\ UNCHANGED roundVars
        /\ pc[t] # "idle" /\ \A u \in Finalizers : pc'[u] # "idle" => work'[u] = work[u] /\ pc[u] # "idle"
    BY <1>1, <1>4 DEF Read, Write, Record, Tell, Goto, Leave
  <2> QED
    BY <2>1 DEF roundVars
<1>5. CASE Administration
  BY <1>5
  DEF Administration, Edit, PauseOne, PauseRead, PauseWrite, PauseBatch, ResetConsecutive,
      Resume, Delete, roundVars, threadVars
<1>6. CASE Crash
  BY <1>6 DEF Crash
<1>7. CASE UNCHANGED vars
  BY <1>7 DEF vars, roundVars, threadVars
<1> QED
  BY <1>2, <1>3, <1>4, <1>5, <1>6, <1>7 DEF Next, Applying

\* The flip in a thread's hands stays what it is while others move.
LEMMA FlipStays ==
  ASSUME FlowType, Known, NEW t \in Finalizers, pc[t] # "idle",
         work'[t] = work[t], seen'[t] = seen[t],
         \A r \in Rounds : snap[r] # 0 => snap'[r] = snap[r]
  PROVE  Flip(t)' = Flip(t)
<1>1. work[t].round \in Rounds /\ snap'[work[t].round] = snap[work[t].round]
  BY DEF FlowType, Shape, Known
<1> QED
  BY <1>1 DEF Flip, After

Holders(stages, to) == {t \in Finalizers : pc[t] \in stages /\ Flip(t).to = to}

LEMMA HoldersFinite ==
  ASSUME NEW S, S \subseteq Finalizers
  PROVE  IsFiniteSet(S) /\ Cardinality(S) \in Nat
<1>1. IsFiniteSet(S)
  BY FinalizersAssumption, FS_Subset
<1> QED
  BY <1>1, FS_CardinalityType

\* What thread t takes into its hands or passes on is all that changes.
LEMMA HandsMove ==
  ASSUME NEW t \in Finalizers, NEW stages, NEW to,
         \A u \in Finalizers \ {t} :
            /\ pc'[u] \in stages <=> pc[u] \in stages
            /\ pc[u] \in stages => Flip(u)' = Flip(u)
  PROVE  /\ InHands(stages, to) \in Nat /\ InHands(stages, to)' \in Nat
         /\ pc[t] \notin stages /\ pc'[t] \in stages =>
               InHands(stages, to)' = InHands(stages, to) + (IF Flip(t)'.to = to THEN 1 ELSE 0)
         /\ pc[t] \in stages /\ pc'[t] \notin stages =>
               InHands(stages, to) = InHands(stages, to)' + (IF Flip(t).to = to THEN 1 ELSE 0)
         /\ \/ pc[t] \notin stages /\ pc'[t] \notin stages
            \/ pc[t] \in stages /\ pc'[t] \in stages /\ Flip(t)' = Flip(t)
            => InHands(stages, to)' = InHands(stages, to)
<1> DEFINE H == {u \in Finalizers : pc[u] \in stages /\ Flip(u).to = to}
           G == {u \in Finalizers : pc'[u] \in stages /\ Flip(u)'.to = to}
<1>1. InHands(stages, to) = Cardinality(H) /\ InHands(stages, to)' = Cardinality(G)
  BY DEF InHands
<1>2. /\ IsFiniteSet(H) /\ Cardinality(H) \in Nat
      /\ IsFiniteSet(G) /\ Cardinality(G) \in Nat
  <2>1. H \subseteq Finalizers /\ G \subseteq Finalizers
    OBVIOUS
  <2> HIDE DEF H, G
  <2> QED
    BY <2>1, HoldersFinite
<1>3. G \ {t} = H \ {t}
  OBVIOUS
<1>4. t \in H <=> pc[t] \in stages /\ Flip(t).to = to
  OBVIOUS
<1>5. t \in G <=> pc'[t] \in stages /\ Flip(t)'.to = to
  OBVIOUS
<1> HIDE DEF H, G
<1>6. /\ Cardinality(G \ {t}) = IF t \in G THEN Cardinality(G) - 1 ELSE Cardinality(G)
      /\ Cardinality(H \ {t}) = IF t \in H THEN Cardinality(H) - 1 ELSE Cardinality(H)
  BY <1>2, FS_RemoveElement
<1> QED
  BY <1>1, <1>2, <1>3, <1>4, <1>5, <1>6

\* One more entry counts for its own side.
LEMMA CountAppend ==
  ASSUME NEW s \in Seq(Changes), NEW e \in Changes, NEW to
  PROVE  /\ Count(s, to) \in Nat
         /\ Count(Append(s, e), to) = Count(s, to) + (IF e.to = to THEN 1 ELSE 0)
<1> DEFINE n == Len(s)
           I == {i \in 1..n : s[i].to = to}
           J == {i \in 1..(n + 1) : Append(s, e)[i].to = to}
<1>1. n \in Nat /\ DOMAIN s = 1..n /\ DOMAIN Append(s, e) = 1..(n + 1)
      /\ Append(s, e)[n + 1] = e /\ \A i \in 1..n : Append(s, e)[i] = s[i]
  BY AppendProperties, LenProperties
<1>2. Count(s, to) = Cardinality(I) /\ Count(Append(s, e), to) = Cardinality(J)
  BY <1>1 DEF Count
<1>3. IsFiniteSet(I) /\ Cardinality(I) \in Nat
  <2>1. IsFiniteSet(1..n) /\ I \subseteq 1..n
    BY <1>1, FS_Interval
  <2>2. IsFiniteSet(I)
    BY <2>1, FS_Subset
  <2> QED
    BY <2>2, FS_CardinalityType
<1>4. J = IF e.to = to THEN I \cup {n + 1} ELSE I
  <2> HIDE DEF n
  <2>1. 1..(n + 1) = (1..n) \cup {n + 1}
    BY <1>1
  <2> QED
    BY <1>1, <2>1
<1>5. n + 1 \notin I
  BY <1>1
<1> HIDE DEF I, J
<1>6. Cardinality(I \cup {n + 1}) = Cardinality(I) + 1
  BY <1>3, <1>5, FS_AddElement
<1> QED
  BY <1>2, <1>3, <1>4, <1>6

\* The stages of a thread that has a flip in its hands.
Late == {"record", "tell"}

\* 1 if the step turns the stored alert to the given one.
Turned(to) == IF state'.alert # state.alert /\ state'.alert = to THEN 1 ELSE 0

\* A step that moves no thread leaves every flip where it is.
LEMMA HandsStay ==
  ASSUME FlowType, Known, NEW stages \in SUBSET Late, NEW to,
         UNCHANGED threadVars, \A r \in Rounds : snap[r] # 0 => snap'[r] = snap[r]
  PROVE  InHands(stages, to)' = InHands(stages, to) /\ InHands(stages, to) \in Nat
<1> DEFINE H == {u \in Finalizers : pc[u] \in stages /\ Flip(u).to = to}
           G == {u \in Finalizers : pc'[u] \in stages /\ Flip(u)'.to = to}
<1>1. InHands(stages, to) = Cardinality(H) /\ InHands(stages, to)' = Cardinality(G)
  BY DEF InHands
<1>2. \A u \in Finalizers : pc[u] \in stages => Flip(u)' = Flip(u)
  <2> SUFFICES ASSUME NEW u \in Finalizers, pc[u] \in stages PROVE Flip(u)' = Flip(u)
    OBVIOUS
  <2>1. pc[u] # "idle" /\ work'[u] = work[u] /\ seen'[u] = seen[u]
    BY DEF threadVars, Late
  <2> QED
    BY <2>1, FlipStays
<1>3. G = H
  BY <1>2 DEF threadVars
<1>4. H \subseteq Finalizers
  OBVIOUS
<1> HIDE DEF H, G
<1> QED
  BY <1>1, <1>3, <1>4, HoldersFinite

\* While a write tears nothing, a flip of the stored alert and its arrival in
\* the hands of the writing thread are one step; no other step but the thread's
\* own next ones touches what it holds.
LEMMA FlipIsTaken ==
  ASSUME FlowType, FlowType', Known, ~torn', NEW t \in Finalizers, Write(t),
         NEW stages \in SUBSET Late, "record" \in stages, NEW to
  PROVE  /\ InHands(stages, to)' = InHands(stages, to) + Turned(to)
         /\ InHands(stages, to) \in Nat
<1>1. /\ pc \in [Finalizers -> {"idle", "read", "write", "record", "tell"}]
      /\ work \in [Finalizers -> Work] /\ seen \in [Finalizers -> States]
      /\ pc[t] = "write" /\ pc[t] \notin stages /\ UNCHANGED snap
  BY DEF Write, FlowType, TypeOK, Late, roundVars
<1>2. \A u \in Finalizers \ {t} : pc'[u] = pc[u] /\ work'[u] = work[u] /\ seen'[u] = seen[u]
  BY <1>1 DEF Write, Goto, Leave
<1>3. \A u \in Finalizers \ {t} :
         /\ pc'[u] \in stages <=> pc[u] \in stages
         /\ pc[u] \in stages => Flip(u)' = Flip(u)
  <2> SUFFICES ASSUME NEW u \in Finalizers \ {t}, pc[u] \in stages PROVE Flip(u)' = Flip(u)
    BY <1>2
  <2>1. pc[u] # "idle"
    BY DEF Late
  <2> QED
    BY <1>1, <1>2, <2>1, FlipStays
<1>4. CASE Put(After(t), seen[t]) /\ Flips(t) /\ Goto(t, "record")
  <2>1. pc'[t] \in stages /\ work'[t] = work[t] /\ seen'[t] = seen[t]
    BY <1>1, <1>4 DEF Goto
  <2>2. Flip(t)' = Flip(t)
    BY <1>1, <2>1, FlipStays
  <2>3. Flip(t).to = state'.alert /\ state'.alert # state.alert
    BY <1>4 DEF Put, Flips, Flip
  <2> QED
    BY <1>1, <1>3, <2>1, <2>2, <2>3, HandsMove DEF Turned
<1>5. CASE Put(After(t), seen[t]) /\ ~Flips(t) /\ Leave(t)
  <2>1. pc'[t] \notin stages
    BY <1>1, <1>5 DEF Leave, Late
  <2>2. state'.alert = state.alert
    BY <1>5 DEF Put, Flips
  <2> QED
    BY <1>1, <1>3, <2>1, <2>2, HandsMove DEF Turned
<1>6. CASE Leave(t) /\ UNCHANGED rowVars
  <2>1. pc'[t] \notin stages /\ state' = state
    BY <1>1, <1>6 DEF Leave, Late, rowVars
  <2> QED
    BY <1>1, <1>3, <2>1, HandsMove DEF Turned
<1> QED
  BY <1>4, <1>5, <1>6 DEF Write

\* The other steps of a thread keep the stored alert; what the thread held is
\* what it passes on.
LEMMA FlipIsPassed ==
  ASSUME FlowType, FlowType', Known, NEW t \in Finalizers,
         (\E r \in Rounds, kind \in Kinds : Begin(t, r, kind)) \/ Read(t) \/ Record(t) \/ Tell(t),
         NEW stages \in SUBSET Late, "record" \in stages, NEW to
  PROVE  /\ state' = state /\ InHands(stages, to)' \in Nat
         /\ InHands(stages, to)
              = InHands(stages, to)'
                + (IF pc[t] \in stages /\ pc'[t] \notin stages /\ Flip(t).to = to THEN 1 ELSE 0)
<1>1. /\ pc \in [Finalizers -> {"idle", "read", "write", "record", "tell"}]
      /\ work \in [Finalizers -> Work] /\ seen \in [Finalizers -> States]
      /\ UNCHANGED snap /\ state' = state
  BY DEF Begin, Read, Record, Tell, FlowType, TypeOK, rowVars, roundVars
<1>2. \A u \in Finalizers \ {t} : pc'[u] = pc[u] /\ work'[u] = work[u] /\ seen'[u] = seen[u]
  BY <1>1 DEF Begin, Read, Record, Tell, Goto, Leave, threadVars
<1>3. \A u \in Finalizers \ {t} :
         /\ pc'[u] \in stages <=> pc[u] \in stages
         /\ pc[u] \in stages => Flip(u)' = Flip(u)
  <2> SUFFICES ASSUME NEW u \in Finalizers \ {t}, pc[u] \in stages PROVE Flip(u)' = Flip(u)
    BY <1>2
  <2>1. pc[u] # "idle"
    BY DEF Late
  <2> QED
    BY <1>1, <1>2, <2>1, FlipStays
<1>4. \/ pc[t] \notin stages /\ pc'[t] \notin stages
      \/ pc[t] \in stages /\ pc'[t] \notin stages
      \/ pc[t] # "idle" /\ pc[t] \in stages /\ pc'[t] \in stages
         /\ work'[t] = work[t] /\ seen'[t] = seen[t]
  BY <1>1 DEF Begin, Read, Record, Tell, Goto, Leave, Late, threadVars
<1>5. pc[t] # "idle" /\ work'[t] = work[t] /\ seen'[t] = seen[t] => Flip(t)' = Flip(t)
  BY <1>1, FlipStays
<1> QED
  BY <1>1, <1>3, <1>4, <1>5, HandsMove

\* The stored alert turns only by a write or by the deletion of the monitor.
LEMMA AdministrationKeepsAlert ==
  ASSUME FlowType, [Next]_vars, ~torn', status' # "deleted", crashes' = 0,
         \A t \in Finalizers : ~Applying(t)
  PROVE  /\ state'.alert = state.alert /\ UNCHANGED <<told, changes, threadVars>>
         /\ \A r \in Rounds : snap[r] # 0 => snap'[r] = snap[r]
<1>1. state \in States /\ snap \in [Rounds -> Needs \cup {0}] /\ crashes \in Nat
  BY DEF FlowType, TypeOK
<1>2. ~Crash /\ ~Delete
  BY <1>1 DEF Crash, Delete
<1>3. ASSUME NEW r \in Rounds, CreateRound(r)
      PROVE  /\ state'.alert = state.alert /\ UNCHANGED <<told, changes, threadVars>>
             /\ \A q \in Rounds : snap[q] # 0 => snap'[q] = snap[q]
  BY <1>1, <1>3 DEF CreateRound, rowVars
<1>4. CASE Administration
  <2>1. UNCHANGED <<told, changes, threadVars, snap>>
    BY <1>2, <1>4
    DEF Administration, Edit, PauseOne, PauseRead, PauseWrite, PauseBatch, ResetConsecutive,
        Resume, roundVars
  <2>2. ASSUME PauseWrite PROVE state'.alert = state.alert
    BY <1>1, <2>2 DEF PauseWrite, Put, States, rowVars
  <2>3. ASSUME ResetConsecutive PROVE state'.alert = state.alert
    BY <1>1, <2>3 DEF ResetConsecutive, States
  <2>4. PauseWrite \/ ResetConsecutive \/ state' = state
    BY <1>2, <1>4 DEF Administration, Edit, PauseOne, PauseRead, PauseBatch, Resume, rowVars
  <2> QED
    BY <2>1, <2>2, <2>3, <2>4
<1>5. CASE UNCHANGED vars
  BY <1>5 DEF vars, rowVars, roundVars
<1> QED
  BY <1>2, <1>3, <1>4, <1>5 DEF Next

LEMMA FlipsInit == Init => FlipsAreTold /\ ChangesAreKept
<1> SUFFICES ASSUME Init
             PROVE  Balances(told, {"record", "tell"}) /\ Balances(changes, {"record"})
  BY DEF FlipsAreTold, ChangesAreKept
<1>1. told = <<>> /\ changes = <<>> /\ state.alert = "UP" /\ \A t \in Finalizers : pc[t] = "idle"
  BY DEF Init, Fresh
<1>2. \A to : {i \in DOMAIN <<>> : <<>>[i].to = to} = {}
  OBVIOUS
<1>3. \A to : Count(<<>>, to) = 0
  BY <1>2, FS_EmptySet DEF Count
<1>4. ASSUME NEW stages \in SUBSET Late, NEW to PROVE InHands(stages, to) = 0
  <2>1. {t \in Finalizers : pc[t] \in stages /\ Flip(t).to = to} = {}
    BY <1>1 DEF Late
  <2> QED
    BY <2>1, FS_EmptySet DEF InHands
<1>5. {"record", "tell"} \in SUBSET Late /\ {"record"} \in SUBSET Late
  BY DEF Late
<1> QED
  BY <1>1, <1>3, <1>4, <1>5 DEF Balances

\* What spoils the books spoils them for good.
LEMMA SpoiltForGood ==
  ASSUME FlowType, [Next]_vars
  PROVE  /\ ~torn' => ~torn
         /\ crashes' = 0 => crashes = 0
         /\ faults' = 0 => faults = 0
         /\ status' # "deleted" => status # "deleted"
<1>1. crashes \in Nat /\ faults \in Nat /\ torn \in BOOLEAN
  BY DEF FlowType, TypeOK
<1>2. ASSUME NEW r \in Rounds, CreateRound(r) PROVE UNCHANGED <<torn, crashes, faults, status>>
  BY <1>2 DEF CreateRound, monitorVars, rowVars, boundVars
<1>3. ASSUME NEW t \in Finalizers, Applying(t)
      PROVE  /\ UNCHANGED <<crashes, status>> /\ (faults' = 0 => faults = 0) /\ (~torn' => ~torn)
  BY <1>1, <1>3
  DEF Applying, Begin, Read, Write, Record, Tell, Put, Works, Fails, monitorVars, rowVars, boundVars
<1>4. CASE Administration
  BY <1>1, <1>4
  DEF Administration, Edit, PauseOne, PauseRead, PauseWrite, PauseBatch, ResetConsecutive, Resume,
      Delete, Put, Works, Fails, monitorVars, rowVars, boundVars
<1>5. CASE Crash
  BY <1>1, <1>5 DEF Crash, monitorVars, rowVars, boundVars
<1>6. CASE UNCHANGED vars
  BY <1>6 DEF vars, monitorVars, rowVars, boundVars
<1> QED
  BY <1>2, <1>3, <1>4, <1>5, <1>6 DEF Next

LEMMA CountType == ASSUME NEW s \in Seq(Changes), NEW to PROVE Count(s, to) \in Nat
<1> DEFINE I == {i \in 1..Len(s) : s[i].to = to}
<1>1. Count(s, to) = Cardinality(I)
  BY LenProperties DEF Count
<1>2. IsFiniteSet(1..Len(s)) /\ I \subseteq 1..Len(s)
  BY LenProperties, FS_Interval
<1> HIDE DEF I
<1> QED
  BY <1>1, <1>2, FS_Subset, FS_CardinalityType

\* Books whose sides move with the alert, from a to b, stay balanced.
LEMMA SidesBalance ==
  ASSUME NEW c1 \in Nat, NEW h1 \in Nat, NEW c2 \in Nat, NEW h2 \in Nat,
         NEW d1 \in Nat, NEW i1 \in Nat, NEW d2 \in Nat, NEW i2 \in Nat,
         NEW a \in {"UP", "DOWN"}, NEW b \in {"UP", "DOWN"},
         c1 + h1 = d1 + i1 + (IF a = "DOWN" THEN 1 ELSE 0),
         c2 + h2 = c1 + h1 + (IF b # a /\ b = "DOWN" THEN 1 ELSE 0),
         d2 + i2 = d1 + i1 + (IF b # a /\ b = "UP" THEN 1 ELSE 0)
  PROVE  c2 + h2 = d2 + i2 + (IF b = "DOWN" THEN 1 ELSE 0)
OBVIOUS

LEMMA FlipsStep == FlowType /\ FlowType' /\ Known /\ FlipsAreTold /\ [Next]_vars => FlipsAreTold'
<1> SUFFICES ASSUME FlowType, FlowType', Known, FlipsAreTold, [Next]_vars,
                    ~torn', crashes' = 0, status' # "deleted"
             PROVE  Balances(told, {"record", "tell"})'
  BY DEF FlipsAreTold
<1>1. Balances(told, Late)
  BY SpoiltForGood DEF FlipsAreTold, Late
<1>2. ~Crash /\ ~Delete
  BY DEF Crash, Delete, FlowType, TypeOK
<1>3. /\ told \in Seq(Changes) /\ told' \in Seq(Changes)
      /\ state.alert \in {"UP", "DOWN"} /\ state'.alert \in {"UP", "DOWN"}
  BY DEF FlowType, TypeOK, States
<1>4. \A s \in Seq(Changes) : \A to : Count(s, to) \in Nat
  BY CountType
<1>5. Late \in SUBSET Late /\ "record" \in Late
  BY DEF Late
<1>6. ASSUME NEW to
      PROVE  /\ InHands(Late, to) \in Nat /\ InHands(Late, to)' \in Nat
             /\ Count(told, to)' + InHands(Late, to)'
                  = Count(told, to) + InHands(Late, to) + Turned(to)
  <2>1. Turned(to) \in {0, 1} /\ Count(told, to) \in Nat
    BY <1>3, <1>4 DEF Turned
  <2>2. ASSUME NEW t \in Finalizers, Write(t)
        PROVE  /\ InHands(Late, to) \in Nat
               /\ InHands(Late, to)' = InHands(Late, to) + Turned(to) /\ told' = told
    BY <1>5, <2>2, FlipIsTaken DEF Write
  <2>3. ASSUME NEW t \in Finalizers,
               (\E r \in Rounds, kind \in Kinds : Begin(t, r, kind)) \/ Read(t) \/ Record(t)
        PROVE  /\ InHands(Late, to)' = InHands(Late, to) /\ InHands(Late, to)' \in Nat
               /\ Turned(to) = 0 /\ told' = told
    <3>1. ~(pc[t] \in Late /\ pc'[t] \notin Late) /\ told' = told
      BY <2>3 DEF Begin, Read, Record, Goto, Late, FlowType, TypeOK
    <3> QED
      BY <1>5, <2>3, <3>1, FlipIsPassed DEF Turned
  <2>4. ASSUME NEW t \in Finalizers, Tell(t)
        PROVE  /\ InHands(Late, to)' \in Nat /\ InHands(Late, to) \in Nat /\ Turned(to) = 0
               /\ Count(told', to) + InHands(Late, to)' = Count(told, to) + InHands(Late, to)
    <3>1. pc[t] = "tell" /\ pc'[t] = "idle" /\ pc[t] \in Late /\ pc'[t] \notin Late
      BY <2>4 DEF Tell, Leave, Late, FlowType, TypeOK
    <3>2. Flip(t) \in Changes /\ told' = Append(told, Flip(t))
      BY <2>4, <3>1, AfterType DEF Tell
    <3>3. Count(told', to) = Count(told, to) + (IF Flip(t).to = to THEN 1 ELSE 0)
      BY <1>3, <3>2, CountAppend
    <3> QED
      BY <1>5, <2>1, <2>4, <3>1, <3>3, FlipIsPassed DEF Turned
  <2>5. ASSUME \A t \in Finalizers : ~Applying(t)
        PROVE  /\ InHands(Late, to)' = InHands(Late, to) /\ InHands(Late, to) \in Nat
               /\ Turned(to) = 0 /\ told' = told
    BY <1>5, <2>5, AdministrationKeepsAlert, HandsStay DEF Turned
  <2>6. Count(told, to)' = Count(told', to)
    BY DEF Count
  <2> QED
    BY <2>1, <2>2, <2>3, <2>4, <2>5, <2>6 DEF Applying
<1> DEFINE c1 == Count(told, "DOWN")   c2 == Count(told, "DOWN")'
           d1 == Count(told, "UP")     d2 == Count(told, "UP")'
           h1 == InHands(Late, "DOWN") h2 == InHands(Late, "DOWN")'
           i1 == InHands(Late, "UP")   i2 == InHands(Late, "UP")'
           a == state.alert            b == state'.alert
<1>7. /\ c2 + h2 = c1 + h1 + Turned("DOWN") /\ d2 + i2 = d1 + i1 + Turned("UP")
      /\ h1 \in Nat /\ h2 \in Nat /\ i1 \in Nat /\ i2 \in Nat
  BY <1>6
<1>8. c1 \in Nat /\ d1 \in Nat /\ c2 \in Nat /\ d2 \in Nat
  BY <1>3, <1>4 DEF Count
<1>9. c1 + h1 = d1 + i1 + (IF a = "DOWN" THEN 1 ELSE 0)
  BY <1>1 DEF Balances
<1>10. /\ Turned("DOWN") = (IF b # a /\ b = "DOWN" THEN 1 ELSE 0)
       /\ Turned("UP") = (IF b # a /\ b = "UP" THEN 1 ELSE 0)
       /\ a \in {"UP", "DOWN"} /\ b \in {"UP", "DOWN"}
  BY <1>3 DEF Turned
<1> HIDE DEF a, b, c1, c2, d1, d2, h1, h2, i1, i2
<1>11. c2 + h2 = d2 + i2 + (IF b = "DOWN" THEN 1 ELSE 0)
  BY <1>7, <1>8, <1>9, <1>10, SidesBalance
<1> QED
  BY <1>11 DEF Balances, Late, b, c2, d2, h2, i2

\* Every alarm and every recovery is handed to the notifier and the browsers once,
\* unless a write was lost, the process died in between, or the monitor is gone.
THEOREM FlipsCorrect == Spec => []FlipsAreTold
<1> QED
  BY FlowTypeInit, FlowTypeStep, KnownInit, KnownStep, FlipsInit, FlipsStep, PTL DEF Spec

\* The stage of a thread whose flip is not in the change log yet.
Held == {"record"}

LEMMA ChangesStep == FlowType /\ FlowType' /\ Known /\ ChangesAreKept /\ [Next]_vars => ChangesAreKept'
<1> SUFFICES ASSUME FlowType, FlowType', Known, ChangesAreKept, [Next]_vars,
                    ~torn', crashes' = 0, faults' = 0, status' # "deleted"
             PROVE  Balances(changes, {"record"})'
  BY DEF ChangesAreKept
<1>1. Balances(changes, Held)
  BY SpoiltForGood DEF ChangesAreKept, Held
<1>2. ~Crash /\ ~Delete
  BY DEF Crash, Delete, FlowType, TypeOK
<1>3. /\ changes \in Seq(Changes) /\ changes' \in Seq(Changes)
      /\ state.alert \in {"UP", "DOWN"} /\ state'.alert \in {"UP", "DOWN"}
  BY DEF FlowType, TypeOK, States
<1>4. \A s \in Seq(Changes) : \A to : Count(s, to) \in Nat
  BY CountType
<1>5. Held \in SUBSET Late /\ "record" \in Held
  BY DEF Late, Held
<1>6. ASSUME NEW to
      PROVE  /\ InHands(Held, to) \in Nat /\ InHands(Held, to)' \in Nat
             /\ Count(changes, to)' + InHands(Held, to)'
                  = Count(changes, to) + InHands(Held, to) + Turned(to)
  <2>1. Turned(to) \in {0, 1} /\ Count(changes, to) \in Nat
    BY <1>3, <1>4 DEF Turned
  <2>2. ASSUME NEW t \in Finalizers, Write(t)
        PROVE  /\ InHands(Held, to) \in Nat
               /\ InHands(Held, to)' = InHands(Held, to) + Turned(to) /\ changes' = changes
    BY <1>5, <2>2, FlipIsTaken DEF Write
  <2>3. ASSUME NEW t \in Finalizers,
               (\E r \in Rounds, kind \in Kinds : Begin(t, r, kind)) \/ Read(t) \/ Tell(t)
        PROVE  /\ InHands(Held, to)' = InHands(Held, to) /\ InHands(Held, to)' \in Nat
               /\ Turned(to) = 0 /\ changes' = changes
    <3>1. ~(pc[t] \in Held /\ pc'[t] \notin Held) /\ changes' = changes
      BY <2>3 DEF Begin, Read, Tell, Held, FlowType, TypeOK
    <3> QED
      BY <1>5, <2>3, <3>1, FlipIsPassed DEF Turned
  <2>4. ASSUME NEW t \in Finalizers, Record(t)
        PROVE  /\ InHands(Held, to)' \in Nat /\ InHands(Held, to) \in Nat /\ Turned(to) = 0
               /\ Count(changes', to) + InHands(Held, to)' = Count(changes, to) + InHands(Held, to)
    <3>1. pc[t] = "record" /\ pc'[t] = "tell" /\ pc[t] \in Held /\ pc'[t] \notin Held
      BY <2>4 DEF Record, Goto, Held, FlowType, TypeOK
    <3>2. Flip(t) \in Changes /\ changes' = Append(changes, Flip(t))
      BY <2>4, <3>1, AfterType DEF Record, Fails, FlowType, TypeOK
    <3>3. Count(changes', to) = Count(changes, to) + (IF Flip(t).to = to THEN 1 ELSE 0)
      BY <1>3, <3>2, CountAppend
    <3> QED
      BY <1>5, <2>1, <2>4, <3>1, <3>3, FlipIsPassed DEF Turned
  <2>5. ASSUME \A t \in Finalizers : ~Applying(t)
        PROVE  /\ InHands(Held, to)' = InHands(Held, to) /\ InHands(Held, to) \in Nat
               /\ Turned(to) = 0 /\ changes' = changes
    BY <1>5, <2>5, AdministrationKeepsAlert, HandsStay DEF Turned
  <2>6. Count(changes, to)' = Count(changes', to)
    BY DEF Count
  <2> QED
    BY <2>1, <2>2, <2>3, <2>4, <2>5, <2>6 DEF Applying
<1> DEFINE c1 == Count(changes, "DOWN")   c2 == Count(changes, "DOWN")'
           d1 == Count(changes, "UP")     d2 == Count(changes, "UP")'
           h1 == InHands(Held, "DOWN") h2 == InHands(Held, "DOWN")'
           i1 == InHands(Held, "UP")   i2 == InHands(Held, "UP")'
           a == state.alert            b == state'.alert
<1>7. /\ c2 + h2 = c1 + h1 + Turned("DOWN") /\ d2 + i2 = d1 + i1 + Turned("UP")
      /\ h1 \in Nat /\ h2 \in Nat /\ i1 \in Nat /\ i2 \in Nat
  BY <1>6
<1>8. c1 \in Nat /\ d1 \in Nat /\ c2 \in Nat /\ d2 \in Nat
  BY <1>3, <1>4 DEF Count
<1>9. c1 + h1 = d1 + i1 + (IF a = "DOWN" THEN 1 ELSE 0)
  BY <1>1 DEF Balances
<1>10. /\ Turned("DOWN") = (IF b # a /\ b = "DOWN" THEN 1 ELSE 0)
       /\ Turned("UP") = (IF b # a /\ b = "UP" THEN 1 ELSE 0)
       /\ a \in {"UP", "DOWN"} /\ b \in {"UP", "DOWN"}
  BY <1>3 DEF Turned
<1> HIDE DEF a, b, c1, c2, d1, d2, h1, h2, i1, i2
<1>11. c2 + h2 = d2 + i2 + (IF b = "DOWN" THEN 1 ELSE 0)
  BY <1>7, <1>8, <1>9, <1>10, SidesBalance
<1> QED
  BY <1>11 DEF Balances, Held, b, c2, d2, h2, i2

\* Every alarm and every recovery enters the change log once, if besides no
\* database operation fails.
THEOREM ChangesCorrect == Spec => []ChangesAreKept
<1> QED
  BY FlowTypeInit, FlowTypeStep, KnownInit, KnownStep, FlipsInit, ChangesStep, PTL DEF Spec
=============================================================================
