------------------------- MODULE BrowserFeedProofs -------------------------
(***************************************************************************)
(* What TLAPS proves of BrowserFeed, for strips, queues and histories of    *)
(* any length.                                                             *)
(***************************************************************************)
EXTENDS BrowserFeed, FiniteSums, SequenceTheorems

Bounds == /\ Configs \subseteq [consecutive : Nat \ {0}, threshold : Nat] /\ Configs # {} /\ Values \subseteq Nat
          /\ Limit \in Nat \ {0} /\ QueueCap \in Nat /\ MaxRounds \in Nat /\ MaxExtras \in Nat

-----------------------------------------------------------------------------
(* The alert machine in closed form: the bad rounds since the last good    *)
(* one, from round lo on, which the machine enters with a count of seed.   *)

Failing(rs, lo, i) == {j \in lo..i : rs[j].kind = "bad" /\ \A g \in j..i : rs[g].kind # "good"}
Unbroken(rs, lo, i) == \A g \in lo..i : rs[g].kind # "good"
Tally(rs, lo, seed, i) ==
  Cardinality(Failing(rs, lo, i)) + (IF Unbroken(rs, lo, i) THEN seed ELSE 0)
Level(c, count) == [alert |-> IF count >= c THEN "DOWN" ELSE "UP", cons |-> count]

\* The state after i rounds of which each c in a row make an alarm, and the colour
\* of round i if the rounds up to it were all judged as this one.
After(c, rs, i) == Level(c, Tally(rs, 1, 0, i))
Colour(rs, i) == RoundCellStatus(rs[i].kind, After(rs[i].config.consecutive, rs, i).alert)

LEMMA FailingFinite ==
  ASSUME NEW rs, NEW lo \in Int, NEW i \in Int
  PROVE  IsFiniteSet(Failing(rs, lo, i)) /\ Cardinality(Failing(rs, lo, i)) \in Nat
<1>1. Failing(rs, lo, i) \in SUBSET (lo..i)
  BY DEF Failing
<1> QED
  BY <1>1, FS_Interval, FS_Subset, FS_CardinalityType

LEMMA TallyType ==
  ASSUME NEW rs, NEW lo \in Int, NEW i \in Int, NEW seed \in Nat
  PROVE  Tally(rs, lo, seed, i) \in Nat
  BY FailingFinite DEF Tally

LEMMA TallyFrom ==
  ASSUME NEW rs, NEW lo \in Int, NEW i \in Int, NEW seed \in Nat
  PROVE  /\ Unbroken(rs, lo, i) => Tally(rs, lo, seed, i) = Cardinality(Failing(rs, lo, i)) + seed
         /\ ~Unbroken(rs, lo, i) => Tally(rs, lo, seed, i) = Cardinality(Failing(rs, lo, i))
         /\ Tally(rs, lo, 0, i) = Cardinality(Failing(rs, lo, i))
  BY FailingFinite DEF Tally

\* One round more.
LEMMA TallyStep ==
  ASSUME NEW rs, NEW lo \in Int, NEW i \in Int, lo <= i, NEW seed \in Nat
  PROVE  Tally(rs, lo, seed, i) =
           IF rs[i].kind = "bad" THEN Tally(rs, lo, seed, i - 1) + 1
           ELSE IF rs[i].kind = "good" THEN 0 ELSE Tally(rs, lo, seed, i - 1)
<1>1. /\ i - 1 \in Int /\ i \in lo..i /\ i \notin lo..(i - 1)
      /\ \A j \in Int : j \in lo..i <=> j \in lo..(i - 1) \/ j = i
  OBVIOUS
<1>2. CASE rs[i].kind = "good"
  <2>1. Failing(rs, lo, i) = {}
    <3> SUFFICES ASSUME NEW j \in Failing(rs, lo, i) PROVE FALSE
      OBVIOUS
    <3>1. j \in lo..i /\ i \in j..i
      BY DEF Failing
    <3> QED
      BY <1>2, <3>1 DEF Failing
  <2>2. ~Unbroken(rs, lo, i)
    BY <1>1, <1>2 DEF Unbroken
  <2> QED
    BY <1>2, <2>1, <2>2, FS_EmptySet DEF Tally
<1>3. CASE rs[i].kind # "good"
  <2>1. Unbroken(rs, lo, i) <=> Unbroken(rs, lo, i - 1)
    BY <1>1, <1>3 DEF Unbroken
  <2>2. ASSUME NEW j \in lo..(i - 1)
        PROVE  (\A g \in j..i : rs[g].kind # "good") <=> (\A g \in j..(i - 1) : rs[g].kind # "good")
    <3>1. \A g \in Int : g \in j..i <=> g \in j..(i - 1) \/ g = i
      OBVIOUS
    <3> QED
      BY <1>3, <3>1
  <2>3. i \in Failing(rs, lo, i) <=> rs[i].kind = "bad"
    <3>1. \A g \in i..i : g = i
      OBVIOUS
    <3> QED
      BY <1>1, <1>3, <3>1 DEF Failing
  <2>4. Failing(rs, lo, i) = Failing(rs, lo, i - 1) \cup (IF rs[i].kind = "bad" THEN {i} ELSE {})
    <3>1. ASSUME NEW j PROVE j \in Failing(rs, lo, i) => j \in Failing(rs, lo, i - 1) \/ (j = i /\ rs[i].kind = "bad")
      BY <1>1, <2>2, <2>3 DEF Failing
    <3>2. ASSUME NEW j \in Failing(rs, lo, i - 1) PROVE j \in Failing(rs, lo, i)
      BY <1>1, <2>2 DEF Failing
    <3> QED
      BY <2>3, <3>1, <3>2
  <2>5. i \notin Failing(rs, lo, i - 1)
    BY <1>1 DEF Failing
  <2>6. /\ IsFiniteSet(Failing(rs, lo, i - 1)) /\ Cardinality(Failing(rs, lo, i - 1)) \in Nat
    BY <1>1, FailingFinite
  <2>7. CASE rs[i].kind = "bad"
    <3>1. Cardinality(Failing(rs, lo, i)) = Cardinality(Failing(rs, lo, i - 1)) + 1
      BY <2>4, <2>5, <2>6, <2>7, FS_AddElement
    <3> QED
      BY <2>1, <2>6, <2>7, <3>1 DEF Tally
  <2>8. CASE rs[i].kind # "bad"
    <3>1. Failing(rs, lo, i) = Failing(rs, lo, i - 1)
      BY <2>4, <2>8
    <3> QED
      BY <1>3, <2>1, <2>8, <3>1 DEF Tally
  <2> QED
    BY <2>7, <2>8
<1> QED
  BY <1>2, <1>3

LEMMA LevelStep ==
  ASSUME NEW c \in Nat \ {0}, NEW rs, NEW lo \in Int, NEW i \in Int, lo <= i, NEW seed \in Nat,
         NEW kind \in Kinds, kind = rs[i].kind
  PROVE  Level(c, Tally(rs, lo, seed, i)) = Apply(Level(c, Tally(rs, lo, seed, i - 1)), kind, c)
<1>1. PICK m : m = Tally(rs, lo, seed, i - 1)
  OBVIOUS
<1>2. m \in Nat
  BY <1>1, TallyType
<1>3. Tally(rs, lo, seed, i) = IF rs[i].kind = "bad" THEN m + 1 ELSE IF rs[i].kind = "good" THEN 0 ELSE m
  BY <1>1, TallyStep
<1> QED
  BY <1>1, <1>2, <1>3 DEF Level, Apply, Fresh, Kinds

\* What came before a round can be told apart from what came since.
LEMMA TallySplit ==
  ASSUME NEW rs, NEW lo \in Int, NEW i \in Int, 1 <= lo, lo <= i + 1
  PROVE  Tally(rs, 1, 0, i) = Tally(rs, lo, Tally(rs, 1, 0, lo - 1), i)
<1> DEFINE Old == Failing(rs, 1, lo - 1)
           New == Failing(rs, lo, i)
<1>1. \A j \in Int : /\ j \in 1..i <=> j \in 1..(lo - 1) \/ j \in lo..i
                     /\ ~(j \in 1..(lo - 1) /\ j \in lo..i)
  OBVIOUS
<1>2. ASSUME NEW j \in 1..(lo - 1)
      PROVE  (\A g \in j..i : rs[g].kind # "good") <=>
               (\A g \in j..(lo - 1) : rs[g].kind # "good") /\ Unbroken(rs, lo, i)
  <2>1. \A g \in Int : g \in j..i <=> g \in j..(lo - 1) \/ g \in lo..i
    OBVIOUS
  <2> QED
    BY <2>1 DEF Unbroken
<1>3. Failing(rs, 1, i) = New \cup (IF Unbroken(rs, lo, i) THEN Old ELSE {})
  BY <1>1, <1>2 DEF Failing
<1>4. New \cap Old = {}
  BY <1>1 DEF Failing
<1>5. /\ IsFiniteSet(New) /\ Cardinality(New) \in Nat /\ IsFiniteSet(Old) /\ Cardinality(Old) \in Nat
  BY FailingFinite
<1>6. Cardinality(New \cup Old) = Cardinality(New) + Cardinality(Old)
  BY <1>4, <1>5, FS_Union, FS_EmptySet
<1> HIDE DEF Old, New
<1>7. Cardinality(Failing(rs, 1, i)) = Cardinality(New) + (IF Unbroken(rs, lo, i) THEN Cardinality(Old) ELSE 0)
  <2>1. New \cup {} = New
    OBVIOUS
  <2> QED
    BY <1>3, <1>5, <1>6, <2>1
<1>8. Tally(rs, 1, 0, i) = Cardinality(Failing(rs, 1, i)) /\ Tally(rs, 1, 0, lo - 1) = Cardinality(Old)
  <2>1. Cardinality(Failing(rs, 1, i)) \in Nat
    BY FailingFinite
  <2> QED
    BY <1>5, <2>1 DEF Tally, Old
<1> QED
  BY <1>7, <1>8 DEF Tally, New

\* The rounds of a history that both have.
LEMMA SameTally ==
  ASSUME NEW rs, NEW qs, NEW i \in Int, \A j \in 1..i : qs[j].kind = rs[j].kind
  PROVE  Tally(qs, 1, 0, i) = Tally(rs, 1, 0, i)
<1>1. \A j \in 1..i : \A g \in j..i : g \in 1..i
  OBVIOUS
<1>2. Failing(qs, 1, i) = Failing(rs, 1, i) /\ (Unbroken(qs, 1, i) <=> Unbroken(rs, 1, i))
  BY <1>1 DEF Failing, Unbroken
<1> QED
  BY <1>2 DEF Tally

LEMMA SameColour ==
  ASSUME NEW rs, NEW qs, NEW i \in Int, 1 <= i, \A j \in 1..i : qs[j].kind = rs[j].kind,
         qs[i].config = rs[i].config
  PROVE  Colour(qs, i) = Colour(rs, i)
  BY SameTally DEF Colour, After

-----------------------------------------------------------------------------
(* A strip that is read with the state of the rounds has the colours the   *)
(* machine gave, unless an alarm is cut off by its left edge.              *)

Lives == {"", "up", "breach", "down", "unknown"}
Rounds == [value : Nat, kind : Kinds, config : Configs, live : Lives, split : BOOLEAN]
Histories == Seq({rd \in Rounds : rd.kind = Judge(rd.value, rd.config)})

\* The rounds are judged by c as they were by their own configurations.
Judged(c) == /\ c \in Configs /\ c.consecutive \in Nat \ {0}
             /\ \A k \in 1..Len(rounds) : Judge(rounds[k].value, c) = rounds[k].kind

LEMMA RoundFacts ==
  ASSUME rounds \in Histories, NEW i \in 1..Len(rounds)
  PROVE  /\ rounds[i] \in Rounds /\ rounds[i].kind \in Kinds /\ rounds[i].live \in Lives
         /\ rounds[i].value \in Nat /\ rounds[i].config \in Configs /\ rounds[i].split \in BOOLEAN
         /\ rounds[i].kind = Judge(rounds[i].value, rounds[i].config)
<1>1. rounds[i] \in {rd \in Rounds : rd.kind = Judge(rd.value, rd.config)}
  BY ElementOfSeq DEF Histories
<1> QED
  BY <1>1 DEF Rounds

LEMMA ConfigFacts ==
  ASSUME Bounds, NEW c \in Configs
  PROVE  c.consecutive \in Nat \ {0} /\ c.threshold \in Nat
  BY DEF Bounds

LEMMA EvenJudged ==
  ASSUME Bounds, rounds \in Histories, NEW c \in Configs, Even(c)
  PROVE  Judged(c)
<1>1. Len(rounds) \in Nat /\ DOMAIN rounds = 1..Len(rounds)
  BY LenProperties DEF Histories
<1>2. ASSUME NEW k \in 1..Len(rounds) PROVE Judge(rounds[k].value, c) = rounds[k].kind
  BY <1>1, <1>2, RoundFacts DEF Even
<1> QED
  BY <1>2, ConfigFacts DEF Judged

LEMMA WindowFacts ==
  ASSUME Bounds, rounds \in Histories
  PROVE  /\ Len(rounds) \in Nat /\ First \in Nat /\ 1 <= First /\ First <= Len(rounds) + 1
         /\ Len(rounds) > 0 => First <= Len(rounds)
         /\ IsFiniteSet(Window) /\ Cardinality(Window) = Len(rounds) - First + 1
         /\ Cardinality(Window) <= Limit /\ (First = 1 \/ Cardinality(Window) = Limit)
<1>1. Len(rounds) \in Nat
  BY LenProperties DEF Histories
<1>2. First \in Nat /\ 1 <= First /\ First <= Len(rounds) + 1 /\ (Len(rounds) > 0 => First <= Len(rounds))
  BY <1>1 DEF First, Bounds
<1>3. IsFiniteSet(Window) /\ Cardinality(Window) = Len(rounds) - First + 1
  <2>1. PICK f, n : f = First /\ n = Len(rounds)
    OBVIOUS
  <2>2. f \in Int /\ n \in Int /\ f <= n + 1 /\ Window = f..n
    BY <1>1, <1>2, <2>1 DEF Window
  <2>3. IsFiniteSet(f..n) /\ Cardinality(f..n) = n - f + 1
    BY <2>2, FS_Interval
  <2> QED
    BY <2>1, <2>2, <2>3
<1> QED
  BY <1>1, <1>2, <1>3 DEF First, Bounds

\* stripSeed is what the machine had counted before the window, or nothing if the
\* state no longer tells.
LEMMA SeedFacts ==
  ASSUME Bounds, rounds \in Histories, NEW c, Judged(c), NEW st, st = After(c.consecutive, rounds, Len(rounds))
  PROVE  \/ StripSeed(st, c) = Tally(rounds, 1, 0, First - 1)
         \/ /\ StripSeed(st, c) = 0
            /\ \/ ~(Tally(rounds, 1, 0, Len(rounds)) >= c.consecutive)
               \/ Failing(rounds, 1, Len(rounds)) \subseteq Window
<1> DEFINE n == Len(rounds)
           f == First
<1>1. n \in Nat /\ f \in Nat /\ 1 <= f /\ f <= n + 1
  BY WindowFacts
<1> HIDE DEF n, f
<1>a. \A k \in f..n : Judge(rounds[k].value, c) = rounds[k].kind
  BY <1>1 DEF Judged, n
<1>2. Visible(c) = Cardinality(Failing(rounds, f, n))
  <2>1. ASSUME NEW i \in f..n, rounds[i].kind = "bad"
        PROVE  (\A g \in {j \in f..n : rounds[j].kind = "good"} : g < i) <=>
                 (\A g \in i..n : rounds[g].kind # "good")
    <3>1. ASSUME NEW g \in f..n, rounds[g].kind = "good" PROVE g < i <=> ~(g \in i..n)
      BY <1>1, <3>1
    <3>2. \A g \in i..n : g \in f..n
      BY <1>1
    <3> QED
      BY <3>1, <3>2
  <2>2. {i \in f..n : rounds[i].kind = "bad" /\ \A g \in {j \in f..n : rounds[j].kind = "good"} : g < i}
          = Failing(rounds, f, n)
    BY <2>1 DEF Failing
  <2>3. {j \in f..n : Judge(rounds[j].value, c) = "good"} = {j \in f..n : rounds[j].kind = "good"}
    BY <1>a
  <2>4. {i \in f..n : Judge(rounds[i].value, c) = "bad"
                        /\ \A g \in {j \in f..n : rounds[j].kind = "good"} : g < i}
          = Failing(rounds, f, n)
    BY <1>a, <2>2
  <2>5. Visible(c) = Cardinality({i \in f..n : Judge(rounds[i].value, c) = "bad"
                        /\ \A g \in {j \in f..n : Judge(rounds[j].value, c) = "good"} : g < i})
    BY DEF Visible, Window, n, f
  <2> QED
    BY <2>3, <2>4, <2>5
<1>3. PICK seen, before, all : /\ seen = Cardinality(Failing(rounds, f, n))
                               /\ before = Tally(rounds, 1, 0, f - 1)
                               /\ all = Tally(rounds, 1, 0, n)
  OBVIOUS
<1>4. seen \in Nat /\ before \in Nat /\ all \in Nat
  BY <1>1, <1>3, FailingFinite, TallyType
<1>5. all = seen + (IF Unbroken(rounds, f, n) THEN before ELSE 0)
  <2>1. all = Tally(rounds, f, before, n)
    BY <1>1, <1>3, TallySplit
  <2> QED
    BY <1>3, <2>1 DEF Tally
<1>6. st.cons = all /\ (st.alert = "DOWN" <=> all >= c.consecutive)
  BY <1>3 DEF After, Level, n
<1>7. StripSeed(st, c) = IF ~(all >= c.consecutive) \/ all <= seen THEN 0 ELSE all - seen
  BY <1>2, <1>3, <1>6 DEF StripSeed
<1>8. CASE all >= c.consecutive /\ ~(all <= seen)
  BY <1>3, <1>4, <1>5, <1>7, <1>8 DEF f
<1>9. CASE all >= c.consecutive /\ all <= seen
  <2>1. Cardinality(Failing(rounds, 1, n)) = seen
    <3>1. Cardinality(Failing(rounds, 1, n)) = all
      <4>1. Cardinality(Failing(rounds, 1, n)) \in Nat
        BY <1>1, FailingFinite
      <4> QED
        BY <1>3, <4>1 DEF Tally
    <3> QED
      BY <1>4, <1>5, <1>9, <3>1
  <2>2. Failing(rounds, f, n) \in SUBSET Failing(rounds, 1, n)
    BY <1>1 DEF Failing
  <2>3. Failing(rounds, f, n) = Failing(rounds, 1, n)
    BY <1>1, <1>3, <2>1, <2>2, FailingFinite, FS_Subset
  <2>4. Failing(rounds, 1, n) \subseteq Window
    BY <2>3 DEF Failing, Window, n, f
  <2> QED
    BY <1>7, <1>9, <2>4 DEF n
<1> QED
  BY <1>3, <1>7, <1>8, <1>9 DEF n

\* The replay, in closed form.
LEMMA ReplayIs ==
  ASSUME Bounds, rounds \in Histories, NEW c, Judged(c), NEW st, NEW seed \in Nat, seed = StripSeed(st, c),
         NEW i \in Window
  PROVE  Replay(st, c)[i] = RoundCellStatus(rounds[i].kind, Level(c.consecutive, Tally(rounds, First, seed, i)).alert)
<1> DEFINE n == Len(rounds)
           f == First
           start == [alert |-> IF seed >= c.consecutive THEN "DOWN" ELSE "UP", cons |-> seed]
           Runs(G) == G = [k \in (f - 1)..n |->
                             IF k < f THEN start ELSE Apply(G[k - 1], Judge(rounds[k].value, c), c.consecutive)]
           F == CHOOSE G : Runs(G)
           H == [k \in (f - 1)..n |-> Level(c.consecutive, Tally(rounds, f, seed, k))]
<1>1. n \in Nat /\ f \in Nat /\ 1 <= f /\ f <= n + 1 /\ i \in f..n
  BY WindowFacts DEF Window
<1>2. \A k \in f..n : rounds[k].kind \in Kinds /\ Judge(rounds[k].value, c) = rounds[k].kind
  BY <1>1, RoundFacts DEF n, Judged
<1>3. Replay(st, c)[i] = RoundCellStatus(Judge(rounds[i].value, c), F[i].alert)
  BY DEF Replay, Window
<1>a. c.consecutive \in Nat \ {0}
  BY DEF Judged
<1> HIDE DEF n, f
<1>4. H[f - 1] = start
  <2>1. Failing(rounds, f, f - 1) = {} /\ Unbroken(rounds, f, f - 1)
    BY <1>1 DEF Failing, Unbroken
  <2>2. Cardinality(Failing(rounds, f, f - 1)) = 0
    BY <2>1, FS_EmptySet
  <2>3. Tally(rounds, f, seed, f - 1) = seed
    BY <1>1, <2>1, <2>2, TallyFrom
  <2> QED
    BY <1>1, <2>3 DEF Level
<1>5. ASSUME NEW k \in f..n PROVE H[k] = Apply(H[k - 1], Judge(rounds[k].value, c), c.consecutive)
  <2>1. k \in Int /\ f <= k /\ k \in (f - 1)..n /\ k - 1 \in (f - 1)..n
    BY <1>1
  <2>2. PICK kind \in Kinds : kind = rounds[k].kind /\ kind = Judge(rounds[k].value, c)
    BY <1>2
  <2>3. PICK n0 \in Nat \ {0} : n0 = c.consecutive
    BY <1>a
  <2>4. Level(n0, Tally(rounds, f, seed, k)) = Apply(Level(n0, Tally(rounds, f, seed, k - 1)), kind, n0)
    <3>1. PICK g : g = f
      OBVIOUS
    <3>2. g \in Int /\ g <= k
      BY <1>1, <2>1, <3>1
    <3> HIDE DEF H, F, Runs, start, f, n
    <3>3. k \in Int /\ kind = rounds[k].kind
      BY <2>1, <2>2
    <3>4. PICK m, o : m = Tally(rounds, g, seed, k - 1) /\ o = Tally(rounds, g, seed, k)
      OBVIOUS
    <3>5. m \in Nat
      <4>1. PICK e : e = k - 1
        OBVIOUS
      <4>2. e \in Int /\ m = Tally(rounds, g, seed, e)
        BY <3>3, <3>4, <4>1
      <4> QED
        BY <3>2, <4>2, TallyType
    <3>6. o = IF rounds[k].kind = "bad" THEN m + 1 ELSE IF rounds[k].kind = "good" THEN 0 ELSE m
      BY <3>2, <3>3, <3>4, TallyStep
    <3>7. o = IF kind = "bad" THEN m + 1 ELSE IF kind = "good" THEN 0 ELSE m
      BY <3>3, <3>6
    <3>8. Level(n0, o) = Apply(Level(n0, m), kind, n0)
      BY <3>5, <3>7 DEF Level, Apply, Fresh, Kinds
    <3> QED
      BY <3>1, <3>4, <3>8
  <2>5. PICK j : j = k - 1
    OBVIOUS
  <2>6. H[k] = Level(n0, Tally(rounds, f, seed, k)) /\ H[j] = Level(n0, Tally(rounds, f, seed, j))
    BY <2>1, <2>3, <2>5
  <2> HIDE DEF H
  <2> QED
    BY <2>2, <2>3, <2>4, <2>5, <2>6
<1> HIDE DEF start
<1>6. Runs(H)
  <2>1. ASSUME NEW k \in (f - 1)..n
        PROVE  H[k] = IF k < f THEN start ELSE Apply(H[k - 1], Judge(rounds[k].value, c), c.consecutive)
    <3>1. k = f - 1 \/ k \in f..n
      BY <1>1
    <3>2. CASE k = f - 1
      <4>1. k < f
        BY <1>1, <3>2
      <4> QED
        BY <1>4, <3>2, <4>1
    <3>3. CASE k \in f..n
      <4>1. ~(k < f)
        BY <1>1, <3>3
      <4> QED
        BY <1>5, <3>3, <4>1
    <3> QED
      BY <3>1, <3>2, <3>3
  <2> HIDE DEF H
  <2>2. H = [k \in (f - 1)..n |-> H[k]]
    BY DEF H
  <2> QED
    BY <2>1, <2>2
<1>7. Runs(F)
  BY <1>6
<1> HIDE DEF F, H
<1>8. \A k \in (f - 1)..n : F[k] = IF k < f THEN start ELSE Apply(F[k - 1], Judge(rounds[k].value, c), c.consecutive)
  BY <1>7
<1> HIDE DEF Runs
<1>9. \A k \in (f - 1)..n : F[k] = H[k]
  <2> DEFINE T == {k \in (f - 1)..n : F[k] # H[k]}
  <2> SUFFICES ASSUME T # {} PROVE FALSE
    OBVIOUS
  <2>1. T \in SUBSET Nat /\ \A k \in (f - 1)..n : k \in T <=> F[k] # H[k]
    BY <1>1
  <2>2. T \subseteq (f - 1)..n
    OBVIOUS
  <2> HIDE DEF T
  <2>3. PICK k \in T : \A m \in T : k <= m
    BY <2>1, Least
  <2>4. k \in (f - 1)..n /\ F[k] # H[k]
    BY <2>1, <2>2
  <2>5. k # f - 1
    BY <1>1, <1>4, <1>8, <2>4
  <2>6. k \in f..n /\ k - 1 \in (f - 1)..n /\ ~(k < f) /\ ~(k <= k - 1)
    BY <1>1, <2>4, <2>5
  <2>7. F[k - 1] = H[k - 1]
    BY <2>1, <2>3, <2>6
  <2> QED
    BY <1>5, <1>8, <2>4, <2>6, <2>7
<1>10. F[i] = Level(c.consecutive, Tally(rounds, f, seed, i))
  BY <1>1, <1>9 DEF H
<1>11. Judge(rounds[i].value, c) = rounds[i].kind
  BY <1>1, <1>2
<1> QED
  BY <1>3, <1>10, <1>11 DEF f

\* What a strip shows when the state was read with its rounds.
LEMMA ReplayIsRight ==
  ASSUME Bounds, rounds \in Histories, NEW c, Judged(c), NEW need, need = c.consecutive,
         NEW st, st = After(need, rounds, Len(rounds)), ~CutAlarm(need), NEW i \in Window
  PROVE  Replay(st, c)[i] = RoundCellStatus(rounds[i].kind, After(need, rounds, i).alert)
<1> DEFINE n == Len(rounds)
           f == First
<1>0. n \in Nat /\ f \in Nat /\ 1 <= f /\ f <= n + 1 /\ i \in f..n /\ i \in 1..n /\ i \in Int
  BY WindowFacts DEF Window
<1>1. n \in Nat /\ f \in Nat /\ 1 <= f /\ f <= n + 1 /\ i \in f..n /\ i \in Int /\ rounds[i].kind \in Kinds
  BY <1>0, RoundFacts
<1>a. need \in Nat \ {0}
  BY DEF Judged
<1> HIDE DEF n, f
<1>2. PICK before, all, upto : /\ before = Tally(rounds, 1, 0, f - 1)
                               /\ all = Tally(rounds, 1, 0, n)
                               /\ upto = Tally(rounds, 1, 0, i)
  OBVIOUS
<1>3. before \in Nat /\ all \in Nat /\ upto \in Nat
  BY <1>1, <1>2, TallyType
<1>4. upto = Tally(rounds, f, before, i)
  BY <1>1, <1>2, TallySplit
<1>5. PICK seed : seed = StripSeed(st, c)
  OBVIOUS
<1>6. seed \in {before, 0}
  BY <1>2, <1>5, SeedFacts DEF f
<1>7. PICK got : got = Tally(rounds, f, seed, i)
  OBVIOUS
<1>8. got \in Nat /\ Replay(st, c)[i] = RoundCellStatus(rounds[i].kind, Level(need, got).alert)
  BY <1>1, <1>3, <1>5, <1>6, <1>7, TallyType, ReplayIs DEF f
<1>9. RoundCellStatus(rounds[i].kind, After(need, rounds, i).alert) = RoundCellStatus(rounds[i].kind, Level(need, upto).alert)
  BY <1>2 DEF After
<1>10. CASE seed = before
  BY <1>4, <1>7, <1>8, <1>9, <1>10
<1>11. CASE seed = 0 /\ (got >= need <=> upto >= need)
  BY <1>8, <1>9, <1>11 DEF Level
<1>12. CASE rounds[i].kind # "bad"
  BY <1>1, <1>8, <1>9, <1>12 DEF RoundCellStatus, Kinds
<1>13. ASSUME seed = 0, seed # before, ~(got >= need <=> upto >= need), rounds[i].kind = "bad"
       PROVE  FALSE
  <2> DEFINE A == Failing(rounds, 1, i)
  <2>1. Unbroken(rounds, f, i) /\ upto = got + before /\ upto >= need
    <3>1. Cardinality(Failing(rounds, f, i)) \in Nat
      BY <1>1, FailingFinite
    <3> QED
      BY <1>1, <1>3, <1>4, <1>7, <1>8, <1>13, <1>a, <3>1, TallyFrom 
  <2>2. PICK a \in Failing(rounds, 1, f - 1) : \A b \in Failing(rounds, 1, f - 1) : a <= b
    <3>1. Failing(rounds, 1, f - 1) # {}
      <4>1. before = Cardinality(Failing(rounds, 1, f - 1))
        BY <1>1, <1>2, FailingFinite, TallyFrom
      <4>2. before # 0
        BY <1>13
      <4> QED
        BY <4>1, <4>2, FS_EmptySet
    <3>2. Failing(rounds, 1, f - 1) \in SUBSET Nat
      BY <1>1 DEF Failing
    <3> QED
      BY <3>1, <3>2, Least
  <2>3. /\ a \in 1..(f - 1) /\ rounds[a].kind = "bad" /\ \A g \in a..(f - 1) : rounds[g].kind # "good"
    BY DEF Failing
  <2>4. \A g \in a..i : rounds[g].kind # "good"
    <3>1. \A g \in a..i : g \in a..(f - 1) \/ g \in f..i
      BY <1>1, <2>3
    <3> QED
      BY <2>1, <2>3, <3>1 DEF Unbroken
  <2>5. A = {j \in a..i : rounds[j].kind = "bad"}
    <3>1. ASSUME NEW j \in a..i, rounds[j].kind = "bad" PROVE j \in A
      <4>1. j \in 1..i /\ \A g \in j..i : g \in a..i
        BY <1>1, <2>3
      <4> QED
        BY <2>4, <3>1, <4>1 DEF Failing
    <3>2. ASSUME NEW j \in A PROVE j \in a..i /\ rounds[j].kind = "bad"
      <4>1. j \in 1..i /\ rounds[j].kind = "bad" /\ \A g \in j..i : rounds[g].kind # "good"
        BY DEF Failing
      <4>2. CASE j \in 1..(f - 1)
        <5>1. \A g \in j..(f - 1) : g \in j..i
          BY <1>1
        <5>2. j \in Failing(rounds, 1, f - 1)
          BY <4>1, <4>2, <5>1 DEF Failing
        <5> QED
          BY <2>2, <2>3, <4>1, <5>2
      <4> QED
        BY <1>1, <2>3, <4>1, <4>2
    <3> QED
      BY <3>1, <3>2
  <2>6. Cardinality({j \in a..i : rounds[j].kind = "bad"}) >= need
    <3>1. upto = Cardinality(A)
      <4>1. Cardinality(A) \in Nat
        BY <1>1, FailingFinite
      <4> QED
        BY <1>2, <4>1 DEF Tally
    <3> QED
      BY <2>1, <2>5, <3>1
  <2>7. PICK g \in i..n : rounds[g].kind = "good"
    <3> SUFFICES ASSUME \A g \in i..n : rounds[g].kind # "good" PROVE FALSE
      OBVIOUS
    <3>1. \A g \in a..n : rounds[g].kind # "good"
      <4>1. \A g \in a..n : g \in a..i \/ g \in i..n
        BY <1>1, <2>3
      <4> QED
        BY <2>4, <4>1
    <3>2. a \in Failing(rounds, 1, n) /\ a \notin f..n
      BY <1>1, <2>3, <3>1 DEF Failing
    <3>3. ~(Failing(rounds, 1, n) \subseteq Window)
      BY <3>2 DEF Window, n, f
    <3>4. all >= need
      <4>1. A \in SUBSET Failing(rounds, 1, n)
        <5> SUFFICES ASSUME NEW j \in A PROVE j \in Failing(rounds, 1, n)
          OBVIOUS
        <5>1. j \in a..i /\ rounds[j].kind = "bad" /\ j \in 1..n /\ \A h \in j..n : h \in a..n
          BY <1>1, <2>3, <2>5
        <5> QED
          BY <3>1, <5>1 DEF Failing
      <4>2. Cardinality(A) <= Cardinality(Failing(rounds, 1, n))
        BY <1>1, <4>1, FailingFinite, FS_Subset
      <4>3. /\ Cardinality(A) \in Nat /\ Cardinality(Failing(rounds, 1, n)) \in Nat
        BY <1>1, FailingFinite
      <4>4. all = Cardinality(Failing(rounds, 1, n)) /\ upto = Cardinality(A)
        BY <1>2, <4>3 DEF Tally
      <4> QED
        BY <1>a, <2>1, <4>2, <4>3, <4>4 
    <3> QED
      BY <1>2, <1>5, <1>13, <3>3, <3>4, SeedFacts DEF n, f
  <2>8. CutAlarm(need)
    <3>1. a \in 1..(First - 1) /\ i \in Window /\ g \in i..Len(rounds)
      BY <2>3, <2>7 DEF f, n
    <3> QED
      BY <1>13, <2>3, <2>4, <2>6, <2>7, <3>1 DEF CutAlarm
  <2> QED
    BY <2>8
<1> QED
  BY <1>6, <1>10, <1>11, <1>12, <1>13

-----------------------------------------------------------------------------
(* Strips as sequences of cells.                                           *)

Shades == {"up", "breach", "down", "unknown"}
Squares == [round : Nat, status : Shades, id : BOOLEAN, sure : BOOLEAN]

\* The round of the newest cell.
EndOf(cells) == IF cells = <<>> THEN 0 ELSE Last(cells).round

\* Above round s the cells are in order and without a gap, from s + 1 on or over the
\* whole strip. Above 0 that is a strip as it should be.
Joined(cells, s) ==
  \A k \in 1..Len(cells) : cells[k].round > s =>
    /\ k < Len(cells) => cells[k + 1].round = cells[k].round + 1
    /\ \/ cells[k].round = s + 1
       \/ k > 1 /\ cells[k - 1].round + 1 = cells[k].round
       \/ k = 1 /\ Len(cells) = Limit

LEMMA SquareFacts ==
  ASSUME NEW q \in Seq(Squares)
  PROVE  /\ Len(q) \in Nat /\ DOMAIN q = 1..Len(q) /\ EndOf(q) \in Nat
         /\ q = <<>> <=> Len(q) = 0
         /\ q # <<>> => Last(q) = q[Len(q)] /\ EndOf(q) = q[Len(q)].round
         /\ \A k \in 1..Len(q) : q[k] \in Squares /\ q[k].round \in Nat
<1>1. Len(q) \in Nat /\ DOMAIN q = 1..Len(q) /\ (q = <<>> <=> Len(q) = 0)
  BY LenProperties, EmptySeq
<1>2. \A k \in 1..Len(q) : q[k] \in Squares /\ q[k].round \in Nat
  <2>1. ASSUME NEW k \in 1..Len(q) PROVE q[k] \in Squares
    BY ElementOfSeq
  <2> QED
    BY <2>1 DEF Squares
<1>3. q # <<>> => Last(q) = q[Len(q)] /\ EndOf(q) = q[Len(q)].round
  BY DEF Last, EndOf
<1>4. EndOf(q) \in Nat
  <2>1. CASE q = <<>>
    BY <2>1 DEF EndOf
  <2>2. CASE q # <<>>
    <3>1. Len(q) \in 1..Len(q)
      BY <1>1, <2>2
    <3> QED
      BY <1>2, <1>3, <2>2, <3>1
  <2> QED
    BY <2>1, <2>2
<1> QED
  BY <1>1, <1>2, <1>3, <1>4

LEMMA ClampFacts ==
  ASSUME Bounds, NEW q \in Seq(Squares),
         NEW d, d = IF Len(q) > Limit THEN Len(q) - Limit ELSE 0
  PROVE  /\ ClampStrip(q) \in Seq(Squares) /\ d \in Nat
         /\ Len(ClampStrip(q)) = Len(q) - d /\ Len(ClampStrip(q)) <= Limit
         /\ \A k \in 1..Len(ClampStrip(q)) : k + d \in 1..Len(q) /\ ClampStrip(q)[k] = q[k + d]
<1>1. Len(q) \in Nat /\ Limit \in Nat
  BY SquareFacts DEF Bounds
<1>2. CASE Len(q) > Limit
  <2>0. PICK m : m = Len(q) - Limit + 1
    OBVIOUS
  <2>1. /\ m \in Int /\ m \in 1..Len(q) /\ m <= Len(q) /\ Len(q) \in Int /\ d = m - 1
        /\ Len(q) - m + 1 = Limit
    BY <1>1, <1>2, <2>0 DEF Bounds
  <2>2. ClampStrip(q) = SubSeq(q, m, Len(q))
    BY <1>2, <2>0 DEF ClampStrip
  <2>3. \A i \in m..Len(q) : q[i] \in Squares
    BY <2>1, SquareFacts
  <2>4. /\ SubSeq(q, m, Len(q)) \in Seq(Squares) /\ Len(SubSeq(q, m, Len(q))) = Limit
        /\ \A i \in 1..Limit : SubSeq(q, m, Len(q))[i] = q[m + i - 1]
    BY <2>1, <2>3, SubSeqProperties
  <2>5. Len(q) - d = Limit /\ d \in Nat /\ \A i \in 1..Limit : i + d \in 1..Len(q) /\ m + i - 1 = i + d
    BY <1>1, <1>2, <2>1
  <2>6. PICK c : c = ClampStrip(q)
    OBVIOUS
  <2>7. c \in Seq(Squares) /\ Len(c) = Limit /\ \A i \in 1..Limit : c[i] = q[m + i - 1]
    BY <2>2, <2>4, <2>6
  <2>8. Len(q) - d = Limit /\ Limit <= Limit
    BY <1>1, <2>5
  <2>9. \A i \in 1..Limit : i + d \in 1..Len(q) /\ c[i] = q[i + d]
    BY <2>5, <2>7
  <2> QED
    BY <2>5, <2>6, <2>7, <2>8, <2>9
<1>3. CASE ~(Len(q) > Limit)
  BY <1>1, <1>3 DEF ClampStrip
<1> QED
  BY <1>2, <1>3

\* The elements of a finite set of numbers, one after the other.
LEMMA Enumeration ==
  ASSUME NEW n \in Nat, NEW K \in SUBSET (1..n)
  PROVE  /\ Cardinality(K) \in Nat
         /\ \A i \in 1..Cardinality(K) : \E k \in K : Cardinality({j \in K : j <= k}) = i
         /\ \A k \in K : Cardinality({j \in K : j <= k}) \in 1..Cardinality(K)
         /\ \A k, m \in K : k < m => Cardinality({j \in K : j <= k}) < Cardinality({j \in K : j <= m})
<1> DEFINE Upto(k) == {j \in K : j <= k}
           rank == [k \in K |-> Cardinality(Upto(k))]
<1>1. IsFiniteSet(K) /\ Cardinality(K) \in Nat
  <2>1. 1 \in Int /\ n \in Int
    OBVIOUS
  <2>2. IsFiniteSet(1..n)
    BY <2>1, FS_Interval
  <2> QED
    BY <2>2, FS_Subset, FS_CardinalityType
<1>2. ASSUME NEW k \in K
      PROVE  /\ IsFiniteSet(Upto(k)) /\ Cardinality(Upto(k)) \in 1..Cardinality(K)
  <2>1. IsFiniteSet(Upto(k)) /\ Cardinality(Upto(k)) <= Cardinality(K)
    BY <1>1, FS_Subset
  <2>2. k \in Upto(k)
    OBVIOUS
  <2>3. Cardinality(Upto(k)) \in Nat /\ Cardinality(Upto(k)) # 0
    BY <2>1, <2>2, FS_CardinalityType, FS_EmptySet
  <2> QED
    BY <1>1, <2>1, <2>3
<1>3. ASSUME NEW k \in K, NEW m \in K, k < m PROVE Cardinality(Upto(k)) < Cardinality(Upto(m))
  <2>0. K \subseteq Nat /\ k \in Nat /\ m \in Nat
    OBVIOUS
  <2>1. Upto(k) \in SUBSET Upto(m) /\ m \in Upto(m) /\ m \notin Upto(k)
    <3>1. m <= m /\ ~(m <= k) /\ \A j \in K : j <= k => j <= m
      BY <1>3, <2>0
    <3> QED
      BY <3>1
  <2>2. Cardinality(Upto(k)) <= Cardinality(Upto(m)) /\ Cardinality(Upto(k)) # Cardinality(Upto(m))
    BY <1>2, <2>1, FS_Subset
  <2> QED
    BY <1>2, <2>2
<1> HIDE DEF Upto
<1>4. rank \in Injection(K, 1..Cardinality(K))
  <2>1. rank \in [K -> 1..Cardinality(K)]
    BY <1>2
  <2>2. ASSUME NEW k \in K, NEW m \in K, rank[k] = rank[m] PROVE k = m
    <3>1. ~(k < m) /\ ~(m < k)
      BY <1>2, <1>3, <2>2
    <3> QED
      BY <3>1
  <2> QED
    BY <2>1, <2>2 DEF Injection, IsInjective
<1>5. IsFiniteSet(1..Cardinality(K)) /\ Cardinality(1..Cardinality(K)) = Cardinality(K)
  BY <1>1, FS_Interval
<1>6. rank \in Surjection(K, 1..Cardinality(K))
  BY <1>4, <1>5, FS_Injection
<1>7. \A i \in 1..Cardinality(K) : \E k \in K : Cardinality(Upto(k)) = i
  BY <1>6 DEF Surjection
<1> QED
  BY <1>1, <1>2, <1>3, <1>7 DEF Upto

\* The cells of later rounds are those, in their order.
LEMMA NewerFacts ==
  ASSUME NEW q \in Seq(Squares), NEW r \in Nat, NEW m, m = Newer(q, r)
  PROVE  /\ m \in Seq(Squares)
         /\ \E pos \in [1..Len(m) -> 1..Len(q)] :
              /\ \A i \in 1..Len(m) : m[i] = q[pos[i]] /\ q[pos[i]].round > r
              /\ \A i, j \in 1..Len(m) : i < j => pos[i] < pos[j]
              /\ \A k \in 1..Len(q) : q[k].round > r => \E i \in 1..Len(m) : pos[i] = k
<1> DEFINE K == {k \in DOMAIN q : q[k].round > r}
           n == Cardinality(K)
           Rank(k) == Cardinality({j \in K : j <= k})
           pos == [i \in 1..n |-> CHOOSE k \in K : Rank(k) = i]
<1>1. Len(q) \in Nat /\ DOMAIN q = 1..Len(q) /\ \A k \in 1..Len(q) : q[k] \in Squares
  BY SquareFacts
<1>2. K \in SUBSET (1..Len(q)) /\ \A k \in 1..Len(q) : k \in K <=> q[k].round > r
  BY <1>1
<1>3. m = [i \in 1..n |-> q[pos[i]]]
  BY DEF Newer
<1> HIDE DEF K
<1>0. K \subseteq Nat
  BY <1>1, <1>2
<1>4. /\ n \in Nat
      /\ \A i \in 1..n : \E k \in K : Rank(k) = i
      /\ \A k \in K : Rank(k) \in 1..n
      /\ \A k, l \in K : k < l => Rank(k) < Rank(l)
  BY <1>1, <1>2, Enumeration
<1> HIDE DEF n, Rank
<1>5. \A i \in 1..n : pos[i] \in K /\ Rank(pos[i]) = i
  BY <1>4
<1> HIDE DEF pos
<1>6. \A i \in 1..n : q[pos[i]] \in Squares
  BY <1>1, <1>2, <1>5
<1>7. m \in Seq(Squares) /\ Len(m) = n
  <2>1. m \in [1..n -> Squares]
    BY <1>3, <1>6
  <2> QED
    BY <1>4, <2>1
<1>8. pos \in [1..n -> 1..Len(q)]
  BY <1>2, <1>5 DEF pos
<1>9. ASSUME NEW i \in 1..n, NEW j \in 1..n, i < j PROVE pos[i] < pos[j]
  <2>1. pos[i] \in K /\ pos[j] \in K /\ Rank(pos[i]) = i /\ Rank(pos[j]) = j
    BY <1>5
  <2>2. pos[i] \in Nat /\ pos[j] \in Nat
    BY <1>0, <2>1
  <2>3. ~(pos[j] < pos[i]) /\ pos[i] # pos[j]
    BY <1>4, <1>9, <2>1
  <2> QED
    BY <2>2, <2>3
<1>10. ASSUME NEW k \in 1..Len(q), q[k].round > r PROVE \E i \in 1..n : pos[i] = k
  <2>1. k \in K /\ Rank(k) \in 1..n
    BY <1>2, <1>4, <1>10
  <2>2. pos[Rank(k)] \in K /\ Rank(pos[Rank(k)]) = Rank(k)
    BY <1>5, <2>1
  <2>3. k \in Nat /\ pos[Rank(k)] \in Nat
    BY <1>0, <2>1, <2>2
  <2>4. pos[Rank(k)] = k
    BY <1>4, <2>1, <2>2, <2>3
  <2> QED
    BY <2>1, <2>4
<1>11. \A i \in 1..n : m[i] = q[pos[i]] /\ q[pos[i]].round > r
  BY <1>2, <1>3, <1>5
<1> QED
  BY <1>7, <1>8, <1>9, <1>10, <1>11

\* Once above s, a strip counts on.
LEMMA JoinedRun ==
  ASSUME NEW q \in Seq(Squares), NEW s \in Nat, Joined(q, s), NEW k \in 1..Len(q), q[k].round > s,
         NEW l \in 1..Len(q), k <= l
  PROVE  q[l].round = q[k].round + (l - k)
<1>1. Len(q) \in Nat /\ \A i \in 1..Len(q) : q[i].round \in Nat
  BY SquareFacts
<1>2. k \in Nat /\ l \in Nat
  BY <1>1
<1> DEFINE T == {i \in k..Len(q) : q[i].round # q[k].round + (i - k)}
<1>3. T = {}
  <2> SUFFICES ASSUME T # {} PROVE FALSE
    OBVIOUS
  <2>1. T \in SUBSET Nat
    BY <1>1, <1>2
  <2>2. \A i \in Int : i \in T <=> i \in k..Len(q) /\ q[i].round # q[k].round + (i - k)
    BY <1>1, <1>2
  <2> HIDE DEF T
  <2>3. PICK i \in T : \A j \in T : i <= j
    BY <2>1, Least
  <2>4. i \in Nat /\ i \in k..Len(q) /\ q[i].round # q[k].round + (i - k)
    BY <2>1, <2>2
  <2>5. i # k
    BY <1>1, <1>2, <2>4
  <2>6. i - 1 \in k..Len(q) /\ i - 1 \in 1..Len(q) /\ i - 1 < Len(q) /\ ~(i <= i - 1) /\ i - 1 \in Int
        /\ (i - 1) + 1 = i
    BY <1>1, <1>2, <2>4, <2>5
  <2>7. q[i - 1].round = q[k].round + (i - 1 - k)
    BY <2>2, <2>3, <2>6
  <2>8. q[i].round = q[i - 1].round + 1
    <3>1. q[i - 1].round > s
      BY <1>1, <1>2, <2>6, <2>7
    <3> QED
      BY <2>6, <3>1 DEF Joined
  <2> QED
    BY <1>1, <1>2, <2>4, <2>6, <2>7, <2>8
<1>4. l \in k..Len(q)
  BY <1>1, <1>2
<1> QED
  BY <1>3, <1>4

LEMMA JoinedWhole ==
  ASSUME NEW q \in Seq(Squares), Joined(q, 0), NEW s \in Nat
  PROVE  Joined(q, s)
<1>1. Len(q) \in Nat /\ \A i \in 1..Len(q) : q[i].round \in Nat
  BY SquareFacts
<1> QED
  BY <1>1 DEF Joined

\* What is left of a strip above a round.
LEMMA NewerJoined ==
  ASSUME NEW q \in Seq(Squares), NEW s \in Nat, Joined(q, s), NEW r \in Nat,
         NEW t, t = IF r >= s THEN r ELSE s, NEW m, m = Newer(q, r)
  PROVE  /\ m \in Seq(Squares) /\ Joined(m, t)
         /\ \A i \in 1..Len(m) : m[i].round > r /\ \E k \in 1..Len(q) : m[i] = q[k]
         /\ EndOf(q) > r => m # <<>> /\ EndOf(m) = EndOf(q)
<1>1. PICK pos \in [1..Len(m) -> 1..Len(q)] :
              /\ \A i \in 1..Len(m) : m[i] = q[pos[i]] /\ q[pos[i]].round > r
              /\ \A i, j \in 1..Len(m) : i < j => pos[i] < pos[j]
              /\ \A k \in 1..Len(q) : q[k].round > r => \E i \in 1..Len(m) : pos[i] = k
  BY NewerFacts
<1>2. m \in Seq(Squares)
  BY NewerFacts
<1>3. Len(q) \in Nat /\ \A k \in 1..Len(q) : q[k].round \in Nat
  BY SquareFacts
<1>4. Len(m) \in Nat /\ \A i \in 1..Len(m) : m[i].round \in Nat
  BY <1>2, SquareFacts
<1>5. \A i \in 1..Len(m) : pos[i] \in 1..Len(q) /\ pos[i] \in Nat /\ i \in Nat
  BY <1>3, <1>4
<1>6. ASSUME NEW i \in 1..Len(m), pos[i] + 1 <= Len(q), q[pos[i] + 1].round > r
      PROVE  i < Len(m) /\ pos[i + 1] = pos[i] + 1
  <2>1. PICK j \in 1..Len(m) : pos[j] = pos[i] + 1
    BY <1>1, <1>3, <1>5, <1>6
  <2>2. i < j
    <3>1. ~(j < i) /\ j # i
      BY <1>1, <1>5, <2>1
    <3> QED
      BY <1>5, <3>1
  <2>3. i + 1 \in 1..Len(m) /\ i < i + 1
    BY <1>4, <1>5, <2>2
  <2>4. pos[i] < pos[i + 1]
    BY <1>1, <2>3
  <2>5. ~(i + 1 < j)
    <3>1. i + 1 < j => pos[i + 1] < pos[j]
      BY <1>1, <2>3
    <3> QED
      BY <1>5, <2>1, <2>3, <2>4, <3>1
  <2>6. j = i + 1
    BY <1>5, <2>2, <2>5
  <2> QED
    BY <1>4, <1>5, <2>1, <2>3, <2>6
<1>7. ASSUME NEW i \in 1..Len(m), pos[i] > 1, q[pos[i] - 1].round > r
      PROVE  i > 1 /\ pos[i - 1] = pos[i] - 1
  <2>1. PICK j \in 1..Len(m) : pos[j] = pos[i] - 1
    <3>1. pos[i] - 1 \in 1..Len(q)
      BY <1>3, <1>5, <1>7
    <3> QED
      BY <1>1, <1>7, <3>1
  <2>2. j < i
    <3>1. ~(i < j) /\ j # i
      BY <1>1, <1>5, <2>1
    <3> QED
      BY <1>5, <3>1
  <2>3. i - 1 \in 1..Len(m) /\ i - 1 < i
    BY <1>4, <1>5, <2>2
  <2>4. pos[i - 1] < pos[i]
    BY <1>1, <2>3
  <2>5. ~(j < i - 1)
    <3>1. j < i - 1 => pos[j] < pos[i - 1]
      BY <1>1, <2>3
    <3> QED
      BY <1>5, <2>1, <2>3, <2>4, <3>1
  <2>6. j = i - 1
    BY <1>5, <2>2, <2>5
  <2> QED
    BY <1>4, <1>5, <2>1, <2>3, <2>6
<1>8. ASSUME NEW i \in 1..Len(m), m[i].round > t, i < Len(m)
      PROVE  m[i + 1].round = m[i].round + 1
  <2>1. m[i] = q[pos[i]] /\ q[pos[i]].round > r /\ q[pos[i]].round > s /\ q[pos[i]].round \in Nat
    BY <1>1, <1>3, <1>5, <1>8
  <2>2. pos[i] < Len(q)
    <3>1. i + 1 \in 1..Len(m) /\ i < i + 1
      BY <1>4, <1>5, <1>8
    <3>2. pos[i] < pos[i + 1]
      BY <1>1, <3>1
    <3> QED
      BY <1>3, <1>5, <3>1, <3>2
  <2>3. q[pos[i] + 1].round = q[pos[i]].round + 1
    BY <1>5, <2>1, <2>2 DEF Joined
  <2>4. pos[i + 1] = pos[i] + 1
    <3>1. pos[i] + 1 <= Len(q)
      BY <1>3, <1>5, <2>2
    <3>2. q[pos[i] + 1].round > r
      BY <2>1, <2>3
    <3> QED
      BY <1>6, <3>1, <3>2
  <2>5. m[i + 1] = q[pos[i + 1]]
    BY <1>1, <1>4, <1>5, <1>8
  <2> QED
    BY <2>1, <2>3, <2>4, <2>5
<1>9. ASSUME NEW i \in 1..Len(m), m[i].round > t
      PROVE  \/ m[i].round = t + 1
             \/ i > 1 /\ m[i - 1].round + 1 = m[i].round
             \/ i = 1 /\ Len(m) = Limit
  <2>1. m[i] = q[pos[i]] /\ q[pos[i]].round > r /\ q[pos[i]].round > s /\ q[pos[i]].round \in Nat
    BY <1>1, <1>3, <1>5, <1>9
  <2>2. \/ q[pos[i]].round = s + 1
        \/ pos[i] > 1 /\ q[pos[i] - 1].round + 1 = q[pos[i]].round
        \/ pos[i] = 1 /\ Len(q) = Limit
    BY <1>5, <2>1 DEF Joined
  <2>3. CASE q[pos[i]].round = s + 1
    BY <1>9, <2>1, <2>3
  <2>4. CASE pos[i] > 1 /\ q[pos[i] - 1].round + 1 = q[pos[i]].round
    <3>1. q[pos[i] - 1].round \in Nat
      BY <1>3, <1>5, <2>4
    <3>2. CASE q[pos[i] - 1].round > r
      <4>1. i > 1 /\ pos[i - 1] = pos[i] - 1 /\ i - 1 \in 1..Len(m)
        BY <1>4, <1>5, <1>7, <2>4, <3>2
      <4>2. m[i - 1] = q[pos[i] - 1]
        BY <1>1, <4>1
      <4> QED
        BY <2>1, <2>4, <4>1, <4>2
    <3>3. CASE ~(q[pos[i] - 1].round > r)
      BY <1>9, <2>1, <2>4, <3>1, <3>3
    <3> QED
      BY <3>2, <3>3
  <2>5. CASE pos[i] = 1 /\ Len(q) = Limit
    <3>1. i = 1
      <4>0. 1 \in 1..Len(m)
        BY <1>4, <1>5
      <4>1. 1 \in 1..Len(m) /\ (1 < i => pos[1] < pos[i])
        BY <1>1, <4>0
      <4> QED
        BY <1>5, <2>5, <4>1
    <3>2. \A k \in 1..Len(q) : q[k].round > r
      <4> SUFFICES ASSUME NEW k \in 1..Len(q) PROVE q[k].round > r
        OBVIOUS
      <4>1. 1 \in 1..Len(q) /\ 1 <= k /\ q[1].round > s /\ q[1].round > r /\ q[1].round \in Nat /\ k \in Nat
        BY <1>3, <2>1, <2>5
      <4>2. q[k].round = q[1].round + (k - 1)
        BY <4>1, JoinedRun
      <4> QED
        BY <4>1, <4>2
    <3>3. \A k \in 1..Len(q) : k \in 1..Len(m) /\ pos[k] = k
      <4> DEFINE T == {k \in 1..Len(q) : ~(k \in 1..Len(m) /\ pos[k] = k)}
      <4> SUFFICES ASSUME T # {} PROVE FALSE
        OBVIOUS
      <4>1. T \in SUBSET Nat /\ \A k \in 1..Len(q) : k \in T <=> ~(k \in 1..Len(m) /\ pos[k] = k)
        BY <1>3
      <4>0. T \subseteq 1..Len(q)
        OBVIOUS
      <4> HIDE DEF T
      <4>2. PICK k \in T : \A j \in T : k <= j
        BY <4>1, Least
      <4>3. k \in 1..Len(q) /\ ~(k \in 1..Len(m) /\ pos[k] = k)
        BY <4>0, <4>1
      <4>4. k # 1
        BY <1>4, <2>5, <3>1, <4>3
      <4>5. k - 1 \in 1..Len(q) /\ ~(k <= k - 1) /\ (k - 1) + 1 = k /\ k \in Nat
        BY <1>3, <4>3, <4>4
      <4>6. k - 1 \in 1..Len(m) /\ pos[k - 1] = k - 1
        BY <4>1, <4>2, <4>5
      <4>7. q[k].round > r
        BY <3>2, <4>3
      <4>8. pos[k - 1] + 1 <= Len(q) /\ q[pos[k - 1] + 1].round > r
        BY <1>3, <4>3, <4>5, <4>6, <4>7
      <4>9. k - 1 < Len(m) /\ pos[(k - 1) + 1] = pos[k - 1] + 1
        BY <1>6, <4>6, <4>8
      <4> QED
        BY <1>4, <4>3, <4>5, <4>6, <4>9
    <3>4. Len(m) = Len(q)
      <4>1. Len(q) \in 1..Len(m)
        BY <1>3, <1>5, <3>3
      <4>2. Len(m) \in 1..Len(m) /\ (Len(q) < Len(m) => pos[Len(q)] < pos[Len(m)])
        BY <1>1, <1>4, <4>1
      <4> QED
        BY <1>3, <1>4, <1>5, <3>3, <4>1, <4>2
    <3> QED
      BY <2>5, <3>1, <3>4
  <2> QED
    BY <2>2, <2>3, <2>4, <2>5
<1>10. ASSUME EndOf(q) > r PROVE m # <<>> /\ EndOf(m) = EndOf(q)
  <2>1. q # <<>> /\ EndOf(q) = q[Len(q)].round /\ Len(q) \in 1..Len(q)
    <3>1. q # <<>>
      BY <1>10 DEF EndOf
    <3> QED
      BY <1>3, <3>1, SquareFacts
  <2>2. PICK i \in 1..Len(m) : pos[i] = Len(q)
    BY <1>1, <1>10, <2>1
  <2>3. i = Len(m)
    <3>1. Len(m) \in 1..Len(m) /\ (i < Len(m) => pos[i] < pos[Len(m)])
      BY <1>1, <1>4, <2>2
    <3> QED
      BY <1>3, <1>4, <1>5, <2>2, <3>1
  <2>4. m # <<>> /\ EndOf(m) = m[Len(m)].round
    BY <1>2, <1>4, <2>2, SquareFacts
  <2> QED
    BY <1>1, <2>1, <2>2, <2>3, <2>4
<1>11. Joined(m, t)
  BY <1>8, <1>9 DEF Joined
<1>12. \A i \in 1..Len(m) : m[i].round > r /\ \E k \in 1..Len(q) : m[i] = q[k]
  BY <1>1, <1>5
<1> QED
  BY <1>2, <1>10, <1>11, <1>12

\* A strip that goes on where a snapshot ends.
LEMMA GluedJoined ==
  ASSUME Bounds, NEW p \in Seq(Squares), p # <<>>, Joined(p, 0), \A k \in 1..Len(p) : p[k].round > 0,
         NEW n \in Seq(Squares), \A k \in 1..Len(n) : n[k].round > EndOf(p),
         NEW t \in Nat, t >= EndOf(p), Joined(n, t)
  PROVE  /\ ClampStrip(p \o n) \in Seq(Squares)
         /\ Len(ClampStrip(p \o n)) <= Limit
         /\ ClampStrip(p \o n) # <<>>
         /\ EndOf(ClampStrip(p \o n)) = IF n = <<>> THEN EndOf(p) ELSE EndOf(n)
         /\ \A k \in 1..Len(ClampStrip(p \o n)) :
              \/ \E i \in 1..Len(p) : ClampStrip(p \o n)[k] = p[i]
              \/ \E i \in 1..Len(n) : ClampStrip(p \o n)[k] = n[i]
         /\ t = EndOf(p) => Joined(ClampStrip(p \o n), 0)
         /\ t # EndOf(p) => Joined(ClampStrip(p \o n), t)
<1> SUFFICES ASSUME NEW h, h = EndOf(p), t >= h, \A k \in 1..Len(n) : n[k].round > h,
                    NEW u, u = IF t = h THEN 0 ELSE t, NEW m, m = ClampStrip(p \o n)
             PROVE  /\ m \in Seq(Squares) /\ Len(m) <= Limit /\ m # <<>>
                    /\ EndOf(m) = IF n = <<>> THEN h ELSE EndOf(n)
                    /\ \A k \in 1..Len(m) :
                         (\E i \in 1..Len(p) : m[k] = p[i]) \/ (\E i \in 1..Len(n) : m[k] = n[i])
                    /\ Joined(m, u)
  <2>1. PICK h, u, m : h = EndOf(p) /\ u = (IF t = h THEN 0 ELSE t) /\ m = ClampStrip(p \o n)
    OBVIOUS
  <2> QED
    BY <2>1
<1> DEFINE a == Len(p)
           b == Len(n)
<1>1. /\ a \in Nat /\ a # 0 /\ b \in Nat /\ h \in Nat /\ h = p[a].round /\ (n = <<>> <=> b = 0)
      /\ \A k \in 1..a : p[k].round \in Nat
      /\ \A k \in 1..b : n[k].round \in Nat
      /\ n # <<>> => EndOf(n) = n[b].round
  BY SquareFacts
<1>2. PICK q : q = p \o n
  OBVIOUS
<1>3. /\ q \in Seq(Squares) /\ Len(q) = a + b
      /\ \A k \in 1..a : q[k] = p[k]
      /\ \A k \in 1..b : q[a + k] = n[k]
  BY <1>1, <1>2, ConcatProperties
<1>4. PICK d : d = IF Len(q) > Limit THEN Len(q) - Limit ELSE 0
  OBVIOUS
<1>5. /\ m \in Seq(Squares) /\ d \in Nat /\ Len(m) = a + b - d /\ Len(m) <= Limit
      /\ \A k \in 1..Len(m) : k + d \in 1..(a + b) /\ m[k] = q[k + d]
  <2>1. m = ClampStrip(q)
    BY <1>2
  <2>2. /\ ClampStrip(q) \in Seq(Squares) /\ d \in Nat /\ Len(ClampStrip(q)) = Len(q) - d
        /\ Len(ClampStrip(q)) <= Limit
        /\ \A k \in 1..Len(ClampStrip(q)) : k + d \in 1..Len(q) /\ ClampStrip(q)[k] = q[k + d]
    BY <1>3, <1>4, ClampFacts
  <2>3. /\ m \in Seq(Squares) /\ d \in Nat /\ Len(m) = Len(q) - d /\ Len(m) <= Limit
        /\ \A k \in 1..Len(m) : k + d \in 1..Len(q) /\ m[k] = q[k + d]
    BY <2>1, <2>2
  <2>4. Len(q) = a + b /\ a \in Nat /\ b \in Nat
    BY <1>1, <1>3
  <2> HIDE DEF a, b
  <2>5. Len(m) = a + b - d
    BY <2>3, <2>4
  <2>6. \A k \in 1..Len(m) : k + d \in 1..(a + b)
    BY <2>3, <2>4
  <2> QED
    BY <2>3, <2>5, <2>6
<1> HIDE DEF a, b
<1>6. Limit \in Nat \ {0} /\ (d > 0 => Len(m) = Limit) /\ Len(m) \in Nat /\ Len(m) # 0
  <2>1. Len(q) = a + b /\ a \in Nat /\ a # 0 /\ b \in Nat /\ Limit \in Nat \ {0}
    BY <1>1, <1>3 DEF Bounds
  <2>2. d = IF a + b > Limit THEN a + b - Limit ELSE 0
    BY <1>4, <2>1
  <2>3. Len(m) = a + b - d
    BY <1>5
  <2> QED
    BY <2>1, <2>2, <2>3
<1>15. /\ a \in Nat /\ b \in Nat /\ h \in Nat /\ d \in Nat /\ Len(m) \in Nat /\ Len(m) = a + b - d
       /\ (t = h => u = 0) /\ (t # h => u = t /\ t > h)
  <2>1. /\ a \in Nat /\ b \in Nat /\ h \in Nat /\ d \in Nat /\ Len(m) \in Nat
    BY <1>1, <1>5, <1>6
  <2>2. (t = h => u = 0) /\ (t # h => u = t /\ t > h)
    BY <2>1
  <2> QED
    BY <1>5, <2>1, <2>2
<1>7. ASSUME NEW k \in 1..Len(m), k + d <= a
      PROVE  /\ k + d \in 1..a /\ m[k] = p[k + d] /\ k \in Nat
  BY <1>3, <1>5, <1>6, <1>7
<1>8. ASSUME NEW k \in 1..Len(m), ~(k + d <= a)
      PROVE  /\ k + d - a \in 1..b /\ m[k] = n[k + d - a] /\ k \in Nat
  <2>1. k \in Nat /\ k + d - a \in 1..b /\ a + (k + d - a) = k + d
    BY <1>1, <1>5, <1>6, <1>8
  <2>2. m[k] = q[a + (k + d - a)]
    BY <1>5, <2>1
  <2> QED
    BY <1>3, <2>1, <2>2
\* p counts on.
<1>9. ASSUME NEW k \in 1..a PROVE p[k].round <= h
  <2>1. a \in 1..a /\ k <= a /\ p[k].round > 0 /\ k \in Nat
    BY <1>1 DEF a
  <2>2. p[a].round = p[k].round + (a - k)
    BY <2>1, JoinedRun DEF a
  <2> QED
    BY <1>1, <2>1, <2>2
<1>10. EndOf(m) = IF n = <<>> THEN h ELSE EndOf(n)
  <2>1. m # <<>> /\ EndOf(m) = m[Len(m)].round
    BY <1>5, <1>6, SquareFacts
  <2>0. Len(m) \in 1..Len(m) /\ Len(m) + d = a + b
    BY <1>1, <1>5, <1>6
  <2>2. CASE n = <<>>
    <3>1. Len(m) + d <= a /\ Len(m) + d = a
      BY <1>1, <2>0, <2>2
    <3> QED
      BY <1>1, <1>7, <2>0, <2>1, <2>2, <3>1
  <2>3. CASE n # <<>>
    <3>0. b # 0
      BY <1>1, <2>3
    <3>1. ~(Len(m) + d <= a) /\ Len(m) + d - a = b
      BY <1>1, <1>5, <1>6, <2>0, <3>0
    <3> QED
      BY <1>1, <1>8, <2>0, <2>1, <2>3, <3>1
  <2> QED
    BY <2>2, <2>3
<1>11. ASSUME NEW k \in 1..Len(m)
       PROVE  (\E i \in 1..a : m[k] = p[i]) \/ (\E i \in 1..b : m[k] = n[i])
  BY <1>7, <1>8
<1>12. ASSUME NEW k \in 1..Len(m), m[k].round > u, k < Len(m)
       PROVE  m[k + 1].round = m[k].round + 1
  <2>1. k + 1 \in 1..Len(m) /\ k \in Nat
    BY <1>6, <1>12
  <2>2. CASE k + 1 + d <= a
    <3>1. /\ k + d <= a /\ (k + 1) + d = (k + d) + 1 /\ k + d < a
      BY <1>1, <1>5, <2>1, <2>2
    <3>2. k + d \in 1..a /\ m[k] = p[k + d]
      BY <1>7, <3>1
    <3>3. m[k + 1] = p[(k + d) + 1]
      BY <1>7, <2>1, <2>2, <3>1
    <3>4. p[k + d].round > 0
      BY <3>2 DEF a
    <3> QED
      BY <3>1, <3>2, <3>3, <3>4 DEF Joined, a
  <2>3. CASE k + d <= a /\ ~(k + 1 + d <= a)
    <3>1. k + d = a /\ (k + 1) + d - a = 1
      BY <1>1, <1>5, <2>1, <2>3
    <3>2. m[k] = p[a] /\ m[k].round = h
      BY <1>1, <1>7, <2>3, <3>1
    <3>3. m[k + 1] = n[1] /\ 1 \in 1..b
      BY <1>8, <2>1, <2>3, <3>1
    <3>4. t = h
      BY <1>1, <1>12, <3>2
    <3>5. n[1].round = h + 1 \/ b = Limit
      BY <3>3, <3>4 DEF Joined, b
    <3>6. b # Limit
      <4>1. Len(q) = a + b /\ d = IF a + b > Limit THEN a + b - Limit ELSE 0
        BY <1>1, <1>3, <1>4, <1>6
      <4>2. b = Limit => d = a
        BY <1>1, <1>6, <4>1
      <4> QED
        BY <1>1, <1>5, <2>1, <3>1, <4>2
    <3> QED
      BY <3>2, <3>3, <3>5, <3>6
  <2>4. CASE ~(k + d <= a)
    <3>1. k + d - a \in 1..b /\ m[k] = n[k + d - a]
      BY <1>8, <2>4
    <3>2. ~(k + 1 + d <= a) /\ (k + 1) + d - a = (k + d - a) + 1
      BY <1>15, <2>1, <2>4
    <3>3. m[k + 1] = n[(k + d - a) + 1] /\ (k + d - a) + 1 \in 1..b
      BY <1>8, <2>1, <3>2
    <3>4. n[k + d - a].round > t /\ k + d - a < b
      <4>1. n[k + d - a].round > h
        BY <3>1 DEF b
      <4>2. n[k + d - a].round > t
        BY <1>12, <1>15, <3>1, <4>1
      <4>3. k + d - a < b
        BY <1>15, <3>1, <3>3
      <4> QED
        BY <4>2, <4>3
    <3> QED
      BY <3>1, <3>3, <3>4 DEF Joined, b
  <2> QED
    BY <2>2, <2>3, <2>4
<1>13. ASSUME NEW k \in 1..Len(m), m[k].round > u
       PROVE  \/ m[k].round = u + 1
              \/ k > 1 /\ m[k - 1].round + 1 = m[k].round
              \/ k = 1 /\ Len(m) = Limit
  <2>0. k \in Nat /\ k >= 1
    BY <1>6
  <2>1. CASE k = 1 /\ d > 0
    BY <1>6, <2>1
  <2>2. CASE k = 1 /\ d = 0
    <3>1. k + d <= a /\ k + d = 1 /\ m[k] = p[1] /\ 1 \in 1..a
      BY <1>1, <1>7, <2>2
    <3>2. t = h /\ p[1].round > 0
      BY <1>1, <1>9, <1>13, <3>1 DEF a
    <3>3. p[1].round = 1 \/ a = Limit
      BY <3>1, <3>2 DEF Joined, a
    <3>4. a = Limit => Len(m) = Limit
      BY <1>1, <1>5, <1>6, <2>2
    <3> QED
      BY <2>2, <3>1, <3>2, <3>3, <3>4
  <2>3. CASE k > 1
    <3>1. k - 1 \in 1..Len(m) /\ (k - 1) + 1 = k /\ k - 1 < Len(m)
      BY <1>6, <2>0, <2>3
    <3>2. CASE k + d <= a
      <4>1. m[k] = p[k + d] /\ k + d \in 1..a /\ (k - 1) + d <= a
        <5>1. (k - 1) + d <= a
          BY <1>15, <2>0, <3>2
        <5> QED
          BY <1>7, <3>2, <5>1
      <4>2. t = h /\ u = 0
        BY <1>1, <1>9, <1>13, <1>15, <4>1
      <4>3. m[k - 1] = p[(k - 1) + d] /\ (k - 1) + d \in 1..a
        BY <1>7, <3>1, <4>1
      <4>4. m[k - 1].round > u
        BY <4>2, <4>3 DEF a
      <4>5. m[(k - 1) + 1].round = m[k - 1].round + 1
        BY <1>12, <3>1, <4>4
      <4> QED
        BY <2>3, <3>1, <4>5
    <3>3. CASE ~(k + d <= a)
      <4> DEFINE i == k + d - a
      <4>1. i \in 1..b /\ m[k] = n[i] /\ n[i].round > h /\ n[i].round \in Nat
        BY <1>1, <1>8, <3>3 DEF b
      <4>2. n[i].round > t
        BY <1>1, <1>13, <4>1
      <4>3. \/ n[i].round = t + 1
            \/ i > 1 /\ n[i - 1].round + 1 = n[i].round
            \/ i = 1 /\ b = Limit
        BY <4>1, <4>2 DEF Joined, b
      <4>4. CASE i > 1
        <5>1. ~((k - 1) + d <= a) /\ (k - 1) + d - a = i - 1
          BY <1>1, <1>5, <2>0, <4>4
        <5>2. m[k - 1] = n[i - 1] /\ i - 1 \in 1..b
          BY <1>8, <3>1, <5>1
        <5>3. n[i - 1].round > h /\ n[i - 1].round \in Nat
          BY <1>1, <5>2 DEF b
        <5>4. CASE t = h
          <6>0. PICK v : v = n[i - 1].round
            OBVIOUS
          <6>1. m[k - 1].round > u
            <7>1. u = 0 /\ h \in Nat
              BY <1>15, <5>4
            <7>2. v \in Nat /\ v > h /\ m[k - 1].round = v
              BY <5>2, <5>3, <6>0
            <7> QED
              BY <7>1, <7>2
          <6>2. m[(k - 1) + 1].round = m[k - 1].round + 1
            BY <1>12, <3>1, <6>1
          <6> QED
            BY <2>3, <3>1, <6>2
        <5>5. CASE t # h
          BY <2>3, <4>1, <4>3, <4>4, <5>2, <5>5
        <5> QED
          BY <5>4, <5>5
      <4>5. CASE i = 1
        <5>1. (k - 1) + d <= a /\ (k - 1) + d = a
          <6>1. k + d - a = 1
            BY <4>5
          <6> HIDE DEF i
          <6> QED
            BY <1>1, <1>5, <2>0, <6>1
        <5>2. m[k - 1] = p[a] /\ m[k - 1].round = h
          BY <1>1, <1>7, <3>1, <5>1
        <5>3. b # Limit
          <6>1. Len(q) = a + b /\ d = IF a + b > Limit THEN a + b - Limit ELSE 0
            BY <1>1, <1>3, <1>4, <1>6
          <6>2. b = Limit => d = a
            BY <1>1, <1>6, <6>1
          <6> QED
            BY <1>1, <1>5, <2>0, <2>3, <5>1, <6>2
        <5>4. n[i].round = t + 1
          BY <4>3, <4>5, <5>3
        <5> QED
          BY <1>1, <2>3, <4>1, <5>2, <5>4
      <4> QED
        BY <4>1, <4>4, <4>5
    <3> QED
      BY <3>2, <3>3
  <2> QED
    BY <1>5, <2>0, <2>1, <2>2, <2>3
<1>14. Joined(m, u)
  BY <1>12, <1>13 DEF Joined
<1> QED
  BY <1>5, <1>6, <1>10, <1>11, <1>14 DEF a, b

\* mergeStrip keeps a strip without a gap, and makes good what the page had
\* missed below the snapshot's end.
LEMMA MergeFacts ==
  ASSUME Bounds, NEW p \in Seq(Squares), Joined(p, 0), \A k \in 1..Len(p) : p[k].round > 0,
         Len(p) <= Limit,
         NEW c \in Seq(Squares), Len(c) <= Limit, \E top \in Nat : \A k \in 1..Len(c) : c[k].round <= top
  PROVE  /\ MergeStrip(p, c) \in Seq(Squares) /\ Len(MergeStrip(p, c)) <= Limit
         /\ \A k \in 1..Len(MergeStrip(p, c)) :
              \/ \E i \in 1..Len(p) : MergeStrip(p, c)[k] = p[i]
              \/ \E i \in 1..Len(c) : MergeStrip(p, c)[k] = c[i]
         /\ EndOf(MergeStrip(p, c)) >= EndOf(p) /\ EndOf(MergeStrip(p, c)) >= EndOf(c)
         /\ \A s \in Nat : Joined(c, s) => Joined(MergeStrip(p, c), s)
         /\ Joined(c, EndOf(p)) => Joined(MergeStrip(p, c), 0)
<1> SUFFICES ASSUME NEW top \in Nat, \A k \in 1..Len(c) : c[k].round <= top, NEW m, m = MergeStrip(p, c)
             PROVE  /\ m \in Seq(Squares) /\ Len(m) <= Limit
                    /\ \A k \in 1..Len(m) :
                         (\E i \in 1..Len(p) : m[k] = p[i]) \/ (\E i \in 1..Len(c) : m[k] = c[i])
                    /\ EndOf(m) >= EndOf(p) /\ EndOf(m) >= EndOf(c)
                    /\ \A s \in Nat : Joined(c, s) => Joined(m, s)
                    /\ Joined(c, EndOf(p)) => Joined(m, 0)
  OBVIOUS
<1>1. /\ EndOf(p) \in Nat /\ EndOf(c) \in Nat
  BY SquareFacts
<1>2. CASE p = <<>>
  <2>1. m = c /\ EndOf(p) = 0
    BY <1>2 DEF MergeStrip, EndOf
  <2> QED
    BY <1>1, <2>1
<1>3. CASE p # <<>>
  <2>0. PICK h : h = EndOf(p)
    OBVIOUS
  <2>1. PICK n : n = Newer(c, h)
    OBVIOUS
  <2>2. h \in Nat /\ m = ClampStrip(p \o n)
    BY <1>1, <1>3, <2>0, <2>1 DEF MergeStrip, EndOf
  <2>3. Joined(c, top)
    <3>1. \A k \in 1..Len(c) : c[k].round \in Nat
      BY SquareFacts
    <3>2. \A k \in 1..Len(c) : ~(c[k].round > top)
      BY <3>1
    <3> QED
      BY <3>2 DEF Joined
  <2>4. /\ n \in Seq(Squares)
        /\ \A i \in 1..Len(n) : n[i].round > h /\ \E k \in 1..Len(c) : n[i] = c[k]
        /\ EndOf(c) > h => n # <<>> /\ EndOf(n) = EndOf(c)
    <3>1. PICK t : t = IF h >= top THEN h ELSE top
      OBVIOUS
    <3> QED
      BY <2>1, <2>2, <2>3, <3>1, NewerJoined
  <2>5. ASSUME NEW s \in Nat, Joined(c, s)
        PROVE  /\ m \in Seq(Squares) /\ Len(m) <= Limit /\ m # <<>>
               /\ EndOf(m) = IF n = <<>> THEN h ELSE EndOf(n)
               /\ \A k \in 1..Len(m) : (\E i \in 1..Len(p) : m[k] = p[i]) \/ (\E i \in 1..Len(n) : m[k] = n[i])
               /\ Joined(m, s) /\ (h = s => Joined(m, 0))
    <3>1. PICK t : t = IF h >= s THEN h ELSE s
      OBVIOUS
    <3>0. PICK u : u = IF t = h THEN 0 ELSE t
      OBVIOUS
    <3>2. t \in Nat /\ t >= h /\ (t = h \/ (t = s /\ h # s))
      BY <2>2, <3>1
    <3>3. Joined(n, t)
      BY <2>1, <2>2, <2>5, <3>1, NewerJoined
    <3>4. /\ m \in Seq(Squares) /\ Len(m) <= Limit /\ m # <<>>
          /\ EndOf(m) = IF n = <<>> THEN h ELSE EndOf(n)
          /\ \A k \in 1..Len(m) : (\E i \in 1..Len(p) : m[k] = p[i]) \/ (\E i \in 1..Len(n) : m[k] = n[i])
          /\ Joined(m, u)
      <4>1. /\ n \in Seq(Squares) /\ \A k \in 1..Len(n) : n[k].round > EndOf(p)
        BY <2>0, <2>4
      <4>2. t \in Nat /\ t >= EndOf(p)
        BY <2>0, <3>2
      <4>3. /\ ClampStrip(p \o n) \in Seq(Squares)
            /\ Len(ClampStrip(p \o n)) <= Limit
            /\ ClampStrip(p \o n) # <<>>
            /\ EndOf(ClampStrip(p \o n)) = IF n = <<>> THEN EndOf(p) ELSE EndOf(n)
            /\ \A k \in 1..Len(ClampStrip(p \o n)) :
                 \/ \E i \in 1..Len(p) : ClampStrip(p \o n)[k] = p[i]
                 \/ \E i \in 1..Len(n) : ClampStrip(p \o n)[k] = n[i]
            /\ t = EndOf(p) => Joined(ClampStrip(p \o n), 0)
            /\ t # EndOf(p) => Joined(ClampStrip(p \o n), t)
        BY <1>3, <3>3, <4>1, <4>2, GluedJoined
      <4> QED
        BY <2>0, <2>2, <3>0, <4>3
    <3>5. CASE t = h
      <4>1. Joined(m, 0)
        BY <3>0, <3>4, <3>5
      <4> QED
        BY <3>4, <4>1, JoinedWhole
    <3>6. CASE t # h
      BY <3>0, <3>2, <3>4, <3>6
    <3> QED
      BY <3>5, <3>6
  <2>6. \A k \in 1..Len(m) : (\E i \in 1..Len(p) : m[k] = p[i]) \/ (\E i \in 1..Len(c) : m[k] = c[i])
    BY <2>3, <2>4, <2>5
  <2>7. EndOf(m) >= h /\ EndOf(m) >= EndOf(c)
    <3>1. EndOf(m) = IF n = <<>> THEN h ELSE EndOf(n)
      BY <2>3, <2>5
    <3>2. n # <<>> => EndOf(n) > h
      <4> HAVE n # <<>>
      <4>1. Len(n) \in 1..Len(n) /\ EndOf(n) = n[Len(n)].round
        BY <2>4, SquareFacts
      <4> QED
        BY <2>4, <4>1
    <3>3. EndOf(n) \in Nat
      BY <2>4, SquareFacts
    <3> QED
      BY <1>1, <2>2, <2>4, <3>1, <3>2, <3>3
  <2> QED
    BY <2>0, <2>2, <2>3, <2>5, <2>6, <2>7
<1> QED
  BY <1>2, <1>3

\* applyRound: the next round is appended without a gap, unless a later one is there.
LEMMA PushFacts ==
  ASSUME Bounds, NEW c \in Seq(Squares), NEW f, f.round \in Nat, f.status \in Shades
  PROVE  /\ ApplyRound(c, f) \in Seq(Squares) /\ (Len(c) <= Limit => Len(ApplyRound(c, f)) <= Limit)
         /\ \A k \in 1..Len(ApplyRound(c, f)) :
              \/ \E i \in 1..Len(c) : ApplyRound(c, f)[k] = c[i]
              \/ ApplyRound(c, f)[k].round = f.round /\ ~ApplyRound(c, f)[k].sure
         /\ (\A k \in 1..Len(c) : c[k].round < f.round) =>
              /\ EndOf(ApplyRound(c, f)) = f.round
              /\ \A s \in Nat : Joined(c, s) /\ (f.round <= s + 1 \/ f.round <= EndOf(c) + 1)
                               => Joined(ApplyRound(c, f), s)
<1> SUFFICES ASSUME NEW m, m = ApplyRound(c, f)
             PROVE  /\ m \in Seq(Squares) /\ (Len(c) <= Limit => Len(m) <= Limit)
                    /\ \A k \in 1..Len(m) : \/ \E i \in 1..Len(c) : m[k] = c[i]
                                            \/ m[k].round = f.round /\ ~m[k].sure
                    /\ (\A k \in 1..Len(c) : c[k].round < f.round) =>
                         /\ EndOf(m) = f.round
                         /\ \A s \in Nat : Joined(c, s) /\ (f.round <= s + 1 \/ f.round <= EndOf(c) + 1)
                                          => Joined(m, s)
  OBVIOUS
<1> DEFINE a == Len(c)
<1>1. PICK r, x : r = f.round /\ x = [round |-> f.round, status |-> f.status, id |-> TRUE, sure |-> FALSE]
  OBVIOUS
<1>2. r \in Nat /\ x \in Squares /\ x.round = r /\ ~x.sure
  BY <1>1 DEF Squares
<1>3. /\ a \in Nat /\ (c = <<>> <=> a = 0) /\ (c # <<>> => Last(c) = c[a] /\ EndOf(c) = c[a].round)
      /\ \A k \in 1..a : c[k] \in Squares /\ c[k].round \in Nat
  BY SquareFacts
<1>4. CASE c # <<>> /\ Last(c).id /\ Last(c).round = r
  <2>1. m = ReplaceAt(c, a, x)
    BY <1>1, <1>4 DEF ApplyRound
  <2>2. m = [i \in 1..a |-> IF i = a THEN x ELSE c[i]]
    <3>1. c = [i \in 1..a |-> c[i]]
      BY LenProperties
    <3>2. m = [[i \in 1..a |-> c[i]] EXCEPT ![a] = x]
      BY <2>1, <3>1 DEF ReplaceAt
    <3> HIDE DEF a
    <3> QED
      BY <3>2
  <2>3. m \in Seq(Squares) /\ Len(m) = a
    <3>1. m \in [1..a -> Squares]
      BY <1>2, <1>3, <2>2
    <3> QED
      BY <1>3, <3>1
  <2>4. \A k \in 1..a : m[k] = c[k] \/ m[k] = x
    BY <2>2
  <2>5. a \in 1..a /\ ~(c[a].round < r)
    BY <1>2, <1>3, <1>4
  <2> QED
    BY <1>1, <1>2, <2>3, <2>4, <2>5
<1>5. CASE ~(c # <<>> /\ Last(c).id /\ Last(c).round = r)
  <2>1. PICK q : q = Append(c, x)
    OBVIOUS
  <2>2. m = ClampStrip(q)
    BY <1>1, <1>5, <2>1 DEF ApplyRound
  <2>3. q \in Seq(Squares) /\ Len(q) = a + 1 /\ q[a + 1] = x /\ \A k \in 1..a : q[k] = c[k]
    BY <1>2, <1>3, <2>1, AppendProperties
  <2>4. PICK d : d = IF Len(q) > Limit THEN Len(q) - Limit ELSE 0
    OBVIOUS
  <2> HIDE DEF a
  <2>5. /\ m \in Seq(Squares) /\ d \in Nat /\ Len(m) = a + 1 - d /\ Len(m) <= Limit /\ Len(m) \in Nat
        /\ \A k \in 1..Len(m) : k + d \in 1..(a + 1) /\ m[k] = q[k + d]
    <3>1. /\ ClampStrip(q) \in Seq(Squares) /\ d \in Nat /\ Len(ClampStrip(q)) = Len(q) - d
          /\ Len(ClampStrip(q)) <= Limit
          /\ \A k \in 1..Len(ClampStrip(q)) : k + d \in 1..Len(q) /\ ClampStrip(q)[k] = q[k + d]
      BY <2>3, <2>4, ClampFacts
    <3>2. Len(m) \in Nat
      BY <2>2, <3>1, SquareFacts
    <3> QED
      BY <1>3, <2>2, <2>3, <3>1, <3>2
  <2>6. Limit \in Nat \ {0} /\ (d > 0 => Len(m) = Limit) /\ Len(m) # 0
    BY <1>3, <2>3, <2>4, <2>5 DEF Bounds
  <2>7. ASSUME NEW k \in 1..Len(m), k + d <= a
        PROVE  k \in Nat /\ k + d \in 1..a /\ m[k] = c[k + d]
    <3>1. k \in Nat /\ k + d \in 1..a
      BY <1>3, <2>5, <2>7
    <3> QED
      BY <2>3, <2>5, <3>1
  <2>8. ASSUME NEW k \in 1..Len(m), ~(k + d <= a)
        PROVE  k = Len(m) /\ k + d = a + 1 /\ m[k] = x
    <3>1. k = Len(m) /\ k + d = a + 1
      BY <1>3, <2>5, <2>8
    <3> QED
      BY <2>3, <2>5, <3>1
  <2>9. ASSUME NEW k \in 1..Len(m)
        PROVE  (\E i \in 1..a : m[k] = c[i]) \/ (m[k].round = f.round /\ ~m[k].sure)
    BY <1>1, <1>2, <2>7, <2>8
  <2>10. EndOf(m) = r
    <3>1. Len(m) \in 1..Len(m) /\ ~(Len(m) + d <= a)
      BY <1>3, <2>5, <2>6
    <3>2. m # <<>> /\ EndOf(m) = m[Len(m)].round
      BY <2>5, <2>6, SquareFacts
    <3> QED
      BY <1>2, <2>8, <3>1, <3>2
  <2>11. ASSUME \A k \in 1..a : c[k].round < r, NEW s \in Nat, Joined(c, s), r <= s + 1 \/ r <= EndOf(c) + 1
         PROVE  Joined(m, s)
    <3>1. ASSUME NEW k \in 1..Len(m), m[k].round > s, k < Len(m)
          PROVE  m[k + 1].round = m[k].round + 1
      <4>1. k \in Nat /\ k + 1 \in 1..Len(m) /\ (k + 1) + d = (k + d) + 1
        BY <2>5, <3>1
      <4>2. k + d <= a
        BY <1>3, <2>5, <3>1, <4>1
      <4>3. k + d \in 1..a /\ m[k] = c[k + d]
        BY <2>7, <4>2
      <4>4. CASE k + d < a
        <5>1. (k + 1) + d <= a
          BY <1>3, <2>5, <4>1, <4>4
        <5>2. m[k + 1] = c[(k + d) + 1]
          BY <2>7, <4>1, <5>1
        <5> QED
          BY <2>11, <3>1, <4>3, <4>4, <5>2 DEF Joined, a
      <4>5. CASE k + d = a
        <5>1. ~((k + 1) + d <= a) /\ a # 0
          BY <1>3, <2>5, <4>1, <4>3, <4>5
        <5>2. m[k + 1].round = r
          BY <1>2, <2>8, <4>1, <5>1
        <5>3. m[k].round = EndOf(c) /\ EndOf(c) < r /\ EndOf(c) \in Nat
          <6>1. a \in 1..a /\ c[a].round < r
            BY <1>3, <2>11, <4>3, <4>5
          <6> QED
            BY <1>3, <4>3, <4>5, <5>1, <6>1
        <5> QED
          <6>0. EndOf(c) > s /\ r \in Nat
            BY <1>2, <3>1, <5>3
          <6>1. EndOf(c) > s /\ r <= EndOf(c) + 1
            BY <2>11, <5>3, <6>0
          <6>2. r = EndOf(c) + 1
            BY <5>3, <6>0, <6>1
          <6> QED
            BY <5>2, <5>3, <6>2
      <4> QED
        BY <1>3, <4>3, <4>4, <4>5
    <3>2. ASSUME NEW k \in 1..Len(m), m[k].round > s
          PROVE  \/ m[k].round = s + 1
                 \/ k > 1 /\ m[k - 1].round + 1 = m[k].round
                 \/ k = 1 /\ Len(m) = Limit
      <4>0. k \in Nat /\ k >= 1
        BY <2>5
      <4>1. CASE k = 1 /\ d > 0
        BY <2>6, <4>1
      <4>2. CASE k + d <= a
        <5>1. k + d \in 1..a /\ m[k] = c[k + d]
          BY <2>7, <4>2
        <5>2. \/ c[k + d].round = s + 1
              \/ k + d > 1 /\ c[(k + d) - 1].round + 1 = c[k + d].round
              \/ k + d = 1 /\ a = Limit
          BY <2>11, <3>2, <5>1 DEF Joined, a
        <5>3. k + d = 1 => a # Limit
          <6>1. Len(q) = a + 1 /\ d = IF a + 1 > Limit THEN a + 1 - Limit ELSE 0
            BY <1>3, <2>3, <2>4, <2>6
          <6>2. a = Limit => d = 1
            BY <1>3, <2>6, <6>1
          <6> QED
            BY <2>5, <4>0, <6>2
        <5>4. CASE k > 1
          <6>1. k - 1 \in 1..Len(m)
            BY <2>5, <4>0, <5>4
          <6>3. (k - 1) + d <= a /\ (k - 1) + d = (k + d) - 1
            BY <1>3, <2>5, <4>0, <4>2
          <6>2. m[k - 1] = c[(k + d) - 1]
            BY <2>7, <6>1, <6>3
          <6> QED
            BY <5>1, <5>2, <5>3, <5>4, <6>2
        <5>5. CASE k = 1 /\ d = 0
          BY <5>1, <5>2, <5>3, <5>5
        <5> QED
          BY <2>5, <4>0, <4>1, <5>4, <5>5
      <4>3. CASE ~(k + d <= a)
        <5>1. m[k].round = r /\ k + d = a + 1
          BY <1>2, <2>8, <4>3
        <5>2. CASE a = 0
          <6>1. EndOf(c) = 0
            BY <1>3, <5>2 DEF EndOf
          <6> QED
            BY <1>2, <2>11, <3>2, <5>1, <6>1
        <5>3. CASE a # 0 /\ k > 1
          <6>1. k - 1 \in 1..Len(m) /\ (k - 1) + d <= a /\ (k - 1) + d = a /\ a \in 1..a
            BY <1>3, <2>5, <4>0, <5>1, <5>3
          <6>2. m[k - 1] = c[a]
            BY <2>7, <6>1
          <6>3. EndOf(c) = c[a].round /\ c[a].round < r /\ c[a].round \in Nat
            BY <1>3, <2>11, <5>3, <6>1
          <6>5. EndOf(c) \in Nat /\ EndOf(c) < r /\ r > s /\ r \in Nat
            BY <1>2, <3>2, <5>1, <6>3
          <6>4. r = s + 1 \/ EndOf(c) + 1 = r
            BY <2>11, <6>5
          <6> QED
            BY <5>1, <5>3, <6>2, <6>3, <6>4
        <5>4. k = 1 /\ a # 0 => d > 0
          BY <1>3, <2>5, <5>1
        <5> QED
          BY <2>5, <4>0, <4>1, <5>2, <5>3, <5>4
      <4> QED
        BY <4>2, <4>3
    <3> QED
      BY <3>1, <3>2 DEF Joined
  <2> QED
    BY <1>1, <2>5, <2>9, <2>10, <2>11 DEF a
<1> QED
  BY <1>4, <1>5

-----------------------------------------------------------------------------
(* A strip read from the store.                                            *)

\* A cell is of a round there is, and where it is sure it has the round's colour.
\* The rounds before round i were carried out as this one is.
Settled(rs, i) == \A j \in 1..(i - 1) : rs[j].config = rs[i].config /\ ~rs[j].split

Right(rs, cell) ==
  /\ cell.round \in 1..Len(rs)
  /\ cell.sure => Settled(rs, cell.round) /\ cell.status = Colour(rs, cell.round)
AllRight(rs, cells) == \A k \in 1..Len(cells) : Right(rs, cells[k])

LEMMA ShadesOnly ==
  ASSUME NEW kind, NEW alert
  PROVE  RoundCellStatus(kind, alert) \in Shades
  BY DEF RoundCellStatus, Shades

LEMMA ReplayShades ==
  ASSUME NEW st, NEW c, NEW i \in Window
  PROVE  Replay(st, c)[i] \in Shades
<1> DEFINE seed == StripSeed(st, c)
           start == [alert |-> IF seed >= c.consecutive THEN "DOWN" ELSE "UP", cons |-> seed]
           Runs(G) == G = [k \in (First - 1)..Len(rounds) |->
                             IF k < First THEN start ELSE Apply(G[k - 1], Judge(rounds[k].value, c), c.consecutive)]
           F == CHOOSE G : Runs(G)
<1>1. Replay(st, c)[i] = RoundCellStatus(Judge(rounds[i].value, c), F[i].alert)
  BY DEF Replay
<1> HIDE DEF F
<1> QED
  BY <1>1, ShadesOnly

\* roundStatusStrip ends with the newest round, without a gap and in the colours of
\* the machine where it can be sure of them.
LEMMA StripFacts ==
  ASSUME Bounds, rounds \in Histories, NEW c \in Configs,
         Even(c) => Current = After(c.consecutive, rounds, Len(rounds)),
         NEW st, NEW m, m = RoundStatusStrip(st, c)
  PROVE  /\ m \in Seq(Squares) /\ Len(m) <= Limit /\ Joined(m, 0)
         /\ EndOf(m) = Len(rounds) /\ AllRight(rounds, m)
<1> DEFINE w == Cardinality(Window)
           sure == Even(c) /\ st = Current /\ ~CutAlarm(c.consecutive)
<1>1. m = [k \in 1..w |-> [round |-> First + k - 1, status |-> Replay(st, c)[First + k - 1],
                          id |-> FALSE, sure |-> sure]]
  BY DEF RoundStatusStrip
<1>2. /\ Len(rounds) \in Nat /\ First \in Nat /\ 1 <= First /\ First <= Len(rounds) + 1
      /\ w = Len(rounds) - First + 1 /\ w <= Limit /\ (First = 1 \/ w = Limit)
      /\ Len(rounds) > 0 => First <= Len(rounds)
  BY WindowFacts
<1> HIDE DEF w
<1>3. w \in Nat
  BY <1>2
<1>4. ASSUME NEW k \in 1..w PROVE First + k - 1 \in Window /\ First + k - 1 \in 1..Len(rounds) /\ k \in Nat
  BY <1>2, <1>3 DEF Window
<1>5. ASSUME NEW k \in 1..w
      PROVE  m[k] \in Squares /\ m[k].round = First + k - 1 /\ Right(rounds, m[k])
  <2>0. PICK i : i = First + k - 1
    OBVIOUS
  <2>1. m[k] = [round |-> i, status |-> Replay(st, c)[i], id |-> FALSE, sure |-> sure]
    BY <1>1, <2>0
  <2>2. Replay(st, c)[i] \in Shades /\ i \in Nat /\ sure \in BOOLEAN
    BY <1>4, <2>0, ReplayShades
  <2>3. sure => Settled(rounds, i) /\ Replay(st, c)[i] = Colour(rounds, i)
    <3> HAVE sure
    <3>1. /\ st = After(c.consecutive, rounds, Len(rounds)) /\ ~CutAlarm(c.consecutive) /\ i \in Window
          /\ Even(c) /\ Judged(c) /\ i \in 1..Len(rounds) /\ Len(rounds) \in Nat
      BY <1>2, <1>4, <2>0, EvenJudged
    <3>2. \A j \in 1..Len(rounds) : rounds[j].config = c /\ ~rounds[j].split
      <4>1. DOMAIN rounds = 1..Len(rounds)
        BY LenProperties DEF Histories
      <4> QED
        BY <3>1, <4>1 DEF Even
    <3>3. Settled(rounds, i)
      <4>1. \A j \in 1..(i - 1) : j \in 1..Len(rounds)
        BY <3>1
      <4> QED
        BY <3>1, <3>2, <4>1 DEF Settled
    <3>4. PICK need : need = c.consecutive
      OBVIOUS
    <3>5. Replay(st, c)[i] = RoundCellStatus(rounds[i].kind, After(need, rounds, i).alert)
      BY <3>1, <3>4, ReplayIsRight
    <3>6. rounds[i].config.consecutive = need
      BY <3>1, <3>2, <3>4
    <3> QED
      BY <3>3, <3>5, <3>6 DEF Colour
  <2>4. i \in 1..Len(rounds)
    BY <1>4, <2>0
  <2> HIDE DEF sure
  <2> QED
    BY <2>0, <2>1, <2>2, <2>3, <2>4 DEF Squares, Right
<1> HIDE DEF sure
<1>6. m \in Seq(Squares) /\ Len(m) = w
  <2>1. m = [k \in 1..w |-> m[k]]
    BY <1>1
  <2>2. m \in [1..w -> Squares]
    BY <1>5, <2>1
  <2> QED
    BY <1>3, <2>2
<1>7. AllRight(rounds, m)
  BY <1>5, <1>6 DEF AllRight
<1>8. EndOf(m) = Len(rounds)
  <2>1. CASE w = 0
    <3>1. m = <<>> /\ Len(rounds) = 0
      BY <1>2, <1>6, <2>1, SquareFacts
    <3> QED
      BY <3>1 DEF EndOf
  <2>2. CASE w # 0
    <3>1. w \in 1..w /\ m # <<>> /\ EndOf(m) = m[w].round
      BY <1>3, <1>6, <2>2, SquareFacts
    <3> QED
      BY <1>2, <1>3, <1>5, <3>1
  <2> QED
    BY <2>1, <2>2
<1>9. Joined(m, 0)
  <2> SUFFICES ASSUME NEW k \in 1..w
               PROVE  /\ k < w => m[k + 1].round = m[k].round + 1
                      /\ \/ m[k].round = 1
                         \/ k > 1 /\ m[k - 1].round + 1 = m[k].round
                         \/ k = 1 /\ w = Limit
    BY <1>6 DEF Joined
  <2>1. m[k].round = First + k - 1 /\ k \in Nat
    BY <1>4, <1>5
  <2>2. k < w => m[k + 1].round = m[k].round + 1
    <3> HAVE k < w
    <3>1. k + 1 \in 1..w
      BY <1>3, <2>1
    <3>2. m[k + 1].round = First + (k + 1) - 1
      BY <1>5, <3>1
    <3> QED
      BY <1>2, <2>1, <3>2
  <2>3. k > 1 => m[k - 1].round + 1 = m[k].round
    <3> HAVE k > 1
    <3>1. k - 1 \in 1..w
      BY <1>3, <2>1
    <3>2. m[k - 1].round = First + (k - 1) - 1
      BY <1>5, <3>1
    <3> QED
      BY <1>2, <2>1, <3>2
  <2>4. k = 1 => m[k].round = 1 \/ w = Limit
    BY <1>2, <2>1
  <2> QED
    BY <1>3, <2>1, <2>2, <2>3, <2>4
<1> QED
  BY <1>2, <1>6, <1>7, <1>8, <1>9

-----------------------------------------------------------------------------
(* The inductive invariant.                                                *)

Pushes == [type : {"round"}, round : Nat, status : Shades]
Bundles == [type : {"strips", "row", "bare"}, cells : Seq(Squares)]
Frames == Pushes \cup Bundles
Links == [n : Nat, up : BOOLEAN, queue : Seq(Frames)]
Pages == [cells : Seq(Squares), asked : Nat, aligned : BOOLEAN, torn : BOOLEAN]
Stages == {"none", "begun", "listed", "state", "ready", "bare"}
Reads == [stage : Stages, config : Configs, state : States, cells : Seq(Squares)]

\* A strip that was read: of the rounds rs, without a gap, no longer than the limit.
Strip(rs, cells) == cells \in Seq(Squares) /\ Len(cells) <= Limit /\ Joined(cells, 0) /\ AllRight(rs, cells)

\* Rounds that were announced, the last one possibly excepted.
Done == IF closing = "no" THEN Len(rounds) ELSE Len(rounds) - 1

\* The state is that of the rounds upto, if n bad ones made an alarm in all of them
\* and each was applied.
One(rs, n, upto) == \A j \in 1..upto : rs[j].config.consecutive = n /\ ~rs[j].split
StateFits(st, rs, upto) == \A n \in Nat \ {0} : One(rs, n, upto) => st = After(n, rs, upto)

\* A round that was carried out as those before it was pushed with its colour.
LiveFits(rs, i) == rs[i].live # "" /\ ~rs[i].split /\ Settled(rs, i) => rs[i].live = Colour(rs, i)

\* The scheduler's side.
Recorded ==
  /\ rounds \in Histories /\ Len(rounds) <= MaxRounds
  /\ config \in [row : Configs, held : Configs]
  /\ closing \in {"no", "closed", "stepped"}
  /\ closing # "no" => rounds # <<>> /\ ~rounds[Len(rounds)].split
  /\ state \in States
  /\ StateFits(state, rounds, IF closing = "closed" THEN Len(rounds) - 1 ELSE Len(rounds))
  /\ \A i \in 1..Len(rounds) : LiveFits(rounds, i)

ReadsRight(rs, rd) == rd \in [Readers -> Reads] /\ \A r \in Readers : Strip(rs, rd[r].cells)

\* What is queued is right, and the rounds come in their order.
QueueRight(rs, q, done) ==
  /\ q \in Seq(Frames) /\ Len(q) <= QueueCap
  /\ \A k \in 1..Len(q) :
       IF q[k].type = "round"
         THEN q[k].round \in 1..Len(rs) /\ q[k].round <= done
         ELSE Strip(rs, q[k].cells)
  /\ \A k, m \in 1..Len(q) : k < m /\ q[k].type = "round" /\ q[m].type = "round" => q[k].round < q[m].round

PageRight(rs, pg) == pg \in Pages /\ Len(pg.cells) <= Limit /\ AllRight(rs, pg.cells)

LinkRight ==
  /\ link \in Links /\ left \in Nat
  /\ (link.n = 0 => left <= MaxExtras) /\ (link.n # 0 => link.n + left <= MaxExtras + 1)
  /\ ~link.up => link.queue = <<>> /\ reads["snapshot"].stage = "none"

Queued(q, j) == \E k \in 1..Len(q) : q[k].type = "round" /\ q[k].round = j

\* Above round s the page has no gap, but for rounds that are on their way.
Whole(cells, q, done, s) ==
  Joined(cells, s) /\ \A j \in 1..done : j > s /\ j > EndOf(cells) => Queued(q, j)

\* What the page counts on: its strip if it has had its snapshot, and otherwise
\* the snapshot that is read or queued, with what the page has got since.
Promised(rd, q, aligned, s) ==
  \/ aligned /\ s = 0
  \/ rd["snapshot"].stage = "ready" /\ s = EndOf(rd["snapshot"].cells)
  \/ \E k \in 1..Len(q) : q[k].type = "strips" /\ s = EndOf(q[k].cells)

Kept ==
  link.up /\ ~page.torn =>
    \A s \in Nat : Promised(reads, link.queue, page.aligned, s) => Whole(page.cells, link.queue, Done, s)

FeedInv == /\ Recorded /\ ReadsRight(rounds, reads) /\ QueueRight(rounds, link.queue, Done)
           /\ PageRight(rounds, page) /\ LinkRight /\ Kept

-----------------------------------------------------------------------------
(* How the parts of the invariant are kept.                                *)

\* The rounds rs go on in qs: later ones may follow, and the last of rs may have
\* been announced or given up meanwhile.
GoesOn(rs, qs) ==
  /\ Len(rs) \in Nat /\ Len(qs) \in Nat /\ Len(rs) <= Len(qs)
  /\ \A j \in 1..Len(rs) : qs[j].kind = rs[j].kind /\ qs[j].config = rs[j].config
  /\ \A j \in 1..(Len(rs) - 1) : qs[j].split = rs[j].split

LEMMA StaysSettled ==
  ASSUME NEW rs, NEW qs, GoesOn(rs, qs), NEW i \in 1..Len(rs)
  PROVE  /\ i \in 1..Len(qs) /\ Colour(qs, i) = Colour(rs, i)
         /\ Settled(qs, i) <=> Settled(rs, i)
<1>1. i \in Int /\ 1 <= i /\ i \in 1..Len(qs) /\ \A j \in 1..i : j \in 1..Len(rs)
  BY DEF GoesOn
<1>2. \A j \in 1..(i - 1) : j \in 1..Len(rs) /\ j \in 1..(Len(rs) - 1)
  BY DEF GoesOn
<1>3. Colour(qs, i) = Colour(rs, i)
  <2>1. (\A j \in 1..i : qs[j].kind = rs[j].kind) /\ qs[i].config = rs[i].config
    BY <1>1 DEF GoesOn
  <2> QED
    BY <1>1, <2>1, SameColour
<1>4. Settled(qs, i) <=> Settled(rs, i)
  BY <1>1, <1>2 DEF GoesOn, Settled
<1> QED
  BY <1>1, <1>3, <1>4

LEMMA RightKept ==
  ASSUME NEW rs, NEW qs, GoesOn(rs, qs), NEW cells, AllRight(rs, cells)
  PROVE  AllRight(qs, cells)
<1> SUFFICES ASSUME NEW k \in 1..Len(cells) PROVE Right(qs, cells[k])
  BY DEF AllRight
<1>1. PICK i : i = cells[k].round
  OBVIOUS
<1>2. i \in 1..Len(rs) /\ (cells[k].sure => Settled(rs, i) /\ cells[k].status = Colour(rs, i))
  BY <1>1 DEF AllRight, Right
<1>3. i \in 1..Len(qs) /\ Colour(qs, i) = Colour(rs, i) /\ (Settled(qs, i) <=> Settled(rs, i))
  BY <1>2, StaysSettled
<1> QED
  BY <1>1, <1>2, <1>3 DEF Right

\* More rounds, or the last of them announced, leave what was shown of the others right.
LEMMA Grown ==
  ASSUME NEW rs, NEW qs, GoesOn(rs, qs)
  PROVE  /\ \A rd : ReadsRight(rs, rd) => ReadsRight(qs, rd)
         /\ \A pg : PageRight(rs, pg) => PageRight(qs, pg)
         /\ \A q, done, more : done \in Nat /\ more \in Nat /\ done <= more /\ QueueRight(rs, q, done)
                                 => QueueRight(qs, q, more)
<1>1. \A cells : AllRight(rs, cells) => AllRight(qs, cells)
  BY RightKept
<1>2. \A cells : Strip(rs, cells) => Strip(qs, cells)
  BY <1>1 DEF Strip
<1>3. \A i \in 1..Len(rs) : i \in 1..Len(qs)
  BY DEF GoesOn
<1>4. ASSUME NEW q, NEW done \in Nat, NEW more \in Nat, done <= more, QueueRight(rs, q, done)
      PROVE  QueueRight(qs, q, more)
  <2> SUFFICES ASSUME NEW k \in 1..Len(q)
               PROVE  IF q[k].type = "round"
                        THEN q[k].round \in 1..Len(qs) /\ q[k].round <= more
                        ELSE Strip(qs, q[k].cells)
    BY <1>4 DEF QueueRight
  <2>1. CASE q[k].type = "round"
    <3>1. q[k].round \in 1..Len(rs) /\ q[k].round <= done
      BY <1>4, <2>1 DEF QueueRight
    <3>2. q[k].round <= more
      BY <1>4, <3>1
    <3> QED
      BY <1>3, <2>1, <3>1, <3>2
  <2>2. CASE q[k].type # "round"
    BY <1>2, <1>4, <2>2 DEF QueueRight
  <2> QED
    BY <2>1, <2>2
<1> QED
  BY <1>1, <1>2, <1>4 DEF ReadsRight, PageRight

LEMMA NothingRead ==
  ASSUME NEW rs, Bounds
  PROVE  /\ NoRead \in Reads /\ NoRead.stage = "none" /\ NoRead.cells = <<>>
         /\ Strip(rs, <<>>) /\ EndOf(<<>>) = 0
<1>1. <<>> \in Seq(Squares) /\ Len(<<>>) = 0
  BY EmptySeq, SquareFacts
<1>2. Fresh \in States
  BY DEF Fresh, States
<1>3. PICK d : d = CHOOSE c \in Configs : TRUE
  OBVIOUS
<1>4. d \in Configs
  BY <1>3 DEF Bounds
<1>5. NoRead = [stage |-> "none", config |-> d, state |-> Fresh, cells |-> <<>>]
  BY <1>3 DEF NoRead
<1> QED
  BY <1>1, <1>2, <1>4, <1>5 DEF Reads, Stages, Strip, Joined, AllRight, EndOf, Bounds

LEMMA QueueAppend ==
  ASSUME NEW rs, NEW q, NEW done \in Nat, QueueRight(rs, q, done), Len(q) < QueueCap, Bounds,
         NEW f \in Frames, NEW more \in Nat, done <= more,
         f.type = "round" => f.round \in 1..Len(rs) /\ f.round > done /\ f.round <= more,
         f.type # "round" => Strip(rs, f.cells)
  PROVE  /\ QueueRight(rs, Append(q, f), more) /\ Len(Append(q, f)) = Len(q) + 1 /\ Len(q) \in Nat
         /\ Append(q, f)[Len(q) + 1] = f /\ \A k \in 1..Len(q) : Append(q, f)[k] = q[k]
<1> SUFFICES ASSUME NEW p, p = Append(q, f)
             PROVE  /\ QueueRight(rs, p, more) /\ Len(p) = Len(q) + 1 /\ Len(q) \in Nat /\ p[Len(q) + 1] = f
                    /\ \A k \in 1..Len(q) : p[k] = q[k]
  OBVIOUS
<1>1. /\ p \in Seq(Frames) /\ Len(p) = Len(q) + 1 /\ Len(q) \in Nat /\ p[Len(q) + 1] = f
      /\ \A k \in 1..Len(q) : p[k] = q[k]
  BY AppendProperties, LenProperties DEF QueueRight
<1>2. Len(p) <= QueueCap
  BY <1>1 DEF Bounds
<1>3. \A k \in 1..Len(p) : k \in 1..Len(q) \/ k = Len(q) + 1
  BY <1>1
<1>4. \A k \in 1..Len(q) : q[k].type = "round" => q[k].round \in Nat /\ q[k].round <= done
  <2> SUFFICES ASSUME NEW k \in 1..Len(q), q[k].type = "round" PROVE q[k].round \in Nat /\ q[k].round <= done
    OBVIOUS
  <2>1. q[k] \in Frames
    BY ElementOfSeq DEF QueueRight
  <2> QED
    BY <2>1 DEF QueueRight, Frames, Pushes, Bundles
<1>5. ASSUME NEW k \in 1..Len(p)
      PROVE  IF p[k].type = "round"
               THEN p[k].round \in 1..Len(rs) /\ p[k].round <= more
               ELSE Strip(rs, p[k].cells)
  <2>1. CASE k \in 1..Len(q)
    <3>1. p[k] = q[k] /\ (q[k].type = "round" => q[k].round <= more)
      BY <1>1, <1>4, <2>1
    <3> QED
      BY <2>1, <3>1 DEF QueueRight
  <2>2. CASE k = Len(q) + 1
    BY <1>1, <2>2
  <2> QED
    BY <1>3, <2>1, <2>2
<1>6. ASSUME NEW k \in 1..Len(p), NEW m \in 1..Len(p), k < m, p[k].type = "round", p[m].type = "round"
      PROVE  p[k].round < p[m].round
  <2>1. k \in 1..Len(q)
    BY <1>1, <1>6
  <2>2. CASE m \in 1..Len(q)
    BY <1>1, <1>6, <2>1, <2>2 DEF QueueRight
  <2>3. CASE m = Len(q) + 1
    <3>1. f.round \in Nat /\ f.round > done /\ q[k].round <= done /\ q[k].round \in Nat
      BY <1>1, <1>4, <1>6, <2>1, <2>3 DEF Frames, Pushes, Bundles
    <3> QED
      BY <1>1, <2>1, <2>3, <3>1
  <2> QED
    BY <1>3, <2>2, <2>3
<1> QED
  BY <1>1, <1>2, <1>5, <1>6 DEF QueueRight

LEMMA QueueTail ==
  ASSUME NEW rs, NEW q, NEW done \in Nat, QueueRight(rs, q, done), q # <<>>, Bounds, NEW p, p = Tail(q)
  PROVE  /\ QueueRight(rs, p, done) /\ Len(q) \in Nat /\ Len(p) + 1 = Len(q) /\ Len(p) \in Nat
         /\ \A k \in 1..Len(p) : p[k] = q[k + 1] /\ k + 1 \in 1..Len(q)
         /\ Head(q) = q[1] /\ 1 \in 1..Len(q) /\ Head(q) \in Frames
<1>1. q \in Seq(Frames) /\ Len(q) \in Nat /\ Len(q) # 0
  BY LenProperties, EmptySeq DEF QueueRight
<1>2. /\ p \in Seq(Frames) /\ Len(p) + 1 = Len(q) /\ Len(p) \in Nat
      /\ \A k \in 1..Len(p) : p[k] = q[k + 1]
      /\ Head(q) = q[1] /\ Head(q) \in Frames
  <2>1. /\ Tail(q) \in Seq(Frames) /\ Len(Tail(q)) = Len(q) - 1
        /\ \A k \in 1..Len(Tail(q)) : Tail(q)[k] = q[k + 1]
        /\ Head(q) = q[1] /\ Head(q) \in Frames
    BY <1>1, HeadTailProperties
  <2> QED
    BY <1>1, <2>1
<1>3. \A k \in 1..Len(p) : k + 1 \in 1..Len(q) /\ k \in Nat
  BY <1>2
<1>4. Len(p) <= QueueCap
  BY <1>1, <1>2 DEF QueueRight, Bounds
<1>5. ASSUME NEW k \in 1..Len(p)
      PROVE  IF p[k].type = "round"
               THEN p[k].round \in 1..Len(rs) /\ p[k].round <= done
               ELSE Strip(rs, p[k].cells)
  BY <1>2, <1>3 DEF QueueRight
<1>6. ASSUME NEW k \in 1..Len(p), NEW m \in 1..Len(p), k < m, p[k].type = "round", p[m].type = "round"
      PROVE  p[k].round < p[m].round
  <2>1. k + 1 \in 1..Len(q) /\ m + 1 \in 1..Len(q) /\ k + 1 < m + 1 /\ p[k] = q[k + 1] /\ p[m] = q[m + 1]
    BY <1>2, <1>3, <1>6
  <2> QED
    BY <1>6, <2>1 DEF QueueRight
<1> QED
  BY <1>1, <1>2, <1>3, <1>4, <1>5, <1>6 DEF QueueRight

LEMMA FeedFacts ==
  ASSUME Bounds, FeedInv
  PROVE  /\ Len(rounds) \in Nat /\ DOMAIN rounds = 1..Len(rounds) /\ Done \in Nat /\ Done <= Len(rounds)
         /\ rounds # <<>> <=> Len(rounds) # 0
         /\ rounds # <<>> => Last(rounds) = rounds[Len(rounds)]
         /\ StateFits(Current, rounds, Len(rounds))
         /\ page.cells \in Seq(Squares) /\ EndOf(page.cells) \in Nat
         /\ \A k \in 1..Len(page.cells) : page.cells[k].round \in 1..Len(rounds)
<1>1. /\ Len(rounds) \in Nat /\ DOMAIN rounds = 1..Len(rounds) /\ (rounds # <<>> <=> Len(rounds) # 0)
  BY LenProperties, EmptySeq DEF FeedInv, Recorded, Histories
<1>0. closing # "no" => rounds # <<>>
  BY DEF FeedInv, Recorded
<1>2. Done \in Nat /\ Done <= Len(rounds)
  <2>1. CASE closing = "no"
    BY <1>1, <2>1 DEF Done
  <2>2. CASE closing # "no"
    BY <1>0, <1>1, <2>2 DEF Done
  <2> QED
    BY <2>1, <2>2
<1>3. rounds # <<>> => Last(rounds) = rounds[Len(rounds)]
  BY DEF Last
<1>4. StateFits(Current, rounds, Len(rounds))
  <2>1. CASE closing = "closed"
    <3>1. PICK n : n = Len(rounds)
      OBVIOUS
    <3>2. n \in Nat /\ n # 0 /\ Last(rounds) = rounds[n] /\ n \in 1..Len(rounds) /\ n \in Int /\ 1 <= n
      BY <1>0, <1>1, <1>3, <2>1, <3>1
    <3>3. StateFits(state, rounds, n - 1)
      BY <2>1, <3>1 DEF FeedInv, Recorded
    <3>4. PICK kind \in Kinds : kind = rounds[n].kind
      BY <3>2, RoundFacts DEF FeedInv, Recorded
    <3>5. ASSUME NEW m \in Nat \ {0}, One(rounds, m, n) PROVE Current = After(m, rounds, n)
      <4>1. One(rounds, m, n - 1) /\ rounds[n].config.consecutive = m
        <5>1. \A j \in 1..(n - 1) : j \in 1..n
          BY <3>2
        <5>2. n \in 1..n
          BY <3>2
        <5> QED
          BY <3>5, <5>1, <5>2 DEF One
      <4>2. state = After(m, rounds, n - 1)
        BY <3>3, <4>1 DEF StateFits
      <4>3. Level(m, Tally(rounds, 1, 0, n)) = Apply(Level(m, Tally(rounds, 1, 0, n - 1)), kind, m)
        BY <3>2, <3>4, LevelStep
      <4>4. Current = Apply(state, kind, m)
        BY <2>1, <3>2, <3>4, <4>1 DEF Current
      <4> QED
        BY <4>2, <4>3, <4>4 DEF After
    <3> QED
      BY <3>1, <3>5 DEF StateFits
  <2>2. CASE closing # "closed"
    BY <2>2 DEF Current, FeedInv, Recorded
  <2> QED
    BY <2>1, <2>2
<1>5. page.cells \in Seq(Squares)
  BY DEF FeedInv, PageRight, Pages
<1>6. EndOf(page.cells) \in Nat /\ \A k \in 1..Len(page.cells) : page.cells[k].round \in 1..Len(rounds)
  BY <1>5, SquareFacts DEF FeedInv, PageRight, AllRight, Right
<1> QED
  BY <1>1, <1>2, <1>3, <1>4, <1>5, <1>6

LEMMA InitInv == ASSUME Bounds, Init PROVE FeedInv
<1>1. rounds = <<>> /\ Len(rounds) = 0 /\ rounds \in Histories
  BY EmptySeq, LenProperties DEF Init, Histories
<1>2. Recorded
  <2>1. Failing(rounds, 1, 0) = {}
    BY DEF Failing
  <2>2. Tally(rounds, 1, 0, 0) = 0
    <3>1. Cardinality(Failing(rounds, 1, 0)) = 0
      BY <2>1, FS_EmptySet
    <3> QED
      BY <3>1, TallyFrom
  <2>3. Fresh \in States /\ \A n \in Nat \ {0} : Level(n, 0) = Fresh
    BY DEF Level, Fresh, States
  <2>4. StateFits(Fresh, rounds, 0)
    BY <2>2, <2>3 DEF StateFits, After
  <2>5. PICK c \in Configs : config = [row |-> c, held |-> c]
    BY DEF Init
  <2>6. config \in [row : Configs, held : Configs]
    BY <2>5
  <2> QED
    BY <1>1, <2>3, <2>4, <2>6 DEF Init, Recorded, Bounds
<1>3. ReadsRight(rounds, reads)
  BY NothingRead DEF Init, ReadsRight
<1>4. QueueRight(rounds, link.queue, Done)
  <2>1. link.queue = <<>> /\ Len(link.queue) = 0 /\ link.queue \in Seq(Frames)
    BY EmptySeq, LenProperties DEF Init
  <2> QED
    BY <2>1 DEF QueueRight, Bounds
<1>5. PageRight(rounds, page)
  <2>1. page \in Pages /\ page.cells = <<>>
    BY NothingRead DEF Init, Pages, Strip
  <2> QED
    BY <2>1, NothingRead DEF PageRight, Strip
<1>6. LinkRight /\ Kept
  <2>1. link \in Links /\ link.n = 0 /\ ~link.up /\ link.queue = <<>>
    BY EmptySeq DEF Init, Links
  <2> QED
    BY <2>1, NothingRead DEF Init, LinkRight, Kept, Bounds, Readers
<1> QED
  BY <1>2, <1>3, <1>4, <1>5, <1>6 DEF FeedInv

\* The parts put together again.
LEMMA InvFrom ==
  ASSUME Recorded', ReadsRight(rounds', reads'), QueueRight(rounds', link'.queue, Done'),
         PageRight(rounds', page'), LinkRight', Kept'
  PROVE  FeedInv'
  BY DEF FeedInv

LEMMA CloseRoundStep == ASSUME Bounds, FeedInv, CloseRound PROVE FeedInv'
<1>0. PICK value \in Values : rounds' = Append(rounds, [value |-> value, kind |-> Judge(value, config.held),
                                 config |-> config.held, live |-> "", split |-> FALSE])
  BY DEF CloseRound
<1>1. PICK c, kind : c = config.held /\ kind = Judge(value, c)
  OBVIOUS
<1>2. PICK n, qs, x : n = Len(rounds) /\ qs = rounds'
                      /\ x = [value |-> value, kind |-> kind, config |-> c, live |-> "", split |-> FALSE]
  OBVIOUS
<1>3. x \in Rounds /\ x.kind = Judge(x.value, x.config) /\ x.live = "" /\ x.split = FALSE
  <2>1. c \in Configs /\ value \in Nat /\ kind \in Kinds
    BY <1>1 DEF FeedInv, Recorded, Bounds, Judge, Kinds
  <2> QED
    BY <1>1, <1>2, <2>1 DEF Rounds, Lives
<1>4. /\ n \in Nat /\ qs \in Histories /\ Len(qs) = n + 1 /\ qs[n + 1] = x
      /\ \A i \in 1..n : qs[i] = rounds[i]
  <2>0. PICK S : S = {rd \in Rounds : rd.kind = Judge(rd.value, rd.config)}
    OBVIOUS
  <2>1. rounds \in Seq(S) /\ n \in Nat /\ x \in S /\ Histories = Seq(S)
    BY <1>2, <1>3, <2>0, FeedFacts DEF FeedInv, Recorded, Histories
  <2>2. qs = Append(rounds, x)
    BY <1>0, <1>1, <1>2
  <2>3. /\ Append(rounds, x) \in Seq(S) /\ Len(Append(rounds, x)) = Len(rounds) + 1
        /\ Append(rounds, x)[Len(rounds) + 1] = x
        /\ \A i \in 1..Len(rounds) : Append(rounds, x)[i] = rounds[i]
    BY <2>1, AppendProperties
  <2> QED
    BY <1>2, <2>1, <2>2, <2>3
<1>5. closing = "no" /\ closing' = "closed" /\ Len(rounds) < MaxRounds
      /\ UNCHANGED <<config, state, link, reads, page, left>>
  BY DEF CloseRound
<1>a. GoesOn(rounds, qs)
  <2>1. n \in Nat /\ n + 1 \in Nat /\ n <= n + 1
    BY <1>4
  <2>2. \A j \in 1..(n - 1) : j \in 1..n
    BY <1>4
  <2> QED
    BY <1>2, <1>4, <2>1, <2>2 DEF GoesOn
<1>6. Done' = n /\ Done = n
  <2>1. Len(rounds') - 1 = n
    <3>1. Len(qs) - 1 = n
      BY <1>4
    <3> QED
      BY <1>2, <3>1
  <2> QED
    BY <1>2, <1>5, <2>1 DEF Done
<1>7. Recorded'
  <2>1. Len(qs) <= MaxRounds /\ Len(qs) - 1 = n /\ qs # <<>>
    <3>1. qs # <<>>
      BY <1>4, EmptySeq
    <3>2. n < MaxRounds /\ MaxRounds \in Nat
      BY <1>2, <1>5 DEF Bounds
    <3> QED
      BY <1>4, <3>1, <3>2
  <2>2. StateFits(state, qs, n)
    <3>1. \A m \in Nat \ {0} : After(m, qs, n) = After(m, rounds, n)
      <4>1. Tally(qs, 1, 0, n) = Tally(rounds, 1, 0, n)
        BY <1>4, SameTally
      <4> QED
        BY <4>1 DEF After
    <3>2. \A m \in Nat \ {0} : One(qs, m, n) => One(rounds, m, n)
      BY <1>4 DEF One
    <3>3. StateFits(state, rounds, n)
      BY <1>2, <1>5 DEF FeedInv, Recorded
    <3> QED
      BY <3>1, <3>2, <3>3 DEF StateFits
  <2>3. \A i \in 1..Len(qs) : LiveFits(qs, i)
    <3> SUFFICES ASSUME NEW i \in 1..(n + 1) PROVE LiveFits(qs, i)
      BY <1>4
    <3>1. CASE i = n + 1
      BY <1>3, <1>4, <3>1 DEF LiveFits
    <3>2. CASE i # n + 1
      <4>1. i \in 1..n
        BY <1>4, <3>2
      <4>2. Colour(qs, i) = Colour(rounds, i) /\ (Settled(qs, i) <=> Settled(rounds, i))
        BY <1>2, <1>a, <4>1, StaysSettled
      <4>3. LiveFits(rounds, i) /\ qs[i] = rounds[i]
        BY <1>2, <1>4, <4>1 DEF FeedInv, Recorded
      <4> QED
        BY <4>2, <4>3 DEF LiveFits
    <3> QED
      BY <3>1, <3>2
  <2>4. ~qs[Len(qs)].split
    BY <1>3, <1>4
  <2>5. config' \in [row : Configs, held : Configs] /\ state' = state /\ state \in States
    BY <1>5 DEF FeedInv, Recorded
  <2>6. StateFits(state', qs, IF closing' = "closed" THEN Len(qs) - 1 ELSE Len(qs))
    BY <1>5, <2>1, <2>2, <2>5
  <2> QED
    BY <1>2, <1>4, <1>5, <2>1, <2>3, <2>4, <2>5, <2>6 DEF Recorded
<1>8. /\ ReadsRight(qs, reads) /\ PageRight(qs, page) /\ QueueRight(qs, link.queue, n)
  <2>2. n <= n
    BY <1>4
  <2> QED
    BY <1>4, <1>6, <1>a, <2>2, Grown DEF FeedInv
<1>9. LinkRight' /\ Kept'
  <2>1. LinkRight'
    BY <1>5 DEF FeedInv, LinkRight
  <2>2. Kept'
    BY <1>5, <1>6 DEF FeedInv, Kept
  <2> QED
    BY <2>1, <2>2
<1> QED
  BY <1>2, <1>5, <1>6, <1>7, <1>8, <1>9, InvFrom

LEMMA ApplyAlertStep == ASSUME Bounds, FeedInv, ApplyAlert PROVE FeedInv'
<1>1. /\ closing = "closed" /\ closing' = "stepped" /\ UNCHANGED <<rounds, link, reads, page, left>>
      /\ state' = Current /\ config' = [config EXCEPT !.held = config.row]
  BY DEF ApplyAlert, Current
<1>2. Done' = Done
  BY <1>1 DEF Done
<1>3. StateFits(state', rounds, Len(rounds))
  BY <1>1, FeedFacts
<1>4. state' \in States
  <2>1. PICK st, kind, n : st = state /\ kind = Last(rounds).kind /\ n = Last(rounds).config.consecutive
    OBVIOUS
  <2>2. state' = Apply(st, kind, n) /\ st \in States
    BY <1>1, <2>1 DEF Current, FeedInv, Recorded
  <2>3. Apply(st, kind, n) \in States
    BY <2>2 DEF Apply, Fresh, States
  <2> QED
    BY <2>2, <2>3
<1>5. Recorded'
  <2>1. config' \in [row : Configs, held : Configs]
    BY <1>1 DEF FeedInv, Recorded
  <2>2. StateFits(state', rounds', IF closing' = "closed" THEN Len(rounds') - 1 ELSE Len(rounds'))
    BY <1>1, <1>3
  <2> QED
    BY <1>1, <1>4, <2>1, <2>2 DEF FeedInv, Recorded
<1>6. LinkRight' /\ Kept'
  <2>1. LinkRight'
    BY <1>1 DEF FeedInv, LinkRight
  <2>2. Kept'
    BY <1>1, <1>2 DEF FeedInv, Kept
  <2> QED
    BY <2>1, <2>2
<1> QED
  BY <1>1, <1>2, <1>5, <1>6, InvFrom DEF FeedInv

LEMMA BroadcastRoundFinalizedStep == ASSUME Bounds, FeedInv, BroadcastRoundFinalized PROVE FeedInv'
<1>1. PICK n, qs, status, f : /\ n = Len(rounds) /\ qs = rounds'
                              /\ status = RoundCellStatus(Judge(Last(rounds).value, config.held), state.alert)
                              /\ f = [type |-> "round", round |-> n, status |-> status]
  OBVIOUS
<1>2. /\ closing = "stepped" /\ closing' = "no" /\ UNCHANGED <<state, reads, left>>
      /\ config' = [config EXCEPT !.held = config.row]
      /\ qs = [rounds EXCEPT ![n] = [Last(rounds) EXCEPT !.live = status, !.split = config.held # Last(rounds).config]]
      /\ Broadcast(f)
  BY <1>1 DEF BroadcastRoundFinalized
<1>3. n \in Nat /\ n # 0 /\ n \in 1..n /\ Last(rounds) = rounds[n] /\ DOMAIN rounds = 1..n
  <2>1. rounds # <<>>
    BY <1>2 DEF FeedInv, Recorded
  <2> QED
    BY <1>1, <2>1, FeedFacts
<1>d. \A j \in 1..n : j # n => j \in 1..(n - 1)
  <2>1. n \in Nat
    BY <1>3
  <2> QED
    BY <2>1
<1>4. StateFits(state, rounds, n) /\ state \in States /\ ~rounds[n].split /\ rounds \in Histories
  BY <1>1, <1>2 DEF FeedInv, Recorded
<1>5. status \in Shades
  BY <1>1, ShadesOnly
<1>6. Done = n - 1 /\ n - 1 \in Nat
  BY <1>1, <1>2, <1>3 DEF Done
<1>b. PICK moved : moved = (config.held # rounds[n].config)
  OBVIOUS
<1>7. /\ qs \in Histories /\ Len(qs) = n
      /\ \A i \in 1..n : /\ qs[i].kind = rounds[i].kind /\ qs[i].config = rounds[i].config
                         /\ qs[i].live = (IF i = n THEN status ELSE rounds[i].live)
                         /\ i # n => qs[i].split = rounds[i].split
      /\ qs[n].split <=> moved
  <2>0. PICK S : S = {rd \in Rounds : rd.kind = Judge(rd.value, rd.config)}
    OBVIOUS
  <2>1. rounds \in [1..n -> S]
    BY <1>1, <1>4, <2>0, LenProperties DEF Histories
  <2>2. PICK y, x : y = rounds[n] /\ x = [y EXCEPT !.live = status, !.split = moved]
    OBVIOUS
  <2>3. y \in Rounds /\ y.kind = Judge(y.value, y.config)
    BY <1>3, <2>0, <2>1, <2>2
  <2>4. /\ x \in Rounds /\ x.kind = y.kind /\ x.value = y.value /\ x.config = y.config
        /\ x.live = status /\ x.split = moved
    <3>1. moved \in BOOLEAN /\ status \in Lives
      BY <1>5, <1>b DEF Lives, Shades
    <3> QED
      BY <2>2, <2>3, <3>1 DEF Rounds
  <2>a. x \in S
    BY <2>0, <2>3, <2>4
  <2>5. qs = [rounds EXCEPT ![n] = x]
    BY <1>2, <1>3, <1>b, <2>2
  <2>6. /\ qs \in [1..n -> S] /\ qs[n] = x /\ \A i \in 1..n : i # n => qs[i] = rounds[i]
    BY <1>3, <2>1, <2>5, <2>a
  <2>7. qs \in Seq(S) /\ Len(qs) = n
    BY <1>3, <2>6
  <2>8. ASSUME NEW i \in 1..n
        PROVE  /\ qs[i].kind = rounds[i].kind /\ qs[i].config = rounds[i].config
               /\ qs[i].live = (IF i = n THEN status ELSE rounds[i].live)
               /\ i # n => qs[i].split = rounds[i].split
    <3>1. CASE i = n
      BY <2>2, <2>4, <2>6, <3>1
    <3>2. CASE i # n
      BY <2>6, <3>2
    <3> QED
      BY <3>1, <3>2
  <2>9. qs[n].split <=> moved
    BY <2>4, <2>6
  <2>10. qs \in Histories
    BY <2>0, <2>7 DEF Histories
  <2> QED
    BY <2>7, <2>8, <2>9, <2>10
<1>c. GoesOn(rounds, qs)
  <2>1. \A j \in 1..(n - 1) : j \in 1..n /\ j # n
    BY <1>3
  <2> QED
    BY <1>1, <1>3, <1>7, <2>1 DEF GoesOn
<1>8. Done' = n
  BY <1>1, <1>2, <1>7 DEF Done
<1>9. \A i \in 1..n : Colour(qs, i) = Colour(rounds, i) /\ (Settled(qs, i) <=> Settled(rounds, i))
  BY <1>1, <1>c, StaysSettled
<1>10. Recorded'
  <2>1. StateFits(state, qs, n)
    <3>1. \A m \in Nat \ {0} : After(m, qs, n) = After(m, rounds, n)
      <4>1. Tally(qs, 1, 0, n) = Tally(rounds, 1, 0, n)
        BY <1>3, <1>7, SameTally
      <4> QED
        BY <4>1 DEF After
    <3>2. \A m \in Nat \ {0} : One(qs, m, n) => One(rounds, m, n)
      <4> SUFFICES ASSUME NEW m \in Nat \ {0}, One(qs, m, n), NEW j \in 1..n
                   PROVE  rounds[j].config.consecutive = m /\ ~rounds[j].split
        BY DEF One
      <4>1. qs[j].config.consecutive = m /\ ~qs[j].split
        BY DEF One
      <4> QED
        BY <1>4, <1>7, <4>1
    <3> QED
      BY <1>4, <3>1, <3>2 DEF StateFits
  <2>2. \A i \in 1..n : LiveFits(qs, i)
    <3> SUFFICES ASSUME NEW i \in 1..n, qs[i].live # "", ~qs[i].split, Settled(qs, i)
                 PROVE  qs[i].live = Colour(qs, i)
      BY DEF LiveFits
    <3>0. Settled(rounds, i) /\ Colour(qs, i) = Colour(rounds, i)
      BY <1>9
    <3>1. CASE i # n
      <4>1. rounds[i].live # "" /\ ~rounds[i].split /\ qs[i].live = rounds[i].live
        BY <1>7, <3>1
      <4>2. LiveFits(rounds, i)
        BY <1>1 DEF FeedInv, Recorded
      <4> QED
        BY <3>0, <4>1, <4>2 DEF LiveFits
    <3>2. CASE i = n
      <4>1. config.held = rounds[n].config /\ qs[n].live = status
        BY <1>7, <1>b, <3>2
      <4>2. /\ rounds[n].config \in Configs /\ rounds[n].kind = Judge(rounds[n].value, rounds[n].config)
        BY <1>1, <1>3, <1>4, RoundFacts
      <4>3. PICK m : m = rounds[n].config.consecutive
        OBVIOUS
      <4>4. m \in Nat \ {0}
        BY <4>2, <4>3, ConfigFacts
      <4>5. One(rounds, m, n)
        <5> SUFFICES ASSUME NEW j \in 1..n PROVE rounds[j].config.consecutive = m /\ ~rounds[j].split
          BY DEF One
        <5>1. CASE j = n
          BY <1>4, <4>3, <5>1
        <5>2. CASE j # n
          <6>1. j \in 1..(n - 1)
            BY <1>d, <5>2
          <6>2. rounds[j].config = rounds[n].config /\ ~rounds[j].split
            BY <3>0, <3>2, <6>1 DEF Settled
          <6> QED
            BY <4>3, <6>2
        <5> QED
          BY <5>1, <5>2
      <4>6. state = After(m, rounds, n)
        BY <1>4, <4>4, <4>5 DEF StateFits
      <4>7. status = RoundCellStatus(rounds[n].kind, state.alert)
        BY <1>1, <1>3, <4>1, <4>2
      <4> QED
        BY <3>0, <3>2, <4>1, <4>3, <4>6, <4>7 DEF Colour
    <3> QED
      BY <3>1, <3>2
  <2>3. Len(qs) <= MaxRounds
    BY <1>1, <1>7 DEF FeedInv, Recorded
  <2>4. config' \in [row : Configs, held : Configs]
    BY <1>2 DEF FeedInv, Recorded
  <2>5. closing' = "no" /\ state' = state /\ Len(rounds') = n /\ rounds' = qs
    BY <1>1, <1>2, <1>7
  <2>6. StateFits(state', rounds', IF closing' = "closed" THEN Len(rounds') - 1 ELSE Len(rounds'))
    BY <2>1, <2>5
  <2> QED
    BY <1>4, <1>7, <2>2, <2>3, <2>4, <2>5, <2>6 DEF Recorded
<1>11. /\ ReadsRight(qs, reads) /\ PageRight(qs, page)
       /\ \A more \in Nat : n - 1 <= more => QueueRight(qs, link.queue, more)
  <2> QED
    BY <1>6, <1>c, Grown DEF FeedInv
<1>12. CASE link.up /\ Len(link.queue) < QueueCap
  <2>1. link' = [link EXCEPT !.queue = Append(@, f)] /\ UNCHANGED page
    BY <1>2, <1>12 DEF Broadcast
  <2>2. PICK q, p : q = link.queue /\ p = Append(q, f)
    OBVIOUS
  <2>3. f \in Frames /\ f.type = "round" /\ f.round = n /\ f.status = status
    BY <1>1, <1>3, <1>5 DEF Frames, Pushes
  <2>4. QueueRight(qs, q, n - 1) /\ n - 1 <= n /\ n > n - 1 /\ n <= n
    BY <1>3, <1>6, <1>11, <2>2
  <2>5. /\ QueueRight(qs, p, n) /\ Len(p) = Len(q) + 1 /\ Len(q) \in Nat /\ p[Len(q) + 1] = f
        /\ \A k \in 1..Len(q) : p[k] = q[k]
    <3>1. Len(q) < QueueCap /\ f.round \in 1..Len(qs)
      BY <1>3, <1>5, <1>7, <1>9, <1>12, <2>2, <2>3
    <3>2. PICK d : d = n - 1
      OBVIOUS
    <3>3. d \in Nat /\ QueueRight(qs, q, d) /\ d <= n /\ n > d
      BY <1>6, <2>4, <3>2
    <3> QED
      BY <1>3, <2>2, <2>3, <2>4, <3>1, <3>3, QueueAppend
  <2>6. link' \in Links /\ link'.n = link.n /\ link'.up = link.up /\ link'.queue = p
    <3>1. p \in Seq(Frames) /\ link \in Links
      BY <2>5 DEF QueueRight, FeedInv, LinkRight
    <3> QED
      BY <2>1, <2>2, <3>1 DEF Links
  <2>7. LinkRight'
    BY <1>2, <1>12, <2>6 DEF FeedInv, LinkRight
  <2>8. Kept'
    <3> SUFFICES ASSUME ~page.torn, NEW s \in Nat, Promised(reads, p, page.aligned, s)
                 PROVE  Whole(page.cells, p, n, s)
      BY <1>2, <1>8, <2>1, <2>6 DEF Kept
    <3>0. \A k \in 1..Len(p) : k \in 1..Len(q) \/ k = Len(q) + 1
      BY <2>5
    <3>1. Promised(reads, q, page.aligned, s)
      BY <2>3, <2>5, <3>0 DEF Promised
    <3>2. Whole(page.cells, q, n - 1, s)
      BY <1>6, <1>12, <2>2, <3>1 DEF FeedInv, Kept
    <3>3. ASSUME NEW j \in 1..n, j > s, j > EndOf(page.cells) PROVE Queued(p, j)
      <4>1. CASE j = n
        <5>1. Len(q) + 1 \in 1..Len(p)
          BY <2>5
        <5> QED
          BY <2>3, <2>5, <4>1, <5>1 DEF Queued
      <4>2. CASE j # n
        <5>1. j \in 1..(n - 1)
          BY <1>3, <4>2
        <5>2. PICK k \in 1..Len(q) : q[k].type = "round" /\ q[k].round = j
          BY <3>2, <3>3, <5>1 DEF Whole, Queued
        <5>3. k \in 1..Len(p) /\ p[k] = q[k]
          BY <2>5
        <5> QED
          BY <5>2, <5>3 DEF Queued
      <4> QED
        BY <4>1, <4>2
    <3> QED
      BY <3>2, <3>3 DEF Whole
  <2>9. QueueRight(rounds', link'.queue, Done')
    BY <1>1, <1>8, <2>5, <2>6
  <2> QED
    BY <1>1, <1>2, <1>10, <1>11, <2>1, <2>7, <2>8, <2>9, InvFrom
<1>13. CASE ~(link.up /\ Len(link.queue) < QueueCap)
  <2>1. page' = [page EXCEPT !.torn = @ \/ link.up] /\ UNCHANGED link
    BY <1>2, <1>13 DEF Broadcast
  <2>2. page' \in Pages /\ page'.cells = page.cells /\ (page'.torn <=> page.torn \/ link.up)
    BY <2>1 DEF FeedInv, PageRight, Pages
  <2>3. PageRight(qs, page')
    BY <1>11, <2>2 DEF PageRight
  <2>4. LinkRight'
    BY <1>2, <2>1 DEF FeedInv, LinkRight
  <2>5. Kept'
    BY <2>1, <2>2 DEF Kept
  <2>6. QueueRight(rounds', link'.queue, Done')
    <3>1. n - 1 <= n
      BY <1>3
    <3> QED
      BY <1>1, <1>3, <1>8, <1>11, <2>1, <3>1
  <2> QED
    BY <1>1, <1>2, <1>10, <1>11, <2>3, <2>4, <2>5, <2>6, InvFrom
<1> QED
  BY <1>12, <1>13

LEMMA ScheduleRoundStep == ASSUME Bounds, FeedInv, ScheduleRound PROVE FeedInv'
<1>1. UNCHANGED <<rounds, state, closing, link, reads, page, left>> /\ config' = [config EXCEPT !.held = config.row]
  BY DEF ScheduleRound
<1>2. Done' = Done
  BY <1>1 DEF Done
<1>3. config' \in [row : Configs, held : Configs]
  BY <1>1 DEF FeedInv, Recorded
<1>4. Recorded'
  BY <1>1, <1>3 DEF FeedInv, Recorded
<1>5. LinkRight' /\ Kept'
  BY <1>1, <1>2 DEF FeedInv, LinkRight, Kept
<1> QED
  BY <1>1, <1>2, <1>4, <1>5, InvFrom DEF FeedInv

LEMMA ApplyAlertFailsStep == ASSUME Bounds, FeedInv, ApplyAlertFails PROVE FeedInv'
<1>1. PICK n, qs : n = Len(rounds) /\ qs = rounds'
  OBVIOUS
<1>2. /\ closing = "closed" /\ closing' = "no" /\ left > 0 /\ left' = left - 1 /\ UNCHANGED <<state, link, reads>>
      /\ config' = [config EXCEPT !.held = config.row] /\ page' = [page EXCEPT !.torn = @ \/ link.up]
      /\ qs = [rounds EXCEPT ![n].split = TRUE]
  BY <1>1 DEF ApplyAlertFails
<1>3. n \in Nat /\ n # 0 /\ n \in 1..n /\ DOMAIN rounds = 1..n /\ n - 1 \in Nat
  <2>1. rounds # <<>>
    BY <1>2 DEF FeedInv, Recorded
  <2> QED
    BY <1>1, <2>1, FeedFacts
<1>4. StateFits(state, rounds, n - 1) /\ state \in States /\ rounds \in Histories
  BY <1>1, <1>2 DEF FeedInv, Recorded
<1>5. Done = n - 1
  BY <1>1, <1>2 DEF Done
<1>6. /\ qs \in Histories /\ Len(qs) = n
      /\ \A i \in 1..n : /\ qs[i].kind = rounds[i].kind /\ qs[i].config = rounds[i].config
                         /\ qs[i].live = rounds[i].live
                         /\ i # n => qs[i].split = rounds[i].split
      /\ qs[n].split
  <2>0. PICK S : S = {rd \in Rounds : rd.kind = Judge(rd.value, rd.config)}
    OBVIOUS
  <2>1. rounds \in [1..n -> S]
    BY <1>1, <1>4, <2>0, LenProperties DEF Histories
  <2>2. PICK y, x, yes : yes = TRUE /\ y = rounds[n] /\ x = [y EXCEPT !.split = yes]
    OBVIOUS
  <2>3. y \in Rounds /\ y.kind = Judge(y.value, y.config)
    BY <1>3, <2>0, <2>1, <2>2
  <2>4. /\ x \in Rounds /\ x.kind = y.kind /\ x.value = y.value /\ x.config = y.config
        /\ x.live = y.live /\ x.split
    BY <2>2, <2>3 DEF Rounds
  <2>5. x \in S
    BY <2>0, <2>3, <2>4
  <2>6. qs = [rounds EXCEPT ![n] = x]
    BY <1>2, <2>2
  <2>7. /\ qs \in [1..n -> S] /\ qs[n] = x /\ \A i \in 1..n : i # n => qs[i] = rounds[i]
    BY <1>3, <2>1, <2>5, <2>6
  <2>8. qs \in Seq(S) /\ Len(qs) = n
    BY <1>3, <2>7
  <2>9. ASSUME NEW i \in 1..n
        PROVE  /\ qs[i].kind = rounds[i].kind /\ qs[i].config = rounds[i].config
               /\ qs[i].live = rounds[i].live
               /\ i # n => qs[i].split = rounds[i].split
    <3>1. CASE i = n
      BY <2>2, <2>4, <2>7, <3>1
    <3>2. CASE i # n
      BY <2>7, <3>2
    <3> QED
      BY <3>1, <3>2
  <2>10. qs \in Histories /\ qs[n].split
    BY <2>0, <2>4, <2>7, <2>8 DEF Histories
  <2> QED
    BY <2>8, <2>9, <2>10
<1>7. GoesOn(rounds, qs)
  <2>1. \A j \in 1..(n - 1) : j \in 1..n /\ j # n
    BY <1>3
  <2> QED
    BY <1>1, <1>3, <1>6, <2>1 DEF GoesOn
<1>8. Done' = n
  BY <1>1, <1>2, <1>6 DEF Done
<1>9. Recorded'
  <2>1. StateFits(state, qs, n)
    <3> SUFFICES ASSUME NEW m \in Nat \ {0}, One(qs, m, n) PROVE FALSE
      BY DEF StateFits
    <3> QED
      BY <1>3, <1>6 DEF One
  <2>2. \A i \in 1..n : LiveFits(qs, i)
    <3> SUFFICES ASSUME NEW i \in 1..n, qs[i].live # "", ~qs[i].split, Settled(qs, i)
                 PROVE  qs[i].live = Colour(qs, i)
      BY DEF LiveFits
    <3>1. i # n
      BY <1>6
    <3>2. Settled(rounds, i) /\ Colour(qs, i) = Colour(rounds, i)
      BY <1>1, <1>7, StaysSettled
    <3>3. rounds[i].live = qs[i].live /\ ~rounds[i].split
      BY <1>6, <3>1
    <3>4. LiveFits(rounds, i)
      BY <1>1 DEF FeedInv, Recorded
    <3> QED
      BY <3>2, <3>3, <3>4 DEF LiveFits
  <2>3. Len(qs) <= MaxRounds
    BY <1>1, <1>6 DEF FeedInv, Recorded
  <2>4. config' \in [row : Configs, held : Configs]
    BY <1>2 DEF FeedInv, Recorded
  <2>5. closing' = "no" /\ state' = state /\ Len(rounds') = n /\ rounds' = qs
    BY <1>1, <1>2, <1>6
  <2>6. StateFits(state', rounds', IF closing' = "closed" THEN Len(rounds') - 1 ELSE Len(rounds'))
    BY <2>1, <2>5
  <2> QED
    BY <1>4, <1>6, <2>2, <2>3, <2>4, <2>5, <2>6 DEF Recorded
<1>10. page' \in Pages /\ page'.cells = page.cells /\ (page'.torn <=> page.torn \/ link.up)
  BY <1>2 DEF FeedInv, PageRight, Pages
<1>11. ReadsRight(qs, reads) /\ PageRight(qs, page') /\ QueueRight(qs, link.queue, n)
  <2>1. PICK d : d = n - 1
    OBVIOUS
  <2>2. d \in Nat /\ d <= n /\ QueueRight(rounds, link.queue, d)
    BY <1>3, <1>5, <2>1 DEF FeedInv
  <2>3. ReadsRight(qs, reads) /\ PageRight(qs, page) /\ QueueRight(qs, link.queue, n)
    BY <1>3, <1>7, <2>2, Grown DEF FeedInv
  <2> QED
    BY <1>10, <2>3 DEF PageRight
<1>12. LinkRight'
  <2>1. /\ link \in Links /\ left \in Nat /\ link.n \in Nat
        /\ (link.n = 0 => left <= MaxExtras) /\ (link.n # 0 => link.n + left <= MaxExtras + 1)
        /\ ~link.up => link.queue = <<>> /\ reads["snapshot"].stage = "none"
    BY DEF FeedInv, LinkRight, Links
  <2>2. left' \in Nat /\ (link.n = 0 => left' <= MaxExtras) /\ (link.n # 0 => link.n + left' <= MaxExtras + 1)
    BY <1>2, <2>1 DEF Bounds
  <2> QED
    BY <1>2, <2>1, <2>2 DEF LinkRight
<1>13. Kept'
  BY <1>2, <1>10 DEF Kept
<1>14. /\ ReadsRight(rounds', reads') /\ PageRight(rounds', page') /\ QueueRight(rounds', link'.queue, Done')
  BY <1>1, <1>2, <1>8, <1>11
<1> QED
  BY <1>9, <1>12, <1>13, <1>14, InvFrom

\* A read that goes on, the rounds and the connection as they are.
LEMMA ReadStep ==
  ASSUME Bounds, FeedInv, NEW r \in Readers, NEW x \in Reads, reads' = [reads EXCEPT ![r] = x],
         Strip(rounds, x.cells), UNCHANGED <<rounds, state, closing, link>>,
         config' \in [row : Configs, held : Configs],
         page' \in Pages, page'.cells = page.cells, page'.aligned = page.aligned, page.torn => page'.torn,
         left' \in Nat, left' <= left, r = "snapshot" => link.up \/ x.stage = "none",
         r = "snapshot" /\ x.stage = "ready" /\ ~page'.torn => Whole(page.cells, link.queue, Done, EndOf(x.cells))
  PROVE  FeedInv'
<1>1. Done' = Done
  BY DEF Done
<1>2. Recorded'
  BY DEF FeedInv, Recorded
<1>3. ReadsRight(rounds, reads') /\ reads'[r] = x /\ \A t \in Readers : t # r => reads'[t] = reads[t]
  <2>1. PICK qd : qd = [reads EXCEPT ![r] = x]
    OBVIOUS
  <2>2. ReadsRight(rounds, reads)
    BY DEF FeedInv
  <2>3. ReadsRight(rounds, qd) /\ qd[r] = x /\ \A t \in Readers : t # r => qd[t] = reads[t]
    BY <2>1, <2>2 DEF ReadsRight
  <2> QED
    BY <2>1, <2>3
<1>4. PageRight(rounds', page')
  BY DEF FeedInv, PageRight
<1>5. "snapshot" \in Readers
  BY DEF Readers
<1>6. LinkRight'
  <2>1. /\ link \in Links /\ left \in Nat /\ link.n \in Nat
        /\ (link.n = 0 => left <= MaxExtras) /\ (link.n # 0 => link.n + left <= MaxExtras + 1)
        /\ ~link.up => link.queue = <<>> /\ reads["snapshot"].stage = "none"
    BY DEF FeedInv, LinkRight, Links
  <2>2. (link.n = 0 => left' <= MaxExtras) /\ (link.n # 0 => link.n + left' <= MaxExtras + 1)
    BY <2>1 DEF Bounds
  <2>3. ~link.up => reads'["snapshot"].stage = "none"
    BY <1>3, <1>5, <2>1
  <2> QED
    BY <2>1, <2>2, <2>3 DEF LinkRight
<1>7. Kept'
  <2> SUFFICES ASSUME link.up, ~page'.torn, NEW s \in Nat, Promised(reads', link.queue, page.aligned, s)
               PROVE  Whole(page.cells, link.queue, Done, s)
    BY <1>1 DEF Kept
  <2>1. Promised(reads, link.queue, page.aligned, s) \/ (r = "snapshot" /\ x.stage = "ready" /\ s = EndOf(x.cells))
    BY <1>3, <1>5 DEF Promised
  <2> QED
    BY <2>1 DEF FeedInv, Kept
<1>8. QueueRight(rounds', link'.queue, Done')
  BY <1>1 DEF FeedInv
<1> QED
  BY <1>2, <1>3, <1>4, <1>6, <1>7, <1>8, InvFrom

LEMMA ReadFacts ==
  ASSUME FeedInv, NEW r \in Readers
  PROVE  /\ reads[r] \in Reads /\ Strip(rounds, reads[r].cells) /\ page \in Pages /\ left \in Nat /\ link \in Links
         /\ r = "snapshot" /\ reads[r].stage # "none" => link.up
         /\ state \in States /\ config \in [row : Configs, held : Configs]
  BY DEF FeedInv, ReadsRight, PageRight, LinkRight, Recorded

\* A read whose strip is not there yet goes on, or ends; a fault may be spent on it.
LEMMA OnlyRead ==
  ASSUME Bounds, FeedInv, NEW r \in Readers, reads[r].stage # "none", NEW x \in Reads, x.stage # "ready",
         Strip(rounds, x.cells), reads' = [reads EXCEPT ![r] = x],
         UNCHANGED <<rounds, config, state, closing, link, page>>, Faultless \/ Fault
  PROVE  FeedInv'
<1>1. left \in Nat /\ page \in Pages /\ (r = "snapshot" => link.up) /\ config \in [row : Configs, held : Configs]
  BY ReadFacts
<1>2. left' \in Nat /\ left' <= left
  BY <1>1 DEF Faultless, Fault
<1> QED
  BY <1>1, <1>2, ReadStep

LEMMA ListMonitorsStep ==
  ASSUME Bounds, FeedInv, NEW r \in Readers, ListMonitors(r)
  PROVE  FeedInv'
<1>1. PICK c, y, x : c = config.row /\ y = reads[r] /\ x = [y EXCEPT !.stage = "listed", !.config = c]
  OBVIOUS
<1>2. y \in Reads /\ Strip(rounds, y.cells) /\ c \in Configs
  BY <1>1, ReadFacts
<1>3. x \in Reads /\ x.stage # "ready" /\ x.cells = y.cells
  BY <1>1, <1>2 DEF Reads, Stages
<1>4. NoRead \in Reads /\ NoRead.stage # "ready" /\ Strip(rounds, NoRead.cells)
  BY NothingRead
<1>5. reads[r].stage # "none" /\ UNCHANGED <<rounds, config, state, closing, link, page>>
  BY DEF ListMonitors
<1>6. CASE Faultless /\ reads' = [reads EXCEPT ![r].stage = "listed", ![r].config = config.row]
  <2>1. reads' = [reads EXCEPT ![r] = x]
    BY <1>1, <1>6
  <2> QED
    BY <1>2, <1>3, <1>5, <1>6, <2>1, OnlyRead
<1>7. CASE Fault /\ reads' = [reads EXCEPT ![r] = NoRead]
  BY <1>4, <1>5, <1>7, OnlyRead
<1> QED
  BY <1>6, <1>7 DEF ListMonitors

LEMMA ReadStateStep ==
  ASSUME Bounds, FeedInv, NEW r \in Readers, ReadState(r)
  PROVE  FeedInv'
<1>1. PICK st, y, x, z : /\ st = state /\ y = reads[r] /\ x = [y EXCEPT !.stage = "state", !.state = st]
                         /\ z = [y EXCEPT !.stage = "state", !.state = Fresh]
  OBVIOUS
<1>2. y \in Reads /\ Strip(rounds, y.cells) /\ st \in States /\ Fresh \in States
  BY <1>1, ReadFacts DEF Fresh, States
<1>3. /\ x \in Reads /\ x.stage # "ready" /\ x.cells = y.cells
      /\ z \in Reads /\ z.stage # "ready" /\ z.cells = y.cells
  BY <1>1, <1>2 DEF Reads, Stages
<1>4. reads[r].stage # "none" /\ UNCHANGED <<rounds, config, state, closing, link, page>>
  BY DEF ReadState
<1>5. CASE Faultless /\ reads' = [reads EXCEPT ![r].stage = "state", ![r].state = state]
  <2>1. reads' = [reads EXCEPT ![r] = x]
    BY <1>1, <1>5
  <2> QED
    BY <1>2, <1>3, <1>4, <1>5, <2>1, OnlyRead
<1>6. CASE Fault /\ reads' = [reads EXCEPT ![r].stage = "state", ![r].state = Fresh]
  <2>1. reads' = [reads EXCEPT ![r] = z]
    BY <1>1, <1>6
  <2> QED
    BY <1>2, <1>3, <1>4, <1>6, <2>1, OnlyRead
<1> QED
  BY <1>5, <1>6 DEF ReadState

LEMMA ReadRoundsStep ==
  ASSUME Bounds, FeedInv, NEW r \in Readers, ReadRounds(r)
  PROVE  FeedInv'
<1>1. PICK st, c, m, x : /\ st = reads[r].state /\ c = reads[r].config /\ m = RoundStatusStrip(st, c)
                         /\ x = [NoRead EXCEPT !.stage = "ready", !.cells = m]
  OBVIOUS
<1>2. c \in Configs /\ (r = "snapshot" => link.up)
  BY <1>1, ReadFacts DEF ReadRounds, Reads
<1>3. Even(c) => Current = After(c.consecutive, rounds, Len(rounds))
  <2> HAVE Even(c)
  <2>1. PICK n : n = c.consecutive
    OBVIOUS
  <2>2. n \in Nat \ {0}
    BY <1>2, <2>1, ConfigFacts
  <2>3. One(rounds, n, Len(rounds))
    BY <2>1, FeedFacts DEF Even, One
  <2> QED
    BY <2>1, <2>2, <2>3, FeedFacts DEF StateFits
<1>4. Strip(rounds, m) /\ EndOf(m) = Len(rounds)
  BY <1>1, <1>2, <1>3, StripFacts DEF FeedInv, Recorded, Strip
<1>5. x \in Reads /\ x.stage = "ready" /\ x.cells = m
  BY <1>1, <1>4, NothingRead DEF Reads, Stages, Strip
<1>6. reads' = [reads EXCEPT ![r] = x] /\ left' = left /\ UNCHANGED <<rounds, config, state, closing, link, page>>
  BY <1>1 DEF ReadRounds, Faultless
<1>7. Whole(page.cells, link.queue, Done, EndOf(x.cells))
  <2>1. \A k \in 1..Len(page.cells) : ~(page.cells[k].round > Len(rounds))
    BY FeedFacts
  <2>2. \A j \in 1..Done : ~(j > Len(rounds))
    BY FeedFacts
  <2> QED
    BY <1>4, <1>5, <2>1, <2>2 DEF Whole, Joined
<1>8. left \in Nat /\ left <= left /\ page \in Pages /\ config \in [row : Configs, held : Configs]
  BY ReadFacts
<1> QED
  BY <1>2, <1>4, <1>5, <1>6, <1>7, <1>8, ReadStep

LEMMA ReadRoundsFailsStep ==
  ASSUME Bounds, FeedInv, NEW r \in Readers, ReadRoundsFails(r)
  PROVE  FeedInv'
<1>1. PICK stage, x, late : /\ stage = (IF r = "row" THEN "bare" ELSE "ready") /\ x = [NoRead EXCEPT !.stage = stage]
                            /\ late = (r = "snapshot")
  OBVIOUS
<1>2. x \in Reads /\ Strip(rounds, x.cells)
  BY <1>1, NothingRead DEF Reads, Stages
<1>3. /\ reads' = [reads EXCEPT ![r] = x] /\ reads[r].stage # "none" /\ left > 0 /\ left' = left - 1
      /\ page' = [page EXCEPT !.torn = @ \/ late] /\ UNCHANGED <<rounds, config, state, closing, link>>
  BY <1>1 DEF ReadRoundsFails, Fault
<1>4. left \in Nat /\ page \in Pages /\ (r = "snapshot" => link.up) /\ config \in [row : Configs, held : Configs]
  BY <1>3, ReadFacts
<1>5. /\ page' \in Pages /\ page'.cells = page.cells /\ page'.aligned = page.aligned
      /\ (page'.torn <=> page.torn \/ late)
  BY <1>1, <1>3, <1>4 DEF Pages
<1>6. left' \in Nat /\ left' <= left
  BY <1>3, <1>4
<1>7. (page.torn => page'.torn) /\ (r = "snapshot" => page'.torn)
  BY <1>1, <1>5
<1> QED
  BY <1>2, <1>3, <1>4, <1>5, <1>6, <1>7, ReadStep

LEMMA BeginStep ==
  ASSUME Bounds, FeedInv, NEW r \in Readers, NEW stage \in Stages, stage # "ready", NEW c \in Configs,
         BeginRead(r, stage, c), UNCHANGED <<rounds, state, closing, link>>,
         config' \in [row : Configs, held : Configs],
         page' \in Pages, page'.cells = page.cells, page'.aligned = page.aligned, page'.torn = page.torn,
         left' \in Nat, left' <= left, r = "snapshot" => link.up
  PROVE  FeedInv'
<1>1. PICK x : x = [NoRead EXCEPT !.stage = stage, !.config = c]
  OBVIOUS
<1>2. x \in Reads /\ x.stage # "ready" /\ Strip(rounds, x.cells)
  BY <1>1, NothingRead DEF Reads
<1>3. reads' = [reads EXCEPT ![r] = x]
  BY <1>1 DEF BeginRead
<1> QED
  BY <1>2, <1>3, ReadStep

LEMMA UpdateMonitorStep == ASSUME Bounds, FeedInv, UpdateMonitor PROVE FeedInv'
<1>1. PICK c \in Configs : config' = [config EXCEPT !.row = c] /\ BeginRead("row", "listed", c)
  BY DEF UpdateMonitor
<1>2. left > 0 /\ left' = left - 1 /\ UNCHANGED <<rounds, state, closing, link, page>>
  BY DEF UpdateMonitor
<1>3. page \in Pages /\ left \in Nat /\ "row" \in Readers /\ config \in [row : Configs, held : Configs]
  BY ReadFacts DEF Readers
<1>4. left' \in Nat /\ left' <= left
  BY <1>2, <1>3
<1>5. config' \in [row : Configs, held : Configs]
  BY <1>1, <1>3
<1>6. PICK stage : stage = "listed"
  OBVIOUS
<1>7. stage \in Stages /\ stage # "ready" /\ BeginRead("row", stage, c)
  BY <1>1, <1>6 DEF Stages
<1> QED
  BY <1>2, <1>3, <1>4, <1>5, <1>7, BeginStep

LEMMA LoadStripsHttpStep == ASSUME Bounds, FeedInv, LoadStripsHttp PROVE FeedInv'
<1>1. PICK c, stage : c = NoRead.config /\ stage = "begun"
  OBVIOUS
<1>2. /\ BeginRead("http", stage, c) /\ left > 0 /\ left' = left - 1
      /\ UNCHANGED <<rounds, config, state, closing, link, page>>
  BY <1>1 DEF LoadStripsHttp
<1>3. page \in Pages /\ left \in Nat /\ "http" \in Readers /\ config \in [row : Configs, held : Configs]
  BY ReadFacts DEF Readers
<1>4. stage \in Stages /\ stage # "ready" /\ c \in Configs
  BY <1>1, NothingRead DEF Stages, Reads
<1>5. left' \in Nat /\ left' <= left
  BY <1>2, <1>3
<1> QED
  BY <1>2, <1>3, <1>4, <1>5, BeginStep

LEMMA RequestStripsStep == ASSUME Bounds, FeedInv, RequestStrips PROVE FeedInv'
<1>1. PICK c, stage : c = NoRead.config /\ stage = "begun"
  OBVIOUS
<1>2. /\ BeginRead("snapshot", stage, c) /\ link.up /\ page' = [page EXCEPT !.asked = link.n]
      /\ UNCHANGED <<rounds, config, state, closing, link, left>>
  BY <1>1 DEF RequestStrips
<1>3. /\ page \in Pages /\ left \in Nat /\ "snapshot" \in Readers /\ link.n \in Nat
      /\ config \in [row : Configs, held : Configs]
  BY ReadFacts DEF Readers, Links
<1>4. stage \in Stages /\ stage # "ready" /\ c \in Configs
  BY <1>1, NothingRead DEF Stages, Reads
<1>5. page' \in Pages /\ page'.cells = page.cells /\ page'.aligned = page.aligned /\ page'.torn = page.torn
  BY <1>2, <1>3 DEF Pages
<1>6. left' \in Nat /\ left' <= left
  BY <1>2, <1>3
<1> QED
  BY <1>2, <1>3, <1>4, <1>5, <1>6, BeginStep

LEMMA Cleared ==
  ASSUME Bounds, FeedInv, NEW r \in Readers, reads' = [reads EXCEPT ![r] = NoRead]
  PROVE  /\ ReadsRight(rounds, reads') /\ (reads["snapshot"].stage = "none" => reads'["snapshot"].stage = "none")
         /\ r = "snapshot" => reads'["snapshot"].stage = "none"
         /\ \A q, aligned, s : Promised(reads', q, aligned, s) => Promised(reads, q, aligned, s)
<1>1. PICK qd : qd = [reads EXCEPT ![r] = NoRead]
  OBVIOUS
<1>2. ReadsRight(rounds, reads) /\ NoRead \in Reads /\ Strip(rounds, NoRead.cells) /\ NoRead.stage = "none"
  BY NothingRead DEF FeedInv
<1>3. ReadsRight(rounds, qd) /\ qd[r] = NoRead /\ \A t \in Readers : t # r => qd[t] = reads[t]
  BY <1>1, <1>2 DEF ReadsRight
<1>4. "snapshot" \in Readers
  BY DEF Readers
<1>5. ASSUME NEW q, NEW aligned, NEW s, Promised(qd, q, aligned, s)
      PROVE  Promised(reads, q, aligned, s)
  BY <1>2, <1>3, <1>4, <1>5 DEF Promised
<1> QED
  BY <1>1, <1>2, <1>3, <1>4, <1>5

LEMMA LinkSet ==
  ASSUME FeedInv, NEW q \in Seq(Frames), NEW l, l = [link EXCEPT !.queue = q]
  PROVE  l \in Links /\ l.n = link.n /\ l.up = link.up /\ l.queue = q
  BY DEF FeedInv, LinkRight, Links

\* A bundle is queued: nothing is promised by it but what the page was promised.
LEMMA BundleQueued ==
  ASSUME Bounds, FeedInv, NEW f \in Bundles, Strip(rounds, f.cells), Len(link.queue) < QueueCap,
         link' = [link EXCEPT !.queue = Append(@, f)]
  PROVE  /\ link' \in Links /\ link'.n = link.n /\ link'.up = link.up
         /\ QueueRight(rounds, link'.queue, Done)
         /\ \A j : Queued(link.queue, j) => Queued(link'.queue, j)
         /\ \A rd, aligned, s : Promised(rd, link'.queue, aligned, s) =>
              Promised(rd, link.queue, aligned, s) \/ (f.type = "strips" /\ s = EndOf(f.cells))
<1>1. PICK q, p, d : q = link.queue /\ p = Append(q, f) /\ d = Done
  OBVIOUS
<1>2. f \in Frames /\ f.type # "round" /\ d \in Nat /\ d <= d /\ QueueRight(rounds, q, d) /\ Len(q) < QueueCap
  BY <1>1, FeedFacts DEF FeedInv, Frames, Bundles
<1>3. /\ QueueRight(rounds, p, d) /\ Len(p) = Len(q) + 1 /\ Len(q) \in Nat /\ p[Len(q) + 1] = f
      /\ \A k \in 1..Len(q) : p[k] = q[k]
  BY <1>1, <1>2, QueueAppend
<1>4. link' = [link EXCEPT !.queue = p] /\ p \in Seq(Frames)
  BY <1>1, <1>3 DEF QueueRight
<1>5. link' \in Links /\ link'.n = link.n /\ link'.up = link.up /\ link'.queue = p
  BY <1>4, LinkSet
<1>6. \A k \in 1..Len(p) : k \in 1..Len(q) \/ k = Len(q) + 1
  BY <1>3
<1>7. \A k \in 1..Len(q) : k \in 1..Len(p)
  BY <1>3
<1>8. ASSUME NEW j, Queued(q, j) PROVE Queued(p, j)
  BY <1>3, <1>7, <1>8 DEF Queued
<1>9. ASSUME NEW rd, NEW aligned, NEW s, Promised(rd, p, aligned, s)
      PROVE  Promised(rd, q, aligned, s) \/ (f.type = "strips" /\ s = EndOf(f.cells))
  BY <1>3, <1>6, <1>9 DEF Promised
<1> QED
  BY <1>1, <1>3, <1>5, <1>8, <1>9

LEMMA PushMonitorStripsStep == ASSUME Bounds, FeedInv, PushMonitorStrips PROVE FeedInv'
<1>1. PICK f : f = [type |-> "strips", cells |-> reads["snapshot"].cells]
  OBVIOUS
<1>2. /\ reads["snapshot"].stage = "ready" /\ link.up /\ reads' = [reads EXCEPT !["snapshot"] = NoRead]
      /\ \/ Len(link.queue) < QueueCap /\ link' = [link EXCEPT !.queue = Append(@, f)]
         \/ UNCHANGED link
      /\ UNCHANGED <<rounds, config, state, closing, page, left>>
  BY <1>1 DEF PushMonitorStrips
<1>3. "snapshot" \in Readers /\ Strip(rounds, reads["snapshot"].cells)
  BY ReadFacts DEF Readers
<1>4. f \in Bundles /\ f.type = "strips" /\ f.cells = reads["snapshot"].cells
  BY <1>1, <1>3 DEF Bundles, Strip
<1>5. /\ ReadsRight(rounds, reads') /\ reads'["snapshot"].stage = "none"
      /\ \A q, aligned, s : Promised(reads', q, aligned, s) => Promised(reads, q, aligned, s)
  BY <1>2, <1>3, Cleared
<1>6. Done' = Done /\ Recorded' /\ PageRight(rounds', page')
  BY <1>2 DEF Done, FeedInv, Recorded, PageRight
<1>7. /\ link' \in Links /\ link'.n = link.n /\ link'.up = link.up
      /\ QueueRight(rounds, link'.queue, Done)
      /\ \A j : Queued(link.queue, j) => Queued(link'.queue, j)
      /\ \A rd, aligned, s : Promised(rd, link'.queue, aligned, s) =>
           Promised(rd, link.queue, aligned, s) \/ s = EndOf(f.cells)
  <2>1. CASE Len(link.queue) < QueueCap /\ link' = [link EXCEPT !.queue = Append(@, f)]
    BY <1>3, <1>4, <2>1, BundleQueued
  <2>2. CASE UNCHANGED link
    BY <2>2 DEF FeedInv, LinkRight
  <2> QED
    BY <1>2, <2>1, <2>2
<1>8. LinkRight'
  BY <1>2, <1>5, <1>7 DEF FeedInv, LinkRight
<1>9. Kept'
  <2> SUFFICES ASSUME ~page.torn, NEW s \in Nat, Promised(reads', link'.queue, page.aligned, s)
               PROVE  Whole(page.cells, link'.queue, Done, s)
    BY <1>2, <1>6 DEF Kept
  <2>0. \/ Promised(reads', link.queue, page.aligned, s)
        \/ s = EndOf(reads["snapshot"].cells)
    BY <1>4, <1>7
  <2>1. Promised(reads, link.queue, page.aligned, s)
    <3>1. CASE Promised(reads', link.queue, page.aligned, s)
      BY <1>5, <3>1
    <3>2. CASE s = EndOf(reads["snapshot"].cells)
      BY <1>2, <3>2 DEF Promised
    <3> QED
      BY <2>0, <3>1, <3>2
  <2>2. Whole(page.cells, link.queue, Done, s)
    BY <1>2, <2>1 DEF FeedInv, Kept
  <2> QED
    BY <1>7, <2>2 DEF Whole
<1> QED
  BY <1>2, <1>5, <1>6, <1>7, <1>8, <1>9, InvFrom

LEMMA BroadcastMonitorChangedStep == ASSUME Bounds, FeedInv, BroadcastMonitorChanged PROVE FeedInv'
<1>0. PICK m : m = reads["row"].cells
  OBVIOUS
<1>1. PICK f : /\ f = [type |-> "row", cells |-> m] \/ f = [type |-> "bare", cells |-> <<>>]
               /\ Broadcast(f)
  BY <1>0 DEF BroadcastMonitorChanged
<1>2. /\ reads' = [reads EXCEPT !["row"] = NoRead] /\ Broadcast(f)
      /\ UNCHANGED <<rounds, config, state, closing, left>>
  BY <1>1 DEF BroadcastMonitorChanged
<1>3. "row" \in Readers /\ Strip(rounds, m) /\ Strip(rounds, <<>>)
  BY <1>0, ReadFacts, NothingRead DEF Readers
<1>4. f \in Bundles /\ f.type # "strips" /\ Strip(rounds, f.cells)
  <2>1. CASE f = [type |-> "row", cells |-> m]
    BY <1>3, <2>1 DEF Bundles, Strip
  <2>2. CASE f = [type |-> "bare", cells |-> <<>>]
    BY <1>3, <2>2 DEF Bundles, Strip
  <2> QED
    BY <1>1, <2>1, <2>2
<1>5. /\ ReadsRight(rounds, reads') /\ (reads["snapshot"].stage = "none" => reads'["snapshot"].stage = "none")
      /\ \A q, aligned, s : Promised(reads', q, aligned, s) => Promised(reads, q, aligned, s)
  BY <1>2, <1>3, Cleared
<1>6. Done' = Done /\ Recorded'
  BY <1>2 DEF Done, FeedInv, Recorded
<1>7. CASE link.up /\ Len(link.queue) < QueueCap
  <2>1. link' = [link EXCEPT !.queue = Append(@, f)] /\ UNCHANGED page
    BY <1>2, <1>7 DEF Broadcast
  <2>2. /\ link' \in Links /\ link'.n = link.n /\ link'.up = link.up
        /\ QueueRight(rounds, link'.queue, Done)
        /\ \A j : Queued(link.queue, j) => Queued(link'.queue, j)
        /\ \A rd, aligned, s : Promised(rd, link'.queue, aligned, s) => Promised(rd, link.queue, aligned, s)
    BY <1>3, <1>4, <1>7, <2>1, BundleQueued
  <2>3. LinkRight'
    BY <1>2, <1>5, <1>7, <2>2 DEF FeedInv, LinkRight
  <2>4. Kept'
    <3> SUFFICES ASSUME ~page.torn, NEW s \in Nat, Promised(reads', link'.queue, page.aligned, s)
                 PROVE  Whole(page.cells, link'.queue, Done, s)
      BY <1>6, <2>1 DEF Kept
    <3>1. Promised(reads, link.queue, page.aligned, s)
      BY <1>5, <2>2
    <3>2. Whole(page.cells, link.queue, Done, s)
      BY <1>7, <3>1 DEF FeedInv, Kept
    <3> QED
      BY <2>2, <3>2 DEF Whole
  <2>5. PageRight(rounds', page')
    BY <1>2, <2>1 DEF FeedInv
  <2> QED
    BY <1>2, <1>5, <1>6, <2>2, <2>3, <2>4, <2>5, InvFrom
<1>8. CASE ~(link.up /\ Len(link.queue) < QueueCap)
  <2>1. page' = [page EXCEPT !.torn = @ \/ link.up] /\ UNCHANGED link
    BY <1>2, <1>8 DEF Broadcast
  <2>2. page' \in Pages /\ page'.cells = page.cells /\ (page'.torn <=> page.torn \/ link.up)
    BY <2>1 DEF FeedInv, PageRight, Pages
  <2>3. PageRight(rounds', page')
    BY <1>2, <2>2 DEF FeedInv, PageRight
  <2>4. LinkRight'
    BY <1>2, <1>5, <2>1 DEF FeedInv, LinkRight
  <2>5. Kept'
    BY <2>1, <2>2 DEF Kept
  <2>6. QueueRight(rounds', link'.queue, Done')
    BY <1>2, <1>6, <2>1 DEF FeedInv
  <2> QED
    BY <1>2, <1>5, <1>6, <2>3, <2>4, <2>5, <2>6, InvFrom
<1> QED
  BY <1>7, <1>8

LEMMA ConnectStep == ASSUME Bounds, FeedInv, Connect PROVE FeedInv'
<1>1. /\ ~link.up /\ (link.n > 0 => left > 0) /\ link' = [n |-> link.n + 1, up |-> TRUE, queue |-> <<>>]
      /\ page' = [page EXCEPT !.aligned = FALSE, !.torn = FALSE]
      /\ left' = (IF link.n > 0 THEN left - 1 ELSE left) /\ UNCHANGED <<rounds, config, state, closing, reads>>
  BY DEF Connect
<1>2. /\ link \in Links /\ link.n \in Nat /\ left \in Nat /\ page \in Pages /\ reads["snapshot"].stage = "none"
      /\ (link.n = 0 => left <= MaxExtras) /\ (link.n # 0 => link.n + left <= MaxExtras + 1)
  BY <1>1 DEF FeedInv, LinkRight, PageRight, Links
<1>3. page' \in Pages /\ page'.cells = page.cells /\ page'.aligned = FALSE /\ page'.torn = FALSE
  BY <1>1, <1>2 DEF Pages
<1>4. link' \in Links /\ link'.n = link.n + 1 /\ link'.up /\ link'.queue = <<>>
  BY <1>1, <1>2, EmptySeq DEF Links
<1>5. LinkRight'
  <2>0. PICK n, l, now, after : n = link.n /\ l = left /\ now = link'.n /\ after = left'
    OBVIOUS
  <2>a. /\ n \in Nat /\ l \in Nat /\ now = n + 1 /\ after = (IF n > 0 THEN l - 1 ELSE l) /\ (n > 0 => l > 0)
        /\ (n = 0 => l <= MaxExtras) /\ (n # 0 => n + l <= MaxExtras + 1) /\ MaxExtras \in Nat
    BY <1>1, <1>2, <1>4, <2>0 DEF Bounds
  <2>b. after \in Nat /\ now # 0 /\ now + after <= MaxExtras + 1
    BY <2>a
  <2>1. left' \in Nat /\ link'.n # 0 /\ link'.n + left' <= MaxExtras + 1
    BY <2>0, <2>b
  <2> QED
    BY <1>4, <2>1 DEF LinkRight
<1>6. Done' = Done /\ Recorded' /\ ReadsRight(rounds', reads')
  BY <1>1 DEF Done, FeedInv, Recorded
<1>7. PageRight(rounds', page')
  BY <1>1, <1>3 DEF FeedInv, PageRight
<1>8. QueueRight(rounds', link'.queue, Done')
  <2>1. link'.queue \in Seq(Frames) /\ Len(link'.queue) = 0
    BY <1>4, EmptySeq, LenProperties
  <2> QED
    BY <2>1 DEF QueueRight, Bounds
<1>9. Kept'
  <2>1. Len(link'.queue) = 0
    BY <1>4, EmptySeq, LenProperties
  <2>2. ASSUME NEW s PROVE ~Promised(reads', link'.queue, page'.aligned, s)
    BY <1>1, <1>2, <1>3, <2>1 DEF Promised
  <2> QED
    BY <2>2 DEF Kept
<1> QED
  BY <1>5, <1>6, <1>7, <1>8, <1>9, InvFrom

LEMMA DisconnectStep == ASSUME Bounds, FeedInv, Disconnect PROVE FeedInv'
<1>1. /\ link' = [link EXCEPT !.up = FALSE, !.queue = <<>>] /\ reads' = [reads EXCEPT !["snapshot"] = NoRead]
      /\ UNCHANGED <<rounds, config, state, closing, page, left>>
  BY DEF Disconnect
<1>2. link \in Links /\ "snapshot" \in Readers /\ <<>> \in Seq(Frames) /\ Len(<<>>) = 0
  BY EmptySeq, LenProperties DEF FeedInv, LinkRight, Readers
<1>3. link' \in Links /\ link'.n = link.n /\ ~link'.up /\ link'.queue = <<>>
  BY <1>1, <1>2 DEF Links
<1>4. ReadsRight(rounds, reads') /\ reads'["snapshot"].stage = "none"
  BY <1>1, <1>2, Cleared
<1>5. LinkRight'
  BY <1>1, <1>3, <1>4 DEF FeedInv, LinkRight
<1>6. Done' = Done /\ Recorded' /\ PageRight(rounds', page')
  BY <1>1 DEF Done, FeedInv, Recorded
<1>7. QueueRight(rounds', link'.queue, Done')
  BY <1>2, <1>3 DEF QueueRight, Bounds
<1>8. Kept'
  BY <1>3 DEF Kept
<1> QED
  BY <1>1, <1>4, <1>5, <1>6, <1>7, <1>8, InvFrom

\* A snapshot or an answer is merged: what was whole stays so, and above a strip's
\* end being whole is enough for the strip to make the page whole.
LEMMA MergedIn ==
  ASSUME Bounds, FeedInv, NEW p, Strip(rounds, p), NEW m, m = MergeStrip(p, page.cells)
  PROVE  /\ m \in Seq(Squares) /\ Len(m) <= Limit /\ AllRight(rounds, m)
         /\ \A q, s : s \in Nat /\ Whole(page.cells, q, Done, s) => Whole(m, q, Done, s)
         /\ \A q : Whole(page.cells, q, Done, EndOf(p)) => Whole(m, q, Done, 0)
<1>1. PICK c, top : c = page.cells /\ top = Len(rounds)
  OBVIOUS
<1>2. /\ c \in Seq(Squares) /\ Len(c) <= Limit /\ top \in Nat /\ AllRight(rounds, c)
      /\ \A k \in 1..Len(c) : c[k].round <= top
  BY <1>1, FeedFacts DEF FeedInv, PageRight
<1>3. /\ p \in Seq(Squares) /\ Joined(p, 0) /\ Len(p) <= Limit /\ AllRight(rounds, p)
      /\ \A k \in 1..Len(p) : p[k].round > 0
  BY FeedFacts DEF Strip, AllRight, Right
<1>4. /\ m \in Seq(Squares) /\ Len(m) <= Limit
      /\ \A k \in 1..Len(m) : (\E i \in 1..Len(p) : m[k] = p[i]) \/ (\E i \in 1..Len(c) : m[k] = c[i])
      /\ EndOf(m) >= EndOf(p) /\ EndOf(m) >= EndOf(c)
      /\ \A s \in Nat : Joined(c, s) => Joined(m, s)
      /\ Joined(c, EndOf(p)) => Joined(m, 0)
  <2>1. \E t \in Nat : \A k \in 1..Len(c) : c[k].round <= t
    BY <1>2
  <2>2. m = MergeStrip(p, c)
    BY <1>1
  <2>3. /\ MergeStrip(p, c) \in Seq(Squares) /\ Len(MergeStrip(p, c)) <= Limit
        /\ \A k \in 1..Len(MergeStrip(p, c)) :
             \/ \E i \in 1..Len(p) : MergeStrip(p, c)[k] = p[i]
             \/ \E i \in 1..Len(c) : MergeStrip(p, c)[k] = c[i]
        /\ EndOf(MergeStrip(p, c)) >= EndOf(p) /\ EndOf(MergeStrip(p, c)) >= EndOf(c)
        /\ \A s \in Nat : Joined(c, s) => Joined(MergeStrip(p, c), s)
        /\ Joined(c, EndOf(p)) => Joined(MergeStrip(p, c), 0)
    BY <1>2, <1>3, <2>1, MergeFacts
  <2> QED
    BY <2>2, <2>3
<1>5. EndOf(m) \in Nat /\ EndOf(c) \in Nat /\ EndOf(p) \in Nat
  BY <1>2, <1>3, <1>4, SquareFacts
<1>6. AllRight(rounds, m)
  BY <1>2, <1>3, <1>4 DEF AllRight
<1>7. \A j \in 1..Done : j > EndOf(m) => j > EndOf(c) /\ j > EndOf(p)
  BY <1>4, <1>5, FeedFacts
<1>8. ASSUME NEW q, NEW s, s \in Nat, Whole(c, q, Done, s) PROVE Whole(m, q, Done, s)
  BY <1>4, <1>7, <1>8 DEF Whole
<1>9. ASSUME NEW q, Whole(c, q, Done, EndOf(p)) PROVE Whole(m, q, Done, 0)
  BY <1>4, <1>7, <1>9 DEF Whole
<1> QED
  BY <1>1, <1>4, <1>6, <1>8, <1>9

LEMMA HttpAnswerStep == ASSUME Bounds, FeedInv, HttpAnswer PROVE FeedInv'
<1>1. PICK p, m : p = reads["http"].cells /\ m = MergeStrip(p, page.cells)
  OBVIOUS
<1>2. /\ page' = [page EXCEPT !.cells = m, !.aligned = @ \/ FALSE] /\ reads' = [reads EXCEPT !["http"] = NoRead]
      /\ UNCHANGED <<rounds, config, state, closing, link, left>>
  BY <1>1 DEF HttpAnswer, ApplyStrips
<1>3. "http" \in Readers /\ Strip(rounds, p) /\ page \in Pages
  BY <1>1, ReadFacts DEF Readers
<1>4. /\ m \in Seq(Squares) /\ Len(m) <= Limit /\ AllRight(rounds, m)
      /\ \A q, s : s \in Nat /\ Whole(page.cells, q, Done, s) => Whole(m, q, Done, s)
  BY <1>1, <1>3, MergedIn
<1>5. /\ page' \in Pages /\ page'.cells = m /\ (page'.aligned <=> page.aligned) /\ page'.torn = page.torn
  BY <1>2, <1>3, <1>4 DEF Pages
<1>6. PageRight(rounds', page')
  BY <1>2, <1>4, <1>5 DEF PageRight
<1>7. /\ ReadsRight(rounds, reads') /\ (reads["snapshot"].stage = "none" => reads'["snapshot"].stage = "none")
      /\ \A q, aligned, s : Promised(reads', q, aligned, s) => Promised(reads, q, aligned, s)
  BY <1>2, <1>3, Cleared
<1>8. Done' = Done /\ Recorded' /\ QueueRight(rounds', link'.queue, Done')
  BY <1>2 DEF Done, FeedInv, Recorded
<1>9. LinkRight'
  BY <1>2, <1>7 DEF FeedInv, LinkRight
<1>10. Kept'
  <2> SUFFICES ASSUME link.up, ~page.torn, NEW s \in Nat, Promised(reads', link.queue, page'.aligned, s)
               PROVE  Whole(m, link.queue, Done, s)
    BY <1>2, <1>5, <1>8 DEF Kept
  <2>1. Promised(reads, link.queue, page.aligned, s)
    <3>1. Promised(reads, link.queue, page'.aligned, s)
      BY <1>7
    <3> QED
      BY <1>5, <3>1 DEF Promised
  <2> QED
    BY <1>4, <2>1 DEF FeedInv, Kept
<1> QED
  BY <1>2, <1>6, <1>7, <1>8, <1>9, <1>10, InvFrom

\* A frame leaves the queue: with the page that it makes, the rest is as it was.
LEMMA FrameTaken ==
  ASSUME Bounds, FeedInv, link.up, link.queue # <<>>, link' = [link EXCEPT !.queue = Tail(@)],
         UNCHANGED <<rounds, config, state, closing, reads, left>>, PageRight(rounds, page'),
         ~page'.torn => \A s \in Nat : Promised(reads, Tail(link.queue), page'.aligned, s) =>
                                          Whole(page'.cells, Tail(link.queue), Done, s)
  PROVE  FeedInv'
<1>1. PICK q, p, d : q = link.queue /\ p = Tail(q) /\ d = Done
  OBVIOUS
<1>2. d \in Nat /\ QueueRight(rounds, q, d) /\ q # <<>>
  BY <1>1, FeedFacts DEF FeedInv
<1>3. QueueRight(rounds, p, d)
  BY <1>1, <1>2, QueueTail
<1>4. link' = [link EXCEPT !.queue = p] /\ p \in Seq(Frames)
  BY <1>1, <1>3 DEF QueueRight
<1>5. link' \in Links /\ link'.n = link.n /\ link'.up = link.up /\ link'.queue = p
  BY <1>4, LinkSet
<1>6. Done' = Done /\ Recorded' /\ ReadsRight(rounds', reads')
  BY DEF Done, FeedInv, Recorded
<1>7. LinkRight'
  BY <1>5 DEF FeedInv, LinkRight
<1>8. Kept'
  BY <1>1, <1>5, <1>6 DEF Kept
<1> QED
  BY <1>1, <1>3, <1>5, <1>6, <1>7, <1>8, InvFrom

\* What was promised by the rest of a queue was promised by the queue, and a round
\* queued behind the first frame is queued in the rest.
LEMMA TailPromises ==
  ASSUME Bounds, FeedInv, link.queue # <<>>
  PROVE  /\ \A s, aligned : Promised(reads, Tail(link.queue), aligned, s) => Promised(reads, link.queue, aligned, s)
         /\ Head(link.queue).type = "strips" =>
              Promised(reads, link.queue, page.aligned, EndOf(Head(link.queue).cells))
         /\ \A j : Queued(link.queue, j) =>
              \/ Head(link.queue).type = "round" /\ Head(link.queue).round = j
              \/ Queued(Tail(link.queue), j)
         /\ Head(link.queue).type = "round" => \A j : Queued(link.queue, j) => j \in Nat /\ j >= Head(link.queue).round
         /\ Head(link.queue) \in Frames
         /\ Head(link.queue).type = "round" => /\ Head(link.queue).round \in 1..Len(rounds) /\ Head(link.queue).round <= Done
                                               /\ Head(link.queue).status \in Shades
         /\ Head(link.queue).type # "round" => Strip(rounds, Head(link.queue).cells)
<1>1. PICK q, p, d, f : q = link.queue /\ p = Tail(q) /\ d = Done /\ f = Head(q)
  OBVIOUS
<1>2. d \in Nat /\ QueueRight(rounds, q, d) /\ q # <<>>
  BY <1>1, FeedFacts DEF FeedInv
<1>3. /\ Len(q) \in Nat /\ Len(p) + 1 = Len(q) /\ Len(p) \in Nat
      /\ \A k \in 1..Len(p) : p[k] = q[k + 1] /\ k + 1 \in 1..Len(q)
      /\ f = q[1] /\ 1 \in 1..Len(q) /\ f \in Frames
  BY <1>1, <1>2, QueueTail
<1>4. ASSUME NEW s, NEW aligned, Promised(reads, p, aligned, s) PROVE Promised(reads, q, aligned, s)
  BY <1>3, <1>4 DEF Promised
<1>5. f.type = "strips" => Promised(reads, q, page.aligned, EndOf(f.cells))
  BY <1>3 DEF Promised
<1>6. ASSUME NEW j, Queued(q, j) PROVE (f.type = "round" /\ f.round = j) \/ Queued(p, j)
  <2>1. PICK k \in 1..Len(q) : q[k].type = "round" /\ q[k].round = j
    BY <1>6 DEF Queued
  <2>2. CASE k = 1
    BY <1>3, <2>1, <2>2
  <2>3. CASE k # 1
    <3>1. k - 1 \in 1..Len(p) /\ (k - 1) + 1 = k
      BY <1>3, <2>1, <2>3
    <3> QED
      BY <1>3, <2>1, <3>1 DEF Queued
  <2> QED
    BY <2>2, <2>3
<1>7. f.type = "round" => /\ f.round \in 1..Len(rounds) /\ f.round <= d /\ f.status \in Shades
  <2> HAVE f.type = "round"
  <2>1. f.status \in Shades
    BY <1>3 DEF Frames, Pushes, Bundles
  <2> QED
    BY <1>2, <1>3, <2>1 DEF QueueRight
<1>8. f.type # "round" => Strip(rounds, f.cells)
  BY <1>2, <1>3 DEF QueueRight
<1>9. ASSUME f.type = "round", NEW j, Queued(q, j) PROVE j \in Nat /\ j >= f.round
  <2>1. PICK k \in 1..Len(q) : q[k].type = "round" /\ q[k].round = j
    BY <1>9 DEF Queued
  <2>2. q[k].round \in 1..Len(rounds) /\ j \in Nat
    BY <1>2, <2>1, FeedFacts DEF QueueRight
  <2>3. f.round \in Nat
    BY <1>7, <1>9, FeedFacts
  <2>4. CASE k = 1
    BY <1>3, <2>1, <2>2, <2>4
  <2>5. CASE k # 1
    <3>1. 1 < k
      BY <1>3, <2>5
    <3>2. q[1].round < q[k].round
      BY <1>2, <1>3, <1>9, <2>1, <3>1 DEF QueueRight
    <3> QED
      BY <1>3, <2>1, <2>2, <2>3, <3>2
  <2> QED
    BY <2>4, <2>5
<1> QED
  BY <1>1, <1>3, <1>4, <1>5, <1>6, <1>7, <1>8, <1>9

LEMMA ReceiveRound ==
  ASSUME Bounds, FeedInv, link.up, link.queue # <<>>, link' = [link EXCEPT !.queue = Tail(@)],
         UNCHANGED <<rounds, config, state, closing, reads, left>>, Head(link.queue).type = "round",
         page' = [page EXCEPT !.cells = ApplyRound(@, Head(link.queue)),
                    !.torn = @ \/ \E k \in DOMAIN page.cells : page.cells[k].round >= Head(link.queue).round]
  PROVE  FeedInv'
<1>1. PICK f, c, m, late : /\ f = Head(link.queue) /\ c = page.cells /\ m = ApplyRound(c, f)
                           /\ late = \E k \in DOMAIN c : c[k].round >= f.round
  OBVIOUS
<1>2. f.round \in 1..Len(rounds) /\ f.round <= Done /\ f.status \in Shades
  BY <1>1, TailPromises
<1>3. /\ c \in Seq(Squares) /\ Len(c) <= Limit /\ AllRight(rounds, c) /\ page \in Pages /\ Len(rounds) \in Nat
      /\ Done \in Nat /\ EndOf(c) \in Nat
  BY <1>1, FeedFacts DEF FeedInv, PageRight
<1>4. f.round \in Nat /\ f.round >= 1
  BY <1>2, <1>3
<1>5. /\ m \in Seq(Squares) /\ Len(m) <= Limit
      /\ \A k \in 1..Len(m) : (\E i \in 1..Len(c) : m[k] = c[i]) \/ (m[k].round = f.round /\ ~m[k].sure)
      /\ (\A k \in 1..Len(c) : c[k].round < f.round) =>
           /\ EndOf(m) = f.round
           /\ \A s \in Nat : Joined(c, s) /\ (f.round <= s + 1 \/ f.round <= EndOf(c) + 1) => Joined(m, s)
  <2>1. /\ ApplyRound(c, f) \in Seq(Squares) /\ (Len(c) <= Limit => Len(ApplyRound(c, f)) <= Limit)
        /\ \A k \in 1..Len(ApplyRound(c, f)) :
             \/ \E i \in 1..Len(c) : ApplyRound(c, f)[k] = c[i]
             \/ ApplyRound(c, f)[k].round = f.round /\ ~ApplyRound(c, f)[k].sure
        /\ (\A k \in 1..Len(c) : c[k].round < f.round) =>
             /\ EndOf(ApplyRound(c, f)) = f.round
             /\ \A s \in Nat : Joined(c, s) /\ (f.round <= s + 1 \/ f.round <= EndOf(c) + 1)
                              => Joined(ApplyRound(c, f), s)
    BY <1>2, <1>3, <1>4, PushFacts
  <2>2. m = ApplyRound(c, f)
    BY <1>1
  <2> QED
    BY <1>3, <2>1, <2>2
<1>6. AllRight(rounds, m)
  BY <1>2, <1>3, <1>5 DEF AllRight, Right
<1>7. late \in BOOLEAN /\ page' = [page EXCEPT !.cells = m, !.torn = @ \/ late]
  BY <1>1
<1>8. page' \in Pages /\ page'.cells = m /\ page'.aligned = page.aligned /\ (page'.torn <=> page.torn \/ late)
  BY <1>3, <1>5, <1>7 DEF Pages
<1>9. PageRight(rounds, page')
  BY <1>5, <1>6, <1>8 DEF PageRight
<1>10. ASSUME ~page'.torn, NEW s \in Nat, Promised(reads, Tail(link.queue), page'.aligned, s)
       PROVE  Whole(page'.cells, Tail(link.queue), Done, s)
  <2>1. \A k \in 1..Len(c) : c[k].round < f.round
    <3> SUFFICES ASSUME NEW k \in 1..Len(c) PROVE c[k].round < f.round
      OBVIOUS
    <3>1. k \in DOMAIN c /\ c[k].round \in Nat
      BY <1>3, SquareFacts
    <3> QED
      BY <1>1, <1>4, <1>8, <1>10, <3>1
  <2>2. Whole(c, link.queue, Done, s)
    <3>1. Promised(reads, link.queue, page.aligned, s)
      BY <1>8, <1>10, TailPromises
    <3> QED
      BY <1>1, <1>8, <1>10, <3>1 DEF FeedInv, Kept
  <2>3. f.round <= s + 1 \/ f.round <= EndOf(c) + 1
    <3> SUFFICES ASSUME ~(f.round <= s + 1), ~(f.round <= EndOf(c) + 1) PROVE FALSE
      OBVIOUS
    <3>1. f.round - 1 \in 1..Done /\ f.round - 1 > s /\ f.round - 1 > EndOf(c)
      BY <1>2, <1>3, <1>4
    <3>2. Queued(link.queue, f.round - 1)
      BY <2>2, <3>1 DEF Whole
    <3>3. f.round - 1 >= f.round
      BY <1>1, <3>2, TailPromises
    <3> QED
      BY <1>4, <3>3
  <2>4. Joined(m, s) /\ EndOf(m) = f.round
    BY <1>5, <2>1, <2>2, <2>3 DEF Whole
  <2>5. ASSUME NEW j \in 1..Done, j > s, j > EndOf(m) PROVE Queued(Tail(link.queue), j)
    <3>1. EndOf(c) < f.round
      <4>1. CASE c = <<>>
        BY <1>4, <4>1 DEF EndOf
      <4>2. CASE c # <<>>
        <5>1. EndOf(c) = c[Len(c)].round /\ Len(c) \in 1..Len(c)
          BY <1>3, <4>2, SquareFacts
        <5> QED
          BY <2>1, <5>1
      <4> QED
        BY <4>1, <4>2
    <3>2. j > EndOf(c) /\ j # f.round
      BY <1>3, <1>4, <2>4, <2>5, <3>1
    <3>3. Queued(link.queue, j)
      BY <2>2, <2>5, <3>2 DEF Whole
    <3> QED
      BY <1>1, <3>2, <3>3, TailPromises
  <2> QED
    BY <1>8, <2>4, <2>5 DEF Whole
<1> QED
  BY <1>9, <1>10, FrameTaken

LEMMA ReceiveStrips ==
  ASSUME Bounds, FeedInv, link.up, link.queue # <<>>, link' = [link EXCEPT !.queue = Tail(@)],
         UNCHANGED <<rounds, config, state, closing, reads, left>>, Head(link.queue).type = "strips",
         ApplyStrips(Head(link.queue).cells, TRUE)
  PROVE  FeedInv'
<1>1. PICK f, c, m : f = Head(link.queue) /\ c = page.cells /\ m = MergeStrip(f.cells, c)
  OBVIOUS
<1>2. f.type = "strips" /\ Strip(rounds, f.cells) /\ page \in Pages /\ EndOf(f.cells) \in Nat
  <2>1. Strip(rounds, f.cells) /\ page \in Pages
    BY <1>1, TailPromises, ReadFacts DEF FeedInv, PageRight
  <2> QED
    BY <1>1, <2>1, SquareFacts DEF Strip
<1>3. /\ m \in Seq(Squares) /\ Len(m) <= Limit /\ AllRight(rounds, m)
      /\ \A q, s : s \in Nat /\ Whole(c, q, Done, s) => Whole(m, q, Done, s)
      /\ \A q : Whole(c, q, Done, EndOf(f.cells)) => Whole(m, q, Done, 0)
  BY <1>1, <1>2, MergedIn
<1>4. page' = [page EXCEPT !.cells = m, !.aligned = @ \/ TRUE]
  BY <1>1 DEF ApplyStrips
<1>5. page' \in Pages /\ page'.cells = m /\ page'.torn = page.torn
  BY <1>2, <1>3, <1>4 DEF Pages
<1>6. PageRight(rounds, page')
  BY <1>3, <1>5 DEF PageRight
<1>7. ASSUME ~page'.torn, NEW s \in Nat, Promised(reads, Tail(link.queue), page'.aligned, s)
      PROVE  Whole(page'.cells, Tail(link.queue), Done, s)
  <2>1. Whole(m, link.queue, Done, s)
    <3>1. CASE s = 0
      <4>1. Promised(reads, link.queue, page.aligned, EndOf(f.cells))
        BY <1>1, <1>2, TailPromises
      <4>2. Whole(c, link.queue, Done, EndOf(f.cells))
        BY <1>1, <1>2, <1>5, <1>7, <4>1 DEF FeedInv, Kept
      <4> QED
        BY <1>3, <3>1, <4>2
    <3>2. CASE s # 0
      <4>1. Promised(reads, Tail(link.queue), page.aligned, s)
        BY <1>7, <3>2 DEF Promised
      <4>2. Promised(reads, link.queue, page.aligned, s)
        BY <4>1, TailPromises
      <4>3. Whole(c, link.queue, Done, s)
        BY <1>1, <1>5, <1>7, <4>2 DEF FeedInv, Kept
      <4> QED
        BY <1>3, <4>3
    <3> QED
      BY <3>1, <3>2
  <2>2. \A j : Queued(link.queue, j) => Queued(Tail(link.queue), j)
    BY <1>1, <1>2, TailPromises
  <2> QED
    BY <1>5, <2>1, <2>2 DEF Whole
<1> QED
  BY <1>6, <1>7, FrameTaken

LEMMA ReceiveRow ==
  ASSUME Bounds, FeedInv, link.up, link.queue # <<>>, link' = [link EXCEPT !.queue = Tail(@)],
         UNCHANGED <<rounds, config, state, closing, reads, left>>, Head(link.queue).type = "row",
         UpsertMonitor(ClampStrip(Head(link.queue).cells))
  PROVE  FeedInv'
<1>1. PICK f, c, m, back : /\ f = Head(link.queue) /\ c = page.cells /\ m = f.cells
                           /\ back = (c # <<>> /\ (m = <<>> \/ Last(m).round < Last(c).round))
  OBVIOUS
<1>2. f.type = "row" /\ Strip(rounds, m) /\ page \in Pages /\ c \in Seq(Squares) /\ EndOf(c) \in Nat
  BY <1>1, TailPromises, FeedFacts DEF FeedInv, PageRight
<1>3. m \in Seq(Squares) /\ Len(m) <= Limit /\ Joined(m, 0) /\ AllRight(rounds, m) /\ EndOf(m) \in Nat
  BY <1>2, SquareFacts DEF Strip
<1>4. ClampStrip(m) = m
  <2>1. Len(m) \in Nat
    BY <1>3, SquareFacts
  <2> QED
    BY <1>3, <2>1 DEF ClampStrip, Bounds
<1>5. back \in BOOLEAN /\ page' = [page EXCEPT !.cells = m, !.torn = @ \/ back]
  BY <1>1, <1>4 DEF UpsertMonitor
<1>6. page' \in Pages /\ page'.cells = m /\ page'.aligned = page.aligned /\ (page'.torn <=> page.torn \/ back)
  BY <1>2, <1>3, <1>5 DEF Pages
<1>7. PageRight(rounds, page')
  BY <1>3, <1>6 DEF PageRight
<1>8. ASSUME ~page'.torn, NEW s \in Nat, Promised(reads, Tail(link.queue), page'.aligned, s)
      PROVE  Whole(page'.cells, Tail(link.queue), Done, s)
  <2>1. Whole(c, link.queue, Done, s)
    <3>1. Promised(reads, link.queue, page.aligned, s)
      BY <1>6, <1>8, TailPromises
    <3> QED
      BY <1>1, <1>6, <1>8, <3>1 DEF FeedInv, Kept
  <2>2. EndOf(m) >= EndOf(c)
    <3>1. c = <<>> \/ (m # <<>> /\ ~(Last(m).round < Last(c).round))
      BY <1>1, <1>6, <1>8
    <3> QED
      BY <1>2, <1>3, <3>1 DEF EndOf
  <2>3. Joined(m, s)
    BY <1>3, JoinedWhole
  <2>4. \A j : Queued(link.queue, j) => Queued(Tail(link.queue), j)
    BY <1>1, <1>2, TailPromises
  <2>5. ASSUME NEW j \in 1..Done, j > s, j > EndOf(m) PROVE Queued(Tail(link.queue), j)
    <3>1. j > EndOf(c)
      BY <1>2, <1>3, <2>2, <2>5, FeedFacts
    <3> QED
      BY <2>1, <2>4, <2>5, <3>1 DEF Whole
  <2> QED
    BY <1>6, <2>3, <2>5 DEF Whole
<1> QED
  BY <1>7, <1>8, FrameTaken

\* A row without a strip leaves the cells as they are.
LEMMA ReceiveBare ==
  ASSUME Bounds, FeedInv, link.up, link.queue # <<>>, link' = [link EXCEPT !.queue = Tail(@)],
         UNCHANGED <<rounds, config, state, closing, reads, left>>, Head(link.queue).type = "bare", UNCHANGED page
  PROVE  FeedInv'
<1>1. PageRight(rounds, page')
  BY DEF FeedInv
<1>2. ASSUME ~page.torn, NEW s \in Nat, Promised(reads, Tail(link.queue), page.aligned, s)
      PROVE  Whole(page.cells, Tail(link.queue), Done, s)
  <2>1. Promised(reads, link.queue, page.aligned, s)
    BY <1>2, TailPromises
  <2>2. Whole(page.cells, link.queue, Done, s)
    BY <1>2, <2>1 DEF FeedInv, Kept
  <2>3. \A j : Queued(link.queue, j) => Queued(Tail(link.queue), j)
    <3>1. PICK f : f = Head(link.queue)
      OBVIOUS
    <3>2. f.type # "round"
      BY <3>1
    <3> QED
      BY <3>1, <3>2, TailPromises
  <2> QED
    BY <2>2, <2>3 DEF Whole
<1> QED
  BY <1>1, <1>2, FrameTaken

LEMMA ReceiveStep == ASSUME Bounds, FeedInv, Receive PROVE FeedInv'
<1>1. /\ link.up /\ link.queue # <<>> /\ link' = [link EXCEPT !.queue = Tail(@)]
      /\ UNCHANGED <<rounds, config, state, closing, reads, left>>
      /\ \/ /\ Head(link.queue).type = "round"
            /\ page' = [page EXCEPT !.cells = ApplyRound(@, Head(link.queue)),
                          !.torn = @ \/ \E k \in DOMAIN page.cells : page.cells[k].round >= Head(link.queue).round]
         \/ Head(link.queue).type = "strips" /\ ApplyStrips(Head(link.queue).cells, TRUE)
         \/ Head(link.queue).type = "row" /\ UpsertMonitor(ClampStrip(Head(link.queue).cells))
         \/ Head(link.queue).type = "bare" /\ UNCHANGED page
  BY DEF Receive
<1> QED
  BY <1>1, ReceiveRound, ReceiveStrips, ReceiveRow, ReceiveBare

-----------------------------------------------------------------------------
(* The theorems.                                                           *)

LEMMA FeedNext == ASSUME Bounds, FeedInv, Next PROVE FeedInv'
<1>1. CASE Scheduler
  BY <1>1, ScheduleRoundStep, CloseRoundStep, ApplyAlertStep, ApplyAlertFailsStep, BroadcastRoundFinalizedStep
     DEF Scheduler
<1>2. CASE Reading
  BY <1>2, ListMonitorsStep, ReadStateStep, ReadRoundsStep, ReadRoundsFailsStep, PushMonitorStripsStep,
     HttpAnswerStep, BroadcastMonitorChangedStep, UpdateMonitorStep DEF Reading
<1>3. CASE Browser
  BY <1>3, ConnectStep, RequestStripsStep, DisconnectStep, LoadStripsHttpStep, ReceiveStep DEF Browser
<1> QED
  BY <1>1, <1>2, <1>3 DEF Next

LEMMA FeedStutter == ASSUME FeedInv, UNCHANGED feedVars PROVE FeedInv'
<1>1. Done' = Done /\ Recorded' /\ LinkRight' /\ Kept'
  BY DEF feedVars, Done, FeedInv, Recorded, LinkRight, Kept
<1> QED
  BY <1>1, InvFrom DEF feedVars, FeedInv

\* The invariant gives the type and the bounds.
LEMMA InvType == ASSUME Bounds, FeedInv PROVE TypeOK
<1>1. /\ state \in States /\ closing \in {"no", "closed", "stepped"} /\ Len(link.queue) <= QueueCap
      /\ Len(page.cells) <= Limit /\ config \in [row : Configs, held : Configs]
      /\ \A r \in Readers : reads[r].stage \in {"none", "begun", "listed", "state", "ready", "bare"}
  BY DEF FeedInv, Recorded, QueueRight, PageRight, ReadsRight, Reads, Stages
<1>2. link.n \in 0..(MaxExtras + 1)
  BY DEF FeedInv, LinkRight, Links, Bounds
<1>3. \A k \in DOMAIN page.cells : page.cells[k] \in Cells
  <2> SUFFICES ASSUME NEW k \in DOMAIN page.cells PROVE page.cells[k] \in Cells
    OBVIOUS
  <2>1. k \in 1..Len(page.cells) /\ page.cells[k] \in Squares
    BY FeedFacts, SquareFacts
  <2>2. page.cells[k].round \in 1..MaxRounds
    <3>1. Len(rounds) <= MaxRounds /\ Len(rounds) \in Nat /\ MaxRounds \in Nat
      BY FeedFacts DEF FeedInv, Recorded, Bounds
    <3>2. page.cells[k].round \in 1..Len(rounds)
      BY <2>1, FeedFacts
    <3> QED
      BY <3>1, <3>2
  <2> QED
    BY <2>1, <2>2 DEF Squares, Shades, Cells
<1> QED
  BY <1>1, <1>2, <1>3 DEF TypeOK

\* And it gives what a page promises its reader.
LEMMA InvFaithful == ASSUME Bounds, FeedInv PROVE StripIsFaithful
<1>1. PICK c, n : c = page.cells /\ n = Len(rounds)
  OBVIOUS
<1>2. /\ c \in Seq(Squares) /\ Len(c) \in Nat /\ DOMAIN c = 1..Len(c) /\ n \in Nat
      /\ \A k \in 1..Len(c) : c[k].round \in 1..n
      /\ (rounds # <<>> <=> n # 0) /\ EndOf(c) \in Nat
      /\ c # <<>> => Last(c) = c[Len(c)] /\ EndOf(c) = c[Len(c)].round /\ Len(c) \in 1..Len(c)
  BY <1>1, FeedFacts, SquareFacts
<1>3. StripIsComplete
  <2> SUFFICES ASSUME link.up, page.aligned, ~page.torn
               PROVE  /\ \A k \in 1..(Len(c) - 1) : c[k + 1].round = c[k].round + 1
                      /\ link.queue = <<>> /\ closing = "no" /\ rounds # <<>> => c # <<>> /\ Last(c).round = n
    BY <1>1 DEF StripIsComplete
  <2>1. Whole(c, link.queue, Done, 0)
    BY <1>1 DEF FeedInv, Kept, Promised
  <2>2. ASSUME NEW k \in 1..(Len(c) - 1) PROVE c[k + 1].round = c[k].round + 1
    <3>1. k \in 1..Len(c) /\ k < Len(c)
      BY <1>2
    <3>2. c[k].round > 0
      BY <1>2, <3>1
    <3> QED
      BY <2>1, <3>1, <3>2 DEF Whole, Joined
  <2>3. ASSUME link.queue = <<>>, closing = "no", rounds # <<>> PROVE c # <<>> /\ Last(c).round = n
    <3>1. Done = n /\ n \in 1..Done
      BY <1>1, <1>2, <2>3 DEF Done
    <3>2. ~Queued(link.queue, n)
      <4>1. Len(link.queue) = 0
        BY <2>3, EmptySeq
      <4> QED
        BY <4>1 DEF Queued
    <3>3. ~(n > EndOf(c))
      BY <1>2, <2>1, <3>1, <3>2 DEF Whole
    <3>4. c # <<>>
      BY <1>2, <2>3, <3>3 DEF EndOf
    <3> QED
      BY <1>2, <3>3, <3>4
  <2> QED
    BY <2>2, <2>3
<1>4. StripTellsTheColour
  <2> SUFFICES ASSUME NEW k \in 1..Len(c), c[k].sure, rounds[c[k].round].live # "", ~rounds[c[k].round].split
               PROVE  c[k].status = rounds[c[k].round].live
    BY <1>1, <1>2 DEF StripTellsTheColour
  <2>1. PICK i : i = c[k].round
    OBVIOUS
  <2>2. Right(rounds, c[k]) /\ i \in 1..n
    BY <1>1, <1>2, <2>1 DEF FeedInv, PageRight, AllRight
  <2>3. LiveFits(rounds, i)
    BY <1>1, <2>2 DEF FeedInv, Recorded
  <2> QED
    BY <2>1, <2>2, <2>3 DEF Right, LiveFits
<1> QED
  BY <1>3, <1>4 DEF StripIsFaithful

\* What an open page has of the strip, however reads, pushes and reconnections
\* interleave (BrowserFeed).
THEOREM FeedCorrect == ASSUME Bounds PROVE Spec => [](TypeOK /\ StripIsFaithful)
<1>1. Init => FeedInv
  BY InitInv
<1>2. FeedInv /\ [Next]_feedVars => FeedInv'
  BY FeedNext, FeedStutter
<1>3. FeedInv => TypeOK /\ StripIsFaithful
  BY InvType, InvFaithful
<1> QED
  BY <1>1, <1>2, <1>3, PTL DEF Spec
=============================================================================
