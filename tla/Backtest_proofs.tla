--------------------------- MODULE Backtest_proofs ---------------------------
(* Theorems about Backtest, for every latency, every cap, every capture and  *)
(* every outcome of the simulated fills.                                     *)
EXTENDS Backtest, FiniteSetTheorems, SequenceTheorems, TLAPS

-----------------------------------------------------------------------------
(* Sequences.                                                                *)

\* The numbers in a sequence rise.
Rising(s) == \A i, j \in 1 .. Len(s) : i < j => s[i] < s[j]

\* A rising sequence loses its least element with its head ...
LEMMA TailElems ==
    ASSUME NEW s \in Seq(Ids), Rising(s), s # <<>>
    PROVE  /\ Tail(s) \in Seq(Ids) /\ Rising(Tail(s))
           /\ Head(s) \in Ids /\ Head(s) \in Elems(s)
           /\ Elems(Tail(s)) = Elems(s) \ {Head(s)}
           /\ \A e \in Elems(s) : Head(s) <= e
<1>1. /\ Tail(s) \in Seq(Ids) /\ Len(s) \in Nat \ {0} /\ Len(Tail(s)) = Len(s) - 1
      /\ Head(s) = s[1] /\ Head(s) \in Ids
      /\ \A i \in 1 .. Len(s) - 1 : Tail(s)[i] = s[i + 1]
      /\ DOMAIN s = 1 .. Len(s) /\ DOMAIN Tail(s) = 1 .. Len(Tail(s))
      /\ \A i \in 1 .. Len(s) : s[i] \in Ids
  OBVIOUS
<1>2. \A i \in 1 .. Len(s) : s[i] \in Int
  BY <1>1 DEF Ids
<1>3. Rising(Tail(s))
  BY <1>1 DEF Rising
<1>4. \A i \in 1 .. Len(s) : i = 1 \/ (i - 1 \in 1 .. Len(s) - 1 /\ s[i] = Tail(s)[i - 1])
  <2> SUFFICES ASSUME NEW i \in 1 .. Len(s), i # 1
               PROVE  i - 1 \in 1 .. Len(s) - 1 /\ s[i] = Tail(s)[i - 1]
    OBVIOUS
  <2>1. i - 1 \in 1 .. Len(s) - 1 /\ (i - 1) + 1 = i
    BY <1>1
  <2> QED BY <1>1, <2>1
<1>5. Elems(Tail(s)) \subseteq Elems(s) \ {Head(s)}
  <2> SUFFICES ASSUME NEW i \in 1 .. Len(s) - 1
               PROVE  s[i + 1] \in Elems(s) /\ s[i + 1] # s[1]
    BY <1>1 DEF Elems
  <2>1. i + 1 \in 1 .. Len(s) /\ 1 \in 1 .. Len(s) /\ 1 < i + 1
    BY <1>1
  <2> QED BY <1>1, <1>2, <2>1 DEF Elems, Rising
<1>6. Elems(s) \ {Head(s)} \subseteq Elems(Tail(s))
  <2> SUFFICES ASSUME NEW e \in Elems(s), e # Head(s) PROVE e \in Elems(Tail(s))
    OBVIOUS
  <2>1. PICK i \in 1 .. Len(s) : e = s[i]
    BY <1>1 DEF Elems
  <2>2. i - 1 \in 1 .. Len(Tail(s)) /\ e = Tail(s)[i - 1]
    BY <1>1, <1>4, <2>1
  <2> DEFINE t == Tail(s)
  <2>3. DOMAIN t = 1 .. Len(t) /\ i - 1 \in 1 .. Len(t) /\ e = t[i - 1]
    BY <1>1, <2>2
  <2> HIDE DEF t
  <2>4. e \in Elems(t)
    BY <2>3 DEF Elems
  <2> QED BY <2>4 DEF t
<1>7. \A e \in Elems(s) : Head(s) <= e
  BY <1>1, <1>2 DEF Elems, Rising
<1>8. Head(s) \in Elems(s)
  BY <1>1 DEF Elems
<1> QED BY <1>1, <1>3, <1>5, <1>6, <1>7, <1>8

\* ... and gains one at its end.
LEMMA AppendElems ==
    ASSUME NEW s \in Seq(Ids), NEW d \in Ids
    PROVE  /\ Append(s, d) \in Seq(Ids)
           /\ Len(Append(s, d)) = Len(s) + 1 /\ Len(s) \in Nat
           /\ Elems(Append(s, d)) = Elems(s) \cup {d}
           /\ Rising(s) /\ (\A e \in Elems(s) : e < d) => Rising(Append(s, d))
<1> DEFINE t == Append(s, d)
<1>1. /\ t \in Seq(Ids) /\ Len(t) = Len(s) + 1 /\ Len(s) \in Nat
      /\ \A i \in 1 .. Len(s) : t[i] = s[i]
      /\ t[Len(s) + 1] = d
      /\ DOMAIN s = 1 .. Len(s) /\ DOMAIN t = 1 .. Len(t)
  OBVIOUS
<1> HIDE DEF t
<1>2. Elems(t) = Elems(s) \cup {d}
  <2>1. \A i \in 1 .. Len(t) : i \in 1 .. Len(s) \/ i = Len(s) + 1
    BY <1>1
  <2>2. Elems(t) \subseteq Elems(s) \cup {d}
    BY <1>1, <2>1 DEF Elems
  <2>3. Elems(s) \cup {d} \subseteq Elems(t)
    BY <1>1 DEF Elems
  <2> QED BY <2>2, <2>3
<1>3. Rising(s) /\ (\A e \in Elems(s) : e < d) => Rising(t)
  BY <1>1 DEF Rising, Elems
<1> QED BY <1>1, <1>2, <1>3 DEF t

-----------------------------------------------------------------------------
(* Sums.                                                                     *)

\* What the decisions in S add up to on a venue when their directions are `dirs`.
NetOf(dirs, S, v) ==
    Cardinality({d \in S : Side(dirs[d], v) = 1})
        - Cardinality({d \in S : Side(dirs[d], v) = -1})

LEMMA FiniteIds ==
    ASSUME NEW S \in SUBSET Ids PROVE IsFiniteSet(S) /\ Cardinality(S) \in Nat
<1>1. IsFiniteSet(Ids)
  BY BacktestAssumption, FS_Interval DEF Ids
<1> QED BY <1>1, FS_Subset, FS_CardinalityType

LEMMA Sides == \A dir, v : Side(dir, v) \in {1, -1}
  BY DEF Side

\* One decision more.
LEMMA NetAdd ==
    ASSUME NEW dirs, NEW S \in SUBSET Ids, NEW d \in Ids \ S, NEW v
    PROVE  /\ NetOf(dirs, S, v) \in Int
           /\ NetOf(dirs, S \cup {d}, v) = NetOf(dirs, S, v) + Side(dirs[d], v)
<1> DEFINE Up(T) == {e \in T : Side(dirs[e], v) = 1}
           Down(T) == {e \in T : Side(dirs[e], v) = -1}
<1>1. /\ IsFiniteSet(Up(S)) /\ Cardinality(Up(S)) \in Nat
      /\ IsFiniteSet(Down(S)) /\ Cardinality(Down(S)) \in Nat
  <2>1. Up(S) \in SUBSET Ids /\ Down(S) \in SUBSET Ids
    OBVIOUS
  <2> QED BY <2>1, FiniteIds
<1>2. CASE Side(dirs[d], v) = 1
  <2>1. Up(S \cup {d}) = Up(S) \cup {d} /\ Down(S \cup {d}) = Down(S) /\ d \notin Up(S)
    BY <1>2
  <2>2. Cardinality(Up(S) \cup {d}) = Cardinality(Up(S)) + 1
    BY <1>1, <2>1, FS_AddElement
  <2> QED BY <1>1, <1>2, <2>1, <2>2 DEF NetOf
<1>3. CASE Side(dirs[d], v) = -1
  <2>1. Down(S \cup {d}) = Down(S) \cup {d} /\ Up(S \cup {d}) = Up(S) /\ d \notin Down(S)
    BY <1>3
  <2>2. Cardinality(Down(S) \cup {d}) = Cardinality(Down(S)) + 1
    BY <1>1, <2>1, FS_AddElement
  <2> QED BY <1>1, <1>3, <2>1, <2>2 DEF NetOf
<1> QED BY <1>2, <1>3, Sides

\* One decision less.
LEMMA NetRemove ==
    ASSUME NEW dirs, NEW S \in SUBSET Ids, NEW d \in S, NEW v
    PROVE  /\ NetOf(dirs, S, v) \in Int
           /\ NetOf(dirs, S \ {d}, v) = NetOf(dirs, S, v) - Side(dirs[d], v)
<1>1. /\ S \ {d} \in SUBSET Ids /\ d \in Ids \ (S \ {d}) /\ (S \ {d}) \cup {d} = S
  OBVIOUS
<1>2. /\ NetOf(dirs, S \ {d}, v) \in Int
      /\ NetOf(dirs, S, v) = NetOf(dirs, S \ {d}, v) + Side(dirs[d], v)
  <2> DEFINE T == S \ {d}
  <2>1. T \in SUBSET Ids /\ d \in Ids \ T /\ T \cup {d} = S
    BY <1>1
  <2> HIDE DEF T
  <2>2. /\ NetOf(dirs, T, v) \in Int
        /\ NetOf(dirs, T \cup {d}, v) = NetOf(dirs, T, v) + Side(dirs[d], v)
    BY <2>1, NetAdd
  <2> QED BY <2>1, <2>2 DEF T
<1> DEFINE a == Side(dirs[d], v)
<1>3. a \in Int
  BY Sides
<1> HIDE DEF a
<1>4. NetOf(dirs, S, v) = NetOf(dirs, S \ {d}, v) + a
  BY <1>2 DEF a
<1>5. NetOf(dirs, S, v) \in Int /\ NetOf(dirs, S \ {d}, v) = NetOf(dirs, S, v) - a
  BY <1>2, <1>3, <1>4
<1> QED BY <1>5 DEF a

\* Only the directions of the decisions in S matter.
LEMMA NetSame ==
    ASSUME NEW dirs, NEW others, NEW S, \A d \in S : dirs[d] = others[d], NEW v
    PROVE  NetOf(dirs, S, v) = NetOf(others, S, v)
<1>1. /\ {d \in S : Side(dirs[d], v) = 1} = {d \in S : Side(others[d], v) = 1}
      /\ {d \in S : Side(dirs[d], v) = -1} = {d \in S : Side(others[d], v) = -1}
  OBVIOUS
<1> QED BY <1>1 DEF NetOf

\* Two disjoint sets.
LEMMA NetUnion ==
    ASSUME NEW dirs, NEW S \in SUBSET Ids, NEW T \in SUBSET Ids, S \cap T = {}, NEW v
    PROVE  NetOf(dirs, S \cup T, v) = NetOf(dirs, S, v) + NetOf(dirs, T, v)
<1> DEFINE Up(R) == {e \in R : Side(dirs[e], v) = 1}
           Down(R) == {e \in R : Side(dirs[e], v) = -1}
<1>1. ASSUME NEW A \in SUBSET Ids, NEW B \in SUBSET Ids, A \cap B = {}
      PROVE  /\ Cardinality(A \cup B) = Cardinality(A) + Cardinality(B)
             /\ Cardinality(A) \in Nat /\ Cardinality(B) \in Nat
  <2>1. /\ IsFiniteSet(A) /\ Cardinality(A) \in Nat
        /\ IsFiniteSet(B) /\ Cardinality(B) \in Nat
    BY FiniteIds
  <2>2. Cardinality(A \cup B) = Cardinality(A) + Cardinality(B) - Cardinality(A \cap B)
    BY <2>1, FS_Union
  <2>3. Cardinality(A \cap B) = 0
    BY <1>1, FS_EmptySet
  <2> QED BY <2>1, <2>2, <2>3
<1>2. /\ Up(S) \in SUBSET Ids /\ Up(T) \in SUBSET Ids /\ Up(S) \cap Up(T) = {}
      /\ Down(S) \in SUBSET Ids /\ Down(T) \in SUBSET Ids /\ Down(S) \cap Down(T) = {}
      /\ Up(S \cup T) = Up(S) \cup Up(T) /\ Down(S \cup T) = Down(S) \cup Down(T)
  OBVIOUS
<1> HIDE DEF Up, Down
<1>3. /\ Cardinality(Up(S \cup T)) = Cardinality(Up(S)) + Cardinality(Up(T))
      /\ Cardinality(Up(S)) \in Nat /\ Cardinality(Up(T)) \in Nat
  BY <1>1, <1>2
<1>4. /\ Cardinality(Down(S \cup T)) = Cardinality(Down(S)) + Cardinality(Down(T))
      /\ Cardinality(Down(S)) \in Nat /\ Cardinality(Down(T)) \in Nat
  BY <1>1, <1>2
<1> QED BY <1>3, <1>4 DEF NetOf, Up, Down
-----------------------------------------------------------------------------
(* The invariant.                                                            *)

\* Decisions are made on the rows gone by, one on each.
PassInv ==
    /\ \A d \in Ids : direction[d] # "none" => d <= row /\ sent[d] <= now
    /\ phase = "before" => row \in Ids /\ direction[row] = "none"
    /\ phase = "done" => \A v \in Venues : queue[v] = <<>>

\* A venue's queue has the decisions without a leg there, oldest first.
QueueInv == \A v \in Venues :
    /\ Rising(queue[v])
    /\ \A d \in Ids :
          /\ d \in Elems(queue[v]) <=> direction[d] # "none" /\ leg[d][v] = "none"
          /\ direction[d] = "none" => leg[d][v] = "none"

LegsLeft(d) ==
    (IF leg[d]["left"] = "none" THEN 1 ELSE 0) + (IF leg[d]["right"] = "none" THEN 1 ELSE 0)

\* Both counts are of the legs that are left; a decision is recorded when there are none.
CountInv == \A d \in Ids :
    /\ remaining_legs[d] = IF direction[d] = "none" THEN 0 ELSE LegsLeft(d)
    /\ inflight_legs[d] = IF k > 0 THEN remaining_legs[d] ELSE 0
    /\ d \in Elems(emitted) <=> direction[d] # "none" /\ remaining_legs[d] = 0

Whole == {d \in Elems(emitted) : \A v \in Venues : leg[d][v] = "filled"}

SumInv ==
    /\ Cardinality(Elems(emitted)) = Len(emitted)
    /\ \A v \in Venues : /\ in_flight_qty[v] = NetOf(direction, Elems(queue[v]), v)
                         /\ sizes[v] = NetOf(direction, Whole, v)

BooksInv == BacktestTypeOK /\ PassInv /\ QueueInv /\ CountInv /\ SumInv

LEMMA TwoVenues ==
    ASSUME NEW v \in Venues
    PROVE  /\ \E w \in Venues : w # v /\ Venues = {v, w}
           /\ "left" \in Venues /\ "right" \in Venues
  BY DEF Venues

\* Nothing has happened: no sums, no queues.
LEMMA BooksInit == ASSUME BacktestInit PROVE BooksInv
<1> USE DEF BacktestInit
<1>1. <<>> \in Seq(Ids) /\ Len(<<>>) = 0 /\ Elems(<<>>) = {}
  BY DEF Elems
<1>2. NetOf(direction, {}, "left") = 0 /\ NetOf(direction, {}, "right") = 0
  <2>1. \A v : {d \in {} : Side(direction[d], v) = 1} = {}
               /\ {d \in {} : Side(direction[d], v) = -1} = {}
    OBVIOUS
  <2> QED BY <2>1, FS_EmptySet DEF NetOf
<1>3. BacktestTypeOK
  BY <1>1, BacktestAssumption DEF BacktestTypeOK
<1>4. PassInv
  BY BacktestAssumption DEF PassInv
<1>5. QueueInv
  BY <1>1 DEF QueueInv, Rising
<1>6. CountInv
  BY <1>1, TwoVenues DEF CountInv
<1>7. SumInv
  <2>1. Whole = {} /\ \A v \in Venues : Elems(queue[v]) = {} /\ sizes[v] = 0 /\ in_flight_qty[v] = 0
    BY <1>1 DEF Whole
  <2>2. Cardinality(Elems(emitted)) = Len(emitted)
    BY <1>1, FS_EmptySet
  <2>3. \A v \in Venues : NetOf(direction, {}, v) = 0
    BY <1>2 DEF Venues
  <2> QED BY <2>1, <2>2, <2>3 DEF SumInv
<1> QED BY <1>3, <1>4, <1>5, <1>6, <1>7 DEF BooksInv

\* Every order arrives no earlier than those before it: insort appends.
LEMMA InsortAppends ==
    ASSUME BooksInv, NEW v \in Venues
    PROVE  Insort(v, row) = Append(queue[v], row)
<1> DEFINE q == queue[v]
           last == Len(q)
           Late(i) == Arrival(q[i], v) > now + delay[v]
           At(i) == (\A j \in 1 .. i : ~Late(j)) /\ (\A j \in i + 1 .. last : Late(j))
           n == CHOOSE i \in 0 .. last : At(i)
<1>1. /\ q \in Seq(Ids) /\ last \in Nat /\ DOMAIN q = 1 .. last
      /\ now \in Nat /\ delay[v] \in Nat /\ sent \in [Ids -> Nat]
      /\ row \in Int
  <2>1. queue \in [Venues -> Seq(Ids)] /\ delay \in [Venues -> 0 .. MaxDelay] /\ MaxDelay \in Nat
    BY BacktestAssumption DEF BooksInv, BacktestTypeOK
  <2>2. q \in Seq(Ids) /\ delay[v] \in Nat
    BY <2>1
  <2> HIDE DEF q
  <2>3. Len(q) \in Nat /\ DOMAIN q = 1 .. Len(q)
    BY <2>2
  <2> QED BY <2>2, <2>3, BacktestAssumption DEF BooksInv, BacktestTypeOK
<1>2. \A j \in 1 .. last : ~Late(j)
  <2> SUFFICES ASSUME NEW j \in 1 .. last PROVE ~Late(j)
    OBVIOUS
  <2>1. q[j] \in Ids /\ q[j] \in Elems(q)
    BY <1>1 DEF Elems
  <2>2. sent[q[j]] \in Nat /\ sent[q[j]] <= now
    BY <1>1, <2>1 DEF BooksInv, PassInv, QueueInv
  <2> QED BY <1>1, <2>2 DEF Arrival
<1>3. n = last
  <2>1. At(last) /\ last \in 0 .. last
    BY <1>1, <1>2
  <2>2. At(n) /\ n \in 0 .. last
    BY <2>1
  <2>3. CASE n < last
    <3>1. n + 1 \in n + 1 .. last /\ n + 1 \in 1 .. last
      BY <1>1, <2>2, <2>3
    <3> QED BY <1>2, <2>2, <3>1
  <2> QED BY <1>1, <2>2, <2>3
<1>4. Insort(v, row) = Append(SubSeq(q, 1, n), row) \o SubSeq(q, n + 1, last)
  BY DEF Insort
<1> HIDE DEF q, n
<1>5. SubSeq(q, 1, last) = q /\ SubSeq(q, last + 1, last) = <<>>
  <2>1. SubSeq(q, 1, Len(q)) = q
    BY <1>1, SubSeqFull
  <2>2. last + 1 \in Int /\ last \in Int /\ last < last + 1
    BY <1>1
  <2> QED BY <2>1, <2>2, SubSeqEmpty
<1>6. Append(q, row) \in Seq(Ids \cup {row})
  BY <1>1
<1>7. Append(q, row) \o <<>> = Append(q, row)
  BY <1>6, ConcatEmptySeq
<1>8. Insort(v, row) = Append(q, row) \o <<>>
  BY <1>3, <1>4, <1>5
<1> QED BY <1>7, <1>8 DEF q

\* The facts of a step that leaves the orders alone.
LEMMA RowsStep ==
    ASSUME BooksInv, NextRow \/ Declines \/ RowsEnd \/ Summary
    PROVE  BooksInv'
<1>1. /\ UNCHANGED <<delay, k, sent, direction, queue, remaining_legs, leg, in_flight_qty,
                     sizes, emitted, inflight_legs>>
  BY DEF NextRow, Declines, RowsEnd, Summary, configVars
<1>2. /\ row \in 0 .. NTicks /\ now \in Nat /\ NTicks \in Nat
  BY BacktestAssumption DEF BooksInv, BacktestTypeOK
<1>3. /\ row' \in 0 .. NTicks /\ row <= row'
      /\ now' \in Nat /\ now <= now'
      /\ phase' \in {"before", "after", "eod", "done"}
      /\ phase' = "before" => row' = row + 1 /\ row' \in Ids
      /\ phase' = "done" => \A v \in Venues : queue[v] = <<>>
  <2>1. CASE NextRow
    <3>1. PICK gap \in 0 .. MaxGap : now' = now + gap
      BY <2>1 DEF NextRow
    <3>2. gap \in Nat
      BY BacktestAssumption
    <3> QED BY <1>2, <2>1, <3>1, <3>2 DEF NextRow, Ids
  <2>2. CASE Declines \/ RowsEnd \/ Summary
    BY <1>2, <2>2 DEF Declines, RowsEnd, Summary
  <2> QED BY <2>1, <2>2
<1>4. PassInv'
  <2>1. \A d \in Ids : direction[d] # "none" => d <= row /\ sent[d] <= now /\ sent[d] \in Nat
    BY DEF BooksInv, PassInv, BacktestTypeOK
  <2>2. \A d \in Ids : d \in Int
    BY DEF Ids
  <2>3. \A d \in Ids : direction[d] # "none" => d <= row' /\ sent[d] <= now'
    BY <1>2, <1>3, <2>1, <2>2
  <2>4. phase' = "before" => direction[row'] = "none"
    BY <1>2, <1>3, <2>1
  <2> QED BY <1>1, <1>3, <2>3, <2>4 DEF PassInv
<1>5. BacktestTypeOK'
  BY <1>1, <1>3 DEF BooksInv, BacktestTypeOK
<1>6. QueueInv' /\ CountInv'
  BY <1>1 DEF BooksInv, QueueInv, CountInv, LegsLeft
<1>7. SumInv'
  <2>1. Whole' = Whole
    BY <1>1 DEF Whole
  <2> QED BY <1>1, <2>1 DEF BooksInv, SumInv, NetOf
<1> QED BY <1>4, <1>5, <1>6, <1>7 DEF BooksInv
\* A leg arrives: its order leaves the queue, and the decision is recorded with its last.
LEMMA ResolveStep ==
    ASSUME BooksInv, NEW v \in Venues, NEW result \in {"filled", "rejected"},
           Resolve(v, result), queue[v] # <<>>, phase # "done"
    PROVE  BooksInv'
<1>0. queue[v] \in Seq(Ids) /\ Rising(queue[v])
  BY DEF BooksInv, BacktestTypeOK, QueueInv
<1> PICK d \in Ids : d = Head(queue[v])
  BY <1>0, TailElems
<1>1. /\ queue' = [queue EXCEPT ![v] = Tail(@)]
      /\ in_flight_qty' = [in_flight_qty EXCEPT ![v] = @ - Side(direction[d], v)]
      /\ leg' = [leg EXCEPT ![d][v] = result]
      /\ remaining_legs' = [remaining_legs EXCEPT ![d] = @ - 1]
      /\ inflight_legs' = IF inflight_legs[d] = 0 THEN inflight_legs
                          ELSE [inflight_legs EXCEPT ![d] = @ - 1]
      /\ remaining_legs'[d] > 0 => emitted' = emitted /\ sizes' = sizes
      /\ ~(remaining_legs'[d] > 0) =>
            /\ emitted' = Append(emitted, d)
            /\ sizes' = IF \A w \in Venues : leg'[d][w] = "filled" THEN ApplyPair(d) ELSE sizes
      /\ UNCHANGED <<delay, k, row, now, phase, sent, direction>>
  BY DEF Resolve, ApplyFill, OnFill, MaybeEmit, configVars
<1>2. /\ queue \in [Venues -> Seq(Ids)] /\ queue[v] \in Seq(Ids) /\ Rising(queue[v])
      /\ leg \in [Ids -> [Venues -> {"none", "filled", "rejected"}]]
      /\ remaining_legs \in [Ids -> 0 .. 2] /\ inflight_legs \in [Ids -> 0 .. 2]
      /\ in_flight_qty \in [Venues -> Int] /\ sizes \in [Venues -> Int]
      /\ emitted \in Seq(Ids) /\ k \in Nat
  BY BacktestAssumption DEF BooksInv, BacktestTypeOK, QueueInv
<1>3. /\ Tail(queue[v]) \in Seq(Ids) /\ Rising(Tail(queue[v]))
      /\ d \in Elems(queue[v])
      /\ Elems(Tail(queue[v])) = Elems(queue[v]) \ {d}
  <2> DEFINE q == queue[v]
  <2>1. q \in Seq(Ids) /\ Rising(q) /\ q # <<>>
    BY <1>2
  <2> HIDE DEF q
  <2>2. /\ Tail(q) \in Seq(Ids) /\ Rising(Tail(q))
        /\ Head(q) \in Elems(q)
        /\ Elems(Tail(q)) = Elems(q) \ {Head(q)}
    BY <2>1, TailElems
  <2> QED BY <2>2 DEF q
<1>4. direction[d] # "none" /\ leg[d][v] = "none"
  BY <1>3 DEF BooksInv, QueueInv
<1>5. /\ queue' \in [Venues -> Seq(Ids)]
      /\ \A w \in Venues : /\ Rising(queue'[w])
                           /\ Elems(queue'[w]) = IF w = v THEN Elems(queue[v]) \ {d}
                                                 ELSE Elems(queue[w])
  <2>1. queue'[v] = Tail(queue[v]) /\ \A w \in Venues : w # v => queue'[w] = queue[w]
    BY <1>1, <1>2
  <2> QED BY <1>1, <1>2, <1>3, <2>1 DEF BooksInv, QueueInv
<1>6. /\ leg' \in [Ids -> [Venues -> {"none", "filled", "rejected"}]]
      /\ \A e \in Ids, w \in Venues :
            leg'[e][w] = IF e = d /\ w = v THEN result ELSE leg[e][w]
  BY <1>1, <1>2, <1>3
<1>7. BacktestTypeOK' /\ PassInv'
  <2>1. remaining_legs[d] \in {1, 2}
    BY <1>3, <1>4, TwoVenues DEF BooksInv, CountInv, LegsLeft, Venues
  <2>2. remaining_legs' \in [Ids -> 0 .. 2] /\ inflight_legs' \in [Ids -> 0 .. 2]
    <3>1. remaining_legs[d] - 1 \in 0 .. 2
      BY <2>1
    <3>2. inflight_legs[d] # 0 => inflight_legs[d] - 1 \in 0 .. 2
      BY <1>2
    <3> QED BY <1>1, <1>2, <3>1, <3>2
  <2>3. in_flight_qty' \in [Venues -> Int]
    <3>1. Side(direction[d], v) \in Int
      BY Sides
    <3> QED BY <1>1, <1>2, <3>1
  <2>4. sizes' \in [Venues -> Int] /\ emitted' \in Seq(Ids)
    <3>1. ASSUME NEW w \in Venues PROVE sizes[w] + Side(direction[d], w) \in Int
      <4>1. Side(direction[d], w) \in Int
        BY Sides
      <4> QED BY <1>2, <4>1
    <3>2. Append(emitted, d) \in Seq(Ids)
      BY <1>2, <1>3
    <3>3. ApplyPair(d) \in [Venues -> Int]
      BY <3>1 DEF ApplyPair
    <3> QED BY <1>1, <1>2, <3>2, <3>3
  <2>5. BacktestTypeOK'
    BY <1>1, <1>5, <1>6, <2>2, <2>3, <2>4 DEF BooksInv, BacktestTypeOK
  <2>6. PassInv'
    BY <1>1 DEF BooksInv, PassInv
  <2> QED BY <2>5, <2>6
<1>8. QueueInv'
  BY <1>1, <1>3, <1>4, <1>5, <1>6 DEF BooksInv, QueueInv
<1>9. /\ remaining_legs[d] = LegsLeft(d) /\ remaining_legs'[d] = remaining_legs[d] - 1
      /\ LegsLeft(d)' = LegsLeft(d) - 1 /\ LegsLeft(d) \in {1, 2}
      /\ remaining_legs'[d] = 0 <=> leg'[d]["left"] # "none" /\ leg'[d]["right"] # "none"
      /\ \A e \in Ids : e # d => remaining_legs'[e] = remaining_legs[e]
                                 /\ LegsLeft(e)' = LegsLeft(e)
  <2>1. \A e \in Ids : e # d => LegsLeft(e)' = LegsLeft(e)
    BY <1>6, TwoVenues DEF LegsLeft
  <2>2. LegsLeft(d)' = LegsLeft(d) - 1 /\ LegsLeft(d) \in {1, 2}
    BY <1>3, <1>4, <1>6 DEF LegsLeft, Venues
  <2>3. remaining_legs[d] = LegsLeft(d)
    BY <1>3, <1>4 DEF BooksInv, CountInv
  <2>4. /\ remaining_legs'[d] = remaining_legs[d] - 1
        /\ \A e \in Ids : e # d => remaining_legs'[e] = remaining_legs[e]
    BY <1>1, <1>2, <1>3
  <2>5. LegsLeft(d)' = 0 <=> leg'[d]["left"] # "none" /\ leg'[d]["right"] # "none"
    BY DEF LegsLeft
  <2> QED BY <2>1, <2>2, <2>3, <2>4, <2>5
<1>10. /\ d \notin Elems(emitted)
       /\ remaining_legs'[d] > 0 => emitted' = emitted /\ sizes' = sizes
       /\ remaining_legs'[d] = 0 => /\ emitted' = Append(emitted, d)
                                    /\ Elems(emitted') = Elems(emitted) \cup {d}
                                    /\ Len(emitted') = Len(emitted) + 1
       /\ remaining_legs'[d] \in Nat
  <2>1. d \notin Elems(emitted)
    BY <1>3, <1>9 DEF BooksInv, CountInv
  <2>2. remaining_legs'[d] = 0 => emitted' = Append(emitted, d)
    BY <1>1
  <2>3. /\ Elems(Append(emitted, d)) = Elems(emitted) \cup {d}
        /\ Len(Append(emitted, d)) = Len(emitted) + 1
    BY <1>2, <1>3, AppendElems
  <2>4. remaining_legs'[d] \in Nat
    BY <1>9
  <2> QED BY <1>1, <2>1, <2>2, <2>3, <2>4
<1>11. CountInv'
  <2> SUFFICES ASSUME NEW e \in Ids
               PROVE  /\ remaining_legs'[e] = IF direction'[e] = "none" THEN 0 ELSE LegsLeft(e)'
                      /\ inflight_legs'[e] = IF k' > 0 THEN remaining_legs'[e] ELSE 0
                      /\ e \in Elems(emitted') <=> direction'[e] # "none" /\ remaining_legs'[e] = 0
    BY DEF CountInv
  <2>1. remaining_legs'[e] = IF direction'[e] = "none" THEN 0 ELSE LegsLeft(e)'
    BY <1>1, <1>4, <1>9 DEF BooksInv, CountInv
  <2>2. inflight_legs'[e] = IF k' > 0 THEN remaining_legs'[e] ELSE 0
    <3>1. inflight_legs[e] = (IF k > 0 THEN remaining_legs[e] ELSE 0)
          /\ inflight_legs[d] = (IF k > 0 THEN remaining_legs[d] ELSE 0)
      BY <1>3 DEF BooksInv, CountInv
    <3> QED BY <1>1, <1>2, <1>3, <1>9, <3>1
  <2>3. e \in Elems(emitted') <=> direction'[e] # "none" /\ remaining_legs'[e] = 0
    BY <1>1, <1>4, <1>9, <1>10 DEF BooksInv, CountInv
  <2> QED BY <2>1, <2>2, <2>3
<1>12. Cardinality(Elems(emitted')) = Len(emitted')
  <2>1. CASE remaining_legs'[d] > 0
    BY <1>10, <2>1 DEF BooksInv, SumInv
  <2>2. CASE remaining_legs'[d] = 0
    <3>1. Elems(emitted) \in SUBSET Ids
      BY <1>2 DEF Elems
    <3>2. IsFiniteSet(Elems(emitted))
      BY <3>1, FiniteIds
    <3>3. Cardinality(Elems(emitted) \cup {d}) = Cardinality(Elems(emitted)) + 1
      BY <1>10, <3>2, FS_AddElement
    <3> QED BY <1>10, <2>2, <3>3 DEF BooksInv, SumInv
  <2> QED BY <1>10, <2>1, <2>2
<1>13. ASSUME NEW w \in Venues PROVE in_flight_qty'[w] = NetOf(direction, Elems(queue'[w]), w)
  <2>1. in_flight_qty[w] = NetOf(direction, Elems(queue[w]), w)
    BY DEF BooksInv, SumInv
  <2>2. CASE w # v
    BY <1>1, <1>2, <1>5, <2>1, <2>2
  <2>3. CASE w = v
    <3> DEFINE S == Elems(queue[v])
    <3>1. S \in SUBSET Ids /\ d \in S
      BY <1>2, <1>3 DEF Elems
    <3> HIDE DEF S
    <3>2. NetOf(direction, S \ {d}, v) = NetOf(direction, S, v) - Side(direction[d], v)
      BY <3>1, NetRemove
    <3>3. in_flight_qty'[v] = in_flight_qty[v] - Side(direction[d], v)
      BY <1>1, <1>2
    <3> QED BY <1>5, <2>1, <2>3, <3>2, <3>3 DEF S
  <2> QED BY <2>2, <2>3
<1>14. ASSUME NEW w \in Venues PROVE sizes'[w] = NetOf(direction, Whole', w)
  <2>1. sizes[w] = NetOf(direction, Whole, w)
    BY DEF BooksInv, SumInv
  <2>2. \A e \in Elems(emitted) : e \in Ids /\ e # d
    BY <1>2, <1>10 DEF Elems
  <2>3. CASE ~(remaining_legs'[d] = 0 /\ \A u \in Venues : leg'[d][u] = "filled")
    <3>1. Whole' = Whole
      BY <1>6, <1>10, <2>2, <2>3 DEF Whole
    <3>2. sizes' = sizes
      <4>1. CASE remaining_legs'[d] > 0
        BY <1>1, <4>1
      <4>2. CASE ~(remaining_legs'[d] > 0)
        <5>1. remaining_legs'[d] = 0
          BY <1>10, <4>2
        <5>2. ~(\A u \in Venues : leg'[d][u] = "filled")
          BY <2>3, <5>1
        <5>3. sizes' = IF \A u \in Venues : leg'[d][u] = "filled" THEN ApplyPair(d) ELSE sizes
          BY <1>1, <4>2
        <5> QED BY ONLY <5>2, <5>3
      <4> QED BY <4>1, <4>2
    <3> QED BY <2>1, <3>1, <3>2
  <2>4. CASE remaining_legs'[d] = 0 /\ \A u \in Venues : leg'[d][u] = "filled"
    <3>1. Whole' = Whole \cup {d}
      BY <1>6, <1>10, <2>2, <2>4 DEF Whole
    <3>2. Whole \in SUBSET Ids /\ d \in Ids \ Whole
      BY <1>3, <2>2 DEF Whole
    <3>3. NetOf(direction, Whole \cup {d}, w) = NetOf(direction, Whole, w) + Side(direction[d], w)
      BY <3>2, NetAdd
    <3>4. sizes'[w] = sizes[w] + Side(direction[d], w)
      BY <1>1, <2>4 DEF ApplyPair
    <3> QED BY <2>1, <3>1, <3>3, <3>4
  <2> QED BY <2>3, <2>4
<1>15. SumInv'
  BY <1>1, <1>12, <1>13, <1>14 DEF SumInv, NetOf
<1> QED BY <1>7, <1>8, <1>11, <1>15 DEF BooksInv
\* A decision on this row: both its orders go behind those that are pending.
LEMMA FiresStep ==
    ASSUME BooksInv, NEW dir \in Directions, Fires(dir)
    PROVE  BooksInv'
<1>1. /\ phase = "before" /\ phase' = "after"
      /\ sent' = [sent EXCEPT ![row] = now]
      /\ direction' = [direction EXCEPT ![row] = dir]
      /\ queue' = [v \in Venues |-> Insort(v, row)]
      /\ remaining_legs' = [remaining_legs EXCEPT ![row] = 2]
      /\ in_flight_qty' = [v \in Venues |-> in_flight_qty[v] + Side(dir, v)]
      /\ inflight_legs' = [inflight_legs EXCEPT ![row] = IF k > 0 THEN 2 ELSE 0]
      /\ UNCHANGED <<delay, k, row, now, leg, sizes, emitted>>
  BY DEF Fires, Schedule, configVars
<1>2. /\ row \in Ids /\ direction[row] = "none" /\ dir # "none"
      /\ \A v \in Venues : leg[row][v] = "none"
  BY <1>1 DEF BooksInv, PassInv, QueueInv, Directions
<1>3. /\ queue \in [Venues -> Seq(Ids)] /\ leg \in [Ids -> [Venues -> {"none", "filled", "rejected"}]]
      /\ remaining_legs \in [Ids -> 0 .. 2] /\ inflight_legs \in [Ids -> 0 .. 2]
      /\ in_flight_qty \in [Venues -> Int] /\ sizes \in [Venues -> Int]
      /\ emitted \in Seq(Ids) /\ k \in Nat /\ now \in Nat
      /\ sent \in [Ids -> Nat] /\ direction \in [Ids -> Directions \cup {"none"}]
  BY BacktestAssumption DEF BooksInv, BacktestTypeOK
<1>4. /\ direction'[row] = dir /\ sent'[row] = now
      /\ \A e \in Ids : e # row => direction'[e] = direction[e] /\ sent'[e] = sent[e]
  BY <1>1, <1>2, <1>3
<1>5. ASSUME NEW v \in Venues
      PROVE  /\ queue'[v] \in Seq(Ids) /\ Rising(queue'[v])
             /\ Elems(queue'[v]) = Elems(queue[v]) \cup {row}
             /\ Elems(queue[v]) \in SUBSET Ids /\ row \notin Elems(queue[v])
  <2> DEFINE q == queue[v]
  <2>1. queue'[v] = Append(q, row)
    BY <1>1, InsortAppends
  <2>2. q \in Seq(Ids) /\ Rising(q)
    BY <1>3 DEF BooksInv, QueueInv
  <2>3. \A e \in Elems(q) : e \in Ids /\ direction[e] # "none"
    <3>1. \A e \in Elems(q) : e \in Ids
      <4> HIDE DEF q
      <4> QED BY <2>2 DEF Elems
    <3> QED BY <3>1 DEF BooksInv, QueueInv
  <2>4. \A e \in Elems(q) : e < row
    <3>1. \A e \in Elems(q) : e <= row /\ e # row
      BY <1>2, <2>3 DEF BooksInv, PassInv
    <3>2. row \in Int /\ \A e \in Ids : e \in Int
      BY <1>2 DEF Ids
    <3> QED BY <2>3, <3>1, <3>2
  <2> HIDE DEF q
  <2>5. /\ Append(q, row) \in Seq(Ids) /\ Rising(Append(q, row))
        /\ Elems(Append(q, row)) = Elems(q) \cup {row}
    BY <1>2, <2>2, <2>4, AppendElems
  <2>6. Elems(q) \in SUBSET Ids /\ row \notin Elems(q)
    BY <1>2, <2>3 DEF q
  <2> QED BY <2>1, <2>5, <2>6 DEF q
<1>6. BacktestTypeOK'
  <2>1. queue' \in [Venues -> Seq(Ids)]
    <3>1. \A v \in Venues : queue'[v] \in Seq(Ids)
      BY <1>5
    <3> QED BY <1>1, <3>1
  <2>2. in_flight_qty' \in [Venues -> Int]
    <3>1. ASSUME NEW v \in Venues PROVE in_flight_qty[v] + Side(dir, v) \in Int
      <4>1. Side(dir, v) \in Int
        BY Sides
      <4> QED BY <1>3, <4>1
    <3> QED BY <1>1, <3>1
  <2>3. sent' \in [Ids -> Nat] /\ direction' \in [Ids -> Directions \cup {"none"}]
    BY <1>1, <1>3
  <2>4. remaining_legs' \in [Ids -> 0 .. 2] /\ inflight_legs' \in [Ids -> 0 .. 2]
    <3>1. 0 \in 0 .. 2 /\ 2 \in 0 .. 2
      OBVIOUS
    <3>2. (IF k > 0 THEN 2 ELSE 0) \in 0 .. 2
      BY <3>1
    <3> QED BY <1>1, <1>2, <1>3, <3>1, <3>2
  <2> QED BY <1>1, <2>1, <2>2, <2>3, <2>4 DEF BooksInv, BacktestTypeOK
<1>7. PassInv'
  <2>1. row <= row /\ now <= now
    BY <1>2, <1>3 DEF Ids
  <2> QED BY <1>1, <1>4, <2>1 DEF BooksInv, PassInv
<1>8. QueueInv'
  <2> SUFFICES ASSUME NEW v \in Venues, NEW e \in Ids
               PROVE  /\ Rising(queue'[v])
                      /\ e \in Elems(queue'[v]) <=> direction'[e] # "none" /\ leg'[e][v] = "none"
                      /\ direction'[e] = "none" => leg'[e][v] = "none"
    BY <1>5 DEF QueueInv
  <2> QED BY <1>1, <1>2, <1>4, <1>5 DEF BooksInv, QueueInv
<1>9. CountInv'
  <2> SUFFICES ASSUME NEW e \in Ids
               PROVE  /\ remaining_legs'[e] = IF direction'[e] = "none" THEN 0 ELSE LegsLeft(e)'
                      /\ inflight_legs'[e] = IF k' > 0 THEN remaining_legs'[e] ELSE 0
                      /\ e \in Elems(emitted') <=> direction'[e] # "none" /\ remaining_legs'[e] = 0
    BY DEF CountInv
  <2>1. LegsLeft(e)' = LegsLeft(e)
    BY <1>1 DEF LegsLeft
  <2>2. CASE e # row
    <3>1. remaining_legs'[e] = remaining_legs[e] /\ inflight_legs'[e] = inflight_legs[e]
      BY <1>1, <1>2, <1>3, <2>2
    <3> QED BY <1>1, <1>4, <2>1, <2>2, <3>1 DEF BooksInv, CountInv
  <2>3. CASE e = row
    <3>1. LegsLeft(row) = 2
      BY <1>2 DEF LegsLeft, Venues
    <3>2. /\ remaining_legs'[row] = 2
          /\ inflight_legs'[row] = IF k > 0 THEN 2 ELSE 0
      BY <1>1, <1>2, <1>3
    <3>3. row \notin Elems(emitted)
      BY <1>2 DEF BooksInv, CountInv
    <3> QED BY <1>1, <1>2, <1>4, <2>1, <2>3, <3>1, <3>2, <3>3
  <2> QED BY <2>2, <2>3
<1>10. ASSUME NEW v \in Venues PROVE in_flight_qty'[v] = NetOf(direction', Elems(queue'[v]), v)
  <2> DEFINE S == Elems(queue[v])
  <2>1. /\ Elems(queue'[v]) = S \cup {row} /\ S \in SUBSET Ids /\ row \in Ids \ S
    BY <1>2, <1>5
  <2>2. in_flight_qty[v] = NetOf(direction, S, v)
    BY DEF BooksInv, SumInv
  <2>3. in_flight_qty'[v] = in_flight_qty[v] + Side(dir, v)
    BY <1>1
  <2> HIDE DEF S
  <2>4. NetOf(direction', S \cup {row}, v) = NetOf(direction', S, v) + Side(direction'[row], v)
    BY <2>1, NetAdd
  <2>5. NetOf(direction, S, v) = NetOf(direction', S, v)
    <3>1. \A e \in S : direction[e] = direction'[e]
      BY <1>4, <2>1
    <3> QED BY <3>1, NetSame
  <2> QED BY <1>4, <2>1, <2>2, <2>3, <2>4, <2>5
<1>11. ASSUME NEW v \in Venues PROVE sizes'[v] = NetOf(direction', Whole', v)
  <2>1. Whole' = Whole
    BY <1>1 DEF Whole
  <2>2. \A e \in Whole : direction[e] = direction'[e]
    <3>1. \A e \in Elems(emitted) : e \in Ids
      BY <1>3 DEF Elems
    <3> QED BY <1>2, <1>4, <3>1 DEF Whole, BooksInv, CountInv
  <2>3. NetOf(direction, Whole, v) = NetOf(direction', Whole, v)
    BY <2>2, NetSame
  <2> QED BY <1>1, <2>1, <2>3 DEF BooksInv, SumInv
<1>12. SumInv'
  <2>1. Cardinality(Elems(emitted')) = Len(emitted')
    BY <1>1 DEF BooksInv, SumInv
  <2> QED BY <1>10, <1>11, <2>1 DEF SumInv, NetOf
<1> QED BY <1>6, <1>7, <1>8, <1>9, <1>12 DEF BooksInv

LEMMA BooksAlways == BacktestSpec => []BooksInv
<1>1. BacktestInit => BooksInv
  BY BooksInit
<1>2. BooksInv /\ [BacktestNext]_backtestVars => BooksInv'
  <2> SUFFICES ASSUME BooksInv, [BacktestNext]_backtestVars PROVE BooksInv'
    OBVIOUS
  <2>1. CASE NextRow \/ Declines \/ RowsEnd \/ Summary
    BY <2>1, RowsStep
  <2>2. ASSUME NEW dir \in Directions, Fires(dir) PROVE BooksInv'
    BY <2>2, FiresStep
  <2>3. ASSUME NEW v \in Venues, Arrives(v) PROVE BooksInv'
    BY <2>3, ResolveStep DEF Arrives, Due, TryFill
  <2>4. ASSUME NEW v \in Venues, EndOfData(v) PROVE BooksInv'
    BY <2>4, ResolveStep DEF EndOfData
  <2>5. CASE UNCHANGED backtestVars
    <3> USE <2>5 DEF backtestVars, configVars
    <3>1. BacktestTypeOK'
      BY DEF BooksInv, BacktestTypeOK
    <3>2. PassInv' /\ QueueInv' /\ CountInv'
      BY DEF BooksInv, PassInv, QueueInv, CountInv, LegsLeft
    <3>3. SumInv'
      BY DEF BooksInv, SumInv, Whole, NetOf
    <3> QED BY <3>1, <3>2, <3>3 DEF BooksInv
  <2> QED BY <2>1, <2>2, <2>3, <2>4, <2>5 DEF BacktestNext
<1> QED BY <1>1, <1>2, PTL DEF BacktestSpec

\* The books of a backtest balance: what is in flight is what the pending orders add up
\* to, the positions are the trades of which both legs filled, each decision is recorded
\* once, and at the end every trade that fired is.
THEOREM BooksAreBalanced == BacktestSpec => []BooksBalance
<1>1. BooksInv => BooksBalance
  <2> SUFFICES ASSUME BooksInv PROVE BooksBalance
    OBVIOUS
  <2> DEFINE whole == {d \in Elems(emitted) : \A v \in Venues : leg[d][v] = "filled"}
  <2>1. \A v \in Venues : /\ in_flight_qty[v] = Net(Elems(queue[v]), v)
                          /\ sizes[v] = Net(whole, v)
    BY DEF BooksInv, SumInv, Whole, Net, NetOf
  <2>2. Cardinality(Elems(emitted)) = Len(emitted)
    BY DEF BooksInv, SumInv
  <2>3. ASSUME phase = "done"
        PROVE  /\ Elems(emitted) = Fired
               /\ \A v \in Venues : in_flight_qty[v] = 0
               /\ \A d \in Ids : remaining_legs[d] = 0 /\ inflight_legs[d] = 0
    <3>1. \A v \in Venues : Elems(queue[v]) = {}
      BY <2>3 DEF BooksInv, PassInv, Elems
    <3>2. \A d \in Ids : remaining_legs[d] = 0
      <4>1. ASSUME NEW d \in Ids, direction[d] # "none" PROVE LegsLeft(d) = 0
        <5>1. \A v \in Venues : leg[d][v] # "none"
          BY <3>1, <4>1 DEF BooksInv, QueueInv
        <5> QED BY <5>1 DEF LegsLeft, Venues
      <4> QED BY <4>1 DEF BooksInv, CountInv
    <3>3. \A d \in Ids : inflight_legs[d] = 0
      BY <3>2 DEF BooksInv, CountInv
    <3>4. Elems(emitted) = Fired
      <4>1. Elems(emitted) \in SUBSET Ids
        BY DEF BooksInv, BacktestTypeOK, Elems
      <4> QED BY <3>2, <4>1 DEF BooksInv, CountInv, Fired
    <3>5. \A v \in Venues : Net({}, v) = 0
      <4>1. \A v : {d \in {} : Side(direction[d], v) = 1} = {}
                   /\ {d \in {} : Side(direction[d], v) = -1} = {}
        OBVIOUS
      <4> QED BY <4>1, FS_EmptySet DEF Net
    <3> QED BY <2>1, <3>1, <3>2, <3>3, <3>4, <3>5
  <2> QED BY <2>1, <2>2, <2>3 DEF BooksBalance
<1> QED BY <1>1, BooksAlways, PTL
-----------------------------------------------------------------------------
(* The cap, when the left leg is never the faster one and no leg is rejected. *)

NoRejects == \A d \in Ids, v \in Venues : leg[d][v] # "rejected"

\* S has, with a decision, all those made before it.
Earliest(S) == \A d \in S, e \in Fired : e < d => e \in S

Within(x) == -MaxPosition <= x /\ x <= MaxPosition

\* Legs arrive in the order they were sent, and not before their time.
OrderInv ==
    /\ \A d, e \in Fired : d <= e => sent[d] <= sent[e]
    /\ \A v \in Venues, d, e \in Fired : e < d /\ leg[d][v] # "none" => leg[e][v] # "none"
    /\ phase \in {"before", "after"} =>
          \A d \in Ids, v \in Venues : leg[d][v] # "none" => Arrival(d, v) <= now

\* The cap held for what the decisions so far add up to after each of them.
CappedInv ==
    delay["left"] >= delay["right"] /\ NoRejects =>
        \A S \in SUBSET Fired : Earliest(S) => Within(NetOf(direction, S, "left"))

CapInv == BooksInv /\ OrderInv /\ CappedInv

LEMMA CapInit == ASSUME BacktestInit PROVE CapInv
<1>1. BooksInv
  BY BooksInit
<1>2. Fired = {} /\ \A d \in Ids, v \in Venues : leg[d][v] = "none"
  BY DEF BacktestInit, Fired
<1>3. OrderInv
  BY <1>2 DEF OrderInv
<1>4. CappedInv
  <2>1. NetOf(direction, {}, "left") = 0
    <3>1. \A v : {d \in {} : Side(direction[d], v) = 1} = {}
                 /\ {d \in {} : Side(direction[d], v) = -1} = {}
      OBVIOUS
    <3> QED BY <3>1, FS_EmptySet DEF NetOf
  <2>2. Within(0)
    BY BacktestAssumption DEF Within
  <2>3. \A S \in SUBSET Fired : S = {}
    BY <1>2
  <2> QED BY <2>1, <2>2, <2>3 DEF CappedInv
<1> QED BY <1>1, <1>3, <1>4 DEF CapInv

LEMMA CapRows ==
    ASSUME CapInv, NextRow \/ Declines \/ RowsEnd \/ Summary
    PROVE  CapInv'
<1>1. BooksInv /\ BooksInv'
  BY RowsStep DEF CapInv
<1>2. UNCHANGED <<delay, sent, direction, leg>>
  BY DEF NextRow, Declines, RowsEnd, Summary, configVars
<1>3. now \in Nat /\ now' \in Nat /\ now <= now'
  <2>1. now \in Nat /\ now' \in Nat
    BY <1>1 DEF BooksInv, BacktestTypeOK
  <2>2. CASE NextRow
    <3>1. PICK gap \in 0 .. MaxGap : now' = now + gap
      BY <2>2 DEF NextRow
    <3> QED BY <2>1, <3>1, BacktestAssumption
  <2>3. CASE ~NextRow
    BY <2>1, <2>3 DEF Declines, RowsEnd, Summary
  <2> QED BY <2>1, <2>2, <2>3
<1>4. phase' \in {"before", "after"} => phase \in {"before", "after"}
  BY DEF NextRow, Declines, RowsEnd, Summary
<1>5. Fired' = Fired
  BY <1>2 DEF Fired
<1>6. OrderInv'
  <2>1. ASSUME phase' \in {"before", "after"}, NEW d \in Ids, NEW v \in Venues, leg[d][v] # "none"
        PROVE  sent[d] + delay[v] <= now'
    <3>1. sent[d] + delay[v] <= now
      BY <1>4, <2>1 DEF CapInv, OrderInv, Arrival
    <3>2. sent[d] \in Int /\ delay[v] \in Int
      BY <1>1, BacktestAssumption DEF BooksInv, BacktestTypeOK
    <3> QED BY <1>3, <3>1, <3>2
  <2> QED BY <1>2, <1>5, <2>1 DEF CapInv, OrderInv, Arrival
<1>7. CappedInv'
  <2>1. NoRejects' = NoRejects /\ \A S : Earliest(S)' = Earliest(S)
    BY <1>2, <1>5 DEF NoRejects, Earliest
  <2>2. \A S : Within(NetOf(direction, S, "left"))' = Within(NetOf(direction, S, "left"))
    BY <1>2 DEF NetOf, Within
  <2> QED BY <1>2, <1>5, <2>1, <2>2 DEF CapInv, CappedInv
<1> QED BY <1>1, <1>6, <1>7 DEF CapInv

LEMMA CapResolve ==
    ASSUME CapInv, NEW v \in Venues, NEW result \in {"filled", "rejected"},
           Resolve(v, result), queue[v] # <<>>, phase # "done",
           phase \in {"before", "after"} => Due(v)
    PROVE  CapInv'
<1>1. BooksInv /\ BooksInv'
  BY ResolveStep DEF CapInv
<1>2. queue[v] \in Seq(Ids) /\ Rising(queue[v])
  BY <1>1 DEF BooksInv, BacktestTypeOK, QueueInv
<1> PICK d \in Ids : d = Head(queue[v])
  BY <1>2, TailElems
<1>3. d \in Elems(queue[v]) /\ \A e \in Elems(queue[v]) : d <= e
  BY <1>2, TailElems
<1>4. /\ UNCHANGED <<delay, sent, direction, now, phase>>
      /\ leg' = [leg EXCEPT ![d][v] = result]
  BY DEF Resolve, ApplyFill, configVars
<1>5. \A e \in Ids, w \in Venues :
         leg'[e][w] = IF e = d /\ w = v THEN result ELSE leg[e][w]
  <2>1. leg \in [Ids -> [Venues -> {"none", "filled", "rejected"}]]
    BY <1>1 DEF BooksInv, BacktestTypeOK
  <2> QED BY <1>4, <2>1
<1>6. leg[d][v] = "none"
  BY <1>1, <1>3 DEF BooksInv, QueueInv
<1>7. Fired' = Fired
  BY <1>4 DEF Fired
<1>8. OrderInv'
  <2>1. ASSUME NEW e \in Fired, e < d PROVE leg[e][v] # "none"
    <3>1. e \in Ids /\ ~(d <= e)
      BY <2>1 DEF Fired, Ids
    <3> QED BY <1>1, <1>3, <2>1, <3>1 DEF BooksInv, QueueInv, Fired
  <2>2. ASSUME NEW w \in Venues, NEW f \in Fired, NEW e \in Fired, e < f, leg'[f][w] # "none"
        PROVE  leg'[e][w] # "none"
    BY <1>5, <2>1, <2>2 DEF CapInv, OrderInv, Fired
  <2>3. phase \in {"before", "after"} => Arrival(d, v) <= now
    BY DEF Due
  <2> QED BY <1>4, <1>5, <1>7, <2>2, <2>3 DEF CapInv, OrderInv, Arrival
<1>9. CappedInv'
  <2>1. NoRejects' => NoRejects
    BY <1>5, <1>6 DEF NoRejects
  <2> QED BY <1>4, <1>7, <2>1 DEF CapInv, CappedInv, Earliest, NetOf, Within
<1> QED BY <1>1, <1>8, <1>9 DEF CapInv

\* With nothing left to drain, what has filled on the left has filled on the right, and
\* the position with what is in flight is what all decisions add up to.
LEMMA PositionIsAll ==
    ASSUME CapInv, phase = "before", Drained, delay["left"] >= delay["right"], NoRejects
    PROVE  Position("left") = NetOf(direction, Fired, "left")
<1>1. BooksInv /\ OrderInv
  BY DEF CapInv
<1>2. "left" \in Venues /\ "right" \in Venues
  BY DEF Venues
<1>3. ASSUME NEW d \in Fired, leg[d]["left"] # "none" PROVE leg[d]["right"] # "none"
  <2> SUFFICES ASSUME leg[d]["right"] = "none" PROVE FALSE
    OBVIOUS
  <2>1. d \in Ids /\ d \in Elems(queue["right"])
    BY <1>1, <1>2 DEF BooksInv, QueueInv, Fired
  <2>2. queue["right"] \in Seq(Ids) /\ Rising(queue["right"]) /\ queue["right"] # <<>>
    BY <1>1, <1>2, <2>1 DEF BooksInv, BacktestTypeOK, QueueInv, Elems
  <2> PICK h \in Ids : h = Head(queue["right"])
    BY <2>2, TailElems
  <2>3. h \in Elems(queue["right"]) /\ h <= d
    BY <2>1, <2>2, TailElems
  <2>4. h \in Fired
    BY <1>1, <1>2, <2>3 DEF BooksInv, QueueInv, Fired
  <2>5. sent[h] <= sent[d] /\ sent[d] + delay["left"] <= now
    BY <1>1, <1>2, <1>3, <2>1, <2>3, <2>4 DEF OrderInv, Arrival
  <2>6. sent[h] \in Nat /\ sent[d] \in Nat /\ delay["left"] \in Nat /\ delay["right"] \in Nat
        /\ now \in Nat
    BY <1>1, <1>2, <2>1, BacktestAssumption DEF BooksInv, BacktestTypeOK
  <2>7. sent[h] + delay["right"] <= now
    BY <2>5, <2>6
  <2>8. Due("right")
    BY <2>2, <2>7 DEF Due, Arrival
  <2> QED BY <1>2, <2>8 DEF Drained
<1> DEFINE Q == Elems(queue["left"])
           W == Whole
<1>4. Q \in SUBSET Ids /\ W \in SUBSET Ids
  BY <1>1, <1>2 DEF BooksInv, BacktestTypeOK, Elems, Whole
<1>5. Q \cap W = {}
  BY <1>1, <1>2, <1>4 DEF BooksInv, QueueInv, Whole
<1>6. Q \cup W = Fired
  <2>1. ASSUME NEW d \in Fired PROVE d \in Q \/ d \in W
    <3>1. CASE leg[d]["left"] = "none"
      BY <1>1, <1>2, <3>1 DEF BooksInv, QueueInv, Fired
    <3>2. CASE leg[d]["left"] # "none"
      <4>1. leg[d]["right"] # "none" /\ d \in Ids
        BY <1>3, <3>2 DEF Fired
      <4>2. leg[d]["left"] = "filled" /\ leg[d]["right"] = "filled"
        BY <1>1, <1>2, <3>2, <4>1 DEF BooksInv, BacktestTypeOK, NoRejects
      <4>3. LegsLeft(d) = 0
        BY <3>2, <4>1 DEF LegsLeft
      <4>4. d \in Elems(emitted)
        BY <1>1, <4>1, <4>3 DEF BooksInv, CountInv, Fired
      <4> QED BY <4>2, <4>4 DEF Whole, Venues
    <3> QED BY <3>1, <3>2
  <2>2. Q \subseteq Fired /\ W \subseteq Fired
    BY <1>1, <1>2, <1>4 DEF BooksInv, QueueInv, CountInv, Whole, Fired
  <2> QED BY <2>1, <2>2
<1>7. sizes["left"] = NetOf(direction, W, "left") /\ in_flight_qty["left"] = NetOf(direction, Q, "left")
  BY <1>1, <1>2 DEF BooksInv, SumInv
<1>8. sizes["left"] \in Int /\ in_flight_qty["left"] \in Int
  BY <1>1, <1>2 DEF BooksInv, BacktestTypeOK
<1> HIDE DEF Q, W
<1>9. NetOf(direction, Q \cup W, "left") = NetOf(direction, Q, "left") + NetOf(direction, W, "left")
  BY <1>4, <1>5, NetUnion
<1>10. NetOf(direction, Q \cup W, "left") = NetOf(direction, Fired, "left")
  BY <1>6
<1>11. Position("left") = in_flight_qty["left"] + sizes["left"]
  BY <1>8 DEF Position
<1> QED BY <1>7, <1>9, <1>10, <1>11

LEMMA CapFires ==
    ASSUME CapInv, NEW dir \in Directions, Fires(dir)
    PROVE  CapInv'
<1>1. BooksInv /\ BooksInv' /\ OrderInv
  BY FiresStep DEF CapInv
<1>2. /\ phase = "before" /\ phase' = "after" /\ Drained
      /\ sent' = [sent EXCEPT ![row] = now]
      /\ direction' = [direction EXCEPT ![row] = dir]
      /\ UNCHANGED <<delay, leg, now>>
      /\ Within(Position("left") + Side(dir, "left"))
  BY DEF Fires, Schedule, configVars, Within
<1>3. /\ row \in Ids /\ direction[row] = "none" /\ dir # "none" /\ row \in Int
      /\ \A v \in Venues : leg[row][v] = "none"
  BY <1>1, <1>2 DEF BooksInv, PassInv, QueueInv, Directions, Ids
<1>4. /\ direction'[row] = dir /\ sent'[row] = now
      /\ \A e \in Ids : e # row => direction'[e] = direction[e] /\ sent'[e] = sent[e]
  BY <1>1, <1>2, <1>3 DEF BooksInv, BacktestTypeOK
<1>5. row \notin Fired /\ Fired' = Fired \cup {row} /\ Fired \in SUBSET Ids
  BY <1>3, <1>4 DEF Fired
<1>6. \A e \in Fired : e < row /\ sent[e] <= now
  <2>1. \A e \in Fired : e <= row /\ e # row /\ e \in Int /\ sent[e] <= now
    BY <1>1, <1>5 DEF BooksInv, PassInv, Fired, Ids
  <2> QED BY <1>3, <2>1
<1>7. OrderInv'
  <2>1. ASSUME NEW d \in Fired', NEW e \in Fired', d <= e PROVE sent'[d] <= sent'[e]
    <3>1. CASE e = row /\ d = row
      BY <1>1, <1>4, <3>1 DEF BooksInv, BacktestTypeOK
    <3>2. CASE e = row /\ d # row
      BY <1>4, <1>5, <1>6, <3>2
    <3>3. CASE e # row /\ d = row
      <4>1. e < row /\ e \in Int
        BY <1>5, <1>6, <3>3 DEF Ids
      <4> QED BY <1>3, <2>1, <3>3, <4>1
    <3>4. CASE e # row /\ d # row
      BY <1>1, <1>4, <1>5, <2>1, <3>4 DEF OrderInv
    <3> QED BY <3>1, <3>2, <3>3, <3>4
  <2>2. ASSUME NEW v \in Venues, NEW d \in Fired', NEW e \in Fired', e < d, leg[d][v] # "none"
        PROVE  leg[e][v] # "none"
    <3>1. d # row /\ d \in Fired
      BY <1>3, <1>5, <2>2
    <3>2. e # row /\ e \in Fired
      <4>1. d < row /\ d \in Int
        BY <1>5, <1>6, <3>1 DEF Ids
      <4>2. e # row
        BY <1>3, <2>2, <4>1
      <4> QED BY <1>5, <4>2
    <3> QED BY <1>1, <2>2, <3>1, <3>2 DEF OrderInv
  <2>3. ASSUME NEW d \in Ids, NEW v \in Venues, leg[d][v] # "none"
        PROVE  sent'[d] + delay[v] <= now
    BY <1>1, <1>2, <1>3, <1>4, <2>3 DEF OrderInv, Arrival
  <2> QED BY <1>2, <2>1, <2>2, <2>3 DEF OrderInv, Arrival
<1>8. CappedInv'
  <2> SUFFICES ASSUME delay["left"] >= delay["right"], NoRejects,
                      NEW S \in SUBSET (Fired'), Earliest(S)'
               PROVE  Within(NetOf(direction', S, "left"))
    BY <1>2 DEF CappedInv, NoRejects, Within
  <2>1. \A e \in Fired : direction[e] = direction'[e]
    BY <1>4, <1>5
  <2>2. CASE row \notin S
    <3>1. S \in SUBSET Fired /\ Earliest(S)
      BY <1>5, <2>2 DEF Earliest
    <3>2. NetOf(direction, S, "left") = NetOf(direction', S, "left")
      BY <2>1, <3>1, NetSame
    <3> QED BY <3>1, <3>2 DEF CapInv, CappedInv
  <2>3. CASE row \in S
    <3>1. S = Fired \cup {row}
      BY <1>5, <1>6, <2>3 DEF Earliest
    <3>2. NetOf(direction, Fired, "left") = NetOf(direction', Fired, "left")
      BY <2>1, NetSame
    <3>3. NetOf(direction', Fired \cup {row}, "left")
             = NetOf(direction', Fired, "left") + Side(direction'[row], "left")
      <4> DEFINE F == Fired
      <4>1. F \in SUBSET Ids /\ row \in Ids \ F
        BY <1>3, <1>5
      <4> HIDE DEF F
      <4>2. NetOf(direction', F \cup {row}, "left")
               = NetOf(direction', F, "left") + Side(direction'[row], "left")
        BY <4>1, NetAdd
      <4> QED BY <4>2 DEF F
    <3>4. Position("left") = NetOf(direction, Fired, "left")
      BY <1>2, PositionIsAll
    <3> QED BY <1>2, <1>4, <3>1, <3>2, <3>3, <3>4
  <2> QED BY <2>2, <2>3
<1> QED BY <1>1, <1>7, <1>8 DEF CapInv

LEMMA CapInvariant == BacktestSpec => []CapInv
<1>1. BacktestInit => CapInv
  BY CapInit
<1>2. CapInv /\ [BacktestNext]_backtestVars => CapInv'
  <2> SUFFICES ASSUME CapInv, [BacktestNext]_backtestVars PROVE CapInv'
    OBVIOUS
  <2>1. CASE NextRow \/ Declines \/ RowsEnd \/ Summary
    BY <2>1, CapRows
  <2>2. ASSUME NEW dir \in Directions, Fires(dir) PROVE CapInv'
    BY <2>2, CapFires
  <2>3. ASSUME NEW v \in Venues, Arrives(v) PROVE CapInv'
    BY <2>3, CapResolve DEF Arrives, Due, TryFill
  <2>4. ASSUME NEW v \in Venues, EndOfData(v) PROVE CapInv'
    BY <2>4, CapResolve DEF EndOfData
  <2>5. CASE UNCHANGED backtestVars
    <3> USE <2>5 DEF backtestVars, configVars
    <3>1. BooksInv'
      <4>1. BacktestTypeOK'
        BY DEF CapInv, BooksInv, BacktestTypeOK
      <4>2. PassInv' /\ QueueInv' /\ CountInv'
        BY DEF CapInv, BooksInv, PassInv, QueueInv, CountInv, LegsLeft
      <4>3. SumInv'
        BY DEF CapInv, BooksInv, SumInv, Whole, NetOf
      <4> QED BY <4>1, <4>2, <4>3 DEF BooksInv
    <3>2. OrderInv' /\ CappedInv'
      BY DEF CapInv, OrderInv, CappedInv, Arrival, Fired, NoRejects, Earliest, NetOf, Within
    <3> QED BY <3>1, <3>2 DEF CapInv
  <2> QED BY <2>1, <2>2, <2>3, <2>4, <2>5 DEF BacktestNext
<1> QED BY <1>1, <1>2, PTL DEF BacktestSpec

LEMMA CapFollows == CapInv => CapWithoutRejects
<1> SUFFICES ASSUME CapInv, delay["left"] >= delay["right"], NoRejects PROVE WithinCap
  BY DEF CapWithoutRejects, NoRejects
<1>1. Whole \in SUBSET Fired
  <2>1. Elems(emitted) \in SUBSET Ids
    BY DEF CapInv, BooksInv, BacktestTypeOK, Elems
  <2> QED BY <2>1 DEF CapInv, BooksInv, CountInv, Whole, Fired
<1>2. ASSUME NEW d \in Whole, NEW e \in Fired, e < d PROVE e \in Whole
  <2>1. d \in Fired /\ e \in Ids
    BY <1>1 DEF Fired
  <2>2. \A v \in Venues : leg[d][v] # "none"
    BY DEF Whole
  <2>3. \A v \in Venues : leg[e][v] # "none"
    BY <1>2, <2>1, <2>2 DEF CapInv, OrderInv
  <2>4. \A v \in Venues : leg[e][v] = "filled"
    BY <2>1, <2>3 DEF CapInv, BooksInv, BacktestTypeOK, NoRejects
  <2>5. LegsLeft(e) = 0
    BY <2>3 DEF LegsLeft, Venues
  <2>6. e \in Elems(emitted)
    BY <2>1, <2>5 DEF CapInv, BooksInv, CountInv, Fired
  <2> QED BY <2>4, <2>6 DEF Whole
<1>3. Earliest(Whole)
  BY <1>2 DEF Earliest
<1>4. sizes["left"] = NetOf(direction, Whole, "left")
  BY DEF CapInv, BooksInv, SumInv, Venues
<1>5. Within(NetOf(direction, Whole, "left"))
  BY <1>1, <1>3 DEF CapInv, CappedInv
<1> QED BY <1>4, <1>5 DEF Within, WithinCap

\* When the left venue is never the faster one and no leg is rejected, the position that
\* has settled on the left venue stays within max_qty.
THEOREM CapIsKept == BacktestSpec => []CapWithoutRejects
BY CapInvariant, CapFollows, PTL

-----------------------------------------------------------------------------
(* The engine's positions as the abstract pair.                              *)

\* The left position as a pair that moves by whole trades, at most one a row ...
AnyPair == INSTANCE AtomicPair WITH Qty <- 1, MaxQty <- NTicks, StartInventory <- {0},
                                    pair <- sizes["left"]

\* ... and as one that also keeps the strategy's cap.
CappedPair == INSTANCE AtomicPair WITH Qty <- 1, MaxQty <- MaxPosition, StartInventory <- {0},
                                       pair <- sizes["left"]

Mirrored == sizes["right"] = -sizes["left"]

\* The left venue is not the faster one and nothing was rejected so far.
Calm == delay["left"] >= delay["right"] /\ NoRejects

\* What one leg of the trades adds up to, the other leg takes away.
LEMMA NetMirrors ==
    ASSUME NEW dirs, NEW S \in SUBSET Ids
    PROVE  /\ NetOf(dirs, S, "right") = -NetOf(dirs, S, "left")
           /\ -NTicks <= NetOf(dirs, S, "left") /\ NetOf(dirs, S, "left") <= NTicks
<1> DEFINE Up == {d \in S : Side(dirs[d], "left") = 1}
           Down == {d \in S : Side(dirs[d], "left") = -1}
<1>1. /\ {d \in S : Side(dirs[d], "right") = 1} = Down
      /\ {d \in S : Side(dirs[d], "right") = -1} = Up
  BY DEF Side
<1>2. IsFiniteSet(1 .. NTicks) /\ Cardinality(1 .. NTicks) = NTicks /\ NTicks \in Nat
  BY BacktestAssumption, FS_Interval
<1>3. Up \subseteq 1 .. NTicks /\ Down \subseteq 1 .. NTicks
  BY DEF Ids
<1> HIDE DEF Up, Down
<1>4. ASSUME NEW T \in SUBSET (1 .. NTicks)
      PROVE  Cardinality(T) \in Nat /\ Cardinality(T) <= NTicks
  <2>1. IsFiniteSet(T) /\ Cardinality(T) <= Cardinality(1 .. NTicks)
    BY <1>2, FS_Subset
  <2> QED BY <1>2, <2>1, FS_CardinalityType
<1>5. /\ NetOf(dirs, S, "left") = Cardinality(Up) - Cardinality(Down)
      /\ NetOf(dirs, S, "right") = Cardinality(Down) - Cardinality(Up)
  BY <1>1 DEF NetOf, Up, Down
<1>6. /\ Cardinality(Up) \in Nat /\ Cardinality(Up) <= NTicks
      /\ Cardinality(Down) \in Nat /\ Cardinality(Down) <= NTicks
  BY <1>3, <1>4
<1> QED BY <1>2, <1>5, <1>6

InReach == sizes["left"] \in Int /\ -NTicks <= sizes["left"] /\ sizes["left"] <= NTicks

LEMMA BooksMirror == BooksInv => Mirrored /\ InReach
<1> SUFFICES ASSUME BooksInv PROVE Mirrored /\ InReach
  OBVIOUS
<1>1. Whole \in SUBSET Ids
  BY DEF BooksInv, BacktestTypeOK, Whole, Elems
<1>2. /\ sizes["left"] = NetOf(direction, Whole, "left")
      /\ sizes["right"] = NetOf(direction, Whole, "right")
      /\ sizes["left"] \in Int
  BY DEF BooksInv, BacktestTypeOK, SumInv, Venues
<1> QED BY <1>1, <1>2, NetMirrors DEF Mirrored, InReach

\* Only a decision's last leg moves the positions, by the whole trade.
LEMMA SizesMoveByTrades ==
    ASSUME BooksInv, [BacktestNext]_backtestVars
    PROVE  \/ sizes' = sizes
           \/ sizes'["left"] = sizes["left"] + 1
           \/ sizes'["left"] = sizes["left"] - 1
<1>1. sizes["left"] \in Int
  BY DEF BooksInv, BacktestTypeOK, Venues
<1>2. ASSUME NEW d PROVE \/ ApplyPair(d)["left"] = sizes["left"] + 1
                        \/ ApplyPair(d)["left"] = sizes["left"] - 1
  <2>1. ApplyPair(d)["left"] = sizes["left"] + Side(direction[d], "left")
    BY DEF ApplyPair, Venues
  <2>2. Side(direction[d], "left") \in {1, -1}
    BY Sides
  <2> QED BY <1>1, <2>1, <2>2
<1>3. ASSUME NEW v \in Venues, NEW result, Resolve(v, result)
      PROVE  sizes' = sizes \/ \E d : sizes' = ApplyPair(d)
  BY <1>3 DEF Resolve, MaybeEmit
<1>4. sizes' = sizes \/ \E d : sizes' = ApplyPair(d)
  BY <1>3 DEF BacktestNext, NextRow, Declines, RowsEnd, Summary, Fires, Arrives, EndOfData,
     backtestVars, configVars
<1> QED BY <1>2, <1>4

\* _maybe_emit and apply_pair: however far apart the legs of a trade arrive and whichever
\* of them are rejected, the positions are a mirrored pair that moves by whole trades.
THEOREM EngineMovesPairs == BacktestSpec => AnyPair!Spec /\ []Mirrored
<1>1. BacktestInit => AnyPair!Init
  BY DEF BacktestInit, AnyPair!Init, Venues
<1>2. BooksInv /\ BooksInv' /\ [BacktestNext]_backtestVars => [AnyPair!Next]_(sizes["left"])
  <2> SUFFICES ASSUME BooksInv, BooksInv', [BacktestNext]_backtestVars,
                      sizes'["left"] # sizes["left"]
               PROVE  AnyPair!Next
    OBVIOUS
  <2>1. PICK d \in {-1, 1} : sizes'["left"] = sizes["left"] + d
    <3>1. sizes["left"] \in Int
      BY BooksMirror DEF InReach
    <3>2. sizes'["left"] = sizes["left"] + 1 \/ sizes'["left"] = sizes["left"] - 1
      BY SizesMoveByTrades
    <3>3. sizes["left"] - 1 = sizes["left"] + (-1)
      BY <3>1
    <3> QED BY <3>2, <3>3
  <2>2. -NTicks <= sizes'["left"] /\ sizes'["left"] <= NTicks
    <3>1. (BooksInv => Mirrored /\ InReach)'
      BY BooksMirror, PTL
    <3> QED BY <3>1 DEF InReach
  <2> QED BY <2>1, <2>2 DEF AnyPair!Next, AnyPair!Move
<1>3. BooksInv => Mirrored
  BY BooksMirror
<1> QED BY <1>1, <1>2, <1>3, BooksAlways, PTL DEF BacktestSpec, AnyPair!Spec

\* As long as the left venue is not the faster one and nothing is rejected, the engine with
\* the TakerTaker strategy does what the abstract pair does, the cap included.
THEOREM EngineKeepsPairs == BacktestSpec /\ []Calm => CappedPair!Spec
<1>1. BacktestInit => CappedPair!Init
  BY DEF BacktestInit, CappedPair!Init, Venues
<1>2. CapInv /\ CapInv' /\ Calm' /\ [BacktestNext]_backtestVars => [CappedPair!Next]_(sizes["left"])
  <2> SUFFICES ASSUME CapInv, CapInv', Calm', [BacktestNext]_backtestVars,
                      sizes'["left"] # sizes["left"]
               PROVE  CappedPair!Next
    OBVIOUS
  <2>1. PICK d \in {-1, 1} : sizes'["left"] = sizes["left"] + d
    <3>1. sizes["left"] \in Int
      BY BooksMirror DEF CapInv, InReach
    <3>2. sizes'["left"] = sizes["left"] + 1 \/ sizes'["left"] = sizes["left"] - 1
      BY SizesMoveByTrades DEF CapInv
    <3>3. sizes["left"] - 1 = sizes["left"] + (-1)
      BY <3>1
    <3> QED BY <3>2, <3>3
  <2>2. WithinCap'
    <3>1. (CapInv => CapWithoutRejects)'
      BY CapFollows, PTL
    <3> QED BY <3>1 DEF CapWithoutRejects, Calm, NoRejects
  <2> QED BY <2>1, <2>2 DEF CappedPair!Next, CappedPair!Move, WithinCap
<1> QED BY <1>1, <1>2, CapInvariant, PTL DEF BacktestSpec, CappedPair!Spec
=============================================================================
