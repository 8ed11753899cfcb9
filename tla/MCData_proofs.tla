----------------------------- MODULE MCData_proofs -----------------------------
(***************************************************************************)
(* Theorems about Capture, and about the three parts of MCData together:   *)
(* that each part of its behaviours is one of the part's own.              *)
(***************************************************************************)
EXTENDS MCData, SqliteRecorder_proofs, Backtest_proofs, SequenceTheorems, TLAPS

-----------------------------------------------------------------------------
(* Sequences.                                                                *)

\* The numbers in a sequence rise.
Ascends(s) == \A i, j \in DOMAIN s : i < j => s[i] < s[j]

\* A sequence is its head and its tail ...
LEMMA TailParts ==
    ASSUME NEW S, NEW s \in Seq(S), s # <<>>
    PROVE  /\ Len(s) \in Nat \ {0} /\ Head(s) = s[1] /\ Head(s) \in S
           /\ Tail(s) \in Seq(S) /\ Len(Tail(s)) = Len(s) - 1
           /\ \A i \in DOMAIN Tail(s) : i + 1 \in DOMAIN s /\ Tail(s)[i] = s[i + 1]
           /\ \A i \in DOMAIN s : i = 1 \/ (i - 1 \in DOMAIN Tail(s) /\ Tail(s)[i - 1] = s[i])
           /\ RowsIn(s) = {Head(s)} \cup RowsIn(Tail(s))
<1>1. Len(s) \in Nat \ {0} /\ Head(s) = s[1] /\ Head(s) \in S
      /\ Tail(s) \in Seq(S) /\ Len(Tail(s)) = Len(s) - 1
      /\ DOMAIN s = 1 .. Len(s) /\ DOMAIN Tail(s) = 1 .. Len(s) - 1
      /\ \A i \in 1 .. Len(s) - 1 : Tail(s)[i] = s[i + 1]
  OBVIOUS
<1>2. \A i \in DOMAIN Tail(s) : i + 1 \in DOMAIN s /\ Tail(s)[i] = s[i + 1]
  BY <1>1
<1>3. ASSUME NEW i \in DOMAIN s, i # 1
      PROVE  i - 1 \in DOMAIN Tail(s) /\ Tail(s)[i - 1] = s[i]
  <2>1. i - 1 \in 1 .. Len(s) - 1 /\ (i - 1) + 1 = i
    BY <1>1, <1>3
  <2> QED BY <1>1, <2>1
<1>4. RowsIn(s) = {Head(s)} \cup RowsIn(Tail(s))
  <2>1. RowsIn(Tail(s)) \subseteq RowsIn(s)
    BY <1>2 DEF RowsIn
  <2>2. Head(s) \in RowsIn(s)
    BY <1>1 DEF RowsIn
  <2>3. ASSUME NEW i \in DOMAIN s PROVE s[i] \in {Head(s)} \cup RowsIn(Tail(s))
    <3>1. CASE i = 1
      BY <1>1, <3>1
    <3>2. CASE i # 1
      <4>1. i - 1 \in DOMAIN Tail(s) /\ Tail(s)[i - 1] = s[i]
        BY <1>3, <3>2
      <4> QED BY <4>1 DEF RowsIn
    <3> QED BY <3>1, <3>2
  <2> QED BY <2>1, <2>2, <2>3 DEF RowsIn
<1> QED BY <1>1, <1>2, <1>3, <1>4

\* ... grows at its end ...
LEMMA AppendParts ==
    ASSUME NEW S, NEW s \in Seq(S), NEW x \in S
    PROVE  /\ Append(s, x) \in Seq(S) /\ Len(Append(s, x)) = Len(s) + 1
           /\ DOMAIN Append(s, x) = DOMAIN s \cup {Len(s) + 1}
           /\ \A i \in DOMAIN s : Append(s, x)[i] = s[i] /\ i < Len(s) + 1
           /\ Append(s, x)[Len(s) + 1] = x
           /\ RowsIn(Append(s, x)) = RowsIn(s) \cup {x}
<1>1. /\ Append(s, x) \in Seq(S) /\ Len(Append(s, x)) = Len(s) + 1 /\ Len(s) \in Nat
      /\ DOMAIN s = 1 .. Len(s) /\ DOMAIN Append(s, x) = 1 .. Len(s) + 1
      /\ \A i \in 1 .. Len(s) : Append(s, x)[i] = s[i]
      /\ Append(s, x)[Len(s) + 1] = x
  OBVIOUS
<1>2. /\ DOMAIN Append(s, x) = DOMAIN s \cup {Len(s) + 1}
      /\ \A i \in DOMAIN s : Append(s, x)[i] = s[i] /\ i < Len(s) + 1
  BY <1>1
<1>3. RowsIn(Append(s, x)) = RowsIn(s) \cup {x}
  BY <1>1, <1>2 DEF RowsIn
<1> QED BY <1>1, <1>2, <1>3

\* ... by a sequence ...
LEMMA ConcatParts ==
    ASSUME NEW S, NEW s \in Seq(S), NEW t \in Seq(S)
    PROVE  /\ s \o t \in Seq(S) /\ Len(s \o t) = Len(s) + Len(t)
           /\ \A i \in 1 .. Len(s) : (s \o t)[i] = s[i]
           /\ \A i \in 1 .. Len(t) : (s \o t)[Len(s) + i] = t[i]
           /\ RowsIn(s \o t) = RowsIn(s) \cup RowsIn(t)
<1>1. /\ s \o t \in Seq(S) /\ Len(s \o t) = Len(s) + Len(t)
      /\ Len(s) \in Nat /\ Len(t) \in Nat /\ DOMAIN s = 1 .. Len(s) /\ DOMAIN t = 1 .. Len(t)
      /\ DOMAIN (s \o t) = 1 .. Len(s) + Len(t)
      /\ \A i \in 1 .. Len(s) + Len(t) :
            (s \o t)[i] = IF i <= Len(s) THEN s[i] ELSE t[i - Len(s)]
  OBVIOUS
<1>2. /\ \A i \in 1 .. Len(s) : (s \o t)[i] = s[i] /\ i \in DOMAIN (s \o t)
      /\ \A i \in 1 .. Len(t) : (s \o t)[Len(s) + i] = t[i] /\ Len(s) + i \in DOMAIN (s \o t)
  BY <1>1
<1>3. ASSUME NEW i \in DOMAIN (s \o t)
      PROVE  (s \o t)[i] \in RowsIn(s) \cup RowsIn(t)
  <2>1. CASE i <= Len(s)
    BY <1>1, <2>1 DEF RowsIn
  <2>2. CASE ~ (i <= Len(s))
    <3>1. i \in 1 .. Len(s) + Len(t)
      BY <1>1
    <3>2. i - Len(s) \in 1 .. Len(t)
      BY <1>1, <2>2, <3>1
    <3>3. (s \o t)[i] = t[i - Len(s)]
      BY <1>1, <2>2, <3>1
    <3> QED BY <1>1, <3>2, <3>3 DEF RowsIn
  <2> QED BY <2>1, <2>2
<1>4. /\ \A i \in DOMAIN s : s[i] \in RowsIn(s \o t)
      /\ \A i \in DOMAIN t : t[i] \in RowsIn(s \o t)
  <2>1. ASSUME NEW i \in 1 .. Len(s) PROVE s[i] \in RowsIn(s \o t)
    <3>1. (s \o t)[i] = s[i] /\ i \in DOMAIN (s \o t)
      BY <1>2
    <3> QED BY <3>1 DEF RowsIn
  <2>2. ASSUME NEW i \in 1 .. Len(t) PROVE t[i] \in RowsIn(s \o t)
    <3>1. (s \o t)[Len(s) + i] = t[i] /\ Len(s) + i \in DOMAIN (s \o t)
      BY <1>2
    <3> QED BY <3>1 DEF RowsIn
  <2> QED BY <1>1, <2>1, <2>2
<1>5. RowsIn(s \o t) = RowsIn(s) \cup RowsIn(t)
  BY <1>3, <1>4 DEF RowsIn
<1> QED BY <1>1, <1>2, <1>5

\* ... and falls apart after its n-th row.
LEMMA SplitParts ==
    ASSUME NEW S, NEW s \in Seq(S), NEW n \in DOMAIN s
    PROVE  /\ SubSeq(s, 1, n) \in Seq(S) /\ SubSeq(s, n + 1, Len(s)) \in Seq(S)
           /\ Len(SubSeq(s, 1, n)) = n /\ Len(SubSeq(s, n + 1, Len(s))) = Len(s) - n
           /\ \A i \in 1 .. n : SubSeq(s, 1, n)[i] = s[i]
           /\ \A i \in 1 .. Len(s) - n : SubSeq(s, n + 1, Len(s))[i] = s[n + i]
           /\ RowsIn(s) = RowsIn(SubSeq(s, 1, n)) \cup RowsIn(SubSeq(s, n + 1, Len(s)))
<1> DEFINE a == SubSeq(s, 1, n)
           b == SubSeq(s, n + 1, Len(s))
<1>1. /\ Len(s) \in Nat /\ DOMAIN s = 1 .. Len(s) /\ n \in 1 .. Len(s)
      /\ \A i \in 1 .. Len(s) : s[i] \in S
  OBVIOUS
<1>2. a \in Seq(S) /\ Len(a) = n /\ \A i \in 1 .. n : a[i] = s[i]
  <2>1. \A i \in 1 .. n : s[i] \in S
    BY <1>1
  <2> QED BY <1>1, <2>1, SubSeqProperties
<1>3. b \in Seq(S) /\ Len(b) = Len(s) - n /\ \A i \in 1 .. Len(s) - n : b[i] = s[n + i]
  <2>1. \A i \in n + 1 .. Len(s) : s[i] \in S
    BY <1>1
  <2> QED BY <1>1, <2>1, SubSeqProperties
<1> HIDE DEF a, b
<1>4. DOMAIN a = 1 .. n /\ DOMAIN b = 1 .. Len(s) - n
  BY <1>2, <1>3
<1>5. RowsIn(a) \cup RowsIn(b) \subseteq RowsIn(s)
  <2>1. \A i \in 1 .. n : i \in DOMAIN s
    BY <1>1
  <2>2. \A i \in 1 .. Len(s) - n : n + i \in DOMAIN s
    BY <1>1
  <2> QED BY <1>2, <1>3, <1>4, <2>1, <2>2 DEF RowsIn
<1>6. ASSUME NEW i \in DOMAIN s PROVE s[i] \in RowsIn(a) \cup RowsIn(b)
  <2>1. CASE i <= n
    BY <1>1, <1>2, <1>4, <2>1 DEF RowsIn
  <2>2. CASE ~ (i <= n)
    <3>1. i - n \in 1 .. Len(s) - n /\ n + (i - n) = i
      BY <1>1, <2>2
    <3> QED BY <1>3, <1>4, <3>1 DEF RowsIn
  <2> QED BY <2>1, <2>2
<1>7. RowsIn(s) = RowsIn(a) \cup RowsIn(b)
  BY <1>5, <1>6 DEF RowsIn
<1> QED BY <1>2, <1>3, <1>7 DEF a, b

-----------------------------------------------------------------------------
(* Types.                                                                    *)

\* A task that waits for rows has room for one more in its batch.
TaskRoom == task = "running" => Len(pending) < BatchSize

CaptureTypeInv == CaptureTypeOK /\ TaskRoom

LEMMA JobsType ==
    /\ Idle \in Jobs /\ [todo |-> <<>>, fin |-> TRUE] \in Jobs
    /\ \A items \in Seq(CapturedRows), fin \in BOOLEAN : [todo |-> items, fin |-> fin] \in Jobs
  BY DEF Idle, Jobs

\* What a thread is given is a job.
LEMMA JobsKeepType ==
    ASSUME jobs \in [Threads -> Jobs], NEW t \in Threads, NEW job \in Jobs
    PROVE  [jobs EXCEPT ![t] = job] \in [Threads -> Jobs]
  OBVIOUS

LEMMA CaptureTypeInit == ASSUME CaptureInit PROVE CaptureTypeInv
<1>1. jobs \in [Threads -> Jobs]
  BY JobsType DEF CaptureInit
<1>2. 1 \in Hours /\ hour \in Hours
  BY CaptureAssumption DEF CaptureInit, Hours
<1>3. hour_of \in [CapturedRows -> Hours]
  BY <1>2 DEF CaptureInit
<1>4. files \in [Hours -> Seq(CapturedRows)]
  BY DEF CaptureInit
<1>5. /\ q \in Seq(CapturedRows \cup {SentClose}) /\ Len(q) = 0
      /\ pending \in Seq(CapturedRows) /\ Len(pending) = 0
  BY DEF CaptureInit
<1>6. /\ Len(q) <= QueueMax /\ Len(pending) <= BatchSize /\ Len(pending) < BatchSize
      /\ 0 \in 0 .. NRows
  BY <1>5, CaptureAssumption
<1> QED
  BY <1>1, <1>2, <1>3, <1>4, <1>5, <1>6, Zenon
  DEF CaptureInit, CaptureTypeInv, CaptureTypeOK, TaskRoom

\* The producer and close().
LEMMA OutsideTypes ==
    ASSUME CaptureTypeInv,
           HourTurns \/ ClockStepsBack \/ Submit \/ CloseBegins \/ PutClose \/ CloseEnded
    PROVE  CaptureTypeInv'
<1>0. HourTurns \/ ClockStepsBack => hour' \in Hours /\ stepped' \in BOOLEAN
  <2>1. hour \in 1 .. NHours /\ stepped \in BOOLEAN /\ NHours \in Nat
    BY CaptureAssumption DEF CaptureTypeInv, CaptureTypeOK, Hours
  <2>2. /\ HourTurns => hour < NHours /\ hour' = hour + 1 /\ stepped' = stepped
        /\ ClockStepsBack => hour > 1 /\ hour' = hour - 1 /\ stepped' = TRUE
    BY Zenon DEF HourTurns, ClockStepsBack
  <2>3. /\ hour < NHours => hour + 1 \in 1 .. NHours
        /\ hour > 1 => hour - 1 \in 1 .. NHours
    BY <2>1
  <2> QED BY <2>1, <2>2, <2>3, Zenon DEF Hours
<1> USE CaptureAssumption DEF CaptureTypeInv, CaptureTypeOK, TaskRoom, clockVars, queueVars,
                              taskVars, parquetVars, closeVars
<1>1. CASE HourTurns \/ ClockStepsBack
  <2>1. hour' \in Hours /\ stepped' \in BOOLEAN
    BY <1>0, <1>1
  <2> QED BY <1>1, <2>1 DEF HourTurns, ClockStepsBack
<1>2. CASE Submit
  <2>1. submitted' = submitted + 1 /\ submitted' \in 0 .. NRows /\ submitted' \in CapturedRows
    BY <1>2 DEF Submit, CapturedRows
  <2>2. hour_of' \in [CapturedRows -> Hours]
    BY <1>2, <2>1 DEF Submit
  <2>3. q' \in Seq(CapturedRows \cup {SentClose}) /\ Len(q') <= QueueMax
        /\ dropped' \subseteq CapturedRows
    <3>1. submitted' \in CapturedRows \cup {SentClose}
      BY <2>1
    <3>2. CASE Len(q) < QueueMax
      <4>1. q' = Append(q, submitted') /\ dropped' = dropped
        BY <1>2, <3>2 DEF Submit
      <4>2. q' \in Seq(CapturedRows \cup {SentClose}) /\ Len(q') = Len(q) + 1
        BY <3>1, <4>1, AppendParts
      <4> QED BY <3>2, <4>1, <4>2
    <3>3. CASE ~ (Len(q) < QueueMax)
      BY <1>2, <2>1, <3>3 DEF Submit
    <3> QED BY <3>2, <3>3
  <2> QED BY <1>2, <2>1, <2>2, <2>3 DEF Submit
<1>3. CASE CloseBegins \/ CloseEnded
  BY <1>3 DEF CloseBegins, CloseEnded
<1>4. CASE PutClose
  <2>1. q' = Append(q, SentClose) /\ SentClose \in CapturedRows \cup {SentClose}
    BY <1>4 DEF PutClose
  <2>2. q' \in Seq(CapturedRows \cup {SentClose}) /\ Len(q') = Len(q) + 1
    BY <2>1, AppendParts
  <2> QED BY <1>4, <2>2 DEF PutClose
<1> QED BY <1>1, <1>2, <1>3, <1>4

\* A batch handed to a thread.
LEMMA FlushTypes ==
    ASSUME CaptureTypeInv, NEW items \in Seq(CapturedRows), NEW next, Flush(items, next)
    PROVE  jobs' \in [Threads -> Jobs] /\ pending' = items /\ task' = next
<1>1. [todo |-> items, fin |-> FALSE] \in Jobs
  BY JobsType
<1> QED BY <1>1 DEF Flush, CaptureTypeInv, CaptureTypeOK

\* The writer task, its threads and its cancellation.
LEMMA WriterTypes ==
    ASSUME CaptureTypeInv,
           TakeRow \/ FlushTimer \/ TakeClose \/ ThreadReturns \/ GiveUp \/ RescueEnds
    PROVE  CaptureTypeInv'
<1> USE CaptureAssumption DEF CaptureTypeInv, CaptureTypeOK, TaskRoom, clockVars, queueVars,
                              taskVars, parquetVars, closeVars
<1>1. ASSUME q # <<>>
      PROVE  /\ Tail(q) \in Seq(CapturedRows \cup {SentClose}) /\ Len(Tail(q)) <= QueueMax
             /\ Head(q) # SentClose => Head(q) \in CapturedRows
  BY <1>1, TailParts
<1>2. CASE TakeRow
  <2> DEFINE items == Append(pending, Head(q))
  <2>1. items \in Seq(CapturedRows) /\ Len(items) = Len(pending) + 1
        /\ Len(pending) < BatchSize /\ Len(pending) \in Nat
    BY <1>1, <1>2, AppendParts DEF TakeRow
  <2>2. /\ q' \in Seq(CapturedRows \cup {SentClose}) /\ Len(q') <= QueueMax
        /\ UNCHANGED <<clockVars, submitted, hour_of, dropped, parquetVars, closeVars>>
        /\ task = "running"
    BY <1>1, <1>2 DEF TakeRow
  <2>3. /\ pending' = items /\ Len(items) <= BatchSize /\ jobs' \in [Threads -> Jobs]
        /\ task' \in {"running", "flushing"}
        /\ task' = "running" => Len(items) < BatchSize
    <3>1. CASE Len(items) >= BatchSize
      <4>1. Flush(items, "flushing")
        BY <1>2, <3>1 DEF TakeRow
      <4>2. jobs' \in [Threads -> Jobs] /\ pending' = items /\ task' = "flushing"
        BY <2>1, <4>1, FlushTypes
      <4> HIDE DEF items
      <4> QED BY <2>1, <4>2
    <3>2. CASE ~ (Len(items) >= BatchSize)
      <4>1. pending' = items /\ UNCHANGED <<task, jobs>>
        BY <1>2, <3>2 DEF TakeRow
      <4> HIDE DEF items
      <4> QED BY <2>1, <2>2, <3>2, <4>1
    <3> QED BY <3>1, <3>2
  <2> HIDE DEF items
  <2> QED BY <2>1, <2>2, <2>3
<1>3. CASE FlushTimer
  <2>1. jobs' \in [Threads -> Jobs] /\ pending' = pending /\ task' = "flushing"
    BY <1>3, FlushTypes DEF FlushTimer
  <2> QED BY <1>3, <2>1 DEF FlushTimer
<1>4. ASSUME Finalizing PROVE jobs' \in [Threads -> Jobs]
  BY <1>4, JobsType DEF Finalizing
<1>5. CASE TakeClose
  <2>1. CASE pending = <<>>
    BY <1>1, <1>4, <1>5, <2>1 DEF TakeClose
  <2>2. CASE pending # <<>>
    <3>1. jobs' \in [Threads -> Jobs] /\ pending' = pending /\ task' = "last"
      BY <1>5, <2>2, FlushTypes DEF TakeClose
    <3> QED BY <1>1, <1>5, <3>1 DEF TakeClose
  <2> QED BY <2>1, <2>2
<1>6. CASE ThreadReturns
  <2>1. CASE task = "flushing"
    BY <1>6, <2>1 DEF ThreadReturns
  <2>2. CASE task = "last"
    BY <1>4, <1>6, <2>2 DEF ThreadReturns
  <2>3. CASE task = "finalizing"
    BY <1>6, <2>3 DEF ThreadReturns, Ended
  <2> QED BY <1>6, <2>1, <2>2, <2>3 DEF ThreadReturns
<1>7. CASE GiveUp
  <2>1. [todo |-> pending, fin |-> TRUE] \in Jobs
    BY JobsType
  <2> QED BY <1>7, <2>1 DEF GiveUp, Ended, Threads
<1>8. CASE RescueEnds
  BY <1>8 DEF RescueEnds, Ended
<1> QED BY <1>2, <1>3, <1>5, <1>6, <1>7, <1>8

LEMMA ThreadTypes ==
    ASSUME CaptureTypeInv, NEW t \in Threads,
           ThreadWrites(t) \/ ThreadFinalizes(t) \/ ThreadRaises(t)
    PROVE  CaptureTypeInv'
<1> USE CaptureAssumption DEF CaptureTypeInv, CaptureTypeOK, TaskRoom, clockVars, queueVars,
                              closeVars
<1>1. CASE ThreadWrites(t)
  <2> DEFINE todo == jobs[t].todo
  <2>1. PICK n \in DOMAIN todo :
           /\ WriteRun(hour_of[todo[1]], SubSeq(todo, 1, n))
           /\ jobs' = [jobs EXCEPT ![t].todo = SubSeq(todo, n + 1, Len(todo))]
    BY <1>1 DEF ThreadWrites
  <2>2. todo \in Seq(CapturedRows)
    BY DEF Jobs
  <2>3. SubSeq(todo, 1, n) \in Seq(CapturedRows)
        /\ SubSeq(todo, n + 1, Len(todo)) \in Seq(CapturedRows)
    <3> HIDE DEF todo
    <3> QED BY <2>2, SplitParts
  <2>4. hour_of[todo[1]] \in Hours
    <3>1. todo[1] \in CapturedRows
      <4> HIDE DEF todo
      <4>1. Len(todo) \in Nat /\ n \in 1 .. Len(todo)
        BY <2>2
      <4>2. 1 \in DOMAIN todo
        BY <2>2, <4>1
      <4> QED BY <2>2, <4>2
    <3> QED BY <3>1
  <2>5. jobs' \in [Threads -> Jobs]
    BY <2>1, <2>3 DEF Jobs
  <2> HIDE DEF todo
  <2>6. files' \in [Hours -> Seq(CapturedRows)]
    <3> DEFINE h == hour_of[todo[1]]
               rows == SubSeq(todo, 1, n)
    <3>1. files[h] \o rows \in Seq(CapturedRows)
      BY <2>3, <2>4, ConcatParts
    <3> HIDE DEF h, rows
    <3>2. files' = [files EXCEPT ![h] = @ \o rows] \/ files' = [files EXCEPT ![h] = rows]
      BY <2>1 DEF WriteRun, h, rows
    <3>3. rows \in Seq(CapturedRows)
      BY <2>3 DEF rows
    <3> QED BY <3>1, <3>2, <3>3
  <2>7. writer' \in Hours \cup {0} /\ cur_key' \in Hours \cup {0} /\ sealed' \subseteq Hours
    BY <2>1, <2>4 DEF WriteRun
  <2> QED BY <1>1, <2>5, <2>6, <2>7 DEF ThreadWrites
<1>2. CASE ThreadFinalizes(t)
  BY <1>2, JobsType DEF ThreadFinalizes
<1>3. CASE ThreadRaises(t)
  BY <1>3, JobsType DEF ThreadRaises, parquetVars, Ended
<1> QED BY <1>1, <1>2, <1>3

LEMMA CaptureTypeInvariant == CaptureSpec => []CaptureTypeInv
<1>1. CaptureInit => CaptureTypeInv
  BY CaptureTypeInit
<1>2. CaptureTypeInv /\ [CaptureNext]_captureVars => CaptureTypeInv'
  <2>1. ASSUME CaptureTypeInv, CaptureNext PROVE CaptureTypeInv'
    BY <2>1, OutsideTypes, WriterTypes, ThreadTypes DEF CaptureNext
  <2>2. ASSUME CaptureTypeInv, UNCHANGED captureVars PROVE CaptureTypeInv'
    BY <2>2 DEF captureVars, clockVars, queueVars, taskVars, parquetVars, closeVars,
       CaptureTypeInv, CaptureTypeOK, TaskRoom
  <2> QED BY <2>1, <2>2
<1> QED BY <1>1, <1>2, PTL DEF CaptureSpec

-----------------------------------------------------------------------------
(* Where the rows are, while the task runs and the clock never went back.   *)

\* The task was not given up on, did not fail, and the clock never went back.
Orderly == ~stepped /\ task \in {"running", "flushing", "last", "finalizing", "done"}

Written == UNION {RowsIn(files[h]) : h \in Hours}

\* What the task or its thread still has to write of the rows taken from the queue.
Batch == IF task = "running" THEN pending ELSE jobs["main"].todo

Queued == RowsIn(q) \ {SentClose}

\* The thread works for the task that waits for it, the other one is idle.
TaskInv ==
    /\ jobs["rescue"] = Idle
    /\ task \in {"running", "done"} => jobs["main"] = Idle
    /\ task \in {"flushing", "last"} => ~jobs["main"].fin
    /\ task = "finalizing" => jobs["main"].todo = <<>>

\* Hours do not go back from row to row.
HoursRise ==
    /\ \A n \in 1 .. submitted : hour_of[n] <= hour
    /\ \A m, n \in 1 .. submitted : m <= n => hour_of[m] <= hour_of[n]

\* The files, the batch and the queue are each in order, and a row is in the file of its
\* hour.
InOrder ==
    /\ \A h \in Hours : Ascends(files[h]) /\ \A n \in RowsIn(files[h]) : hour_of[n] = h
    /\ Ascends(Batch)
    /\ \A i, j \in DOMAIN q : i < j /\ q[i] # SentClose /\ q[j] # SentClose => q[i] < q[j]

\* Every row that was not dropped is in a file, in the batch or in the queue, the files
\* ahead of the batch and the batch ahead of the queue.
RowsInv ==
    /\ Written \cup RowsIn(Batch) \cup Queued = (1 .. submitted) \ dropped
    /\ dropped \subseteq 1 .. submitted
    /\ \A n \in Written : \A m \in RowsIn(Batch) \cup Queued : n < m
    /\ \A n \in RowsIn(Batch) : \A m \in Queued : n < m

\* The file of the last hour is open until it is finalized, the others are finished.
FileInv ==
    /\ cur_key = 0 \/ files[cur_key] # <<>>
    /\ \A h \in Hours : files[h] # <<>> => h <= cur_key /\ (h # cur_key => h \in sealed)
    /\ IF task = "done" \/ (task = "finalizing" /\ jobs["main"] = Idle)
       THEN cur_key # 0 => cur_key \in sealed
       ELSE writer = cur_key

\* The sentinel is at p: what came before it is ahead of it, what came after behind it.
SentinelAt(p) ==
    /\ q[p] = SentClose
    /\ \A i \in DOMAIN q : i < p => q[i] # SentClose /\ q[i] <= before
    /\ \A i \in DOMAIN q : i > p => q[i] > before

SentinelInv ==
    /\ before <= submitted
    /\ task \in {"running", "flushing"} =>
          \/ closing \in {"no", "putting"} /\ SentClose \notin RowsIn(q)
          \/ /\ closing = "waiting"
             /\ \E p \in DOMAIN q : SentinelAt(p)
             /\ \A n \in Written \cup RowsIn(Batch) : n <= before
    /\ task \notin {"running", "flushing"} =>
          /\ closing \in {"waiting", "closed"}
          /\ \A n \in RowsIn(q) : n > before
          /\ \A n \in Written \cup RowsIn(Batch) : n <= before

OrderlyInv == TaskInv /\ HoursRise /\ InOrder /\ RowsInv /\ FileInv /\ SentinelInv

CaptureInv == CaptureTypeInv /\ (Orderly => OrderlyInv)

LEMMA CaptureInvInit == ASSUME CaptureInit PROVE CaptureInv
<1>1. CaptureTypeInv
  BY CaptureTypeInit
<1>2. Written = {} /\ Batch = <<>> /\ Queued = {} /\ RowsIn(q) = {} /\ RowsIn(Batch) = {}
  BY DEF CaptureInit, Written, Batch, Queued, RowsIn
<1>3. TaskInv
  BY DEF CaptureInit, TaskInv, Idle, Threads
<1>4. HoursRise /\ RowsInv
  BY <1>2 DEF CaptureInit, HoursRise, RowsInv
<1>5. InOrder
  BY <1>2 DEF CaptureInit, InOrder, Ascends, RowsIn
<1>6. FileInv /\ SentinelInv
  BY <1>2 DEF CaptureInit, FileInv, SentinelInv
<1> QED BY <1>1, <1>3, <1>4, <1>5, <1>6 DEF CaptureInv, OrderlyInv

LEMMA RowTypes ==
    ASSUME CaptureTypeInv
    PROVE  /\ \A n \in CapturedRows : n \in Nat /\ n # SentClose
           /\ Written \subseteq CapturedRows
           /\ Batch \in Seq(CapturedRows) /\ RowsIn(Batch) \subseteq CapturedRows
           /\ q \in Seq(CapturedRows \cup {SentClose})
           /\ RowsIn(q) \subseteq CapturedRows \cup {SentClose} /\ Queued \subseteq CapturedRows
           /\ submitted \in Nat /\ before \in Nat /\ 1 .. submitted \subseteq CapturedRows
           /\ \A h \in Hours : h \in Nat \ {0} /\ files[h] \in Seq(CapturedRows)
<1>1. \A n \in CapturedRows : n \in Nat /\ n # SentClose
  BY CaptureAssumption DEF CapturedRows, SentClose
<1>2. \A S : \A s \in Seq(S) : RowsIn(s) \subseteq S
  BY DEF RowsIn
<1>3. \A h \in Hours : files[h] \in Seq(CapturedRows)
  BY DEF CaptureTypeInv, CaptureTypeOK
<1>4. \A h \in Hours : h \in Nat \ {0}
  BY CaptureAssumption DEF Hours
<1>5. Written \subseteq CapturedRows
  BY <1>2, <1>3 DEF Written
<1>6. Batch \in Seq(CapturedRows)
  BY DEF CaptureTypeInv, CaptureTypeOK, Batch, Jobs, Threads
<1>7. q \in Seq(CapturedRows \cup {SentClose})
  BY DEF CaptureTypeInv, CaptureTypeOK
<1>8. submitted \in Nat /\ before \in Nat /\ 1 .. submitted \subseteq CapturedRows
  BY CaptureAssumption DEF CaptureTypeInv, CaptureTypeOK, CapturedRows
<1>9. RowsIn(Batch) \subseteq CapturedRows /\ RowsIn(q) \subseteq CapturedRows \cup {SentClose}
      /\ Queued \subseteq CapturedRows
  BY <1>2, <1>6, <1>7 DEF Queued
<1> QED BY <1>1, <1>3, <1>4, <1>5, <1>6, <1>7, <1>8, <1>9

\* Once it went wrong it stays wrong.
LEMMA StaysOrderly == ASSUME CaptureNext, Orderly' PROVE Orderly
  BY DEF CaptureNext, Orderly, HourTurns, ClockStepsBack, Submit, TakeRow, FlushTimer, TakeClose,
     ThreadReturns, ThreadWrites, ThreadFinalizes, ThreadRaises, CloseBegins, PutClose, GiveUp,
     RescueEnds, CloseEnded, Flush, Ended, clockVars, queueVars, taskVars, parquetVars, closeVars

\* The clock turns, close() begins and ends.
LEMMA OutsideStep ==
    ASSUME CaptureTypeInv, Orderly, OrderlyInv, Orderly',
           HourTurns \/ ClockStepsBack \/ CloseBegins \/ CloseEnded \/ GiveUp \/ RescueEnds
    PROVE  OrderlyInv'
<1>1. HourTurns \/ CloseBegins \/ (CloseEnded /\ task = "done")
  BY DEF Orderly, HourTurns, ClockStepsBack, CloseBegins, CloseEnded, GiveUp, RescueEnds, Ended,
     OrderlyInv, SentinelInv
<1>2. UNCHANGED <<queueVars, taskVars, parquetVars, before>>
  BY <1>1 DEF HourTurns, CloseBegins, CloseEnded, closeVars
<1>3. Written' = Written /\ Batch' = Batch /\ Queued' = Queued /\ RowsIn(q)' = RowsIn(q)
      /\ RowsIn(Batch)' = RowsIn(Batch)
  BY <1>2 DEF Written, Batch, Queued, RowsIn, queueVars, taskVars, parquetVars
<1>4. TaskInv' /\ RowsInv' /\ InOrder' /\ FileInv'
  BY <1>2, <1>3 DEF OrderlyInv, TaskInv, RowsInv, InOrder, FileInv, Ascends, RowsIn, queueVars,
     taskVars, parquetVars
<1>5. HoursRise'
  <2>1. hour <= hour' /\ hour \in Int /\ hour' \in Int
    BY <1>1, CaptureAssumption
    DEF HourTurns, CloseBegins, CloseEnded, clockVars, CaptureTypeInv, CaptureTypeOK, Hours
  <2>2. \A n \in 1 .. submitted : hour_of[n] \in Int
    BY RowTypes, CaptureAssumption DEF CaptureTypeInv, CaptureTypeOK, Hours
  <2> QED BY <1>2, <2>1, <2>2 DEF OrderlyInv, HoursRise, queueVars
<1>6. SentinelInv'
  <2>1. \A p \in DOMAIN q : SentinelAt(p) => SentinelAt(p)'
    BY <1>2 DEF SentinelAt, queueVars
  <2>2. \/ closing' = closing
        \/ closing = "no" /\ closing' = "putting"
        \/ task = "done" /\ closing' = "closed"
    BY <1>1 DEF HourTurns, CloseBegins, CloseEnded, closeVars
  <2>3. closing = "no" => task \in {"running", "flushing"}
    BY DEF OrderlyInv, SentinelInv
  <2> QED BY <1>2, <1>3, <2>1, <2>2, <2>3 DEF OrderlyInv, SentinelInv, queueVars, taskVars
<1> QED BY <1>4, <1>5, <1>6 DEF OrderlyInv

\* A row is submitted.
LEMMA SubmitStep ==
    ASSUME CaptureTypeInv, Orderly, OrderlyInv, Submit
    PROVE  OrderlyInv'
<1> DEFINE item == submitted + 1
<1>1. /\ submitted' = item /\ item \in CapturedRows /\ item \in Nat /\ item # SentClose
      /\ hour_of' = [hour_of EXCEPT ![item] = hour]
      /\ UNCHANGED <<clockVars, taskVars, parquetVars, closeVars>>
      /\ submitted \in Nat /\ before \in Nat
  <2>1. item \in CapturedRows
    BY CaptureAssumption DEF Submit, CaptureTypeInv, CaptureTypeOK, CapturedRows
  <2>2. \A n \in CapturedRows : n \in Nat /\ n # SentClose
    BY RowTypes
  <2>3. submitted \in Nat /\ before \in Nat
    BY RowTypes
  <2> QED BY <2>1, <2>2, <2>3 DEF Submit
<1>2. /\ Written' = Written /\ Batch' = Batch /\ RowsIn(Batch)' = RowsIn(Batch)
      /\ \A h \in Hours : files'[h] = files[h]
  BY <1>1 DEF Written, Batch, RowsIn, taskVars, parquetVars
<1>3. \/ /\ q' = Append(q, item) /\ dropped' = dropped
      \/ /\ q' = q /\ dropped' = dropped \cup {item}
  BY DEF Submit
<1>4. \A n \in 1 .. submitted : hour_of'[n] = hour_of[n] /\ n < item /\ n # item
  BY <1>1 DEF CaptureTypeInv, CaptureTypeOK, CapturedRows
<1>5. hour_of'[item] = hour
  BY <1>1 DEF CaptureTypeInv, CaptureTypeOK
<1>6. Written \cup RowsIn(Batch) \cup Queued \subseteq 1 .. submitted
  BY DEF OrderlyInv, RowsInv
<1>7. 1 .. item = (1 .. submitted) \cup {item} /\ item \notin 1 .. submitted
  BY <1>1
<1>8. /\ q \in Seq(CapturedRows \cup {SentClose}) /\ item \in CapturedRows \cup {SentClose}
      /\ RowsIn(q) \subseteq 1 .. submitted \cup {SentClose}
  BY <1>1, <1>6, RowTypes DEF Queued
<1> HIDE DEF item
<1>9. TaskInv' /\ FileInv'
  BY <1>1, <1>2 DEF OrderlyInv, TaskInv, FileInv, taskVars, parquetVars
<1>10. HoursRise'
  <2>1. \A n \in 1 .. submitted : hour_of[n] \in Int
    BY RowTypes, CaptureAssumption DEF CaptureTypeInv, CaptureTypeOK, Hours
  <2>2. hour' = hour /\ hour \in Int
    BY <1>1, CaptureAssumption DEF CaptureTypeInv, CaptureTypeOK, Hours, clockVars
  <2>3. ASSUME NEW n \in 1 .. item PROVE hour_of'[n] <= hour'
    BY <1>4, <1>5, <1>7, <2>1, <2>2 DEF OrderlyInv, HoursRise
  <2>4. ASSUME NEW m \in 1 .. item, NEW n \in 1 .. item, m <= n
        PROVE  hour_of'[m] <= hour_of'[n]
    <3>1. CASE n = item
      BY <1>5, <2>2, <2>3, <3>1
    <3>2. CASE n \in 1 .. submitted
      <4>1. m \in 1 .. submitted
        BY <1>1, <2>4, <3>2
      <4> QED BY <1>4, <2>4, <3>2, <4>1 DEF OrderlyInv, HoursRise
    <3> QED BY <1>7, <3>1, <3>2
  <2> QED BY <1>1, <2>3, <2>4 DEF HoursRise
<1>11. CASE q' = Append(q, item) /\ dropped' = dropped
  <2>1. /\ DOMAIN q' = DOMAIN q \cup {Len(q) + 1} /\ q'[Len(q) + 1] = item
        /\ \A i \in DOMAIN q : q'[i] = q[i] /\ i < Len(q) + 1
        /\ RowsIn(q)' = RowsIn(q) \cup {item}
    BY <1>8, <1>11, AppendParts DEF RowsIn
  <2>2. Queued' = Queued \cup {item}
    BY <1>1, <2>1 DEF Queued
  <2>3. RowsInv'
    <3>1. Written' \cup RowsIn(Batch)' \cup Queued' = (1 .. item) \ dropped
      BY <1>1, <1>2, <1>4, <1>7, <2>2 DEF OrderlyInv, RowsInv
    <3>2. \A n \in Written \cup RowsIn(Batch) \cup Queued : n < item
      BY <1>4, <1>6
    <3>3. dropped \subseteq 1 .. item
      BY <1>1, <1>7 DEF OrderlyInv, RowsInv
    <3> QED BY <1>1, <1>2, <1>11, <2>2, <3>1, <3>2, <3>3 DEF OrderlyInv, RowsInv
  <2>4. \A i, j \in DOMAIN q' : i < j /\ q'[i] # SentClose /\ q'[j] # SentClose
                                => q'[i] < q'[j]
    <3>1. ASSUME NEW i \in DOMAIN q', NEW j \in DOMAIN q', i < j, q'[i] # SentClose,
                 q'[j] # SentClose
          PROVE  q'[i] < q'[j]
      <4>1. i \in DOMAIN q
        <5>1. Len(q) \in Nat /\ DOMAIN q = 1 .. Len(q)
          BY <1>8
        <5> QED BY <2>1, <3>1, <5>1
      <4>2. CASE j \in DOMAIN q
        BY <2>1, <3>1, <4>1, <4>2 DEF OrderlyInv, InOrder
      <4>3. CASE j = Len(q) + 1
        <5>1. q'[i] \in 1 .. submitted
          BY <1>8, <2>1, <3>1, <4>1 DEF RowsIn
        <5> QED BY <1>4, <2>1, <4>3, <5>1
      <4> QED BY <2>1, <4>2, <4>3
    <3> QED BY <3>1
  <2>5. InOrder'
    <3>1. ASSUME NEW h \in Hours PROVE Ascends(files[h])' /\ \A n \in RowsIn(files[h])' : hour_of'[n] = h
      <4>1. RowsIn(files[h])' = RowsIn(files[h]) /\ RowsIn(files[h]) \subseteq 1 .. submitted
        BY <1>2, <1>6 DEF RowsIn, Written
      <4> QED BY <1>2, <1>4, <4>1 DEF OrderlyInv, InOrder, Ascends
    <3>2. Ascends(Batch)'
      BY <1>2 DEF OrderlyInv, InOrder, Ascends
    <3> QED BY <2>4, <3>1, <3>2 DEF InOrder
  <2>6. SentinelInv'
    <3>1. before' = before /\ closing' = closing /\ task' = task
      BY <1>1 DEF closeVars, taskVars
    <3>2. before <= submitted /\ before < item
      BY <1>1 DEF OrderlyInv, SentinelInv, item
    <3>3. ASSUME NEW p \in DOMAIN q, SentinelAt(p) PROVE p \in DOMAIN q' /\ SentinelAt(p)'
      <4>1. ~ (Len(q) + 1 < p) /\ Len(q) + 1 # p
        <5>1. Len(q) \in Nat /\ DOMAIN q = 1 .. Len(q)
          BY <1>8
        <5> QED BY <5>1
      <4> QED BY <2>1, <3>1, <3>2, <3>3, <4>1 DEF SentinelAt
    <3> QED BY <1>1, <1>2, <2>1, <3>1, <3>2, <3>3 DEF OrderlyInv, SentinelInv
  <2> QED BY <1>9, <1>10, <2>3, <2>5, <2>6 DEF OrderlyInv
<1>12. CASE q' = q /\ dropped' = dropped \cup {item}
  <2>1. Queued' = Queued /\ RowsIn(q)' = RowsIn(q)
    BY <1>12 DEF Queued, RowsIn
  <2>2. RowsInv'
    <3>1. Written' \cup RowsIn(Batch)' \cup Queued' = (1 .. item) \ dropped'
      BY <1>1, <1>2, <1>4, <1>7, <1>12, <2>1 DEF OrderlyInv, RowsInv, item
    <3>2. dropped' \subseteq 1 .. item
      BY <1>1, <1>7, <1>12 DEF OrderlyInv, RowsInv, item
    <3> QED BY <1>1, <1>2, <2>1, <3>1, <3>2 DEF OrderlyInv, RowsInv
  <2>3. InOrder'
    <3>1. ASSUME NEW h \in Hours PROVE Ascends(files[h])' /\ \A n \in RowsIn(files[h])' : hour_of'[n] = h
      <4>1. RowsIn(files[h])' = RowsIn(files[h]) /\ RowsIn(files[h]) \subseteq 1 .. submitted
        BY <1>2, <1>6 DEF RowsIn, Written
      <4> QED BY <1>2, <1>4, <4>1 DEF OrderlyInv, InOrder, Ascends
    <3>2. Ascends(Batch)'
      BY <1>2 DEF OrderlyInv, InOrder, Ascends
    <3> QED BY <1>12, <3>1, <3>2 DEF OrderlyInv, InOrder
  <2>4. SentinelInv'
    <3>1. before' = before /\ closing' = closing /\ task' = task
      BY <1>1 DEF closeVars, taskVars
    <3>2. before <= item
      BY <1>1 DEF OrderlyInv, SentinelInv, item
    <3>3. \A p \in DOMAIN q : SentinelAt(p) => SentinelAt(p)'
      BY <1>12, <3>1 DEF SentinelAt
    <3> QED BY <1>1, <1>2, <1>12, <2>1, <3>1, <3>2, <3>3 DEF OrderlyInv, SentinelInv
  <2> QED BY <1>9, <1>10, <2>2, <2>3, <2>4 DEF OrderlyInv
<1> QED BY <1>3, <1>11, <1>12

\* The sentinel goes in.
LEMMA PutStep ==
    ASSUME CaptureTypeInv, Orderly, OrderlyInv, PutClose
    PROVE  OrderlyInv'
<1>1. /\ q' = Append(q, SentClose) /\ closing = "putting" /\ closing' = "waiting"
      /\ before' = submitted /\ submitted' = submitted
      /\ UNCHANGED <<clockVars, submitted, hour_of, dropped, taskVars, parquetVars>>
  BY DEF PutClose
<1>2. task \in {"running", "flushing"} /\ task' = task /\ SentClose \notin RowsIn(q)
  BY <1>1 DEF OrderlyInv, SentinelInv, taskVars
<1>3. /\ DOMAIN q' = DOMAIN q \cup {Len(q) + 1} /\ q'[Len(q) + 1] = SentClose
      /\ \A i \in DOMAIN q : q'[i] = q[i] /\ i < Len(q) + 1
      /\ RowsIn(q)' = RowsIn(q) \cup {SentClose}
  <2>1. q \in Seq(CapturedRows \cup {SentClose})
    BY RowTypes
  <2> QED BY <1>1, <2>1, AppendParts DEF RowsIn
<1>4. /\ Queued' = Queued /\ Written' = Written /\ Batch' = Batch
      /\ RowsIn(Batch)' = RowsIn(Batch)
  BY <1>1, <1>3 DEF Queued, Written, Batch, RowsIn, taskVars, parquetVars
<1>5. TaskInv' /\ HoursRise' /\ RowsInv' /\ FileInv'
  BY <1>1, <1>4 DEF OrderlyInv, TaskInv, HoursRise, RowsInv, FileInv, clockVars, taskVars, parquetVars
<1>6. InOrder'
  <2>1. \A i, j \in DOMAIN q' : i < j /\ q'[i] # SentClose /\ q'[j] # SentClose
                                => q'[i] < q'[j]
    BY <1>3 DEF OrderlyInv, InOrder
  <2>2. \A h \in Hours : Ascends(files[h])' /\ \A n \in RowsIn(files[h])' : hour_of'[n] = h
    BY <1>1 DEF OrderlyInv, InOrder, Ascends, RowsIn, parquetVars
  <2>3. Ascends(Batch)'
    BY <1>4 DEF OrderlyInv, InOrder, Ascends
  <2> QED BY <2>1, <2>2, <2>3 DEF InOrder
<1>7. SentinelInv'
  <2>1. /\ \A n \in Written \cup RowsIn(Batch) \cup Queued : n <= submitted
        /\ submitted \in Nat
    BY RowTypes DEF OrderlyInv, RowsInv
  <2>2. \A i \in DOMAIN q : q[i] # SentClose /\ q[i] <= submitted
    BY <1>2, <2>1 DEF Queued, RowsIn
  <2>0. PICK p : p = Len(q) + 1
    OBVIOUS
  <2>3. p \in DOMAIN q' /\ SentinelAt(p)'
    <3>0. Len(q) \in Nat /\ DOMAIN q = 1 .. Len(q)
      BY RowTypes
    <3>1. \A i \in DOMAIN q' : ~ (i > p)
      BY <1>3, <2>0, <3>0
    <3>2. ASSUME NEW i \in DOMAIN q', i < p
          PROVE  q'[i] # SentClose /\ q'[i] <= before'
      <4>1. i \in DOMAIN q
        BY <1>3, <2>0, <3>0, <3>2
      <4> QED BY <1>1, <1>3, <2>2, <4>1
    <3> QED BY <1>3, <2>0, <3>1, <3>2 DEF SentinelAt
  <2>4. \A n \in (Written \cup RowsIn(Batch))' : n <= before'
    BY <1>1, <1>4, <2>1
  <2>5. \E i \in DOMAIN q' : SentinelAt(i)'
    BY <2>3
  <2> QED BY <1>1, <1>2, <2>1, <2>4, <2>5 DEF SentinelInv
<1> QED BY <1>5, <1>6, <1>7 DEF OrderlyInv

\* The queue without its head is in order, and a row at its head is the oldest.
LEMMA TakeHead ==
    ASSUME CaptureTypeInv, OrderlyInv, q # <<>>, q' = Tail(q)
    PROVE  /\ \A i \in DOMAIN q' : i + 1 \in DOMAIN q /\ q'[i] = q[i + 1]
           /\ \A i \in DOMAIN q : i = 1 \/ (i - 1 \in DOMAIN q' /\ q'[i - 1] = q[i])
           /\ 1 \in DOMAIN q /\ Head(q) = q[1] /\ DOMAIN q \subseteq Nat \ {0}
           /\ DOMAIN q' \subseteq Nat \ {0}
           /\ RowsIn(q) = {Head(q)} \cup RowsIn(q')
           /\ \A i, j \in DOMAIN q' : i < j /\ q'[i] # SentClose /\ q'[j] # SentClose
                                      => q'[i] < q'[j]
           /\ Head(q) # SentClose => /\ Head(q) \in CapturedRows
                                     /\ Queued = {Head(q)} \cup Queued'
                                     /\ \A n \in Queued' : Head(q) < n
           /\ Head(q) = SentClose => Queued' = Queued
<1>1. q \in Seq(CapturedRows \cup {SentClose})
  BY RowTypes
<1>2. /\ \A i \in DOMAIN q' : i + 1 \in DOMAIN q /\ q'[i] = q[i + 1]
      /\ \A i \in DOMAIN q : i = 1 \/ (i - 1 \in DOMAIN q' /\ q'[i - 1] = q[i])
      /\ Head(q) = q[1] /\ Head(q) \in CapturedRows \cup {SentClose}
      /\ RowsIn(q) = {Head(q)} \cup RowsIn(q') /\ Len(q) \in Nat \ {0}
      /\ q' \in Seq(CapturedRows \cup {SentClose})
  BY <1>1, TailParts
<1>3. 1 \in DOMAIN q /\ DOMAIN q \subseteq Nat \ {0} /\ DOMAIN q' \subseteq Nat \ {0}
  BY <1>1, <1>2
<1>4. Queued' = RowsIn(q') \ {SentClose}
  BY DEF Queued, RowsIn
<1>5. ASSUME NEW i \in DOMAIN q', NEW j \in DOMAIN q', i < j, q'[i] # SentClose,
             q'[j] # SentClose
      PROVE  q'[i] < q'[j]
  <2>1. i + 1 < j + 1 /\ i + 1 \in DOMAIN q /\ j + 1 \in DOMAIN q
    BY <1>2, <1>3, <1>5
  <2> QED BY <1>2, <1>5, <2>1 DEF OrderlyInv, InOrder
<1>6. ASSUME Head(q) # SentClose, NEW n \in Queued' PROVE Head(q) < n
  <2>1. PICK i \in DOMAIN q' : n = q'[i] /\ n # SentClose
    BY <1>4 DEF RowsIn
  <2>2. i + 1 \in DOMAIN q /\ q[i + 1] = n /\ 1 < i + 1
    BY <1>2, <1>3, <2>1
  <2> QED BY <1>2, <1>3, <1>6, <2>1, <2>2 DEF OrderlyInv, InOrder
<1>7. Head(q) = SentClose => Queued' = Queued
  BY <1>2, <1>4 DEF Queued
<1>8. Head(q) # SentClose => Queued = {Head(q)} \cup Queued'
  BY <1>2, <1>4 DEF Queued
<1> QED BY <1>2, <1>3, <1>5, <1>6, <1>7, <1>8

\* What the files and the hours say holds as long as neither they nor the rows change.
LEMMA FilesKeep ==
    ASSUME OrderlyInv, UNCHANGED <<clockVars, submitted, hour_of, parquetVars>>
    PROVE  /\ HoursRise' /\ Written' = Written
           /\ \A h \in Hours : Ascends(files[h])' /\ \A n \in RowsIn(files[h])' : hour_of'[n] = h
<1>1. \A h \in Hours : files'[h] = files[h]
  BY DEF parquetVars
<1>2. HoursRise' /\ Written' = Written
  BY <1>1 DEF OrderlyInv, HoursRise, Written, RowsIn, clockVars
<1>3. \A h \in Hours : Ascends(files[h])' /\ \A n \in RowsIn(files[h])' : hour_of'[n] = h
  BY <1>1 DEF OrderlyInv, InOrder, Ascends, RowsIn
<1> QED BY <1>2, <1>3

\* A row goes from the queue into the batch.
LEMMA TakeRowStep ==
    ASSUME CaptureTypeInv, Orderly, OrderlyInv, TakeRow
    PROVE  OrderlyInv'
<1> DEFINE item == Head(q)
           items == Append(pending, item)
<1>1. /\ task = "running" /\ q # <<>> /\ item # SentClose /\ q' = Tail(q)
      /\ UNCHANGED <<clockVars, submitted, hour_of, dropped, parquetVars, closeVars>>
  BY DEF TakeRow
<1>2. \/ /\ task' = "flushing" /\ jobs' = [jobs EXCEPT !["main"] = [todo |-> items, fin |-> FALSE]]
      \/ task' = "running" /\ pending' = items /\ jobs' = jobs
  BY <1>1 DEF TakeRow, Flush
<1>3. /\ jobs["main"] = Idle /\ jobs["rescue"] = Idle /\ Batch = pending
      /\ jobs \in [Threads -> Jobs]
  BY <1>1 DEF OrderlyInv, TaskInv, Batch, CaptureTypeInv, CaptureTypeOK
<1>4. /\ \A i \in DOMAIN q' : i + 1 \in DOMAIN q /\ q'[i] = q[i + 1]
      /\ \A i \in DOMAIN q : i = 1 \/ (i - 1 \in DOMAIN q' /\ q'[i - 1] = q[i])
      /\ 1 \in DOMAIN q /\ item = q[1] /\ DOMAIN q \subseteq Nat \ {0}
      /\ DOMAIN q' \subseteq Nat \ {0}
      /\ RowsIn(q) = {item} \cup RowsIn(q')
      /\ \A i, j \in DOMAIN q' : i < j /\ q'[i] # SentClose /\ q'[j] # SentClose
                                 => q'[i] < q'[j]
      /\ item \in CapturedRows /\ Queued = {item} \cup Queued' /\ \A n \in Queued' : item < n
  BY <1>1, TakeHead
<1>5. pending \in Seq(CapturedRows)
  BY DEF CaptureTypeInv, CaptureTypeOK
<1>6. /\ DOMAIN items = DOMAIN pending \cup {Len(pending) + 1} /\ Len(pending) \in Nat
      /\ \A i \in DOMAIN pending : items[i] = pending[i] /\ i < Len(pending) + 1
      /\ items[Len(pending) + 1] = item /\ RowsIn(items) = RowsIn(pending) \cup {item}
  BY <1>4, <1>5, AppendParts
<1> HIDE DEF item, items
<1>7. Batch' = items
  BY <1>2, <1>3 DEF Batch, Threads
<1>8. RowsIn(Batch)' = RowsIn(items) /\ RowsIn(q)' = RowsIn(q') /\ Written' = Written
  BY <1>1, <1>7, FilesKeep DEF RowsIn
<1>9. TaskInv'
  BY <1>2, <1>3 DEF TaskInv, Threads
<1>10. RowsInv'
  <2>1. /\ Written \cup RowsIn(pending) \cup Queued = (1 .. submitted) \ dropped
        /\ dropped \subseteq 1 .. submitted
        /\ \A n \in Written : \A m \in RowsIn(pending) \cup Queued : n < m
        /\ \A n \in RowsIn(pending) : \A m \in Queued : n < m
    BY <1>3 DEF OrderlyInv, RowsInv
  <2>2. submitted' = submitted /\ dropped' = dropped
    BY <1>1
  <2> QED BY <1>4, <1>6, <1>8, <2>1, <2>2 DEF RowsInv
<1>11. InOrder'
  <2>1. Ascends(Batch)'
    <3>1. Ascends(pending)
      BY <1>3 DEF OrderlyInv, InOrder
    <3>2. \A i \in DOMAIN pending : pending[i] < item
      BY <1>3, <1>4 DEF OrderlyInv, RowsInv, RowsIn
    <3>3. ASSUME NEW i \in DOMAIN items, NEW j \in DOMAIN items, i < j
          PROVE  items[i] < items[j]
      <4>1. DOMAIN pending = 1 .. Len(pending)
        BY <1>5
      <4>2. i \in DOMAIN pending
        BY <1>6, <3>3, <4>1
      <4> QED BY <1>6, <3>1, <3>2, <3>3, <4>2 DEF Ascends
    <3> QED BY <1>7, <3>3 DEF Ascends
  <2> QED BY <1>1, <1>4, <2>1, FilesKeep DEF InOrder
<1>12. HoursRise' /\ FileInv'
  BY <1>1, <1>2, FilesKeep DEF OrderlyInv, FileInv, parquetVars
<1>13. SentinelInv'
  <2>1. /\ task' \in {"running", "flushing"} /\ before' = before /\ closing' = closing
        /\ submitted' = submitted
    BY <1>1, <1>2 DEF closeVars
  <2>2. CASE closing \in {"no", "putting"} /\ SentClose \notin RowsIn(q)
    BY <1>4, <1>8, <2>1, <2>2 DEF OrderlyInv, SentinelInv
  <2>3. CASE /\ closing = "waiting"
             /\ \E p \in DOMAIN q : SentinelAt(p)
             /\ \A n \in Written \cup RowsIn(Batch) : n <= before
    <3>1. PICK p \in DOMAIN q : SentinelAt(p)
      BY <2>3
    <3>2. p # 1 /\ 1 < p /\ p \in Nat /\ item <= before
      <4>1. p # 1
        BY <1>1, <1>4, <3>1 DEF SentinelAt
      <4>2. 1 < p /\ p \in Nat
        BY <1>4, <4>1
      <4> QED BY <1>4, <3>1, <4>1, <4>2 DEF SentinelAt
    <3>3. p - 1 \in DOMAIN q' /\ SentinelAt(p - 1)'
      <4>1. ASSUME NEW i \in DOMAIN q'
            PROVE  /\ i < p - 1 => q'[i] # SentClose /\ q'[i] <= before'
                   /\ i > p - 1 => q'[i] > before'
        <5>1. i + 1 \in DOMAIN q /\ q'[i] = q[i + 1] /\ i \in Nat
          BY <1>4
        <5>2. (i < p - 1 => i + 1 < p) /\ (i > p - 1 => i + 1 > p)
          BY <3>2, <5>1
        <5> QED BY <2>1, <3>1, <5>1, <5>2 DEF SentinelAt
      <4> QED BY <1>4, <3>1, <3>2, <4>1 DEF SentinelAt
    <3>4. \E i \in DOMAIN q' : SentinelAt(i)'
      BY <3>3
    <3>5. \A n \in (Written \cup RowsIn(Batch))' : n <= before'
      BY <1>3, <1>6, <1>8, <2>1, <2>3, <3>2
    <3> QED BY <2>1, <2>3, <3>4, <3>5 DEF OrderlyInv, SentinelInv
  <2> QED BY <1>1, <2>2, <2>3 DEF OrderlyInv, SentinelInv
<1> QED BY <1>9, <1>10, <1>11, <1>12, <1>13 DEF OrderlyInv

\* The task reaches the sentinel: only rows that came after it are left in the queue.
LEMMA TakeCloseStep ==
    ASSUME CaptureTypeInv, Orderly, OrderlyInv, TakeClose
    PROVE  OrderlyInv'
<1>1. /\ task = "running" /\ q # <<>> /\ Head(q) = SentClose /\ q' = Tail(q)
      /\ UNCHANGED <<clockVars, submitted, hour_of, dropped, parquetVars, closeVars>>
  BY DEF TakeClose
<1>2. /\ jobs["main"] = Idle /\ jobs["rescue"] = Idle /\ Batch = pending
      /\ jobs \in [Threads -> Jobs]
  BY <1>1 DEF OrderlyInv, TaskInv, Batch, CaptureTypeInv, CaptureTypeOK
<1>3. \/ /\ pending = <<>> /\ task' = "finalizing"
         /\ jobs' = [jobs EXCEPT !["main"] = [todo |-> <<>>, fin |-> TRUE]]
      \/ /\ task' = "last" /\ jobs' = [jobs EXCEPT !["main"] = [todo |-> pending, fin |-> FALSE]]
  BY <1>1 DEF TakeClose, Finalizing, Flush
<1>4. Batch' = pending
  BY <1>2, <1>3 DEF Batch, Threads
<1>5. /\ \A i \in DOMAIN q' : i + 1 \in DOMAIN q /\ q'[i] = q[i + 1]
      /\ 1 \in DOMAIN q /\ q[1] = SentClose /\ DOMAIN q \subseteq Nat \ {0}
      /\ DOMAIN q' \subseteq Nat \ {0} /\ RowsIn(q) = {SentClose} \cup RowsIn(q')
      /\ \A i, j \in DOMAIN q' : i < j /\ q'[i] # SentClose /\ q'[j] # SentClose
                                 => q'[i] < q'[j]
      /\ Queued' = Queued
  BY <1>1, TakeHead
<1>6. /\ Written' = Written /\ RowsIn(Batch)' = RowsIn(Batch) /\ RowsIn(q)' = RowsIn(q')
      /\ HoursRise'
      /\ \A h \in Hours : Ascends(files[h])' /\ \A n \in RowsIn(files[h])' : hour_of'[n] = h
  BY <1>1, <1>2, <1>4, FilesKeep DEF RowsIn
<1>7. TaskInv'
  BY <1>2, <1>3 DEF TaskInv, Threads
<1>8. RowsInv'
  BY <1>1, <1>5, <1>6 DEF OrderlyInv, RowsInv
<1>9. InOrder'
  BY <1>2, <1>4, <1>5, <1>6 DEF OrderlyInv, InOrder, Ascends
<1>10. FileInv'
  <2>1. task' = "finalizing" => jobs'["main"] # Idle
    BY <1>2, <1>3 DEF Idle, Threads
  <2> QED BY <1>1, <1>3, <2>1 DEF OrderlyInv, FileInv, parquetVars
<1>11. SentinelInv'
  <2>1. SentClose \in RowsIn(q)
    BY <1>5
  <2>2. /\ closing = "waiting" /\ before <= submitted
        /\ \A n \in Written \cup RowsIn(Batch) : n <= before
    BY <1>1, <2>1 DEF OrderlyInv, SentinelInv
  <2>3. PICK p \in DOMAIN q : SentinelAt(p)
    BY <1>1, <2>1 DEF OrderlyInv, SentinelInv
  <2>4. ~ (1 < p) /\ p \in Nat
    BY <1>5, <2>3 DEF SentinelAt
  <2>5. ASSUME NEW i \in DOMAIN q' PROVE q'[i] > before
    <3>1. i + 1 \in DOMAIN q /\ q'[i] = q[i + 1] /\ i \in Nat \ {0}
      BY <1>5
    <3>2. i + 1 > p
      BY <2>4, <3>1
    <3> QED BY <2>3, <3>1, <3>2 DEF SentinelAt
  <2>6. \A n \in RowsIn(q)' : n > before'
    BY <1>1, <1>6, <2>5 DEF RowsIn, closeVars
  <2>7. task' \notin {"running", "flushing"} /\ closing' = "waiting" /\ before' = before
        /\ submitted' = submitted
    BY <1>1, <1>3, <2>2 DEF closeVars
  <2> QED BY <1>6, <2>2, <2>6, <2>7 DEF SentinelInv
<1> QED BY <1>6, <1>7, <1>8, <1>9, <1>10, <1>11 DEF OrderlyInv

\* The batch goes to the thread, or the thread is done with it or with the open file.
LEMMA BatchStep ==
    ASSUME CaptureTypeInv, Orderly, OrderlyInv,
           FlushTimer \/ ThreadReturns \/ (\E t \in Threads : ThreadFinalizes(t))
    PROVE  OrderlyInv'
<1>1. /\ UNCHANGED <<clockVars, queueVars, closeVars, cur_key, files>>
      /\ \/ FlushTimer /\ UNCHANGED parquetVars
         \/ ThreadReturns /\ UNCHANGED parquetVars
         \/ \E t \in Threads : ThreadFinalizes(t)
  BY DEF FlushTimer, ThreadReturns, ThreadFinalizes, parquetVars
<1>2. /\ jobs["rescue"] = Idle /\ jobs \in [Threads -> Jobs]
      /\ task \in {"running", "flushing", "last", "finalizing", "done"}
  BY DEF OrderlyInv, TaskInv, CaptureTypeInv, CaptureTypeOK, Orderly
<1>3. \/ /\ task = "running" /\ task' = "flushing" /\ pending' = pending
         /\ jobs' = [jobs EXCEPT !["main"] = [todo |-> pending, fin |-> FALSE]]
         /\ UNCHANGED parquetVars
      \/ /\ jobs["main"] = Idle /\ task = "flushing" /\ task' = "running" /\ pending' = <<>>
         /\ jobs' = jobs /\ UNCHANGED parquetVars
      \/ /\ jobs["main"] = Idle /\ task = "last" /\ task' = "finalizing"
         /\ jobs' = [jobs EXCEPT !["main"] = [todo |-> <<>>, fin |-> TRUE]]
         /\ UNCHANGED parquetVars
      \/ /\ jobs["main"] = Idle /\ task = "finalizing" /\ task' = "done" /\ jobs' = jobs
         /\ UNCHANGED parquetVars
      \/ /\ jobs["main"] = [todo |-> <<>>, fin |-> TRUE] /\ task = "finalizing" /\ task' = task
         /\ jobs' = [jobs EXCEPT !["main"] = Idle]
         /\ sealed' = IF writer = 0 THEN sealed ELSE sealed \cup {writer}
  <2>1. ASSUME NEW t \in Threads, ThreadFinalizes(t)
        PROVE  /\ jobs["main"] = [todo |-> <<>>, fin |-> TRUE] /\ task = "finalizing" /\ task' = task
               /\ jobs' = [jobs EXCEPT !["main"] = Idle]
               /\ sealed' = IF writer = 0 THEN sealed ELSE sealed \cup {writer}
    <3>1. t = "main"
      BY <1>2, <2>1 DEF ThreadFinalizes, Idle, Threads
    <3> QED BY <1>2, <2>1, <3>1 DEF ThreadFinalizes, OrderlyInv, TaskInv, Idle
  <2>2. CASE FlushTimer /\ UNCHANGED parquetVars
    BY <2>2 DEF FlushTimer, Flush
  <2>3. CASE ThreadReturns /\ UNCHANGED parquetVars
    BY <2>3 DEF ThreadReturns, Finalizing
  <2> QED BY <1>1, <2>1, <2>2, <2>3
<1>4. Batch' = Batch
  BY <1>2, <1>3 DEF Batch, Idle, Threads
<1>5. /\ Written' = Written /\ RowsIn(Batch)' = RowsIn(Batch) /\ RowsIn(q)' = RowsIn(q)
      /\ Queued' = Queued
  BY <1>1, <1>4 DEF Written, RowsIn, Queued, queueVars
<1>6. HoursRise' /\ RowsInv' /\ InOrder'
  BY <1>1, <1>4, <1>5
  DEF OrderlyInv, HoursRise, RowsInv, InOrder, Ascends, RowsIn, clockVars, queueVars
<1>7. /\ jobs'["rescue"] = Idle
      /\ \/ task' = "flushing" /\ ~jobs'["main"].fin /\ task = "running"
         \/ jobs'["main"] = Idle /\ task = "flushing" /\ task' = "running"
         \/ /\ task = "last" /\ task' = "finalizing" /\ jobs'["main"].todo = <<>>
            /\ jobs'["main"] # Idle
         \/ jobs["main"] = Idle /\ jobs'["main"] = Idle /\ task = "finalizing" /\ task' = "done"
         \/ jobs["main"] # Idle /\ jobs'["main"] = Idle /\ task = "finalizing" /\ task' = task
  <2>1. \A job : /\ [jobs EXCEPT !["main"] = job]["main"] = job
                 /\ [jobs EXCEPT !["main"] = job]["rescue"] = Idle
    BY <1>2 DEF Threads
  <2>2. /\ [todo |-> <<>>, fin |-> TRUE] # Idle
        /\ [todo |-> <<>>, fin |-> TRUE].todo = <<>>
        /\ ~[todo |-> pending, fin |-> FALSE].fin
    BY DEF Idle
  <2>3. jobs'["rescue"] = Idle
    <3>1. jobs' = jobs \/ \E job : jobs' = [jobs EXCEPT !["main"] = job]
      BY <1>3, Zenon
    <3> QED BY <1>2, <2>1, <3>1
  <2>4. \/ /\ task = "running" /\ task' = "flushing"
           /\ jobs'["main"] = [todo |-> pending, fin |-> FALSE]
        \/ jobs["main"] = Idle /\ jobs'["main"] = Idle /\ task = "flushing" /\ task' = "running"
        \/ /\ jobs["main"] = Idle /\ task = "last" /\ task' = "finalizing"
           /\ jobs'["main"] = [todo |-> <<>>, fin |-> TRUE]
        \/ jobs["main"] = Idle /\ jobs'["main"] = Idle /\ task = "finalizing" /\ task' = "done"
        \/ /\ jobs["main"] = [todo |-> <<>>, fin |-> TRUE] /\ task = "finalizing"
           /\ task' = task /\ jobs'["main"] = Idle
    <3> DEFINE put(job) == [jobs EXCEPT !["main"] = job]
    <3>1. \A job : put(job)["main"] = job
      BY <2>1
    <3>2. \/ /\ task = "running" /\ task' = "flushing"
             /\ jobs' = put([todo |-> pending, fin |-> FALSE])
          \/ jobs["main"] = Idle /\ jobs' = jobs /\ task = "flushing" /\ task' = "running"
          \/ /\ jobs["main"] = Idle /\ task = "last" /\ task' = "finalizing"
             /\ jobs' = put([todo |-> <<>>, fin |-> TRUE])
          \/ jobs["main"] = Idle /\ jobs' = jobs /\ task = "finalizing" /\ task' = "done"
          \/ /\ jobs["main"] = [todo |-> <<>>, fin |-> TRUE] /\ task = "finalizing"
             /\ task' = task /\ jobs' = put(Idle)
      BY <1>3, Zenon
    <3> HIDE DEF put
    <3> QED BY <3>1, <3>2, Zenon
  <2> QED BY <2>2, <2>3, <2>4
<1>10. TaskInv'
  <2>1. Idle.todo = <<>>
    BY DEF Idle
  <2> QED BY <1>7, <2>1 DEF TaskInv
<1>8. FileInv'
  <2>1. /\ cur_key' = cur_key /\ files' = files /\ sealed \subseteq sealed'
        /\ cur_key = 0 \/ files[cur_key] # <<>>
        /\ \A h \in Hours : files[h] # <<>> => h <= cur_key /\ (h # cur_key => h \in sealed)
    BY <1>1, <1>3 DEF OrderlyInv, FileInv, parquetVars
  <2>2. IF task' = "done" \/ (task' = "finalizing" /\ jobs'["main"] = Idle)
        THEN cur_key # 0 => cur_key \in sealed'
        ELSE writer' = cur_key
    <3>1. \/ writer' = writer /\ sealed' = sealed
          \/ /\ task = "finalizing" /\ task' = task /\ jobs'["main"] = Idle /\ jobs["main"] # Idle
             /\ sealed' = IF writer = 0 THEN sealed ELSE sealed \cup {writer}
      BY <1>3, <1>7 DEF parquetVars
    <3>2. IF task = "done" \/ (task = "finalizing" /\ jobs["main"] = Idle)
          THEN cur_key # 0 => cur_key \in sealed
          ELSE writer = cur_key
      BY DEF OrderlyInv, FileInv
    <3>3. cur_key' = cur_key
      BY <2>1
    <3>4. CASE task' = "done" \/ (task' = "finalizing" /\ jobs'["main"] = Idle)
      <4>1. task = "finalizing"
        BY <1>7, <3>4
      <4>2. CASE jobs["main"] = Idle
        BY <1>7, <3>1, <3>2, <3>4, <4>1, <4>2, <3>3
      <4>3. CASE jobs["main"] # Idle
        <5>1. writer = cur_key /\ task' = task
          BY <1>7, <3>2, <3>4, <4>1, <4>3
        <5>2. sealed' = IF writer = 0 THEN sealed ELSE sealed \cup {writer}
          BY <1>3, <4>1, <4>3, <5>1
        <5>3. writer # 0 => writer \in sealed'
          BY <5>2
        <5> QED BY <3>3, <3>4, <5>1, <5>3
      <4> QED BY <4>2, <4>3
    <3>5. CASE ~ (task' = "done" \/ (task' = "finalizing" /\ jobs'["main"] = Idle))
      <4>1. writer' = writer
        BY <3>1, <3>5
      <4>2. ~ (task = "done" \/ (task = "finalizing" /\ jobs["main"] = Idle))
        BY <1>7, <3>5
      <4> QED BY <3>2, <3>3, <3>5, <4>1, <4>2
    <3> QED BY <3>4, <3>5
  <2> QED BY <2>1, <2>2 DEF FileInv
<1>9. SentinelInv'
  <2>1. /\ before' = before /\ closing' = closing /\ submitted' = submitted
        /\ task' \in {"running", "flushing"} <=> task \in {"running", "flushing"}
    BY <1>1, <1>3 DEF closeVars, queueVars
  <2>2. DOMAIN q' = DOMAIN q /\ \A p \in DOMAIN q : SentinelAt(p) => SentinelAt(p)'
    BY <1>1, <2>1 DEF SentinelAt, queueVars
  <2> QED BY <1>5, <2>1, <2>2 DEF OrderlyInv, SentinelInv
<1> QED BY <1>6, <1>8, <1>9, <1>10 DEF OrderlyInv

\* A run of rows of one hour is written: every row in the files is older.
LEMMA WriteStep ==
    ASSUME CaptureTypeInv, Orderly, OrderlyInv, Orderly', NEW t \in Threads,
           ThreadWrites(t) \/ ThreadRaises(t)
    PROVE  OrderlyInv'
<1> DEFINE todo == jobs["main"].todo
<1>1. /\ jobs["rescue"] = Idle /\ jobs \in [Threads -> Jobs]
      /\ task \in {"running", "flushing", "last", "finalizing", "done"}
      /\ task \in {"running", "done"} => jobs["main"] = Idle
      /\ task = "finalizing" => todo = <<>>
      /\ todo \in Seq(CapturedRows) /\ Idle.todo = <<>>
  BY DEF OrderlyInv, TaskInv, CaptureTypeInv, CaptureTypeOK, Orderly, Jobs, Threads, Idle
<1>2. PICK n \in DOMAIN todo :
         /\ HourRun(todo, n) /\ WriteRun(hour_of[todo[1]], SubSeq(todo, 1, n))
         /\ jobs' = [jobs EXCEPT !["main"].todo = SubSeq(todo, n + 1, Len(todo))]
         /\ UNCHANGED <<clockVars, queueVars, task, pending, closeVars>>
  <2>1. jobs[t].todo # <<>>
    BY DEF ThreadWrites, ThreadRaises
  <2>2. t = "main" /\ task \in {"flushing", "last"}
    BY <1>1, <2>1 DEF Threads
  <2>3. ~ ThreadRaises(t)
    BY <2>2 DEF ThreadRaises, Orderly
  <2> QED BY <2>2, <2>3 DEF ThreadWrites
<1> HIDE DEF todo
<1> DEFINE h == hour_of[todo[1]]
           piece == SubSeq(todo, 1, n)
           rest == SubSeq(todo, n + 1, Len(todo))
<1>3. /\ todo # <<>> /\ 1 \in DOMAIN todo /\ 1 \in 1 .. n /\ n \in Nat /\ Len(todo) \in Nat
      /\ DOMAIN todo = 1 .. Len(todo) /\ task \in {"flushing", "last"} /\ Batch = todo
  <2>1. /\ todo # <<>> /\ 1 \in DOMAIN todo /\ 1 \in 1 .. n /\ n \in Nat /\ Len(todo) \in Nat
        /\ DOMAIN todo = 1 .. Len(todo)
    BY <1>1, <1>2
  <2>2. task \in {"flushing", "last"}
    BY <1>1, <2>1 DEF todo
  <2> QED BY <2>1, <2>2 DEF Batch, todo
<1>4. /\ piece \in Seq(CapturedRows) /\ rest \in Seq(CapturedRows)
      /\ Len(piece) = n /\ Len(rest) = Len(todo) - n
      /\ \A i \in 1 .. n : piece[i] = todo[i]
      /\ \A i \in 1 .. Len(todo) - n : rest[i] = todo[n + i]
      /\ RowsIn(todo) = RowsIn(piece) \cup RowsIn(rest)
  <2>1. todo \in Seq(CapturedRows) /\ n \in DOMAIN todo
    BY <1>1, <1>2
  <2> QED BY <2>1, SplitParts, Zenon
<1>5. HourRun(todo, n) /\ WriteRun(h, piece) /\ jobs' = [jobs EXCEPT !["main"].todo = rest]
      /\ UNCHANGED <<clockVars, queueVars, task, pending, closeVars>>
  BY <1>2
<1> HIDE DEF piece, rest
<1>6. DOMAIN piece = 1 .. n /\ DOMAIN rest = 1 .. Len(todo) - n
  BY <1>3, <1>4
<1>7. Batch' = rest /\ jobs'["rescue"] = Idle /\ jobs'["main"].fin = jobs["main"].fin
  BY <1>1, <1>3, <1>5 DEF Batch, Threads, Jobs
<1>8. \A i \in 1 .. Len(todo) - n : n + i \in DOMAIN todo /\ n < n + i
  BY <1>3
<1>9. /\ Ascends(piece) /\ Ascends(rest)
      /\ \A m \in RowsIn(piece) : hour_of[m] = h /\ \A r \in RowsIn(rest) : m < r
  <2>1. Ascends(todo)
    BY <1>3 DEF OrderlyInv, InOrder
  <2>2. Ascends(piece)
    <3>1. \A i \in 1 .. n : i \in DOMAIN todo
      BY <1>2, <1>3
    <3> QED BY <1>4, <1>6, <2>1, <3>1 DEF Ascends
  <2>3. Ascends(rest)
    <3>1. ASSUME NEW i \in DOMAIN rest, NEW j \in DOMAIN rest, i < j
          PROVE  rest[i] < rest[j]
      <4>1. n + i \in DOMAIN todo /\ n + j \in DOMAIN todo /\ n + i < n + j
        BY <1>3, <1>6, <1>8, <3>1
      <4> QED BY <1>4, <1>6, <2>1, <4>1 DEF Ascends
    <3> QED BY <3>1 DEF Ascends
  <2>4. ASSUME NEW i \in 1 .. n, NEW j \in 1 .. Len(todo) - n
        PROVE  piece[i] < rest[j]
    <3>1. i \in DOMAIN todo /\ n + j \in DOMAIN todo /\ i < n + j
      BY <1>2, <1>3, <1>8
    <3> QED BY <1>4, <2>1, <3>1 DEF Ascends
  <2>5. \A i \in 1 .. n : hour_of[piece[i]] = h
    BY <1>4, <1>5 DEF HourRun
  <2> QED BY <1>6, <2>2, <2>3, <2>4, <2>5 DEF RowsIn
<1>10. /\ todo[1] \in RowsIn(piece) /\ piece # <<>> /\ h \in Hours /\ h \in Nat \ {0}
       /\ RowsIn(todo) \subseteq 1 .. submitted
  <2>1. todo[1] \in RowsIn(piece) /\ piece # <<>>
    BY <1>3, <1>4, <1>6 DEF RowsIn
  <2>2. RowsIn(todo) \subseteq 1 .. submitted
    BY <1>3 DEF OrderlyInv, RowsInv
  <2>3. todo[1] \in CapturedRows
    BY <1>4, <2>1, <2>2, RowTypes
  <2>4. h \in Hours
    BY <2>3 DEF CaptureTypeInv, CaptureTypeOK
  <2> QED BY <2>1, <2>2, <2>4, RowTypes
<1>11. ASSUME NEW g \in Hours, files[g] # <<>> PROVE g <= h
  <2>1. files[g] \in Seq(CapturedRows)
    BY RowTypes
  <2>2. 1 \in DOMAIN files[g]
    BY <1>11, <2>1
  <2>3. PICK m : m \in RowsIn(files[g])
    BY <2>2 DEF RowsIn
  <2>4. m \in Written /\ hour_of[m] = g
    BY <2>3 DEF Written, OrderlyInv, InOrder
  <2>5. m < todo[1] /\ m \in 1 .. submitted /\ todo[1] \in 1 .. submitted
    BY <1>3, <1>4, <1>10, <2>4 DEF OrderlyInv, RowsInv
  <2> QED BY <2>4, <2>5 DEF OrderlyInv, HoursRise
<1> HIDE DEF h
<1>12. /\ cur_key \in Nat /\ writer = cur_key /\ cur_key \in Hours \cup {0}
       /\ cur_key # 0 => cur_key \in Hours /\ cur_key <= h
  <2>1. writer = cur_key /\ (cur_key = 0 \/ files[cur_key] # <<>>)
    BY <1>3 DEF OrderlyInv, FileInv
  <2>2. cur_key \in Hours \cup {0}
    BY DEF CaptureTypeInv, CaptureTypeOK
  <2> QED BY <1>11, <2>1, <2>2, RowTypes
<1>13. h # cur_key => files[h] = <<>>
  <2>1. ASSUME h # cur_key, files[h] # <<>> PROVE FALSE
    <3>1. h <= cur_key
      BY <1>10, <2>1 DEF OrderlyInv, FileInv
    <3> QED BY <1>10, <1>12, <2>1, <3>1
  <2> QED BY <2>1
<1>14. /\ files \in [Hours -> Seq(CapturedRows)]
       /\ \A n1 \in Written : \A m \in RowsIn(piece) : n1 < m
  BY <1>3, <1>4 DEF OrderlyInv, RowsInv, CaptureTypeInv, CaptureTypeOK
<1>15. \A g \in Hours : g # h => files'[g] = files[g]
  BY <1>5, <1>14 DEF WriteRun
<1>16. /\ Ascends(files'[h]) /\ RowsIn(files'[h]) = RowsIn(files[h]) \cup RowsIn(piece)
       /\ files'[h] # <<>>
  <2>1. CASE h = cur_key
    <3>1. files'[h] = files[h] \o piece
      BY <1>5, <1>10, <1>14, <2>1 DEF WriteRun
    <3> DEFINE s == files[h]
    <3>2. s \in Seq(CapturedRows) /\ piece \in Seq(CapturedRows)
      BY <1>4, <1>10, <1>14
    <3> HIDE DEF s
    <3>3. /\ s \o piece \in Seq(CapturedRows) /\ Len(s \o piece) = Len(s) + Len(piece)
          /\ \A i \in 1 .. Len(s) : (s \o piece)[i] = s[i]
          /\ \A i \in 1 .. Len(piece) : (s \o piece)[Len(s) + i] = piece[i]
          /\ RowsIn(s \o piece) = RowsIn(s) \cup RowsIn(piece)
      BY <3>2, ConcatParts
    <3>4. Len(s) \in Nat /\ DOMAIN s = 1 .. Len(s) /\ DOMAIN (s \o piece) = 1 .. Len(s) + n
      BY <1>4, <3>2, <3>3
    <3>5. Ascends(s) /\ \A i \in 1 .. Len(s) : \A j \in 1 .. n : s[i] < piece[j]
      <4>1. Ascends(s)
        BY <1>10 DEF OrderlyInv, InOrder, s
      <4>2. \A i \in 1 .. Len(s) : s[i] \in Written
        BY <1>10, <3>4 DEF Written, RowsIn, s
      <4>3. \A j \in 1 .. n : piece[j] \in RowsIn(piece)
        BY <1>6 DEF RowsIn
      <4> QED BY <1>14, <4>1, <4>2, <4>3
    <3>6. ASSUME NEW i \in 1 .. Len(s) + n, NEW j \in 1 .. Len(s) + n, i < j
          PROVE  (s \o piece)[i] < (s \o piece)[j]
      <4>0. i \in Int /\ j \in Int /\ Len(s) \in Int
        BY <1>3, <3>4
      <4>1. CASE j <= Len(s)
        BY <3>3, <3>4, <3>5, <3>6, <4>0, <4>1 DEF Ascends
      <4>2. CASE i > Len(s)
        <5>1. /\ i - Len(s) \in 1 .. n /\ j - Len(s) \in 1 .. n /\ i - Len(s) < j - Len(s)
              /\ Len(s) + (i - Len(s)) = i /\ Len(s) + (j - Len(s)) = j
          BY <1>3, <3>4, <3>6, <4>2
        <5>2. (s \o piece)[i] = piece[i - Len(s)] /\ (s \o piece)[j] = piece[j - Len(s)]
          BY <1>4, <3>3, <5>1
        <5> QED BY <1>6, <1>9, <5>1, <5>2 DEF Ascends
      <4>3. CASE ~ (i > Len(s)) /\ ~ (j <= Len(s))
        <5>1. j - Len(s) \in 1 .. n /\ Len(s) + (j - Len(s)) = j /\ i \in 1 .. Len(s)
          BY <1>3, <3>4, <3>6, <4>0, <4>3
        <5>2. (s \o piece)[i] = s[i] /\ (s \o piece)[j] = piece[j - Len(s)]
          BY <1>4, <3>3, <5>1
        <5> QED BY <3>5, <5>1, <5>2
      <4> QED BY <4>1, <4>2, <4>3
    <3>7. s \o piece # <<>>
      BY <1>3, <3>4
    <3> QED BY <3>1, <3>3, <3>4, <3>6, <3>7 DEF Ascends, s
  <2>2. CASE h # cur_key
    <3>1. files'[h] = piece
      BY <1>5, <1>10, <1>14, <2>2 DEF WriteRun
    <3>2. RowsIn(files[h]) = {}
      BY <1>13, <2>2 DEF RowsIn
    <3> QED BY <1>9, <1>10, <3>1, <3>2
  <2> QED BY <2>1, <2>2
<1>17. Written' = Written \cup RowsIn(piece)
  <2>1. \A g \in Hours : g # h => RowsIn(files'[g]) = RowsIn(files[g])
    BY <1>15
  <2>2. Written' = UNION {RowsIn(files'[g]) : g \in Hours}
    BY DEF Written, RowsIn
  <2> QED BY <1>10, <1>16, <2>1, <2>2 DEF Written
<1>18. /\ RowsIn(Batch)' = RowsIn(rest) /\ Queued' = Queued /\ RowsIn(q)' = RowsIn(q)
       /\ submitted' = submitted /\ dropped' = dropped /\ hour_of' = hour_of /\ q' = q
       /\ task' = task /\ before' = before /\ closing' = closing /\ hour' = hour
  BY <1>5, <1>7 DEF RowsIn, Queued, queueVars, closeVars, clockVars
<1>19. TaskInv'
  BY <1>1, <1>3, <1>7, <1>18 DEF OrderlyInv, TaskInv
<1>20. HoursRise'
  BY <1>18 DEF OrderlyInv, HoursRise
<1>21. InOrder'
  <2>1. ASSUME NEW g \in Hours
        PROVE  Ascends(files'[g]) /\ \A m \in RowsIn(files'[g]) : hour_of[m] = g
    <3>1. CASE g = h
      BY <1>9, <1>16, <3>1 DEF OrderlyInv, InOrder
    <3>2. CASE g # h
      BY <1>15, <3>2 DEF OrderlyInv, InOrder
    <3> QED BY <3>1, <3>2
  <2>2. \A g \in Hours : Ascends(files[g])' /\ \A m \in RowsIn(files[g])' : hour_of'[m] = g
    BY <1>18, <2>1 DEF Ascends, RowsIn
  <2>3. Ascends(Batch)'
    BY <1>7, <1>9 DEF Ascends
  <2> QED BY <1>18, <2>2, <2>3 DEF OrderlyInv, InOrder
<1>22. RowsInv'
  <2>1. /\ Written \cup RowsIn(todo) \cup Queued = (1 .. submitted) \ dropped
        /\ dropped \subseteq 1 .. submitted
        /\ \A m \in Written : \A r \in RowsIn(todo) \cup Queued : m < r
        /\ \A m \in RowsIn(todo) : \A r \in Queued : m < r
    BY <1>3 DEF OrderlyInv, RowsInv
  <2> QED BY <1>4, <1>9, <1>17, <1>18, <2>1 DEF RowsInv
<1>23. FileInv'
  <2>1. /\ cur_key' = h /\ writer' = h
        /\ sealed' = IF h = cur_key THEN sealed
                     ELSE (IF writer = 0 THEN sealed ELSE sealed \cup {writer}) \ {h}
    BY <1>5, <1>12 DEF WriteRun
  <2>2. ASSUME NEW g \in Hours, files'[g] # <<>>
        PROVE  g <= h /\ (g # h => g \in sealed')
    <3>1. CASE g = h
      BY <1>10, <3>1
    <3>2. CASE g # h
      <4>1. files[g] # <<>>
        BY <1>15, <2>2, <3>2
      <4>2. g # cur_key => g \in sealed
        BY <4>1 DEF OrderlyInv, FileInv
      <4>3. g \in Nat \ {0}
        BY RowTypes
      <4> QED BY <1>11, <1>12, <2>1, <3>2, <4>1, <4>2, <4>3
    <3> QED BY <3>1, <3>2
  <2> QED BY <1>3, <1>10, <1>16, <1>18, <2>1, <2>2 DEF FileInv
<1>24. SentinelInv'
  <2>1. (Written \cup RowsIn(Batch))' = Written \cup RowsIn(Batch)
    BY <1>3, <1>4, <1>17, <1>18
  <2>2. \A p \in DOMAIN q : SentinelAt(p) => SentinelAt(p)'
    BY <1>18 DEF SentinelAt
  <2> QED BY <1>18, <2>1, <2>2 DEF OrderlyInv, SentinelInv
<1> QED BY <1>19, <1>20, <1>21, <1>22, <1>23, <1>24 DEF OrderlyInv

LEMMA CaptureInvariant == CaptureSpec => []CaptureInv
<1>1. CaptureInit => CaptureInv
  BY CaptureInvInit
<1>2. CaptureInv /\ [CaptureNext]_captureVars => CaptureInv'
  <2>1. ASSUME CaptureInv, CaptureNext PROVE CaptureInv'
    <3>1. CaptureTypeInv /\ CaptureTypeInv'
      BY <2>1, OutsideTypes, WriterTypes, ThreadTypes DEF CaptureInv, CaptureNext
    <3>2. ASSUME Orderly' PROVE OrderlyInv'
      <4>1. Orderly /\ OrderlyInv
        BY <2>1, <3>2, StaysOrderly DEF CaptureInv
      <4>2. CASE \/ HourTurns \/ ClockStepsBack \/ CloseBegins \/ CloseEnded \/ GiveUp
                 \/ RescueEnds
        BY <3>1, <3>2, <4>1, <4>2, OutsideStep
      <4>3. CASE Submit \/ PutClose
        BY <3>1, <4>1, <4>3, SubmitStep, PutStep
      <4>4. CASE TakeRow \/ TakeClose
        BY <3>1, <4>1, <4>4, TakeRowStep, TakeCloseStep
      <4>5. CASE FlushTimer \/ ThreadReturns \/ (\E t \in Threads : ThreadFinalizes(t))
        BY <3>1, <4>1, <4>5, BatchStep
      <4>6. CASE \E t \in Threads : ThreadWrites(t) \/ ThreadRaises(t)
        BY <3>1, <3>2, <4>1, <4>6, WriteStep
      <4> QED BY <2>1, <4>2, <4>3, <4>4, <4>5, <4>6 DEF CaptureNext
    <3> QED BY <3>1, <3>2 DEF CaptureInv
  <2>2. ASSUME CaptureInv, UNCHANGED captureVars PROVE CaptureInv'
    <3> USE DEF captureVars, clockVars, queueVars, taskVars, parquetVars, closeVars
    <3>1. CaptureTypeInv' = CaptureTypeInv /\ Orderly' = Orderly
      BY <2>2 DEF CaptureTypeInv, CaptureTypeOK, TaskRoom, Orderly
    <3>2. /\ Written' = Written /\ Batch' = Batch /\ RowsIn(Batch)' = RowsIn(Batch)
          /\ Queued' = Queued /\ RowsIn(q)' = RowsIn(q)
      BY <2>2 DEF Written, Batch, Queued, RowsIn
    <3>3. TaskInv' = TaskInv /\ HoursRise' = HoursRise /\ RowsInv' = RowsInv /\ FileInv' = FileInv
      BY <2>2, <3>2 DEF TaskInv, HoursRise, RowsInv, FileInv
    <3>4. InOrder' = InOrder
      BY <2>2, <3>2 DEF InOrder, Ascends, RowsIn
    <3>5. SentinelInv' = SentinelInv
      BY <2>2, <3>2 DEF SentinelInv, SentinelAt
    <3> QED BY <2>2, <3>1, <3>3, <3>4, <3>5 DEF CaptureInv, OrderlyInv
  <2> QED BY <2>1, <2>2
<1> QED BY <1>1, <1>2, PTL DEF CaptureSpec

\* The captured rows, the batch, the threads' work and the files are always of their types,
\* and the task that waits for rows has room in its batch.
THEOREM CaptureTypesHold == CaptureSpec => []CaptureTypeOK
<1>1. CaptureInv => CaptureTypeOK
  BY DEF CaptureInv, CaptureTypeInv
<1> QED BY <1>1, CaptureInvariant, PTL

\* After a close() that neither gave up nor failed, every hour's file has exactly the rows
\* submitted before the sentinel and not dropped, in their order, and is finished.
THEOREM CleanClosesAreComplete == CaptureSpec => []CleanCloseIsComplete
<1>1. ASSUME CaptureInv, task = "done", ~stepped, NEW h \in Hours
      PROVE  /\ RowsIn(files[h]) = RowsOf(h)
             /\ \A i, j \in DOMAIN files[h] : i < j => files[h][i] < files[h][j]
             /\ RowsOf(h) # {} => h \in sealed
  <2>1. OrderlyInv /\ CaptureTypeInv
    BY <1>1 DEF CaptureInv, Orderly
  <2>2. RowsIn(Batch) = {}
    BY <1>1, <2>1 DEF OrderlyInv, TaskInv, Batch, Idle, RowsIn
  <2>3. /\ Written \cup Queued = (1 .. submitted) \ dropped
        /\ \A n \in Written : n <= before
        /\ \A n \in Queued : n > before
        /\ before <= submitted /\ before \in Nat /\ submitted \in Nat
    BY <1>1, <2>1, <2>2, RowTypes DEF OrderlyInv, RowsInv, SentinelInv, Queued
  <2>4. ASSUME NEW n \in RowsIn(files[h]) PROVE n \in RowsOf(h)
    <3>1. n \in Written /\ hour_of[n] = h
      BY <2>1, <2>4 DEF Written, OrderlyInv, InOrder
    <3>2. n \in 1 .. submitted /\ n \notin dropped /\ n <= before
      BY <2>3, <3>1
    <3> QED BY <2>3, <3>1, <3>2 DEF RowsOf
  <2>5. ASSUME NEW n \in RowsOf(h) PROVE n \in RowsIn(files[h])
    <3>1. n \in 1 .. before /\ hour_of[n] = h /\ n \notin dropped
      BY <2>5 DEF RowsOf
    <3>2. n \in Written
      BY <2>3, <3>1
    <3>3. PICK g \in Hours : n \in RowsIn(files[g])
      BY <3>2 DEF Written
    <3>4. g = h
      BY <2>1, <3>1, <3>3 DEF OrderlyInv, InOrder
    <3> QED BY <3>3, <3>4
  <2>6. \A i, j \in DOMAIN files[h] : i < j => files[h][i] < files[h][j]
    BY <2>1 DEF OrderlyInv, InOrder, Ascends
  <2>7. ASSUME RowsOf(h) # {} PROVE h \in sealed
    <3>1. files[h] # <<>>
      BY <2>5, <2>7 DEF RowsIn
    <3> QED BY <1>1, <2>1, <3>1, RowTypes DEF OrderlyInv, FileInv
  <2> QED BY <2>4, <2>5, <2>6, <2>7
<1>2. CaptureInv => CleanCloseIsComplete
  BY <1>1 DEF CleanCloseIsComplete
<1> QED BY <1>2, CaptureInvariant, PTL

-----------------------------------------------------------------------------
(* The recorder, the capture writer and the engine side by side.            *)

\* A behaviour of the three parts is a behaviour of each: what is proved of a part by itself
\* holds where they are checked together.
THEOREM DataHasItsParts == DataSpec => RecorderSpec /\ CaptureSpec /\ BacktestSpec
<1>1. DataInit => RecorderInit /\ CaptureInit /\ BacktestInit
  BY DEF DataInit
<1>2. [DataNext]_dataVars => /\ [RecorderNext]_recorderVars
                             /\ [CaptureNext]_captureVars
                             /\ [BacktestNext]_backtestVars
  BY DEF DataNext, dataVars
<1> QED BY <1>1, <1>2, PTL DEF DataSpec, RecorderSpec, CaptureSpec, BacktestSpec

\* Every variable of the recorder, the capture writer and the engine keeps its type.
THEOREM DataTypesHold == DataSpec => []DataTypeOK
<1>1. RecorderInv /\ CaptureInv /\ BooksInv => DataTypeOK
  BY DEF RecorderInv, CaptureInv, CaptureTypeInv, BooksInv, DataTypeOK
<1> QED BY <1>1, DataHasItsParts, RecorderInvariant, CaptureInvariant, BooksAlways, PTL

\* Every invariant proved of one of them holds of the three, and the recorder is a log with
\* a replica in their midst too.
THEOREM DataIsSafe ==
    DataSpec =>
        /\ [](/\ CursorBehindRemote /\ FiredIsRecorded /\ CleanCloseIsComplete
              /\ BooksBalance /\ CapWithoutRejects)
        /\ ImplementsReplicatedLog
BY DataHasItsParts, CursorIsSafe, TradesAreWhole, CleanClosesAreComplete, BooksAreBalanced,
   CapIsKept, LogImplemented, PTL

=============================================================================
