------------------------------- MODULE Capture -------------------------------
(***************************************************************************)
(* The capture writer (core/capture.py RotatingParquetWriter) and the      *)
(* strategy that feeds it: rows go into a bounded queue, a task gathers    *)
(* them into batches and worker threads write each batch, one run of equal *)
(* hours at a time, into one Parquet file per hour.                        *)
(*                                                                         *)
(* Row n is the n-th row submitted; only its hour is kept.                 *)
(***************************************************************************)
EXTENDS Integers, Sequences

CONSTANTS
    QueueMax,       \* queue_max
    BatchSize,      \* batch_size
    \* Bounds of the model:
    NRows,          \* rows submitted
    NHours          \* hours the clock goes through

ASSUME CaptureAssumption ==
    /\ QueueMax \in Nat \ {0} /\ BatchSize \in Nat \ {0}
    /\ NRows \in Nat /\ NHours \in Nat \ {0}

SentClose == 0                  \* _CLOSE
CapturedRows == 1 .. NRows
Hours == 1 .. NHours
Threads == {"main", "rescue"}
Jobs == [todo : Seq(CapturedRows), fin : BOOLEAN]

VARIABLES
    disk,        \* "fast", "slow" (anything may take longer than a timeout), "failing"
    hour,        \* the wall clock
    stepped,     \* it has been stepped back over an hour
    \* the producer
    submitted,   \* rows submitted so far
    hour_of,     \* [CapturedRows -> Hours]
    dropped,     \* rows submit() dropped and counted
    q,
    \* the writer task
    task,        \* "running" waits for the queue; "flushing", "last" and "finalizing"
                 \* wait for a thread; "rescue" handles the cancellation; "done",
                 \* "failed", "cancelled"
    pending,     \* the batch
    jobs,        \* [Threads -> what the thread still has to do]
    \* the files
    writer,      \* hour of the open file, or 0
    cur_key,     \* hour of the file opened last, or 0
    files,       \* [Hours -> the rows in the file]
    sealed,      \* hours whose file is closed and readable
    \* close()
    closing,     \* "no", "putting", "waiting", "gaveup", "closed", "raised"
    before       \* rows submitted when the sentinel went in

clockVars == <<disk, hour, stepped>>
queueVars == <<submitted, hour_of, dropped, q>>
taskVars == <<task, pending, jobs>>
parquetVars == <<writer, cur_key, files, sealed>>
closeVars == <<closing, before>>
captureVars == <<clockVars, queueVars, taskVars, parquetVars, closeVars>>

Idle == [todo |-> <<>>, fin |-> FALSE]
Ended == {"done", "failed", "cancelled"}

CaptureTypeOK ==
    /\ disk \in {"fast", "slow", "failing"}
    /\ hour \in Hours
    /\ stepped \in BOOLEAN
    /\ submitted \in 0 .. NRows
    /\ hour_of \in [CapturedRows -> Hours]
    /\ dropped \subseteq CapturedRows
    /\ q \in Seq(CapturedRows \cup {SentClose}) /\ Len(q) <= QueueMax
    /\ task \in {"running", "flushing", "last", "finalizing", "rescue"} \cup Ended
    /\ pending \in Seq(CapturedRows) /\ Len(pending) <= BatchSize
    /\ jobs \in [Threads -> Jobs]
    /\ writer \in Hours \cup {0}
    /\ cur_key \in Hours \cup {0}
    /\ files \in [Hours -> Seq(CapturedRows)]
    /\ sealed \subseteq Hours
    /\ closing \in {"no", "putting", "waiting", "gaveup", "closed", "raised"}
    /\ before \in 0 .. NRows

CaptureInit ==
    /\ disk \in {"fast", "slow", "failing"}
    /\ hour = 1 /\ stepped = FALSE
    /\ submitted = 0 /\ hour_of = [n \in CapturedRows |-> 1] /\ dropped = {} /\ q = <<>>
    /\ task = "running" /\ pending = <<>> /\ jobs = [t \in Threads |-> Idle]
    /\ writer = 0 /\ cur_key = 0 /\ files = [h \in Hours |-> <<>>] /\ sealed = {}
    /\ closing = "no" /\ before = 0

-----------------------------------------------------------------------------
(* The clock and the producer.                                             *)

HourTurns ==
    /\ hour < NHours
    /\ hour' = hour + 1
    /\ UNCHANGED <<disk, stepped, queueVars, taskVars, parquetVars, closeVars>>

ClockStepsBack ==
    /\ ~stepped /\ hour > 1
    /\ hour' = hour - 1
    /\ stepped' = TRUE
    /\ UNCHANGED <<disk, queueVars, taskVars, parquetVars, closeVars>>

\* submit(): a full queue drops and counts the row.  The books stay subscribed, so rows
\* are submitted while the writer closes and after.
Submit ==
    /\ submitted < NRows
    /\ submitted' = submitted + 1
    /\ hour_of' = [hour_of EXCEPT ![submitted'] = hour]
    /\ IF Len(q) < QueueMax
       THEN q' = Append(q, submitted') /\ UNCHANGED dropped
       ELSE dropped' = dropped \cup {submitted'} /\ UNCHANGED q
    /\ UNCHANGED <<clockVars, taskVars, parquetVars, closeVars>>

-----------------------------------------------------------------------------
(* The writer task.                                                        *)

\* _flush_async: a thread gets the batch, which the task keeps until the thread is done.
Flush(batch, next) ==
    /\ task' = next
    /\ pending' = batch
    /\ jobs' = [jobs EXCEPT !["main"] = [todo |-> batch, fin |-> FALSE]]

TakeRow ==
    /\ task = "running"
    /\ q # <<>> /\ Head(q) # SentClose
    /\ q' = Tail(q)
    /\ LET batch == Append(pending, Head(q))
       IN  IF Len(batch) >= BatchSize
           THEN Flush(batch, "flushing")
           ELSE pending' = batch /\ UNCHANGED <<task, jobs>>
    /\ UNCHANGED <<clockVars, submitted, hour_of, dropped, parquetVars, closeVars>>

\* flush_interval_s is over.
FlushTimer ==
    /\ task = "running"
    /\ pending # <<>>
    /\ Flush(pending, "flushing")
    /\ UNCHANGED <<clockVars, queueVars, parquetVars, closeVars>>

Finalizing == jobs' = [jobs EXCEPT !["main"] = [todo |-> <<>>, fin |-> TRUE]]

\* Closes the file without the last batch.
MutTakeClose ==
    /\ task = "running"
    /\ q # <<>> /\ Head(q) = SentClose
    /\ q' = Tail(q)
    /\ task' = "finalizing" /\ Finalizing /\ UNCHANGED pending
    /\ UNCHANGED <<clockVars, submitted, hour_of, dropped, parquetVars, closeVars>>

\* _CLOSE: the last batch, then the open file.
TakeClose ==
    /\ task = "running"
    /\ q # <<>> /\ Head(q) = SentClose
    /\ q' = Tail(q)
    /\ IF pending = <<>>
       THEN task' = "finalizing" /\ Finalizing /\ UNCHANGED pending
       ELSE Flush(pending, "last")
    /\ UNCHANGED <<clockVars, submitted, hour_of, dropped, parquetVars, closeVars>>

\* The thread is done and the task goes on; the last batch is not emptied.
ThreadReturns ==
    /\ jobs["main"] = Idle
    /\ CASE task = "flushing" -> task' = "running" /\ pending' = <<>> /\ UNCHANGED jobs
         [] task = "last" -> task' = "finalizing" /\ Finalizing /\ UNCHANGED pending
         [] task = "finalizing" -> task' = "done" /\ UNCHANGED <<pending, jobs>>
         [] OTHER -> FALSE
    /\ UNCHANGED <<clockVars, queueVars, parquetVars, closeVars>>

-----------------------------------------------------------------------------
(* The threads.                                                            *)

\* The batch starts with a run of n rows of equal hours.
HourRun(todo, n) ==
    /\ \A i \in 1 .. n : hour_of[todo[i]] = hour_of[todo[1]]
    /\ n < Len(todo) => hour_of[todo[n + 1]] # hour_of[todo[1]]

\* _write_run: a new hour closes the open file and creates its own, over one there is.
WriteRun(h, rows) ==
    IF h = cur_key
    THEN /\ files' = [files EXCEPT ![h] = @ \o rows]
         /\ UNCHANGED <<writer, cur_key, sealed>>
    ELSE /\ sealed' = (IF writer = 0 THEN sealed ELSE sealed \cup {writer}) \ {h}
         /\ writer' = h
         /\ cur_key' = h
         /\ files' = [files EXCEPT ![h] = rows]

\* The file a thread needs has been closed under it: the assertion in _write_run.
Underfoot(thread) ==
    jobs[thread].todo # <<>> /\ hour_of[jobs[thread].todo[1]] = cur_key /\ writer = 0

ThreadWrites(thread) ==
    LET todo == jobs[thread].todo
    IN  /\ ~Underfoot(thread)
        /\ \E n \in DOMAIN todo :
              /\ HourRun(todo, n)
              /\ WriteRun(hour_of[todo[1]], SubSeq(todo, 1, n))
              /\ jobs' = [jobs EXCEPT ![thread].todo = SubSeq(todo, n + 1, Len(todo))]
        /\ UNCHANGED <<clockVars, queueVars, task, pending, closeVars>>

\* _finalize
ThreadFinalizes(thread) ==
    /\ jobs[thread] = [todo |-> <<>>, fin |-> TRUE]
    /\ jobs' = [jobs EXCEPT ![thread] = Idle]
    /\ writer' = 0
    /\ sealed' = IF writer = 0 THEN sealed ELSE sealed \cup {writer}
    /\ UNCHANGED <<clockVars, queueVars, task, pending, cur_key, files, closeVars>>

\* The disk refuses a write, or the file is gone.  Nobody waits any more for a thread
\* whose task was cancelled.
ThreadRaises(thread) ==
    /\ jobs[thread].todo # <<>>
    /\ disk = "failing" \/ Underfoot(thread)
    /\ jobs' = [jobs EXCEPT ![thread] = Idle]
    /\ task' = IF thread = "main" /\ task \in {"flushing", "last"} THEN "failed" ELSE task
    /\ UNCHANGED <<clockVars, queueVars, pending, parquetVars, closeVars>>

-----------------------------------------------------------------------------
(* close(), and the cancellation it ends in.                               *)

CloseBegins ==
    /\ closing = "no"
    /\ closing' = "putting"
    /\ UNCHANGED <<clockVars, queueVars, taskVars, parquetVars, before>>

PutClose ==
    /\ closing = "putting"
    /\ Len(q) < QueueMax
    /\ q' = Append(q, SentClose)
    /\ closing' = "waiting"
    /\ before' = submitted
    /\ UNCHANGED <<clockVars, submitted, hour_of, dropped, taskVars, parquetVars>>

\* Nothing got done within the timeout: the task is cancelled, and hands its batch to
\* another thread, whatever the first one is doing with it.
GiveUp ==
    /\ disk # "fast"
    /\ closing = "putting" \/ (closing = "waiting" /\ task \notin Ended)
    /\ closing' = "gaveup"
    /\ IF task \in Ended
       THEN UNCHANGED <<task, jobs>>
       ELSE /\ task' = "rescue"
            /\ jobs' = [jobs EXCEPT !["rescue"] = [todo |-> pending, fin |-> TRUE]]
    /\ UNCHANGED <<clockVars, queueVars, pending, parquetVars, before>>

\* Waits for the other thread, however long it takes.
MutRescueEnds ==
    /\ task = "rescue"
    /\ jobs["rescue"] = Idle
    /\ task' = "cancelled"
    /\ UNCHANGED <<clockVars, queueVars, pending, jobs, parquetVars, closeVars>>

\* The other thread is done, or its timeout is over and it works on unattended.
RescueEnds ==
    /\ task = "rescue"
    /\ jobs["rescue"] = Idle \/ disk # "fast"
    /\ task' = "cancelled"
    /\ UNCHANGED <<clockVars, queueVars, pending, jobs, parquetVars, closeVars>>

\* The failure of a task that was waited for comes out of close().
CloseEnded ==
    /\ closing \in {"waiting", "gaveup"}
    /\ task \in Ended
    /\ closing' = IF closing = "waiting" /\ task = "failed" THEN "raised" ELSE "closed"
    /\ UNCHANGED <<clockVars, queueVars, taskVars, parquetVars, before>>

-----------------------------------------------------------------------------
CaptureNext ==
    \/ HourTurns \/ ClockStepsBack \/ Submit
    \/ TakeRow \/ FlushTimer \/ TakeClose \/ ThreadReturns
    \/ (\E t \in Threads : ThreadWrites(t) \/ ThreadFinalizes(t) \/ ThreadRaises(t))
    \/ CloseBegins \/ PutClose \/ GiveUp \/ RescueEnds \/ CloseEnded

\* The event loop runs what is ready and its timers; a thread on a slow disk may hang.
CaptureFairness ==
    /\ WF_captureVars(TakeRow \/ TakeClose \/ ThreadReturns)
    /\ WF_captureVars(PutClose)
    /\ WF_captureVars(GiveUp)
    /\ WF_captureVars(RescueEnds)
    /\ WF_captureVars(CloseEnded)
    /\ \A t \in Threads :
          WF_captureVars(disk # "slow" /\ (ThreadWrites(t) \/ ThreadFinalizes(t)))

CaptureSpec == CaptureInit /\ [][CaptureNext]_captureVars /\ CaptureFairness

-----------------------------------------------------------------------------
(* Properties.                                                             *)

RowsIn(s) == {s[i] : i \in DOMAIN s}

\* The rows of an hour that came before the sentinel and were not dropped.
RowsOf(h) == {n \in 1 .. before : hour_of[n] = h /\ n \notin dropped}

\* After a close() that neither gave up nor failed, the file of every hour is finished
\* and has the hour's rows, each once and in the order they came: all that were
\* submitted before the sentinel and not counted as dropped, and no others.  (The clock
\* set back over the hour creates a finished file anew.)
CleanCloseIsComplete ==
    task = "done" /\ ~stepped =>
        \A h \in Hours :
            /\ RowsIn(files[h]) = RowsOf(h)
            /\ \A i, j \in DOMAIN files[h] : i < j => files[h][i] < files[h][j]
            /\ RowsOf(h) # {} => h \in sealed

\* close() returns, however slow the disk is.
CloseIsBounded == (closing # "no") ~> (closing \in {"closed", "raised"})
=============================================================================
