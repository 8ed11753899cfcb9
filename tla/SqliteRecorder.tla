--------------------------- MODULE SqliteRecorder ---------------------------
(***************************************************************************)
(* The live recorder (core/recording/sqlite_recorder.py): decisions go to  *)
(* a local SQLite file when they are made, and a background task copies    *)
(* new rows to a remote store in batches, behind a cursor that is kept in  *)
(* the same file.  The file outlives the process: a later run goes on      *)
(* where the cursor stands.                                                *)
(*                                                                         *)
(* A row is <<decision, leg>>, leg 0 for a header; what its columns hold   *)
(* is left out.                                                            *)
(***************************************************************************)
EXTENDS Integers, Sequences, FiniteSets

CONSTANTS
    BatchRows,      \* sync_batch_rows
    \* Bounds of the model:
    NDecisions,     \* decisions made
    MaxRuns,        \* times the process starts
    MaxFails        \* requests that fail

ASSUME SqliteRecorderAssumption ==
    /\ BatchRows \in Nat \ {0} /\ NDecisions \in Nat \ {0} /\ MaxRuns \in Nat \ {0}
    /\ MaxFails \in Nat

\* _SYNCED_TABLES, in the order a pass pushes them.
TableOrder == <<"rejections", "trades", "legs">>
Tables == {"rejections", "trades", "legs"}
Decisions == 1 .. NDecisions
Rows == Decisions \X (0 .. 2)
Runs == 1 .. MaxRuns

VARIABLES
    db,           \* "none" while the process is down, "open", "closing", "closed"
    run,          \* the run under way, or the last one
    \* the local file
    local,        \* [Tables -> Seq(Rows)]: a row's index is its id
    run_id,       \* [Decisions -> the run that recorded it, or 0]
    cursor,       \* sync_state: [Tables -> last_synced_id]
    \* the remote store
    remote,       \* [Tables -> set of rows]
    remote_runs,
    \* the sync task
    ready,        \* _remote_ready
    sync,         \* "off", "asleep", "bootstrap" or the table being pushed
    batch,        \* the rows in the request under way
    stored,       \* the remote store has executed the request
    fails,        \* requests that failed so far
    \* the strategy
    decisions,    \* decisions made so far
    firing,       \* the decision whose trade is under way, or 0
    \* history
    fired,        \* decisions that fired
    cut           \* fired decisions whose trade a crash or the closing overtook

fileVars == <<local, run_id, cursor>>
remoteVars == <<remote, remote_runs>>
syncVars == <<ready, sync, batch, stored, fails>>
decisionVars == <<decisions, firing, fired, cut>>
recorderVars == <<db, run, fileVars, remoteVars, syncVars, decisionVars>>

RecorderTypeOK ==
    /\ db \in {"none", "open", "closing", "closed"}
    /\ run \in 0 .. MaxRuns
    /\ local \in [Tables -> Seq(Rows)]
    /\ run_id \in [Decisions -> 0 .. MaxRuns]
    /\ cursor \in [Tables -> Nat]
    /\ \A t \in Tables : cursor[t] <= Len(local[t])
    /\ remote \in [Tables -> SUBSET Rows]
    /\ remote_runs \subseteq Runs
    /\ ready \in BOOLEAN
    /\ sync \in {"off", "asleep", "bootstrap"} \cup Tables
    /\ batch \in Seq(Rows)
    /\ stored \in BOOLEAN
    /\ fails \in 0 .. MaxFails
    /\ decisions \in 0 .. NDecisions
    /\ firing \in 0 .. NDecisions
    /\ fired \subseteq Decisions
    /\ cut \subseteq fired

RecorderInit ==
    /\ db = "none" /\ run = 0
    /\ local = [t \in Tables |-> <<>>]
    /\ run_id = [d \in Decisions |-> 0]
    /\ cursor = [t \in Tables |-> 0]
    /\ remote = [t \in Tables |-> {}] /\ remote_runs = {}
    /\ ready = FALSE /\ sync = "off" /\ batch = <<>> /\ stored = FALSE /\ fails = 0
    /\ decisions = 0 /\ firing = 0 /\ fired = {} /\ cut = {}

-----------------------------------------------------------------------------
(* Opening and recording.                                                  *)

\* start(): the sync task is created if Turso is enabled and its client is installed.
SyncStarts ==
    /\ ready' = FALSE
    /\ sync' \in {"off", "asleep"}
    /\ UNCHANGED <<batch, stored, fails>>

\* The constructor opens the file.
RecorderOpens ==
    /\ db = "none" /\ run < MaxRuns
    /\ db' = "open"
    /\ run' = run + 1
    /\ SyncStarts
    /\ UNCHANGED <<fileVars, remoteVars, decisionVars>>

\* emit and its commit: a fired decision goes to trades, any other to rejections.
Emit(d, table) ==
    /\ local' = [local EXCEPT ![table] = Append(@, <<d, 0>>)]
    /\ run_id' = [run_id EXCEPT ![d] = run]
    /\ UNCHANGED cursor

\* emit, and emit_legs with a commit of its own.
EmitTrade(d) ==
    /\ local' = [local EXCEPT !["trades"] = Append(@, <<d, 0>>),
                              !["legs"] = @ \o << <<d, 1>>, <<d, 2>> >>]
    /\ run_id' = [run_id EXCEPT ![d] = run]
    /\ UNCHANGED cursor

\* A tick the strategy declines.
Reject ==
    /\ db \in {"open", "closing"}
    /\ firing = 0 /\ decisions < NDecisions
    /\ decisions' = decisions + 1
    /\ Emit(decisions', "rejections")
    /\ UNCHANGED <<db, run, remoteVars, syncVars, firing, fired, cut>>

\* Nothing unsubscribes the strategy from the books: it fires while the recorder
\* closes and after, until the process ends.
FireStarts ==
    /\ db # "none"
    /\ firing = 0 /\ decisions < NDecisions
    /\ decisions' = decisions + 1
    /\ firing' = decisions'
    /\ fired' = fired \cup {firing'}
    /\ UNCHANGED <<db, run, fileVars, remoteVars, syncVars, cut>>

\* Records a trade without its legs when the recorder is closing.
MutFireEnds ==
    /\ firing # 0 /\ db \in {"open", "closing"}
    /\ IF db = "open" THEN EmitTrade(firing) ELSE Emit(firing, "trades")
    /\ firing' = 0
    /\ UNCHANGED <<db, run, remoteVars, syncVars, decisions, fired, cut>>

\* The trade is over: header and legs, in one stretch.
FireEnds ==
    /\ firing # 0 /\ db \in {"open", "closing"}
    /\ EmitTrade(firing)
    /\ firing' = 0
    /\ UNCHANGED <<db, run, remoteVars, syncVars, decisions, fired, cut>>

\* emit on a closed connection raises: the decision is not recorded.
FireEndsClosed ==
    /\ firing # 0 /\ db = "closed"
    /\ firing' = 0
    /\ cut' = cut \cup {firing}
    /\ UNCHANGED <<db, run, fileVars, remoteVars, syncVars, decisions, fired>>

-----------------------------------------------------------------------------
(* The sync task.                                                          *)

\* The pass is over: back to sleep, or the end of the final drain.
PassEnds ==
    /\ sync' = IF db' = "closing" THEN "off" ELSE "asleep"
    /\ batch' = <<>>

BehindCursor(table, c) == Len(local[table]) > c[table]
Upto(table, c) == IF Len(local[table]) < c[table] + BatchRows THEN Len(local[table])
                  ELSE c[table] + BatchRows

\* _push_table for each table from the i-th, with cursor c, up to the first request.
PushTables(i, c) ==
    /\ stored' = FALSE
    /\ \/ (\A j \in i .. 3 : ~BehindCursor(TableOrder[j], c)) /\ PassEnds
       \/ \E j \in i .. 3 :
             /\ BehindCursor(TableOrder[j], c)
             /\ \A k \in i .. j - 1 : ~BehindCursor(TableOrder[k], c)
             /\ sync' = TableOrder[j]
             /\ batch' = SubSeq(local[TableOrder[j]], c[TableOrder[j]] + 1,
                                Upto(TableOrder[j], c))

\* _push_all: the remote schema and the run come first.
PushAll ==
    /\ UNCHANGED ready
    /\ IF ready THEN PushTables(1, cursor)
       ELSE /\ sync' = "bootstrap" /\ batch' = <<>> /\ stored' = FALSE

SyncWakes ==
    /\ sync = "asleep"
    /\ UNCHANGED <<db, run, fileVars, remoteVars, fails, decisionVars>>
    /\ PushAll

\* The remote store executes the request, rows it has being ignored.
RemoteStores ==
    /\ sync \in {"bootstrap"} \cup Tables
    /\ ~stored
    /\ stored' = TRUE
    /\ IF sync = "bootstrap"
       THEN remote_runs' = remote_runs \cup {run} /\ UNCHANGED remote
       ELSE /\ remote' = [remote EXCEPT ![sync] = @ \cup {batch[i] : i \in DOMAIN batch}]
            /\ UNCHANGED remote_runs
    /\ UNCHANGED <<db, run, fileVars, ready, sync, batch, fails, decisionVars>>

BootstrapAnswers ==
    /\ sync = "bootstrap" /\ stored
    /\ ready' = TRUE
    /\ UNCHANGED <<db, run, fileVars, remoteVars, fails, decisionVars>>
    /\ PushTables(1, cursor)

\* Takes the newest id for the last one of the batch.
MutPushAnswers(i) ==
    /\ sync = TableOrder[i] /\ stored
    /\ cursor' = [cursor EXCEPT ![sync] = Len(local[sync])]
    /\ UNCHANGED <<db, run, local, run_id, remoteVars, ready, fails, decisionVars>>
    /\ PushTables(i + 1, cursor')

\* The cursor moves to the id of the batch's last row.
PushAnswers(i) ==
    /\ sync = TableOrder[i] /\ stored
    /\ cursor' = [cursor EXCEPT ![sync] = @ + Len(batch)]
    /\ UNCHANGED <<db, run, local, run_id, remoteVars, ready, fails, decisionVars>>
    /\ PushTables(i + 1, cursor')

\* An error ends the loop.
MutRequestFails ==
    /\ sync \in {"bootstrap"} \cup Tables
    /\ fails < MaxFails
    /\ fails' = fails + 1
    /\ sync' = "off" /\ batch' = <<>> /\ stored' = FALSE
    /\ UNCHANGED <<db, run, fileVars, remoteVars, ready, decisionVars>>

\* No answer, executed or not: the whole pass is given up.
RequestFails ==
    /\ sync \in {"bootstrap"} \cup Tables
    /\ fails < MaxFails
    /\ fails' = fails + 1
    /\ UNCHANGED <<db, run, fileVars, remoteVars, ready, decisionVars>>
    /\ PassEnds
    /\ stored' = FALSE

-----------------------------------------------------------------------------
(* Closing and crashing.                                                   *)

\* aclose cancels the sync task; the task drops its request and drains once.
CloseStarts ==
    /\ db = "open"
    /\ db' = "closing"
    /\ IF sync = "off" THEN UNCHANGED <<ready, sync, batch, stored>> ELSE PushAll
    /\ UNCHANGED <<run, fileVars, remoteVars, fails, decisionVars>>

CloseFinishes ==
    /\ db = "closing" /\ sync = "off"
    /\ db' = "closed"
    /\ UNCHANGED <<run, fileVars, remoteVars, syncVars, decisionVars>>

\* The process ends, and with it a trade under way.
ProcessEnds ==
    /\ db' = "none"
    /\ sync' = "off" /\ batch' = <<>> /\ stored' = FALSE
    /\ firing' = 0
    /\ cut' = IF firing = 0 THEN cut ELSE cut \cup {firing}
    /\ UNCHANGED <<run, remoteVars, ready, fails, decisions, fired>>

Exit == db = "closed" /\ ProcessEnds /\ UNCHANGED fileVars

Crash == db \in {"open", "closing"} /\ ProcessEnds /\ UNCHANGED fileVars

\* Between the two commits.
CrashMidEmit ==
    /\ db \in {"open", "closing"} /\ firing # 0
    /\ Emit(firing, "trades")
    /\ ProcessEnds

-----------------------------------------------------------------------------
RecorderNext ==
    \/ RecorderOpens
    \/ Reject \/ FireStarts \/ FireEnds \/ FireEndsClosed
    \/ SyncWakes \/ RemoteStores \/ BootstrapAnswers
    \/ (\E i \in 1 .. 3 : PushAnswers(i))
    \/ RequestFails
    \/ CloseStarts \/ CloseFinishes \/ Exit \/ Crash \/ CrashMidEmit

\* The loop wakes, and a request that is not one of the MaxFails that fail is answered.
RecorderFairness ==
    /\ WF_recorderVars(SyncWakes)
    /\ WF_recorderVars(RemoteStores)
    /\ WF_recorderVars(BootstrapAnswers \/ \E i \in 1 .. 3 : PushAnswers(i))
    /\ WF_recorderVars(CloseFinishes)

RecorderSpec == RecorderInit /\ [][RecorderNext]_recorderVars /\ RecorderFairness

-----------------------------------------------------------------------------
(* Properties.                                                             *)

Has(table, row) == \E i \in DOMAIN local[table] : local[table][i] = row

\* Every row the cursor has passed is in the remote store, whatever request failed,
\* was executed without an answer, or was cut by a crash or the closing.
CursorBehindRemote ==
    \A t \in Tables : \A i \in 1 .. cursor[t] : local[t][i] \in remote[t]

\* The recorder is a log with a replica: rows are only added, the remote store has rows of
\* the file and loses none, and the cursor never goes back nor past a row that is not
\* there, whatever request failed, was executed without an answer, or was cut by a crash
\* or the closing.
Log == INSTANCE ReplicatedLog WITH log <- local, replica <- remote, acked <- cursor

ImplementsReplicatedLog == Log!Spec

\* A fired decision has its header and both legs, unless a crash or the closing
\* overtook its trade.
FiredIsRecorded ==
    \A d \in fired \ (cut \cup {firing}) :
        Has("trades", <<d, 0>>) /\ Has("legs", <<d, 1>>) /\ Has("legs", <<d, 2>>)

Behind == \E t \in Tables : \E i \in DOMAIN local[t] : local[t][i] \notin remote[t]

\* While the process runs with a sync task, every row it has reaches the remote store,
\* through failed requests and rows left behind by a crash.
Replicated == (Behind /\ sync # "off") ~> (~Behind \/ db # "open")
=============================================================================
