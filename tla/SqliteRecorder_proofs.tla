------------------------ MODULE SqliteRecorder_proofs ------------------------
(* Theorems about SqliteRecorder, for every batch size and every bound.      *)
EXTENDS SqliteRecorder, TLAPS

-----------------------------------------------------------------------------
(* The request under way carries the rows behind the cursor of its table,    *)
(* and the rows are in the remote store once it has executed them.           *)

BatchInv ==
    sync \in Tables =>
        /\ batch # <<>>
        /\ cursor[sync] + Len(batch) <= Len(local[sync])
        /\ \A i \in 1 .. Len(batch) : batch[i] = local[sync][cursor[sync] + i]
        /\ stored => \A i \in 1 .. Len(batch) : batch[i] \in remote[sync]

\* A trade under way is one that fired, and the sync task runs in a started process.
FiringInv ==
    /\ firing # 0 => firing \in fired
    /\ run # 0 \/ db = "none"
    /\ db = "none" => sync = "off"

RecorderInv == RecorderTypeOK /\ BatchInv /\ CursorBehindRemote /\ FiringInv /\ FiredIsRecorded

LEMMA TableNames ==
    /\ \A i \in 1 .. 3 : TableOrder[i] \in Tables
    /\ "bootstrap" \notin Tables /\ "off" \notin Tables /\ "asleep" \notin Tables
  BY DEF TableOrder, Tables

\* Rows join a table at its end.
LEMMA Appends ==
    ASSUME NEW s \in Seq(Rows), NEW more \in Seq(Rows)
    PROVE  /\ s \o more \in Seq(Rows) /\ Len(s \o more) = Len(s) + Len(more)
           /\ \A i \in 1 .. Len(s) : (s \o more)[i] = s[i]
           /\ \A i \in 1 .. Len(more) : (s \o more)[Len(s) + i] = more[i]
<1> HIDE DEF Rows
<1> QED OBVIOUS

LEMMA AppendsOne ==
    ASSUME NEW s \in Seq(Rows), NEW row \in Rows
    PROVE  /\ Append(s, row) \in Seq(Rows) /\ Len(Append(s, row)) = Len(s) + 1
           /\ \A i \in 1 .. Len(s) : Append(s, row)[i] = s[i]
           /\ Append(s, row)[Len(s) + 1] = row
<1> HIDE DEF Rows
<1> QED OBVIOUS

\* The rows from one id to another.
LEMMA Slice ==
    ASSUME NEW s \in Seq(Rows), NEW m \in Nat, NEW n \in Nat, m < n, n <= Len(s)
    PROVE  /\ SubSeq(s, m + 1, n) \in Seq(Rows) /\ Len(SubSeq(s, m + 1, n)) = n - m
           /\ \A i \in 1 .. n - m : SubSeq(s, m + 1, n)[i] = s[m + i]
<1> HIDE DEF Rows
<1> QED OBVIOUS

\* The next request of a pass.
LEMMA Pushes ==
    ASSUME local' = local, local \in [Tables -> Seq(Rows)], cursor' \in [Tables -> Nat],
           \A t \in Tables : cursor'[t] <= Len(local[t]),
           NEW i \in 1 .. 4, PushTables(i, cursor')
    PROVE  /\ sync' \in {"off", "asleep", "bootstrap"} \cup Tables
           /\ batch' \in Seq(Rows) /\ stored' = FALSE
           /\ sync' \in Tables =>
                 /\ batch' # <<>>
                 /\ cursor'[sync'] + Len(batch') <= Len(local'[sync'])
                 /\ \A n \in 1 .. Len(batch') : batch'[n] = local'[sync'][cursor'[sync'] + n]
<1> HIDE DEF Rows
<1>1. CASE PassEnds
  BY <1>1, TableNames DEF PassEnds, PushTables
<1>2. ASSUME NEW j \in i .. 3, BehindCursor(TableOrder[j], cursor'),
             sync' = TableOrder[j],
             batch' = SubSeq(local[TableOrder[j]], cursor'[TableOrder[j]] + 1,
                             Upto(TableOrder[j], cursor'))
      PROVE  /\ sync' \in Tables /\ batch' \in Seq(Rows) /\ batch' # <<>>
             /\ cursor'[sync'] + Len(batch') <= Len(local'[sync'])
             /\ \A n \in 1 .. Len(batch') : batch'[n] = local'[sync'][cursor'[sync'] + n]
  <2> DEFINE t == TableOrder[j]
             u == Upto(t, cursor')
  <2>1. t \in Tables /\ sync' = t
    <3>1. j \in 1 .. 3
      OBVIOUS
    <3> QED BY <1>2, <3>1, TableNames
  <2>2. /\ local[t] \in Seq(Rows) /\ Len(local[t]) \in Nat /\ cursor'[t] \in Nat
        /\ u \in Nat /\ cursor'[t] < u /\ u <= Len(local[t])
    <3>1. /\ local[t] \in Seq(Rows) /\ Len(local[t]) \in Nat /\ cursor'[t] \in Nat
          /\ Len(local[t]) > cursor'[t] /\ BatchRows \in Nat \ {0}
      BY <1>2, <2>1, SqliteRecorderAssumption DEF BehindCursor
    <3>2. u = IF Len(local[t]) < cursor'[t] + BatchRows THEN Len(local[t])
              ELSE cursor'[t] + BatchRows
      BY <1>2 DEF Upto
    <3> HIDE DEF t, u
    <3> QED BY <3>1, <3>2
  <2>3. batch' = SubSeq(local[t], cursor'[t] + 1, u)
    BY <1>2
  <2> HIDE DEF t, u
  <2>4. /\ batch' \in Seq(Rows) /\ Len(batch') = u - cursor'[t]
        /\ \A n \in 1 .. Len(batch') : batch'[n] = local[t][cursor'[t] + n]
    <3> DEFINE part == SubSeq(local[t], cursor'[t] + 1, u)
    <3>1. /\ part \in Seq(Rows) /\ Len(part) = u - cursor'[t]
          /\ \A n \in 1 .. u - cursor'[t] : part[n] = local[t][cursor'[t] + n]
      BY <2>2, Slice
    <3> HIDE DEF part
    <3>2. batch' = part
      BY <2>3 DEF part
    <3> QED BY <3>1, <3>2
  <2>5. batch' # <<>>
    BY <2>2, <2>4
  <2> QED BY <2>1, <2>2, <2>4, <2>5
<1> QED BY <1>1, <1>2 DEF PushTables

-----------------------------------------------------------------------------
(* What a row that joins the file, and an answer, keep.                      *)

Longer ==
    \A t \in Tables :
        /\ local'[t] \in Seq(Rows) /\ Len(local[t]) <= Len(local'[t])
        /\ \A i \in 1 .. Len(local[t]) : local'[t][i] = local[t][i]

\* Rows are only ever added.
LEMMA FileGrows ==
    ASSUME RecorderInv, Longer, UNCHANGED <<cursor, remote>>
    PROVE  /\ CursorBehindRemote'
           /\ \A t \in Tables : cursor'[t] <= Len(local'[t])
           /\ UNCHANGED <<sync, batch, stored>> => BatchInv'
           /\ \A t \in Tables, row \in Rows : Has(t, row) => Has(t, row)'
<1> HIDE DEF Rows
<1>0. \A t \in Tables :
          /\ local[t] \in Seq(Rows) /\ Len(local[t]) \in Nat /\ Len(local'[t]) \in Nat
          /\ cursor[t] \in Nat /\ cursor[t] <= Len(local[t])
          /\ DOMAIN local[t] = 1 .. Len(local[t]) /\ DOMAIN local'[t] = 1 .. Len(local'[t])
  BY DEF RecorderInv, RecorderTypeOK, Longer
<1>1. \A t \in Tables : cursor'[t] <= Len(local'[t])
  BY <1>0 DEF Longer
<1>2. CursorBehindRemote'
  <2> SUFFICES ASSUME NEW t \in Tables, NEW i \in 1 .. cursor[t]
               PROVE  local'[t][i] \in remote[t]
    BY DEF CursorBehindRemote
  <2>1. i \in 1 .. Len(local[t])
    BY <1>0
  <2> QED BY <2>1 DEF Longer, RecorderInv, CursorBehindRemote
<1>3. ASSUME UNCHANGED <<sync, batch, stored>> PROVE BatchInv'
  <2> SUFFICES ASSUME sync \in Tables
               PROVE  /\ batch # <<>>
                      /\ cursor[sync] + Len(batch) <= Len(local'[sync])
                      /\ \A i \in 1 .. Len(batch) : batch[i] = local'[sync][cursor[sync] + i]
                      /\ stored => \A i \in 1 .. Len(batch) : batch[i] \in remote[sync]
    BY <1>3 DEF BatchInv
  <2>1. batch \in Seq(Rows) /\ Len(batch) \in Nat
    BY DEF RecorderInv, RecorderTypeOK
  <2>2. \A i \in 1 .. Len(batch) : cursor[sync] + i \in 1 .. Len(local[sync])
    BY <1>0, <2>1 DEF RecorderInv, BatchInv
  <2>3. /\ batch # <<>> /\ cursor[sync] + Len(batch) <= Len(local[sync])
        /\ \A i \in 1 .. Len(batch) : batch[i] = local[sync][cursor[sync] + i]
        /\ stored => \A i \in 1 .. Len(batch) : batch[i] \in remote[sync]
    BY DEF RecorderInv, BatchInv
  <2>4. cursor[sync] + Len(batch) <= Len(local'[sync])
    BY <1>0, <2>1, <2>3 DEF Longer
  <2>5. \A i \in 1 .. Len(batch) : batch[i] = local'[sync][cursor[sync] + i]
    <3> SUFFICES ASSUME NEW i \in 1 .. Len(batch)
                 PROVE  batch[i] = local'[sync][cursor[sync] + i]
      OBVIOUS
    <3>1. local'[sync][cursor[sync] + i] = local[sync][cursor[sync] + i]
      BY <2>2 DEF Longer
    <3> QED BY <2>3, <3>1
  <2> QED BY <2>3, <2>4, <2>5
<1>4. \A t \in Tables, row \in Rows : Has(t, row) => Has(t, row)'
  <2> SUFFICES ASSUME NEW t \in Tables, NEW row \in Rows, NEW i \in DOMAIN local[t],
                      local[t][i] = row
               PROVE  \E j \in DOMAIN local'[t] : local'[t][j] = row
    BY DEF Has
  <2>1. i \in DOMAIN local'[t] /\ local'[t][i] = row
    BY <1>0 DEF Longer
  <2> QED BY <2>1
<1> QED BY <1>1, <1>2, <1>3, <1>4

LEMMA RowType ==
    ASSUME NEW d \in Decisions PROVE <<d, 0>> \in Rows /\ <<d, 1>> \in Rows /\ <<d, 2>> \in Rows
  BY DEF Rows

LEMMA TwoRows ==
    ASSUME NEW a \in Rows, NEW b \in Rows
    PROVE  <<a, b>> \in Seq(Rows) /\ Len(<<a, b>>) = 2 /\ <<a, b>>[1] = a /\ <<a, b>>[2] = b
<1> HIDE DEF Rows
<1> QED OBVIOUS

LEMMA EmitGrows ==
    ASSUME RecorderInv, NEW d \in Decisions, NEW table \in Tables, Emit(d, table)
    PROVE  /\ local' \in [Tables -> Seq(Rows)] /\ run_id' \in [Decisions -> 0 .. MaxRuns]
           /\ Longer /\ cursor' = cursor
<1> HIDE DEF Rows
<1>0. /\ local \in [Tables -> Seq(Rows)] /\ run_id \in [Decisions -> 0 .. MaxRuns]
      /\ run \in 0 .. MaxRuns
  BY DEF RecorderInv, RecorderTypeOK
<1>1. \A t \in Tables : Len(local[t]) \in Nat
  BY <1>0
<1> DEFINE longer == Append(local[table], <<d, 0>>)
<1>2. /\ longer \in Seq(Rows) /\ Len(longer) = Len(local[table]) + 1
      /\ \A i \in 1 .. Len(local[table]) : longer[i] = local[table][i]
  BY <1>0, RowType, AppendsOne
<1>3. local' = [local EXCEPT ![table] = longer]
  BY DEF Emit
<1> HIDE DEF longer
<1>4. local' \in [Tables -> Seq(Rows)] /\ Longer
  <2>1. /\ local' \in [Tables -> Seq(Rows)] /\ local'[table] = longer
        /\ \A t \in Tables \ {table} : local'[t] = local[t]
    BY <1>0, <1>2, <1>3
  <2>2. ASSUME NEW t \in Tables
        PROVE  /\ local'[t] \in Seq(Rows) /\ Len(local[t]) <= Len(local'[t])
               /\ \A i \in 1 .. Len(local[t]) : local'[t][i] = local[t][i]
    <3>1. CASE t = table
      BY <1>1, <1>2, <2>1, <3>1
    <3>2. CASE t # table
      <4>1. local'[t] = local[t] /\ local[t] \in Seq(Rows) /\ Len(local[t]) \in Nat
        BY <1>0, <2>1, <3>2
      <4> QED BY <4>1
    <3> QED BY <3>1, <3>2
  <2> QED BY <2>1, <2>2 DEF Longer
<1> QED BY <1>0, <1>4 DEF Emit

LEMMA EmitTradeGrows ==
    ASSUME RecorderInv, NEW d \in Decisions, EmitTrade(d)
    PROVE  /\ local' \in [Tables -> Seq(Rows)] /\ run_id' \in [Decisions -> 0 .. MaxRuns]
           /\ Longer /\ cursor' = cursor
           /\ Has("trades", <<d, 0>>)' /\ Has("legs", <<d, 1>>)' /\ Has("legs", <<d, 2>>)'
<1> HIDE DEF Rows
<1>0. /\ local \in [Tables -> Seq(Rows)] /\ run_id \in [Decisions -> 0 .. MaxRuns]
      /\ run \in 0 .. MaxRuns /\ "trades" \in Tables /\ "legs" \in Tables
      /\ "trades" # "legs"
  BY DEF RecorderInv, RecorderTypeOK, Tables
<1> DEFINE header == Append(local["trades"], <<d, 0>>)
           more == << <<d, 1>>, <<d, 2>> >>
           both == local["legs"] \o more
<1>1. /\ header \in Seq(Rows) /\ Len(header) = Len(local["trades"]) + 1
      /\ \A i \in 1 .. Len(local["trades"]) : header[i] = local["trades"][i]
      /\ header[Len(local["trades"]) + 1] = <<d, 0>>
  BY <1>0, RowType, AppendsOne
<1>2. more \in Seq(Rows) /\ Len(more) = 2 /\ more[1] = <<d, 1>> /\ more[2] = <<d, 2>>
  BY RowType, TwoRows
<1> HIDE DEF more
<1>3. /\ both \in Seq(Rows) /\ Len(both) = Len(local["legs"]) + 2
      /\ \A i \in 1 .. Len(local["legs"]) : both[i] = local["legs"][i]
      /\ both[Len(local["legs"]) + 1] = <<d, 1>> /\ both[Len(local["legs"]) + 2] = <<d, 2>>
  <2>1. /\ both \in Seq(Rows) /\ Len(both) = Len(local["legs"]) + Len(more)
        /\ \A i \in 1 .. Len(local["legs"]) : both[i] = local["legs"][i]
        /\ \A i \in 1 .. Len(more) : both[Len(local["legs"]) + i] = more[i]
    <3>1. local["legs"] \in Seq(Rows) /\ more \in Seq(Rows)
      BY <1>0, <1>2
    <3> QED BY <3>1, Appends
  <2>2. 1 \in 1 .. Len(more) /\ 2 \in 1 .. Len(more)
    BY <1>2
  <2> QED BY <1>2, <2>1, <2>2
<1>4. local' = [local EXCEPT !["trades"] = header, !["legs"] = both]
  BY DEF EmitTrade, more
<1> HIDE DEF header, both
<1>5. /\ local' \in [Tables -> Seq(Rows)]
      /\ local'["trades"] = header /\ local'["legs"] = both
      /\ \A t \in Tables \ {"trades", "legs"} : local'[t] = local[t]
  BY <1>0, <1>1, <1>3, <1>4
<1>6. Len(local["trades"]) \in Nat /\ Len(local["legs"]) \in Nat
  BY <1>0
<1>7. Longer
  <2> SUFFICES ASSUME NEW t \in Tables
               PROVE  /\ local'[t] \in Seq(Rows) /\ Len(local[t]) <= Len(local'[t])
                      /\ \A i \in 1 .. Len(local[t]) : local'[t][i] = local[t][i]
    BY DEF Longer
  <2>1. CASE t = "trades"
    BY <1>1, <1>5, <1>6, <2>1
  <2>2. CASE t = "legs"
    BY <1>3, <1>5, <1>6, <2>2
  <2>3. CASE t \notin {"trades", "legs"}
    <3>1. local'[t] = local[t] /\ local[t] \in Seq(Rows) /\ Len(local[t]) \in Nat
      BY <1>0, <1>5, <2>3
    <3> QED BY <3>1
  <2> QED BY <2>1, <2>2, <2>3
<1>8. Has("trades", <<d, 0>>)'
  <2>1. Len(local["trades"]) + 1 \in DOMAIN local'["trades"]
    BY <1>1, <1>5, <1>6
  <2> QED BY <1>1, <1>5, <2>1 DEF Has
<1>9. Has("legs", <<d, 1>>)' /\ Has("legs", <<d, 2>>)'
  <2>1. /\ Len(local["legs"]) + 1 \in DOMAIN local'["legs"]
        /\ Len(local["legs"]) + 2 \in DOMAIN local'["legs"]
    BY <1>3, <1>5, <1>6
  <2> QED BY <1>3, <1>5, <2>1 DEF Has
<1>10. run_id' \in [Decisions -> 0 .. MaxRuns] /\ cursor' = cursor
  BY <1>0 DEF EmitTrade
<1> QED BY <1>5, <1>7, <1>8, <1>9, <1>10

-----------------------------------------------------------------------------
(* The steps.                                                                *)

\* Nothing but the sync task and the process's state moves, and no request is under way.
LEMMA Rests ==
    ASSUME RecorderInv, UNCHANGED <<fileVars, remoteVars>>, sync' \notin Tables
    PROVE  BatchInv' /\ CursorBehindRemote'
  BY DEF RecorderInv, BatchInv, CursorBehindRemote, fileVars, remoteVars

LEMMA OpenStep == ASSUME RecorderInv, RecorderOpens PROVE RecorderInv'
<1>1. RecorderTypeOK'
  <2>1. /\ db' = "open" /\ run' = run + 1 /\ run < MaxRuns
        /\ ready' = FALSE /\ sync' \in {"off", "asleep"}
        /\ UNCHANGED <<local, run_id, cursor, remote, remote_runs, batch, stored, fails,
                       decisions, firing, fired, cut>>
    BY DEF RecorderOpens, SyncStarts, fileVars, remoteVars, decisionVars
  <2>2. run' \in 0 .. MaxRuns
    BY <2>1, SqliteRecorderAssumption DEF RecorderInv, RecorderTypeOK
  <2> QED BY <2>1, <2>2 DEF RecorderInv, RecorderTypeOK
<1>2. BatchInv' /\ CursorBehindRemote'
  BY Rests, TableNames DEF RecorderOpens, SyncStarts
<1>3. FiringInv' /\ FiredIsRecorded'
  <2>1. run' # 0 /\ db' = "open" /\ UNCHANGED <<local, firing, fired, cut>>
    BY SqliteRecorderAssumption
       DEF RecorderInv, RecorderTypeOK, RecorderOpens, fileVars, decisionVars
  <2> QED BY <2>1 DEF RecorderInv, FiringInv, FiredIsRecorded, Has
<1> QED BY <1>1, <1>2, <1>3 DEF RecorderInv

\* A decision goes to the file in one piece.
LEMMA DecisionStep ==
    ASSUME RecorderInv, Reject \/ FireStarts \/ FireEnds \/ FireEndsClosed PROVE RecorderInv'
<1>0. /\ firing \in 0 .. NDecisions /\ decisions \in 0 .. NDecisions
      /\ fired \subseteq Decisions /\ cut \subseteq fired /\ NDecisions \in Nat
  BY SqliteRecorderAssumption DEF RecorderInv, RecorderTypeOK
<1>h. ASSUME \A t \in Tables, row \in Rows : Has(t, row) => Has(t, row)',
             NEW d \in Decisions, d \in fired \ (cut \cup {firing})
      PROVE  Has("trades", <<d, 0>>)' /\ Has("legs", <<d, 1>>)' /\ Has("legs", <<d, 2>>)'
  <2>1. Has("trades", <<d, 0>>) /\ Has("legs", <<d, 1>>) /\ Has("legs", <<d, 2>>)
    BY <1>h DEF RecorderInv, FiredIsRecorded
  <2>2. "trades" \in Tables /\ "legs" \in Tables
    BY DEF Tables
  <2> QED BY <1>h, <2>1, <2>2, RowType
<1>1. CASE Reject
  <2>1. /\ decisions' \in Decisions /\ Emit(decisions', "rejections") /\ "rejections" \in Tables
        /\ UNCHANGED <<db, run, remoteVars, syncVars, firing, fired, cut>>
    BY <1>0, <1>1 DEF Reject, Decisions, Tables
  <2>2. /\ local' \in [Tables -> Seq(Rows)] /\ run_id' \in [Decisions -> 0 .. MaxRuns]
        /\ Longer /\ cursor' = cursor
    BY <2>1, EmitGrows
  <2>3. /\ CursorBehindRemote' /\ BatchInv'
        /\ \A t \in Tables : cursor'[t] <= Len(local'[t])
        /\ \A t \in Tables, row \in Rows : Has(t, row) => Has(t, row)'
    BY <2>1, <2>2, FileGrows DEF remoteVars, syncVars
  <2>4. RecorderTypeOK'
    <3>1. UNCHANGED <<db, run, remote, remote_runs, ready, sync, batch, stored, fails>>
      BY <2>1 DEF remoteVars, syncVars
    <3>2. decisions' \in 0 .. NDecisions
      BY <1>0, <2>1 DEF Decisions
    <3> QED BY <2>1, <2>2, <2>3, <3>1, <3>2 DEF RecorderInv, RecorderTypeOK
  <2>5. FiredIsRecorded'
    BY <1>0, <1>h, <2>1, <2>3 DEF FiredIsRecorded
  <2> QED BY <2>1, <2>3, <2>4, <2>5 DEF RecorderInv, FiringInv, syncVars
<1>2. CASE FireStarts
  <2>1. /\ decisions' = decisions + 1 /\ decisions' \in Decisions /\ firing' = decisions'
        /\ firing = 0 /\ fired' = fired \cup {firing'} /\ db # "none"
        /\ UNCHANGED <<db, run, local, run_id, cursor, remote, remote_runs, ready, sync, batch,
                       stored, fails, cut>>
    BY <1>0, <1>2 DEF FireStarts, Decisions, fileVars, remoteVars, syncVars
  <2>2. RecorderTypeOK'
    BY <1>0, <2>1 DEF RecorderInv, RecorderTypeOK, Decisions
  <2>3. BatchInv' /\ CursorBehindRemote' /\ FiringInv'
    BY <2>1 DEF RecorderInv, BatchInv, CursorBehindRemote, FiringInv
  <2>4. FiredIsRecorded'
    <3>1. \A d \in fired' \ (cut' \cup {firing'}) : d \in fired \ (cut \cup {firing})
      BY <1>0, <2>1 DEF Decisions
    <3> QED BY <2>1, <3>1 DEF RecorderInv, FiredIsRecorded, Has
  <2> QED BY <2>2, <2>3, <2>4 DEF RecorderInv
<1>3. CASE FireEnds
  <2>0. PICK d \in Decisions : d = firing
    BY <1>0, <1>3 DEF FireEnds, Decisions
  <2>1. /\ EmitTrade(d) /\ firing' = 0
        /\ UNCHANGED <<db, run, remoteVars, syncVars, decisions, fired, cut>>
    BY <1>3, <2>0 DEF FireEnds
  <2>2. /\ local' \in [Tables -> Seq(Rows)] /\ run_id' \in [Decisions -> 0 .. MaxRuns]
        /\ Longer /\ cursor' = cursor
        /\ Has("trades", <<d, 0>>)' /\ Has("legs", <<d, 1>>)' /\ Has("legs", <<d, 2>>)'
    BY <2>1, EmitTradeGrows
  <2>3. /\ CursorBehindRemote' /\ BatchInv'
        /\ \A t \in Tables : cursor'[t] <= Len(local'[t])
        /\ \A t \in Tables, row \in Rows : Has(t, row) => Has(t, row)'
    BY <2>1, <2>2, FileGrows DEF remoteVars, syncVars
  <2>4. RecorderTypeOK'
    <3>1. UNCHANGED <<db, run, remote, remote_runs, ready, sync, batch, stored, fails>>
      BY <2>1 DEF remoteVars, syncVars
    <3>2. firing' \in 0 .. NDecisions
      BY <1>0, <2>1
    <3> QED BY <2>1, <2>2, <2>3, <3>1, <3>2 DEF RecorderInv, RecorderTypeOK
  <2>5. FiredIsRecorded'
    <3> SUFFICES ASSUME NEW e \in fired \ (cut \cup {0})
                 PROVE  Has("trades", <<e, 0>>)' /\ Has("legs", <<e, 1>>)'
                        /\ Has("legs", <<e, 2>>)'
      BY <2>1 DEF FiredIsRecorded
    <3>1. CASE e = d
      BY <2>2, <3>1
    <3>2. CASE e # d
      BY <1>0, <1>h, <2>0, <2>3, <3>2
    <3> QED BY <3>1, <3>2
  <2> QED BY <2>1, <2>3, <2>4, <2>5 DEF RecorderInv, FiringInv, syncVars
<1>4. CASE FireEndsClosed
  <2>1. /\ firing # 0 /\ firing' = 0 /\ cut' = cut \cup {firing}
        /\ UNCHANGED <<db, run, local, run_id, cursor, remote, remote_runs, ready, sync, batch,
                       stored, fails, decisions, fired>>
    BY <1>4 DEF FireEndsClosed, fileVars, remoteVars, syncVars
  <2>2. RecorderTypeOK'
    BY <1>0, <2>1 DEF RecorderInv, RecorderTypeOK, FiringInv
  <2>3. BatchInv' /\ CursorBehindRemote' /\ FiringInv'
    BY <2>1 DEF RecorderInv, BatchInv, CursorBehindRemote, FiringInv
  <2>4. FiredIsRecorded'
    BY <2>1 DEF RecorderInv, FiredIsRecorded, Has
  <2> QED BY <2>2, <2>3, <2>4 DEF RecorderInv
<1> QED BY <1>1, <1>2, <1>3, <1>4

\* The file's pointers move only behind rows that the remote store has.
LEMMA PushStep ==
    ASSUME RecorderInv, NEW i \in 1 .. 3, PushAnswers(i) PROVE RecorderInv'
<1>0. /\ sync = TableOrder[i] /\ sync \in Tables /\ stored
      /\ cursor' = [cursor EXCEPT ![sync] = @ + Len(batch)]
      /\ PushTables(i + 1, cursor')
      /\ UNCHANGED <<db, run, local, run_id, remote, remote_runs, ready, fails, decisions,
                     firing, fired, cut>>
  BY TableNames DEF PushAnswers, remoteVars, decisionVars
<1>1. /\ local \in [Tables -> Seq(Rows)] /\ cursor \in [Tables -> Nat]
      /\ batch \in Seq(Rows) /\ Len(batch) \in Nat
      /\ \A t \in Tables : cursor[t] <= Len(local[t])
  BY DEF RecorderInv, RecorderTypeOK
<1>2. /\ cursor[sync] + Len(batch) <= Len(local[sync])
      /\ \A n \in 1 .. Len(batch) : batch[n] = local[sync][cursor[sync] + n]
      /\ \A n \in 1 .. Len(batch) : batch[n] \in remote[sync]
  BY <1>0 DEF RecorderInv, BatchInv
<1>3. /\ cursor' \in [Tables -> Nat] /\ cursor'[sync] = cursor[sync] + Len(batch)
      /\ \A t \in Tables \ {sync} : cursor'[t] = cursor[t]
      /\ \A t \in Tables : cursor'[t] <= Len(local[t])
  BY <1>0, <1>1, <1>2
<1>4. /\ sync' \in {"off", "asleep", "bootstrap"} \cup Tables
      /\ batch' \in Seq(Rows) /\ stored' = FALSE
      /\ sync' \in Tables =>
            /\ batch' # <<>>
            /\ cursor'[sync'] + Len(batch') <= Len(local'[sync'])
            /\ \A n \in 1 .. Len(batch') : batch'[n] = local'[sync'][cursor'[sync'] + n]
  <2>1. i + 1 \in 1 .. 4
    OBVIOUS
  <2> QED BY <1>0, <1>1, <1>3, <2>1, Pushes
<1>5. RecorderTypeOK'
  BY <1>0, <1>3, <1>4 DEF RecorderInv, RecorderTypeOK
<1>6. BatchInv'
  BY <1>4 DEF BatchInv
<1>7. CursorBehindRemote'
  <2> SUFFICES ASSUME NEW t \in Tables, NEW n \in 1 .. cursor'[t]
               PROVE  local[t][n] \in remote[t]
    BY <1>0 DEF CursorBehindRemote
  <2>1. CASE n \in 1 .. cursor[t]
    BY <2>1 DEF RecorderInv, CursorBehindRemote
  <2>2. CASE n \notin 1 .. cursor[t]
    <3>1. t = sync /\ n - cursor[sync] \in 1 .. Len(batch)
          /\ cursor[sync] + (n - cursor[sync]) = n
      BY <1>1, <1>3, <2>2
    <3> QED BY <1>2, <3>1
  <2> QED BY <2>1, <2>2
<1>8. FiringInv' /\ FiredIsRecorded'
  BY <1>0, TableNames DEF RecorderInv, FiringInv, FiredIsRecorded, Has
<1> QED BY <1>5, <1>6, <1>7, <1>8 DEF RecorderInv

\* The sync task's other steps.
LEMMA SyncStep ==
    ASSUME RecorderInv, SyncWakes \/ RemoteStores \/ BootstrapAnswers \/ RequestFails
    PROVE  RecorderInv'
<1>0. /\ local \in [Tables -> Seq(Rows)] /\ cursor \in [Tables -> Nat]
      /\ \A t \in Tables : cursor[t] <= Len(local[t])
      /\ <<>> \in Seq(Rows)
      /\ MaxFails \in Nat
  BY SqliteRecorderAssumption DEF RecorderInv, RecorderTypeOK
<1>p. ASSUME UNCHANGED <<db, run, local, run_id, cursor, remote, remote_runs, decisions,
                         firing, fired, cut>>,
             sync # "off", ready' \in BOOLEAN, fails' \in 0 .. MaxFails,
             PushTables(1, cursor) \/ (sync' \in {"off", "asleep", "bootstrap"} /\ batch' = <<>>
                                       /\ stored' = FALSE)
      PROVE  RecorderInv'
  <2>1. /\ sync' \in {"off", "asleep", "bootstrap"} \cup Tables
        /\ batch' \in Seq(Rows) /\ stored' = FALSE
        /\ sync' \in Tables =>
              /\ batch' # <<>>
              /\ cursor'[sync'] + Len(batch') <= Len(local'[sync'])
              /\ \A n \in 1 .. Len(batch') : batch'[n] = local'[sync'][cursor'[sync'] + n]
    <3>1. CASE PushTables(1, cursor)
      <4>1. PushTables(1, cursor') /\ 1 \in 1 .. 4
        BY <1>p, <3>1
      <4> QED BY <1>0, <1>p, <4>1, Pushes
    <3>2. CASE sync' \in {"off", "asleep", "bootstrap"} /\ batch' = <<>> /\ stored' = FALSE
      BY <1>0, <3>2, TableNames
    <3> QED BY <1>p, <3>1, <3>2
  <2>2. RecorderTypeOK'
    BY <1>p, <2>1 DEF RecorderInv, RecorderTypeOK
  <2>3. BatchInv'
    BY <2>1 DEF BatchInv
  <2>4. CursorBehindRemote' /\ FiringInv' /\ FiredIsRecorded'
    BY <1>p DEF RecorderInv, CursorBehindRemote, FiringInv, FiredIsRecorded, Has
  <2> QED BY <2>2, <2>3, <2>4 DEF RecorderInv
<1>1. CASE SyncWakes
  <2>1. /\ UNCHANGED <<db, run, local, run_id, cursor, remote, remote_runs, decisions,
                       firing, fired, cut, ready, fails>> /\ sync # "off"
        /\ PushTables(1, cursor) \/ (sync' \in {"off", "asleep", "bootstrap"} /\ batch' = <<>>
                                     /\ stored' = FALSE)
    BY <1>1 DEF SyncWakes, PushAll, fileVars, remoteVars, decisionVars
  <2> QED BY <1>p, <2>1 DEF RecorderInv, RecorderTypeOK
<1>2. CASE RemoteStores
  <2>1. /\ UNCHANGED <<db, run, local, run_id, cursor, ready, sync, batch, fails, decisions,
                       firing, fired, cut>>
        /\ stored' = TRUE
    BY <1>2 DEF RemoteStores, fileVars, decisionVars
  <2>2. CASE sync = "bootstrap"
    <3>1. remote' = remote /\ remote_runs' = remote_runs \cup {run} /\ run \in Runs
      <4>1. run \in 0 .. MaxRuns /\ run # 0
        BY <2>2 DEF RecorderInv, RecorderTypeOK, FiringInv
      <4>2. run \in Runs
        BY <4>1, SqliteRecorderAssumption DEF Runs
      <4> QED BY <1>2, <2>2, <4>2 DEF RemoteStores
    <3> QED BY <2>1, <2>2, <3>1, TableNames
            DEF RecorderInv, RecorderTypeOK, BatchInv, CursorBehindRemote, FiringInv,
                FiredIsRecorded, Has
  <2>3. CASE sync \in Tables
    <3>1. /\ remote' = [remote EXCEPT ![sync] = @ \cup {batch[i] : i \in DOMAIN batch}]
          /\ remote_runs' = remote_runs
      BY <1>2, <2>3, TableNames DEF RemoteStores
    <3>2. /\ remote \in [Tables -> SUBSET Rows] /\ batch \in Seq(Rows)
          /\ DOMAIN batch = 1 .. Len(batch)
          /\ {batch[i] : i \in DOMAIN batch} \subseteq Rows
      BY DEF RecorderInv, RecorderTypeOK
    <3>3. /\ remote' \in [Tables -> SUBSET Rows]
          /\ \A t \in Tables : remote[t] \subseteq remote'[t]
          /\ \A i \in 1 .. Len(batch) : batch[i] \in remote'[sync]
      BY <2>3, <3>1, <3>2
    <3>4. RecorderTypeOK'
      BY <2>1, <3>1, <3>3 DEF RecorderInv, RecorderTypeOK
    <3>5. BatchInv'
      BY <2>1, <3>3 DEF RecorderInv, BatchInv
    <3>6. CursorBehindRemote'
      BY <2>1, <3>3 DEF RecorderInv, CursorBehindRemote
    <3>7. FiringInv' /\ FiredIsRecorded'
      BY <2>1 DEF RecorderInv, FiringInv, FiredIsRecorded, Has
    <3> QED BY <3>4, <3>5, <3>6, <3>7 DEF RecorderInv
  <2> QED BY <1>2, <2>2, <2>3 DEF RemoteStores
<1>3. CASE BootstrapAnswers
  <2>1. /\ UNCHANGED <<db, run, local, run_id, cursor, remote, remote_runs, decisions,
                       firing, fired, cut, fails>>
        /\ ready' = TRUE /\ PushTables(1, cursor) /\ sync # "off"
    BY <1>3 DEF BootstrapAnswers, fileVars, remoteVars, decisionVars
  <2> QED BY <1>p, <2>1 DEF RecorderInv, RecorderTypeOK
<1>4. CASE RequestFails
  <2>1. /\ UNCHANGED <<db, run, local, run_id, cursor, remote, remote_runs, decisions,
                       firing, fired, cut, ready>>
        /\ fails' = fails + 1 /\ fails < MaxFails /\ sync # "off"
        /\ sync' \in {"off", "asleep", "bootstrap"} /\ batch' = <<>> /\ stored' = FALSE
    BY <1>4, TableNames DEF RequestFails, PassEnds, fileVars, remoteVars, decisionVars
  <2>2. fails' \in 0 .. MaxFails /\ ready' \in BOOLEAN
    BY <1>0, <2>1 DEF RecorderInv, RecorderTypeOK
  <2> QED BY <1>p, <2>1, <2>2
<1> QED BY <1>1, <1>2, <1>3, <1>4

LEMMA EndStep ==
    ASSUME RecorderInv, CloseStarts \/ CloseFinishes \/ Exit \/ Crash \/ CrashMidEmit
    PROVE  RecorderInv'
<1>0. /\ local \in [Tables -> Seq(Rows)] /\ cursor \in [Tables -> Nat]
      /\ \A t \in Tables : cursor[t] <= Len(local[t])
      /\ <<>> \in Seq(Rows)
      /\ firing \in 0 .. NDecisions /\ (firing # 0 => firing \in fired)
      /\ fired \subseteq Decisions /\ cut \subseteq fired
  BY DEF RecorderInv, RecorderTypeOK, FiringInv
<1>1. CASE CloseStarts
  <2>1. /\ UNCHANGED <<run, local, run_id, cursor, remote, remote_runs, fails, decisions,
                       firing, fired, cut, ready>>
        /\ db = "open" /\ db' = "closing"
        /\ \/ sync = "off" /\ UNCHANGED <<sync, batch, stored>>
           \/ PushTables(1, cursor)
           \/ sync' = "bootstrap" /\ batch' = <<>> /\ stored' = FALSE
    BY <1>1 DEF CloseStarts, PushAll, fileVars, remoteVars, decisionVars
  <2>2. /\ sync' \in {"off", "asleep", "bootstrap"} \cup Tables
        /\ batch' \in Seq(Rows) /\ stored' \in BOOLEAN
        /\ sync' \in Tables =>
              /\ batch' # <<>> /\ stored' = FALSE
              /\ cursor'[sync'] + Len(batch') <= Len(local'[sync'])
              /\ \A n \in 1 .. Len(batch') : batch'[n] = local'[sync'][cursor'[sync'] + n]
    <3>1. CASE PushTables(1, cursor)
      <4>1. PushTables(1, cursor') /\ 1 \in 1 .. 4
        BY <2>1, <3>1
      <4> QED BY <1>0, <2>1, <4>1, Pushes
    <3>2. CASE sync = "off" /\ UNCHANGED <<sync, batch, stored>>
      BY <3>2, TableNames DEF RecorderInv, RecorderTypeOK
    <3>3. CASE sync' = "bootstrap" /\ batch' = <<>> /\ stored' = FALSE
      <4>1. sync' \notin Tables /\ sync' \in {"off", "asleep", "bootstrap"} \cup Tables
        BY <3>3, TableNames
      <4>2. batch' \in Seq(Rows) /\ stored' \in BOOLEAN
        BY <1>0, <3>3
      <4> QED BY <4>1, <4>2
    <3> QED BY <2>1, <3>1, <3>2, <3>3
  <2>3. RecorderTypeOK'
    BY <2>1, <2>2 DEF RecorderInv, RecorderTypeOK
  <2>4. BatchInv'
    BY <2>2 DEF BatchInv
  <2>5. CursorBehindRemote' /\ FiringInv' /\ FiredIsRecorded'
    BY <2>1 DEF RecorderInv, CursorBehindRemote, FiringInv, FiredIsRecorded, Has
  <2> QED BY <2>3, <2>4, <2>5 DEF RecorderInv
<1>2. CASE CloseFinishes
  BY <1>2 DEF RecorderInv, RecorderTypeOK, BatchInv, CursorBehindRemote, FiringInv,
              FiredIsRecorded, Has, CloseFinishes, fileVars, remoteVars, syncVars, decisionVars
<1>e. ASSUME ProcessEnds,
             local' \in [Tables -> Seq(Rows)], run_id' \in [Decisions -> 0 .. MaxRuns], Longer,
             cursor' = cursor
      PROVE  RecorderInv'
  <2>1. /\ UNCHANGED <<run, remote, remote_runs, ready, fails, decisions, fired>>
        /\ db' = "none" /\ sync' = "off" /\ batch' = <<>> /\ stored' = FALSE /\ firing' = 0
        /\ cut' = IF firing = 0 THEN cut ELSE cut \cup {firing}
    BY <1>e DEF ProcessEnds, remoteVars
  <2>2. /\ CursorBehindRemote' /\ \A t \in Tables : cursor'[t] <= Len(local'[t])
        /\ \A t \in Tables, row \in Rows : Has(t, row) => Has(t, row)'
    BY <1>e, <2>1, FileGrows
  <2>3. RecorderTypeOK'
    <3>1. /\ firing' \in 0 .. NDecisions /\ cut' \subseteq fired'
          /\ batch' \in Seq(Rows)
      BY <1>0, <2>1, SqliteRecorderAssumption
    <3> QED BY <1>e, <2>1, <2>2, <3>1 DEF RecorderInv, RecorderTypeOK
  <2>4. BatchInv' /\ FiringInv'
    BY <2>1, TableNames DEF BatchInv, FiringInv
  <2>5. FiredIsRecorded'
    <3> SUFFICES ASSUME NEW d \in fired' \ (cut' \cup {firing'})
                 PROVE  Has("trades", <<d, 0>>)' /\ Has("legs", <<d, 1>>)'
                        /\ Has("legs", <<d, 2>>)'
      BY DEF FiredIsRecorded
    <3>1. d \in fired \ (cut \cup {firing}) /\ d \in Decisions
      BY <1>0, <2>1
    <3>2. Has("trades", <<d, 0>>) /\ Has("legs", <<d, 1>>) /\ Has("legs", <<d, 2>>)
      BY <3>1 DEF RecorderInv, FiredIsRecorded
    <3> QED BY <2>2, <3>1, <3>2, RowType DEF Tables
  <2> QED BY <2>2, <2>3, <2>4, <2>5 DEF RecorderInv
<1>3. CASE Exit \/ Crash
  <2>1. UNCHANGED <<local, run_id, cursor>> /\ ProcessEnds
    BY <1>3 DEF Exit, Crash, fileVars
  <2>2. \A t \in Tables : local[t] \in Seq(Rows) /\ Len(local[t]) \in Nat
    BY <1>0
  <2>3. Longer
    BY <2>1, <2>2 DEF Longer
  <2> QED BY <1>0, <1>e, <2>1, <2>3 DEF RecorderInv, RecorderTypeOK
<1>4. CASE CrashMidEmit
  <2>1. Emit(firing, "trades") /\ ProcessEnds /\ firing \in Decisions /\ "trades" \in Tables
    BY <1>0, <1>4 DEF CrashMidEmit, Tables
  <2> QED BY <1>e, <2>1, EmitGrows
<1> QED BY <1>1, <1>2, <1>3, <1>4

\* The recorder's invariant holds in every reachable state.
LEMMA RecorderInvariant == RecorderSpec => []RecorderInv
<1>1. RecorderInit => RecorderInv
  <2> SUFFICES ASSUME RecorderInit PROVE RecorderInv
    OBVIOUS
  <2>1. <<>> \in Seq(Rows) /\ Len(<<>>) = 0 /\ 1 .. 0 = {}
    OBVIOUS
  <2>2. RecorderTypeOK
    <3>1. /\ run \in 0 .. MaxRuns /\ fails \in 0 .. MaxFails /\ decisions \in 0 .. NDecisions
          /\ firing \in 0 .. NDecisions /\ run_id \in [Decisions -> 0 .. MaxRuns]
      BY SqliteRecorderAssumption DEF RecorderInit
    <3>2. /\ local \in [Tables -> Seq(Rows)] /\ cursor \in [Tables -> Nat]
          /\ \A t \in Tables : cursor[t] <= Len(local[t])
          /\ remote \in [Tables -> SUBSET Rows] /\ batch \in Seq(Rows)
      BY <2>1 DEF RecorderInit
    <3> QED BY <3>1, <3>2 DEF RecorderInit, RecorderTypeOK
  <2>3. BatchInv /\ CursorBehindRemote /\ FiringInv /\ FiredIsRecorded
    BY <2>1, TableNames
       DEF RecorderInit, BatchInv, CursorBehindRemote, FiringInv, FiredIsRecorded
  <2> QED BY <2>2, <2>3 DEF RecorderInv
<1>2. RecorderInv /\ [RecorderNext]_recorderVars => RecorderInv'
  <2> SUFFICES ASSUME RecorderInv, [RecorderNext]_recorderVars PROVE RecorderInv'
    OBVIOUS
  <2>1. CASE UNCHANGED recorderVars
    BY <2>1 DEF RecorderInv, RecorderTypeOK, BatchInv, CursorBehindRemote, FiringInv,
                FiredIsRecorded, Has, recorderVars, fileVars, remoteVars, syncVars, decisionVars
  <2>2. CASE RecorderNext
    BY <2>2, OpenStep, DecisionStep, SyncStep, PushStep, EndStep DEF RecorderNext
  <2> QED BY <2>1, <2>2
<1> QED BY <1>1, <1>2, PTL DEF RecorderSpec

\* Whatever request fails, is executed without an answer or is cut by a crash or by the
\* closing, _push_table moves the cursor only past rows that the remote store has.
THEOREM CursorIsSafe == RecorderSpec => []CursorBehindRemote
<1>1. RecorderInv => CursorBehindRemote
  BY DEF RecorderInv
<1> QED BY <1>1, RecorderInvariant, PTL

\* A decision that fired keeps its header and both legs in the file, unless a crash or
\* the closing overtook its trade: emit and emit_legs leave no half of it otherwise.
THEOREM TradesAreWhole == RecorderSpec => []FiredIsRecorded
<1>1. RecorderInv => FiredIsRecorded
  BY DEF RecorderInv
<1> QED BY <1>1, RecorderInvariant, PTL

-----------------------------------------------------------------------------
(* The recorder as a log with a replica.                                     *)

LogStep ==
    \/ Log!Record
    \/ (\E t \in Tables : Log!Replicate(t))
    \/ (\E t \in Tables : Log!Acknowledge(t))
    \/ UNCHANGED <<local, remote, cursor>>

\* Rows that are recorded join the log.
LEMMA RecordsAreAdded ==
    ASSUME RecorderInv, Reject \/ FireEnds \/ CrashMidEmit PROVE Log!Record
<1>0. firing \in 0 .. NDecisions /\ decisions \in 0 .. NDecisions /\ NDecisions \in Nat
  BY SqliteRecorderAssumption DEF RecorderInv, RecorderTypeOK
<1>1. Longer /\ cursor' = cursor /\ remote' = remote
  <2>1. CASE Reject
    <3>1. decisions' \in Decisions /\ Emit(decisions', "rejections") /\ "rejections" \in Tables
      BY <1>0, <2>1 DEF Reject, Decisions, Tables
    <3> QED BY <2>1, <3>1, EmitGrows DEF Reject, remoteVars
  <2>2. CASE FireEnds
    <3>1. firing \in Decisions /\ EmitTrade(firing)
      BY <1>0, <2>2 DEF FireEnds, Decisions
    <3> QED BY <2>2, <3>1, EmitTradeGrows DEF FireEnds, remoteVars
  <2>3. CASE CrashMidEmit
    <3>1. firing \in Decisions /\ Emit(firing, "trades") /\ "trades" \in Tables
      BY <1>0, <2>3 DEF CrashMidEmit, Decisions, Tables
    <3> QED BY <2>3, <3>1, EmitGrows DEF CrashMidEmit, ProcessEnds, remoteVars
  <2> QED BY <2>1, <2>2, <2>3
<1> QED BY <1>1 DEF Longer, Log!Record

\* A request the remote store executes copies the rows behind the cursor.
LEMMA BatchIsReplicated ==
    ASSUME RecorderInv, RemoteStores PROVE LogStep
<1>0. UNCHANGED <<local, cursor>>
  BY DEF RemoteStores, fileVars
<1>1. CASE sync = "bootstrap"
  BY <1>0, <1>1 DEF RemoteStores, LogStep
<1>2. CASE sync \in Tables
  <2> HIDE DEF Rows
  <2>1. remote' = [remote EXCEPT ![sync] = @ \cup {batch[i] : i \in DOMAIN batch}]
    BY <1>2, TableNames DEF RemoteStores
  <2>2. /\ local[sync] \in Seq(Rows) /\ Len(local[sync]) \in Nat /\ cursor[sync] \in Nat
        /\ batch \in Seq(Rows) /\ Len(batch) \in Nat
        /\ DOMAIN batch = 1 .. Len(batch) /\ DOMAIN local[sync] = 1 .. Len(local[sync])
    BY <1>2 DEF RecorderInv, RecorderTypeOK
  <2>3. /\ batch # <<>> /\ cursor[sync] + Len(batch) <= Len(local[sync])
        /\ \A i \in 1 .. Len(batch) : batch[i] = local[sync][cursor[sync] + i]
    BY <1>2 DEF RecorderInv, BatchInv
  <2>4. Len(batch) # 0
    BY <2>2, <2>3
  <2> DEFINE m == cursor[sync] + 1
             n == cursor[sync] + Len(batch)
  <2>5. m \in DOMAIN local[sync] /\ n \in DOMAIN local[sync]
    BY <2>2, <2>3, <2>4
  <2>6. {batch[i] : i \in DOMAIN batch} = {local[sync][i] : i \in m .. n}
    <3>1. ASSUME NEW i \in 1 .. Len(batch)
          PROVE  \E j \in m .. n : batch[i] = local[sync][j]
      <4>1. cursor[sync] + i \in m .. n
        BY <2>2
      <4> QED BY <2>3, <4>1
    <3>2. ASSUME NEW j \in m .. n
          PROVE  \E i \in 1 .. Len(batch) : batch[i] = local[sync][j]
      <4>1. j - cursor[sync] \in 1 .. Len(batch) /\ cursor[sync] + (j - cursor[sync]) = j
        BY <2>2
      <4> QED BY <2>3, <4>1
    <3> HIDE DEF m, n
    <3>3. \A r : (\E i \in 1 .. Len(batch) : r = batch[i]) <=> \E j \in m .. n : r = local[sync][j]
      BY <3>1, <3>2, Zenon
    <3> QED BY <2>2, <3>3
  <2>7. remote' = [remote EXCEPT ![sync] = remote[sync] \cup {local[sync][i] : i \in m .. n}]
    BY <2>1, <2>6
  <2> HIDE DEF m, n
  <2>8. Log!Replicate(sync)
    BY <1>0, <2>5, <2>7 DEF Log!Replicate
  <2> QED BY <1>2, <2>8 DEF LogStep
<1> QED BY <1>1, <1>2 DEF RemoteStores

\* An answer acknowledges the rows of its batch.
LEMMA AnswerAcknowledges ==
    ASSUME RecorderInv, NEW k \in 1 .. 3, PushAnswers(k) PROVE Log!Acknowledge(sync) /\ sync \in Tables
<1>0. /\ sync \in Tables /\ stored /\ UNCHANGED <<local, remote>>
      /\ cursor' = [cursor EXCEPT ![sync] = cursor[sync] + Len(batch)]
  BY TableNames DEF PushAnswers, remoteVars
<1>1. /\ Len(local[sync]) \in Nat /\ cursor[sync] \in Nat /\ Len(batch) \in Nat
  BY <1>0 DEF RecorderInv, RecorderTypeOK
<1>2. /\ cursor[sync] + Len(batch) <= Len(local[sync])
      /\ \A i \in 1 .. Len(batch) : batch[i] = local[sync][cursor[sync] + i]
      /\ \A i \in 1 .. Len(batch) : batch[i] \in remote[sync]
  BY <1>0 DEF RecorderInv, BatchInv
<1> DEFINE n == cursor[sync] + Len(batch)
<1>3. n \in cursor[sync] .. Len(local[sync])
  BY <1>1, <1>2
<1>4. ASSUME NEW i \in 1 .. n PROVE local[sync][i] \in remote[sync]
  <2>1. CASE i \in 1 .. cursor[sync]
    BY <1>0, <2>1 DEF RecorderInv, CursorBehindRemote
  <2>2. CASE i \notin 1 .. cursor[sync]
    <3>1. i - cursor[sync] \in 1 .. Len(batch) /\ cursor[sync] + (i - cursor[sync]) = i
      BY <1>1, <2>2
    <3> QED BY <1>2, <3>1
  <2> QED BY <2>1, <2>2
<1> HIDE DEF n
<1>5. cursor' = [cursor EXCEPT ![sync] = n]
  BY <1>0 DEF n
<1> QED BY <1>0, <1>3, <1>4, <1>5 DEF Log!Acknowledge

\* The recorder is a log with a replica: start to end, through crashes, failed requests and
\* later runs, its file only grows (emit, emit_legs), the remote store gains only rows of
\* the file and loses none (_push_table), and sync_state only advances, over rows that the
\* remote store has.
THEOREM LogImplemented == RecorderSpec => ImplementsReplicatedLog
<1>1. RecorderInit => Log!Init
  BY DEF RecorderInit, Log!Init
<1>2. RecorderInv /\ [RecorderNext]_recorderVars => [Log!Next]_(Log!logVars)
  <2> SUFFICES ASSUME RecorderInv, [RecorderNext]_recorderVars PROVE LogStep
    BY DEF LogStep, Log!Next, Log!logVars
  <2>1. CASE UNCHANGED recorderVars
    BY <2>1 DEF LogStep, recorderVars, fileVars, remoteVars
  <2>2. CASE Reject \/ FireEnds \/ CrashMidEmit
    BY <2>2, RecordsAreAdded DEF LogStep
  <2>3. CASE RemoteStores
    BY <2>3, BatchIsReplicated
  <2>4. ASSUME NEW k \in 1 .. 3, PushAnswers(k) PROVE LogStep
    BY <2>4, AnswerAcknowledges DEF LogStep
  <2>5. CASE \/ RecorderOpens \/ FireStarts \/ FireEndsClosed \/ SyncWakes \/ BootstrapAnswers
             \/ RequestFails \/ CloseStarts \/ CloseFinishes \/ Exit \/ Crash
    <3>1. UNCHANGED <<fileVars, remoteVars>>
      BY <2>5 DEF RecorderOpens, FireStarts, FireEndsClosed, SyncWakes, BootstrapAnswers,
                  RequestFails, CloseStarts, CloseFinishes, Exit, Crash, ProcessEnds
    <3> QED BY <3>1 DEF LogStep, fileVars, remoteVars
  <2> QED BY <2>1, <2>2, <2>3, <2>4, <2>5 DEF RecorderNext
<1> QED BY <1>1, <1>2, RecorderInvariant, PTL
        DEF RecorderSpec, ImplementsReplicatedLog, Log!Spec
=============================================================================
