--------------------------------- MODULE MCData ---------------------------------
(***************************************************************************)
(* What the bot records and replays, for TLC: the live recorder, the       *)
(* capture writer and the backtest engine.  They share no state, so a      *)
(* behaviour is one of one part, chosen at the start, while the others     *)
(* rest in an initial state, in which none of their fair actions is enabled.*)
(***************************************************************************)
EXTENDS SqliteRecorder, Capture, Backtest

VARIABLE part

dataVars == <<part, recorderVars, captureVars, backtestVars>>

DataInit ==
    /\ part \in {"recorder", "capture", "backtest"}
    /\ RecorderInit
    /\ CaptureInit /\ (part # "capture" => disk = "fast")
    /\ BacktestInit
    /\ (part # "backtest" => k = 0 /\ \A v \in Venues : delay[v] = 0)

DataNext ==
    /\ UNCHANGED part
    /\ \/ part = "recorder" /\ RecorderNext /\ UNCHANGED <<captureVars, backtestVars>>
       \/ part = "capture" /\ CaptureNext /\ UNCHANGED <<recorderVars, backtestVars>>
       \/ part = "backtest" /\ BacktestNext /\ UNCHANGED <<recorderVars, captureVars>>

DataSpec ==
    /\ DataInit /\ [][DataNext]_dataVars
    /\ RecorderFairness /\ CaptureFairness

\* Every variable of the three modules keeps its type.
DataTypeOK == RecorderTypeOK /\ CaptureTypeOK /\ BacktestTypeOK
=============================================================================
