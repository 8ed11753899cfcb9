------------------------------- MODULE Runbot -------------------------------
(***************************************************************************)
(* The life of the process (runbot.py _async_main, core/session.py,        *)
(* strategy/base.py, the run methods of the two strategies): connect the   *)
(* two legs, run the strategy as a task, wait for a signal or for the      *)
(* task's end, stop it, close what it recorded to, disconnect, exit.       *)
(***************************************************************************)
EXTENDS Integers, FiniteSets

Legs == {"leg_a", "leg_b"}
StratEnds == {"failed", "cancelled"}

VARIABLES
    strategy,    \* "taker_taker" or "spread_monitor"
    main,        \* where _async_main stands, "exited" or "killed"
    code,        \* the exit code it is heading for
    drivers,     \* [Legs -> "off", "connecting" or "up"]
    closed,      \* legs disconnect was called for
    stop_evt,
    strat,       \* the strategy's task
    cancel,      \* it has been told to stop, and is cancelled at its next step
    sink,        \* its recorder or writer: "none", "open", "closed"
    ran          \* it got as far as waiting for _stop

stratVars == <<strat, cancel, sink, ran>>
runbotVars == <<strategy, main, code, drivers, closed, stop_evt, stratVars>>

RunbotTypeOK ==
    /\ strategy \in {"taker_taker", "spread_monitor"}
    /\ main \in {"preflight", "connecting", "loading", "presigning", "waiting",
                 "awaiting", "disconnecting", "exited", "killed"}
    /\ code \in {0, 1}
    /\ drivers \in [Legs -> {"off", "connecting", "up"}]
    /\ closed \subseteq Legs
    /\ stop_evt \in BOOLEAN
    /\ strat \in {"none", "created", "seeding", "running", "closing"} \cup StratEnds
    /\ cancel \in BOOLEAN
    /\ sink \in {"none", "open", "closed"}
    /\ ran \in BOOLEAN
    /\ strat \in {"seeding", "running", "closing"} => sink = "open"

RunbotInit ==
    /\ strategy \in {"taker_taker", "spread_monitor"}
    /\ main = "preflight" /\ code = 0
    /\ drivers = [l \in Legs |-> "off"] /\ closed = {}
    /\ stop_evt = FALSE
    /\ strat = "none" /\ cancel = FALSE /\ sink = "none" /\ ran = FALSE

-----------------------------------------------------------------------------
(* Starting.                                                               *)

\* The session's preflight and build_exchanges; what they raise ends the process.
Preflight ==
    /\ main = "preflight"
    /\ \/ main' = "connecting" /\ drivers' = [l \in Legs |-> "connecting"] /\ UNCHANGED code
       \/ main' = "exited" /\ code' = 1 /\ UNCHANGED drivers
    /\ UNCHANGED <<strategy, closed, stop_evt, stratVars>>

\* gather does not stop one leg's connect when the other's has raised.
Connects(l) ==
    /\ drivers[l] = "connecting" /\ main \notin {"exited", "killed"}
    /\ drivers' = [drivers EXCEPT ![l] = "up"]
    /\ UNCHANGED <<strategy, main, code, closed, stop_evt, stratVars>>

ConnectRaises(l) ==
    /\ drivers[l] = "connecting" /\ main \notin {"exited", "killed"}
    /\ drivers' = [drivers EXCEPT ![l] = "off"]
    /\ IF main = "connecting"
       THEN main' = "disconnecting" /\ code' = 1
       ELSE UNCHANGED <<main, code>>
    /\ UNCHANGED <<strategy, closed, stop_evt, stratVars>>

\* Both connected; the markets, then the presign pool, then the strategy's task.
StartStep ==
    /\ \/ main = "connecting" /\ (\A l \in Legs : drivers[l] = "up") /\ main' = "loading"
       \/ main = "loading" /\ main' = "presigning"
       \/ main = "presigning" /\ main' = "waiting"
    /\ strat' = IF main' = "waiting" THEN "created" ELSE strat
    /\ UNCHANGED <<strategy, code, drivers, closed, stop_evt, cancel, sink, ran>>

StartRaises ==
    /\ main \in {"loading", "presigning"}
    /\ main' = "disconnecting" /\ code' = 1
    /\ UNCHANGED <<strategy, drivers, closed, stop_evt, stratVars>>

-----------------------------------------------------------------------------
(* The strategy's task.                                                    *)

\* TakerTaker asks for both positions first; the monitor has nothing to wait for.
StratStarts ==
    /\ strat = "created"
    /\ sink' = "open"
    /\ strat' = IF strategy = "taker_taker" THEN "seeding" ELSE "running"
    /\ ran' = (strat' = "running")
    /\ UNCHANGED <<strategy, main, code, drivers, closed, stop_evt, cancel>>

\* A failure of the task that nobody is told of.
MutStratRaises ==
    /\ strat = "seeding"
    /\ strat' = "failed"
    /\ UNCHANGED <<strategy, main, code, drivers, closed, stop_evt, cancel, sink, ran>>

\* Building or starting the recorder raises, or snapshot_position does; the done
\* callback sets stop_evt.
StratRaises ==
    /\ strat \in {"created", "seeding"}
    /\ strat' = "failed"
    /\ sink' \in (IF strat = "created" THEN {"none", "open"} ELSE {sink})
    /\ stop_evt' = TRUE
    /\ UNCHANGED <<strategy, main, code, drivers, closed, cancel, ran>>

Seeded ==
    /\ strat = "seeding" /\ ~cancel
    /\ strat' = "running" /\ ran' = TRUE
    /\ UNCHANGED <<strategy, main, code, drivers, closed, stop_evt, cancel, sink>>

\* Leaves the sink to the end of the process.
MutCancelled ==
    /\ cancel
    /\ cancel' = FALSE
    /\ strat \in {"seeding", "running"}
    /\ strat' = "cancelled"
    /\ UNCHANGED <<strategy, main, code, drivers, closed, stop_evt, sink, ran>>

\* CancelledError comes out of the await the task is at: from _stop.wait, the finally
\* clause still closes the sink.
Cancelled ==
    /\ cancel
    /\ cancel' = FALSE
    /\ strat \in {"seeding", "running"}
    /\ strat' = IF strat = "running" THEN "closing" ELSE "cancelled"
    /\ UNCHANGED <<strategy, main, code, drivers, closed, stop_evt, sink, ran>>

\* The recorder's aclose raises nothing; the writer's close raises what its task did.
SinkCloses ==
    /\ strat = "closing"
    /\ \/ strat' = "cancelled" /\ sink' = "closed"
       \/ strategy = "spread_monitor" /\ strat' = "failed" /\ UNCHANGED sink
    /\ UNCHANGED <<strategy, main, code, drivers, closed, stop_evt, cancel, ran>>

-----------------------------------------------------------------------------
(* Stopping.                                                               *)

\* asyncio.run answers the first SIGINT by cancelling _async_main at its next await,
\* and gather hands that on to the connects it waits for.  During preflight, which
\* awaits nothing, that is as late as the connecting.
Interrupted ==
    /\ main # "preflight"
    /\ main' = IF main = "disconnecting" THEN "exited" ELSE "disconnecting"
    /\ code' = 1
    /\ drivers' = [l \in Legs |->
                     IF main = "connecting" /\ drivers[l] = "connecting" THEN "off" ELSE drivers[l]]

\* Until the handlers are installed, which is when the task is created, any signal but
\* the first SIGINT ends the process as it stands.
Signal ==
    /\ main \notin {"exited", "killed"}
    /\ IF strat = "none"
       THEN /\ Interrupted \/ (main' = "killed" /\ UNCHANGED <<code, drivers>>)
            /\ UNCHANGED stop_evt
       ELSE stop_evt' = TRUE /\ UNCHANGED <<main, code, drivers>>
    /\ UNCHANGED <<strategy, closed, stratVars>>

\* strategy.stop sets _stop, and the task, which has had its first step, is cancelled
\* as well.
Stop ==
    /\ main = "waiting" /\ stop_evt /\ strat # "created"
    /\ cancel' = (strat \notin StratEnds)
    /\ main' = "awaiting"
    /\ UNCHANGED <<strategy, code, drivers, closed, stop_evt, strat, sink, ran>>

\* Cancellation is the normal end, any other exception goes on to the exit code.
StratAwaited ==
    /\ main = "awaiting" /\ strat \in StratEnds
    /\ main' = "disconnecting"
    /\ code' = IF strat = "failed" THEN 1 ELSE 0
    /\ UNCHANGED <<strategy, drivers, closed, stop_evt, stratVars>>

\* One leg after the other, whatever disconnect raises; a connect under way goes on.
Disconnects(l) ==
    /\ main = "disconnecting"
    /\ l \notin closed /\ (l = "leg_b" => "leg_a" \in closed)
    /\ closed' = closed \cup {l}
    /\ drivers' = [drivers EXCEPT ![l] = IF @ = "up" THEN "off" ELSE @]
    /\ UNCHANGED <<strategy, main, code, stop_evt, stratVars>>

Exits ==
    /\ main = "disconnecting" /\ closed = Legs
    /\ main' = "exited"
    /\ UNCHANGED <<strategy, code, drivers, closed, stop_evt, stratVars>>

-----------------------------------------------------------------------------
RunbotNext ==
    \/ Preflight \/ StartStep \/ StartRaises
    \/ \E l \in Legs : Connects(l) \/ ConnectRaises(l) \/ Disconnects(l)
    \/ StratStarts \/ StratRaises \/ Seeded \/ Cancelled \/ SinkCloses
    \/ Signal \/ Stop \/ StratAwaited \/ Exits

\* The event loop runs what is ready; closing the sink ends (its own module says when).
RunbotFairness ==
    /\ WF_runbotVars(StratStarts \/ Cancelled)
    /\ WF_runbotVars(SinkCloses)
    /\ WF_runbotVars(Stop \/ StratAwaited \/ Exits)
    /\ \A l \in Legs : WF_runbotVars(Disconnects(l))

RunbotSpec == RunbotInit /\ [][RunbotNext]_runbotVars /\ RunbotFairness

-----------------------------------------------------------------------------
(* Properties.                                                             *)

\* A process that ends with code 0 has closed the recorder or the writer, however the
\* signal met the task, once the task waited for its _stop.  (Cancelled while seeding,
\* TakerTaker leaves its recorder open.)
CleanExitClosesSink ==
    main = "exited" /\ code = 0 /\ ran => sink = "closed"

\* A signal or a failure of the strategy ends the process.
ExitsWhenAsked == (stop_evt \/ strat = "failed") ~> (main = "exited")
=============================================================================
