---------------------------- MODULE PersistenceGate ----------------------------
(***************************************************************************)
(* The persistence gate (strategy/persistence_gate.py) as the live         *)
(* strategy uses it: every evaluation hands it the signal's verdict, and a *)
(* fire passes once its edge has lasted.  An update of a book creates the  *)
(* task that evaluates; those that come before it runs are dropped, and it *)
(* looks at the last of them.  While a trade, its repair or a pending      *)
(* reconcile keeps the strategy from assessing, the market moves on and    *)
(* the gate sees nothing of it.                                            *)
(*                                                                         *)
(* A tick is an update of one book.  Times are ages, up to what the gate   *)
(* asks for; more makes no difference to it.                               *)
(***************************************************************************)
EXTENDS Integers

CONSTANTS
    TConfirm,       \* t_confirm_ms, in units of the model's clock
    NConfirm,       \* n_confirm
    \* Bound of the model:
    MaxGap          \* time from one tick to the next

ASSUME GateAssumption ==
    /\ TConfirm \in Nat /\ NConfirm \in Nat /\ MaxGap \in Nat

VARIABLES
    enabled,     \* PersistenceParams.enabled
    \* the market
    edge,        \* the direction the signal fires in at this tick, or "none"
    \* the strategy
    phase,       \* "idle"; "scheduled": _evaluating, and the task has not run; "trading":
                 \* evaluations do not get as far as _assess
    fresh,       \* books that changed since _assess compared their timestamps
    admitted,    \* the last evaluation was told to fire
    \* the gate
    gate_run,    \* _run, with its age instead of its start
    \* history: the edge that every task found, and every tick of a trade showed
    held,        \* that edge
    lasted,      \* how long
    moved,       \* for how many updates
    fires        \* fires of it that the gate let pass, 2 for more

gateVars == <<enabled, edge, phase, fresh, admitted, gate_run, held, lasted, moved, fires>>

Edges == {"none", "A", "B"}
Ages == 0 .. TConfirm
Counts == 0 .. NConfirm
GateRuns == [direction : Edges, age : Ages, updates : Counts, fired : BOOLEAN]
NoRun == [direction |-> "none", age |-> 0, updates |-> 0, fired |-> FALSE]

GateTypeOK ==
    /\ enabled \in BOOLEAN
    /\ {edge, held} \subseteq Edges
    /\ phase \in {"idle", "scheduled", "trading"}
    /\ fresh \in 0 .. 2
    /\ admitted \in BOOLEAN
    /\ gate_run \in GateRuns
    /\ lasted \in Ages
    /\ moved \in Counts
    /\ fires \in 0 .. 2

\* The strategy evaluates once it has both books: one of them is already there.
GateInit ==
    /\ enabled \in BOOLEAN
    /\ edge = "none" /\ phase = "idle" /\ fresh = 1 /\ admitted = FALSE
    /\ gate_run = NoRun
    /\ held = "none" /\ lasted = 0 /\ moved = 0 /\ fires = 0

-----------------------------------------------------------------------------
UpTo(limit, n) == IF n < limit THEN n ELSE limit

\* assess_reversion: staleness, warm-up, depth, thresholds and the position cap, by which
\* a tick fires in a direction or not at all.
AssessReversion == Edges

\* The run as it is `gap` later.
Aged(gap) == [gate_run EXCEPT !.age = IF gate_run = NoRun THEN 0 ELSE UpTo(TConfirm, @ + gap)]

\* One of the books changes, `gap` after the last time: the edge is now e.
MarketTick(e, gap) ==
    /\ edge' = e
    /\ fresh' \in {fresh, fresh + 1} \cap (1 .. 2)
    /\ gate_run' = Aged(gap)

\* The edge held goes on, or e takes its place, `fired` times let pass.
HoldsOn(gap) ==
    /\ lasted' = UpTo(TConfirm, lasted + gap) /\ moved' = UpTo(NConfirm, moved + 1)
    /\ UNCHANGED <<held, fires>>
Replaced(e, fired) ==
    /\ held' = e /\ lasted' = 0 /\ moved' = UpTo(NConfirm, 1) /\ fires' = fired

\* Goes on with the run when the direction flips.
MutContinue(e, ticked) ==
    [gate_run EXCEPT !.direction = e, !.updates = UpTo(NConfirm, @ + ticked)]

\* The run that a fire in direction e is part of, with the books that changed.
Continue(e, ticked) ==
    LET old == IF gate_run.direction = e THEN gate_run ELSE [NoRun EXCEPT !.direction = e]
    IN  [old EXCEPT !.updates = UpTo(NConfirm, @ + ticked)]

\* One fire per run, of an age, across updates; the drift of the mids is another test.
Confirmed(r) == ~r.fired /\ r.age = TConfirm /\ r.updates = NConfirm

\* PersistenceGate.admit; `adverse` is what the mids of the run amount to.
Admit(e, ticked, adverse) ==
    IF ~enabled
    THEN admitted' = (e # "none") /\ UNCHANGED gate_run
    ELSE IF e = "none"
    THEN admitted' = FALSE /\ gate_run' = NoRun
    ELSE LET r == Continue(e, ticked)
         IN  /\ admitted' = (Confirmed(r) /\ ~adverse)
             /\ gate_run' = [r EXCEPT !.fired = @ \/ admitted']

\* _schedule_eval: the update creates the task, or comes before the last one's task ran.
\* It counts for the edge held, if that is what the task will find.
ScheduleEval(e) ==
    /\ phase # "trading"
    /\ \E gap \in 0 .. MaxGap : MarketTick(e, gap) /\ HoldsOn(gap)
    /\ phase' = "scheduled" /\ admitted' = FALSE
    /\ UNCHANGED enabled

\* The task runs: _assess with the books as they are now, and the fire unless the caps or
\* the risk manager block it after the gate.  A book may have changed within the
\* millisecond of its last timestamp.
Assess ==
    /\ phase = "scheduled"
    /\ \E ticked \in 0 .. fresh, adverse \in BOOLEAN : Admit(edge, ticked, adverse)
    /\ fresh' = 0
    /\ LET fired == IF admitted' THEN 1 ELSE 0
       IN  IF edge = held
           THEN fires' = UpTo(2, fires + fired) /\ UNCHANGED <<held, lasted, moved>>
           ELSE Replaced(edge, fired)
    /\ \/ phase' = "idle"
       \/ admitted' /\ phase' = "trading"
    /\ UNCHANGED <<enabled, edge>>

\* An update during a trade.
Unseen(e) ==
    /\ phase = "trading"
    /\ \E gap \in 0 .. MaxGap :
          /\ MarketTick(e, gap)
          /\ IF e = held THEN HoldsOn(gap) ELSE Replaced(e, 0)
    /\ admitted' = FALSE
    /\ UNCHANGED <<enabled, phase>>

\* The trade is settled, and no reconcile is pending.
Settles ==
    /\ phase = "trading"
    /\ phase' = "idle" /\ admitted' = FALSE
    /\ UNCHANGED <<enabled, edge, fresh, gate_run, held, lasted, moved, fires>>

GateNext ==
    \/ Assess \/ Settles
    \/ \E e \in AssessReversion : ScheduleEval(e) \/ Unseen(e)

GateSpec == GateInit /\ [][GateNext]_gateVars

-----------------------------------------------------------------------------
(* Properties.                                                             *)

\* What the gate lets pass is an edge that has been there for t_confirm_ms and for
\* n_confirm updates, one of which may be older than it, of the other leg and not looked
\* at before.  A break counts also during a trade, where nobody looks, and at every task;
\* an edge that breaks and is back before the task that the break created runs has held.
\* It passes once: a run that was blocked afterwards, or interrupted by the trade, starts
\* no second one.
FiresAreConfirmed ==
    enabled /\ admitted => lasted = TConfirm /\ moved + 1 >= NConfirm /\ fires = 1
=============================================================================
