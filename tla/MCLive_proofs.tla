----------------------------- MODULE MCLive_proofs -----------------------------
(***************************************************************************)
(* Theorems about PersistenceGate, for every window and every count, about *)
(* Runbot, and about the four parts of MCLive together: that each part of  *)
(* its behaviours is one of the part's own.                                *)
(***************************************************************************)
EXTENDS MCLive, OrderWait_proofs, MarketFeed_proofs, TLAPS

-----------------------------------------------------------------------------
(* The persistence gate.                                                    *)

\* A run that has not fired belongs to the edge held, which is at least as old as the run
\* and has lasted for its updates but one: only a run that has fired can be cut off from
\* the market by a trade.
RunInv ==
    /\ gate_run.direction = "none" => gate_run = NoRun
    /\ ~enabled => gate_run = NoRun
    /\ enabled /\ phase = "trading" => gate_run.fired
    /\ gate_run.direction # "none" /\ ~gate_run.fired =>
          /\ gate_run.direction = held
          /\ gate_run.age <= lasted
          /\ moved = NConfirm \/ gate_run.updates + fresh <= moved + 1

\* An edge has at least the update that brought it.
HeldInv == held # "none" => moved = NConfirm \/ moved # 0

\* An edge that has fired is that of the run.
FireInv == enabled /\ fires # 0 => gate_run.direction = held /\ gate_run.fired

GateInv == GateTypeOK /\ RunInv /\ HeldInv /\ FireInv /\ FiresAreConfirmed

LEMMA UpToTypes ==
    ASSUME NEW limit \in Nat, NEW n \in Nat
    PROVE  /\ UpTo(limit, n) \in 0 .. limit
           /\ n <= limit => UpTo(limit, n) = n
           /\ UpTo(limit, n) <= n
           /\ UpTo(limit, n) = limit \/ UpTo(limit, n) = n
           /\ \A k \in Nat : k <= n => UpTo(limit, k) <= UpTo(limit, n)
  BY DEF UpTo

\* The types of the numbers.
LEMMA GateNumbers ==
    ASSUME GateTypeOK
    PROVE  /\ TConfirm \in Nat /\ NConfirm \in Nat
           /\ lasted \in 0 .. TConfirm /\ moved \in 0 .. NConfirm /\ fresh \in 0 .. 2
           /\ gate_run \in GateRuns /\ gate_run.age \in 0 .. TConfirm
           /\ gate_run.updates \in 0 .. NConfirm
           /\ 0 \in Ages /\ 0 \in Counts /\ UpTo(NConfirm, 1) \in Counts
           /\ UpTo(NConfirm, 1) = NConfirm \/ UpTo(NConfirm, 1) = 1
<1>1. TConfirm \in Nat /\ NConfirm \in Nat
  BY GateAssumption
<1>2. UpTo(NConfirm, 1) \in 0 .. NConfirm /\ (UpTo(NConfirm, 1) = NConfirm \/ UpTo(NConfirm, 1) = 1)
  BY <1>1, UpToTypes
<1> QED BY <1>1, <1>2 DEF GateTypeOK, GateRuns, Ages, Counts

\* The market's part of a step.
LEMMA TickTypes ==
    ASSUME GateTypeOK, RunInv, NEW e \in Edges, NEW gap \in 0 .. MaxGap, MarketTick(e, gap)
    PROVE  /\ edge' = e /\ fresh' \in 0 .. 2 /\ fresh' <= fresh + 1
           /\ gate_run' \in GateRuns
           /\ gate_run'.direction = gate_run.direction /\ gate_run'.fired = gate_run.fired
           /\ gate_run'.updates = gate_run.updates
           /\ gate_run = NoRun => gate_run' = NoRun
           /\ gate_run # NoRun => gate_run'.age = UpTo(TConfirm, gate_run.age + gap)
<1>1. gate_run \in GateRuns /\ gate_run.age \in Nat /\ gap \in Nat /\ TConfirm \in Nat
  BY GateNumbers
<1>2. gate_run.age + gap \in Nat
  BY <1>1
<1>3. UpTo(TConfirm, gate_run.age + gap) \in Ages /\ 0 \in Ages
  <2>1. UpTo(TConfirm, gate_run.age + gap) \in 0 .. TConfirm
    BY <1>1, <1>2, UpToTypes
  <2> QED BY <1>1, <2>1 DEF Ages
<1>4. ASSUME gate_run = NoRun PROVE Aged(gap) = NoRun
  <2>1. Aged(gap) = [NoRun EXCEPT !.age = 0]
    BY <1>4 DEF Aged
  <2> QED BY <2>1 DEF NoRun
<1>5. (IF gate_run = NoRun THEN 0 ELSE UpTo(TConfirm, gate_run.age + gap)) \in Ages
  BY <1>3
<1>6. /\ Aged(gap).direction = gate_run.direction /\ Aged(gap).fired = gate_run.fired
      /\ Aged(gap).updates = gate_run.updates
  BY <1>1 DEF Aged, GateRuns
<1>7. Aged(gap) \in GateRuns
  BY <1>1, <1>5 DEF Aged, GateRuns
<1>8. gate_run # NoRun => Aged(gap).age = UpTo(TConfirm, gate_run.age + gap)
  BY <1>1 DEF Aged, GateRuns
<1>9. edge' = e /\ gate_run' = Aged(gap) /\ fresh' \in {fresh, fresh + 1} \cap (1 .. 2)
  BY DEF MarketTick
<1>10. fresh' \in 0 .. 2 /\ fresh' <= fresh + 1
  BY <1>9, GateNumbers
<1> QED BY <1>4, <1>6, <1>7, <1>8, <1>9, <1>10

\* The edge that goes on.
LEMMA HoldsTypes ==
    ASSUME GateTypeOK, NEW gap \in 0 .. MaxGap, HoldsOn(gap)
    PROVE  /\ lasted' \in Ages /\ moved' \in Counts /\ held' = held /\ fires' = fires
           /\ lasted' = UpTo(TConfirm, lasted + gap)
           /\ moved' = NConfirm \/ moved' = moved + 1
<1>1. /\ lasted + gap \in Nat /\ moved + 1 \in Nat /\ TConfirm \in Nat /\ NConfirm \in Nat
  BY GateNumbers
<1>2. UpTo(TConfirm, lasted + gap) \in 0 .. TConfirm
  BY <1>1, UpToTypes
<1>3. /\ UpTo(NConfirm, moved + 1) \in 0 .. NConfirm
      /\ UpTo(NConfirm, moved + 1) = NConfirm \/ UpTo(NConfirm, moved + 1) = moved + 1
  BY <1>1, UpToTypes
<1> QED BY <1>2, <1>3 DEF HoldsOn, Ages, Counts

\* The run with the books that changed: the edge that the task finds is as old as it.
LEMMA ContinueTypes ==
    ASSUME GateInv, edge # "none", NEW ticked \in 0 .. fresh
    PROVE  /\ Continue(edge, ticked) \in GateRuns
           /\ Continue(edge, ticked).direction = edge
           /\ ~Continue(edge, ticked).fired =>
                 /\ edge = held =>
                       /\ Continue(edge, ticked).age <= lasted
                       /\ moved = NConfirm \/ Continue(edge, ticked).updates <= moved + 1
                       /\ enabled => fires = 0
                 /\ edge # held => /\ Continue(edge, ticked).age = 0
                                   /\ Continue(edge, ticked).updates <= 2
           /\ gate_run.direction = edge => Continue(edge, ticked).fired = gate_run.fired
<1> DEFINE old == IF gate_run.direction = edge THEN gate_run ELSE [NoRun EXCEPT !.direction = edge]
           r == Continue(edge, ticked)
<1>1. /\ GateTypeOK /\ RunInv /\ HeldInv /\ FireInv /\ edge \in Edges
      /\ ticked \in Nat /\ ticked <= fresh /\ ticked <= 2
  <2>1. GateTypeOK /\ RunInv /\ HeldInv /\ FireInv
    BY DEF GateInv
  <2>2. edge \in Edges
    BY <2>1 DEF GateTypeOK
  <2> QED BY <2>1, <2>2, GateNumbers
<1>2. /\ old \in GateRuns /\ old.direction = edge /\ old.updates \in 0 .. NConfirm
      /\ gate_run.direction = edge => old = gate_run
      /\ gate_run.direction # edge => old.age = 0 /\ old.updates = 0 /\ old.fired = FALSE
  <2>1. CASE gate_run.direction = edge
    BY <1>1, <2>1, GateNumbers
  <2>2. CASE gate_run.direction # edge
    <3>1. old = [direction |-> edge, age |-> 0, updates |-> 0, fired |-> FALSE]
      BY <2>2 DEF NoRun
    <3>2. 0 \in Ages /\ 0 \in Counts /\ 0 \in 0 .. NConfirm
      BY <1>1, GateNumbers
    <3>3. [direction |-> edge, age |-> 0, updates |-> 0, fired |-> FALSE] \in GateRuns
      BY <1>1, <3>2 DEF GateRuns
    <3>4. /\ old \in GateRuns /\ old.direction = edge /\ old.age = 0 /\ old.updates = 0
          /\ old.fired = FALSE
      BY <3>1, <3>3
    <3> QED BY <2>2, <3>2, <3>4
  <2> QED BY <2>1, <2>2
<1>3. r = [old EXCEPT !.updates = UpTo(NConfirm, old.updates + ticked)]
  BY DEF Continue
<1> HIDE DEF old
<1>4. /\ old.updates + ticked \in Nat /\ NConfirm \in Nat
      /\ UpTo(NConfirm, old.updates + ticked) \in Counts
      /\ UpTo(NConfirm, old.updates + ticked) <= old.updates + ticked
  <2>1. old.updates + ticked \in Nat /\ NConfirm \in Nat
    BY <1>1, <1>2, GateNumbers
  <2> QED BY <2>1, UpToTypes DEF Counts
<1>5. /\ r \in GateRuns /\ r.direction = edge /\ r.fired = old.fired /\ r.age = old.age
      /\ r.updates = UpTo(NConfirm, old.updates + ticked)
  BY <1>2, <1>3, <1>4 DEF GateRuns
<1>6. r.updates <= old.updates + ticked /\ r.updates \in Nat
  <2>1. r.updates \in Nat
    BY <1>4, <1>5 DEF Counts
  <2> QED BY <1>4, <1>5, <2>1
<1> HIDE DEF r
<1>7. ASSUME ~r.fired, gate_run.direction = edge
      PROVE  /\ edge = held /\ r.age <= lasted
             /\ moved = NConfirm \/ r.updates <= moved + 1
             /\ enabled => fires = 0
  <2>1. /\ edge = held /\ gate_run.age <= lasted
        /\ moved = NConfirm \/ gate_run.updates + fresh <= moved + 1
        /\ ~gate_run.fired
    BY <1>1, <1>2, <1>5, <1>7 DEF RunInv
  <2>2. r.age <= lasted
    BY <1>2, <1>5, <1>7, <2>1
  <2>3. moved = NConfirm \/ r.updates <= moved + 1
    <3>1. old.updates = gate_run.updates
      BY <1>2, <1>7
    <3> QED BY <1>1, <1>2, <1>6, <2>1, <3>1, GateNumbers
  <2>4. enabled => fires = 0
    BY <1>1, <2>1 DEF FireInv
  <2> QED BY <2>1, <2>2, <2>3, <2>4
<1>8. ASSUME gate_run.direction # edge
      PROVE  /\ r.age = 0 /\ r.updates <= 2
             /\ edge = held => /\ moved = NConfirm \/ r.updates <= moved + 1
                               /\ enabled => fires = 0
  <2>1. r.age = 0 /\ r.updates <= 2
    BY <1>1, <1>2, <1>5, <1>6, <1>8
  <2>2. edge = held => moved = NConfirm \/ r.updates <= moved + 1
    BY <1>1, <1>6, <2>1, GateNumbers DEF HeldInv
  <2>3. edge = held => (enabled => fires = 0)
    BY <1>1, <1>8 DEF FireInv
  <2> QED BY <2>1, <2>2, <2>3
<1>9. gate_run.direction = edge => r.fired = gate_run.fired
  BY <1>2, <1>5
<1>10. 0 <= lasted
  BY <1>1, GateNumbers
<1>11. ASSUME ~r.fired
       PROVE  /\ edge = held => /\ r.age <= lasted
                                /\ moved = NConfirm \/ r.updates <= moved + 1
                                /\ enabled => fires = 0
              /\ edge # held => r.age = 0 /\ r.updates <= 2
  <2>1. CASE gate_run.direction = edge
    BY <1>7, <1>11, <2>1
  <2>2. CASE gate_run.direction # edge
    BY <1>8, <1>10, <2>2
  <2> QED BY <2>1, <2>2
<1> QED BY <1>5, <1>9, <1>11 DEF r

LEMMA GateStarts == ASSUME GateInit PROVE GateInv
<1>1. 0 \in Ages /\ 0 \in Counts
  BY GateAssumption DEF Ages, Counts
<1>2. GateTypeOK
  <2>1. NoRun \in GateRuns
    BY <1>1 DEF GateRuns, NoRun, Edges
  <2>2. {edge, held} \subseteq Edges /\ fires \in 0 .. 2 /\ fresh \in 0 .. 2
    BY DEF GateInit, Edges
  <2>3. /\ enabled \in BOOLEAN /\ admitted \in BOOLEAN
        /\ phase \in {"idle", "scheduled", "trading"}
    BY DEF GateInit
  <2> QED BY <1>1, <2>1, <2>2, <2>3 DEF GateInit, GateTypeOK
<1>3. RunInv
  BY DEF GateInit, RunInv, NoRun
<1>4. HeldInv /\ FireInv /\ FiresAreConfirmed
  BY DEF GateInit, HeldInv, FireInv, FiresAreConfirmed
<1> QED BY <1>2, <1>3, <1>4 DEF GateInv

LEMMA ScheduleStep == ASSUME GateInv, NEW e \in Edges, ScheduleEval(e) PROVE GateInv'
<1>1. GateTypeOK /\ RunInv /\ HeldInv /\ FireInv
  BY DEF GateInv
<1> PICK gap \in 0 .. MaxGap : MarketTick(e, gap) /\ HoldsOn(gap)
  BY DEF ScheduleEval
<1>2. /\ phase # "trading" /\ phase' = "scheduled" /\ enabled' = enabled /\ admitted' = FALSE
  BY DEF ScheduleEval
<1>3. /\ edge' = e /\ fresh' \in 0 .. 2 /\ fresh' <= fresh + 1 /\ gate_run' \in GateRuns
      /\ gate_run'.direction = gate_run.direction /\ gate_run'.fired = gate_run.fired
      /\ gate_run'.updates = gate_run.updates
      /\ gate_run = NoRun => gate_run' = NoRun
      /\ gate_run # NoRun => gate_run'.age = UpTo(TConfirm, gate_run.age + gap)
  BY <1>1, TickTypes
<1>4. /\ lasted' \in Ages /\ moved' \in Counts /\ held' = held /\ fires' = fires
      /\ lasted' = UpTo(TConfirm, lasted + gap)
      /\ moved' = NConfirm \/ moved' = moved + 1
  BY <1>1, HoldsTypes
<1>5. GateTypeOK'
  BY <1>1, <1>2, <1>3, <1>4 DEF GateTypeOK
<1>6. RunInv'
  <2>1. ASSUME gate_run'.direction # "none", ~gate_run'.fired
        PROVE  /\ gate_run'.direction = held' /\ gate_run'.age <= lasted'
               /\ moved' = NConfirm \/ gate_run'.updates + fresh' <= moved' + 1
    <3>1. /\ gate_run # NoRun /\ gate_run.direction = held /\ gate_run.age <= lasted
          /\ moved = NConfirm \/ gate_run.updates + fresh <= moved + 1
      <4>1. gate_run.direction # "none" /\ ~gate_run.fired
        BY <1>3, <2>1
      <4> QED BY <1>1, <4>1 DEF RunInv, NoRun
    <3>2. gate_run'.age <= lasted'
      <4>1. /\ gate_run.age + gap \in Nat /\ lasted + gap \in Nat /\ TConfirm \in Nat
            /\ gate_run.age + gap <= lasted + gap
        BY <1>1, <3>1, GateNumbers
      <4> DEFINE young == gate_run.age + gap
                 old == lasted + gap
      <4>2. young \in Nat /\ old \in Nat /\ TConfirm \in Nat /\ young <= old
        BY <4>1
      <4>3. gate_run'.age = UpTo(TConfirm, young) /\ lasted' = UpTo(TConfirm, old)
        BY <1>3, <1>4, <3>1
      <4> HIDE DEF young, old
      <4>4. UpTo(TConfirm, young) <= UpTo(TConfirm, old)
        BY <4>2, UpToTypes
      <4> QED BY <4>3, <4>4
    <3>3. moved' = NConfirm \/ gate_run'.updates + fresh' <= moved' + 1
      <4>1. /\ moved \in 0 .. NConfirm /\ moved' \in 0 .. NConfirm /\ NConfirm \in Nat
            /\ gate_run.updates \in Nat /\ fresh \in Nat /\ fresh' \in Nat
        BY <1>1, <1>3, <1>4, GateNumbers DEF Counts
      <4>2. CASE moved = NConfirm
        BY <1>4, <4>1, <4>2
      <4>3. CASE moved # NConfirm
        BY <1>3, <1>4, <3>1, <4>1, <4>3
      <4> QED BY <4>2, <4>3
    <3> QED BY <1>3, <1>4, <3>1, <3>2, <3>3
  <2> QED BY <1>1, <1>2, <1>3, <2>1 DEF RunInv, NoRun
<1>7. HeldInv'
  BY <1>1, <1>4, GateNumbers DEF HeldInv
<1>8. FireInv' /\ FiresAreConfirmed'
  BY <1>1, <1>2, <1>3, <1>4 DEF FireInv, FiresAreConfirmed
<1> QED BY <1>5, <1>6, <1>7, <1>8 DEF GateInv

LEMMA AssessStep == ASSUME GateInv, Assess PROVE GateInv'
<1>1. GateTypeOK /\ RunInv /\ HeldInv /\ FireInv /\ edge \in Edges /\ held \in Edges
      /\ fires \in 0 .. 2
  BY DEF GateInv, GateTypeOK
<1> PICK ticked \in 0 .. fresh, adverse \in BOOLEAN : Admit(edge, ticked, adverse)
  BY DEF Assess
<1> DEFINE fired == IF admitted' THEN 1 ELSE 0
<1>2. /\ phase = "scheduled" /\ enabled' = enabled /\ edge' = edge /\ fresh' = 0
      /\ phase' \in {"idle", "trading"} /\ (phase' = "trading" => admitted')
  BY DEF Assess
<1>3. /\ edge = held => /\ fires' = UpTo(2, fires + fired)
                        /\ UNCHANGED <<held, lasted, moved>>
      /\ edge # held => /\ held' = edge /\ lasted' = 0 /\ moved' = UpTo(NConfirm, 1)
                        /\ fires' = fired
  BY DEF Assess, Replaced
<1>4. /\ held' = edge /\ lasted' \in Ages /\ moved' \in Counts /\ fires' \in 0 .. 2
  <2>1. UpTo(2, fires + fired) \in 0 .. 2
    BY <1>1 DEF UpTo
  <2>2. fired \in 0 .. 2
    OBVIOUS
  <2>3. CASE edge = held
    BY <1>1, <1>3, <2>1, <2>3 DEF GateTypeOK
  <2>4. CASE edge # held
    BY <1>1, <1>3, <2>2, <2>4, GateNumbers
  <2> QED BY <2>3, <2>4
<1>5. HeldInv'
  <2>1. CASE edge = held
    BY <1>1, <1>3, <2>1 DEF HeldInv
  <2>2. CASE edge # held
    BY <1>1, <1>3, <2>2, GateNumbers DEF HeldInv
  <2> QED BY <2>1, <2>2
<1>6. CASE ~enabled
  <2>1. admitted' = (edge # "none") /\ gate_run' = gate_run
    BY <1>6 DEF Admit
  <2>2. GateTypeOK'
    BY <1>1, <1>2, <1>4, <2>1 DEF GateTypeOK
  <2>3. gate_run' = NoRun
    BY <1>1, <1>6, <2>1 DEF RunInv
  <2>4. RunInv' /\ FireInv' /\ FiresAreConfirmed'
    BY <1>2, <1>6, <2>3 DEF RunInv, FireInv, FiresAreConfirmed, NoRun
  <2> QED BY <1>5, <2>2, <2>4 DEF GateInv
<1>7. CASE enabled /\ edge = "none"
  <2>1. admitted' = FALSE /\ gate_run' = NoRun
    BY <1>7 DEF Admit
  <2>2. NoRun \in GateRuns
    BY GateAssumption DEF NoRun, GateRuns, Edges, Ages, Counts
  <2>3. GateTypeOK'
    <3>1. admitted' \in BOOLEAN /\ gate_run' \in GateRuns
      BY <2>1, <2>2
    <3> QED BY <1>1, <1>2, <1>4, <3>1 DEF GateTypeOK
  <2>4. fires' = 0
    <3>1. edge = held => fires = 0
      <4>1. gate_run.direction = "none" => ~gate_run.fired
        BY <1>1 DEF RunInv, NoRun
      <4> QED BY <1>1, <1>7, <4>1 DEF FireInv
    <3>2. fired = 0 /\ UpTo(2, 0 + 0) = 0
      BY <2>1 DEF UpTo
    <3>3. CASE edge = held
      <4>1. fires = 0 /\ fires' = UpTo(2, fires + fired)
        BY <1>3, <3>1, <3>3
      <4> QED BY <3>2, <4>1
    <3>4. CASE edge # held
      BY <1>3, <3>2, <3>4
    <3> QED BY <3>3, <3>4
  <2>5. RunInv' /\ FireInv' /\ FiresAreConfirmed'
    BY <1>2, <1>7, <2>1, <2>4 DEF RunInv, FireInv, FiresAreConfirmed, NoRun
  <2> QED BY <1>5, <2>3, <2>5 DEF GateInv
<1>8. CASE enabled /\ edge # "none"
  <2> DEFINE r == Continue(edge, ticked)
  <2>1. /\ admitted' = (Confirmed(r) /\ ~adverse)
        /\ gate_run' = [r EXCEPT !.fired = @ \/ admitted']
    BY <1>8 DEF Admit
  <2>2. /\ r \in GateRuns /\ r.direction = edge
        /\ ~r.fired => /\ edge = held => /\ r.age <= lasted
                                         /\ moved = NConfirm \/ r.updates <= moved + 1
                                         /\ fires = 0
                       /\ edge # held => r.age = 0 /\ r.updates <= 2
        /\ gate_run.direction = edge => r.fired = gate_run.fired
    BY <1>8, ContinueTypes
  <2> HIDE DEF r
  <2>3. admitted' \in BOOLEAN
    BY <2>1 DEF Confirmed
  <2>4. r.fired \in BOOLEAN /\ r.age \in 0 .. TConfirm /\ r.updates \in 0 .. NConfirm
    BY <2>2 DEF GateRuns, Ages, Counts
  <2>5. /\ gate_run' \in GateRuns /\ gate_run'.direction = edge
        /\ gate_run'.fired = (r.fired \/ admitted')
        /\ gate_run'.age = r.age /\ gate_run'.updates = r.updates
    BY <2>1, <2>2, <2>3, <2>4 DEF GateRuns
  <2>6. GateTypeOK'
    BY <1>1, <1>2, <1>4, <2>3, <2>5 DEF GateTypeOK
  <2>7. ~r.fired => /\ r.age <= lasted' /\ (moved' = NConfirm \/ r.updates <= moved' + 1)
                    /\ fires' = fired
    <3> SUFFICES ASSUME ~r.fired
                 PROVE  /\ r.age <= lasted' /\ (moved' = NConfirm \/ r.updates <= moved' + 1)
                        /\ fires' = fired
      OBVIOUS
    <3>1. CASE edge = held
      <4>1. fires' = UpTo(2, fired)
        BY <1>3, <2>2, <3>1
      <4>2. UpTo(2, fired) = fired
        BY DEF UpTo
      <4> QED BY <1>3, <2>2, <3>1, <4>1, <4>2
    <3>2. CASE edge # held
      <4>1. moved' = NConfirm \/ moved' = 1
        BY <1>1, <1>3, <3>2, GateNumbers
      <4> QED BY <1>3, <2>2, <2>4, <3>2, <4>1
    <3> QED BY <3>1, <3>2
  <2>8. RunInv'
    <3>1. phase' = "trading" => gate_run'.fired
      BY <1>2, <2>5
    <3>2. ASSUME ~gate_run'.fired
          PROVE  /\ gate_run'.direction = held' /\ gate_run'.age <= lasted'
                 /\ moved' = NConfirm \/ gate_run'.updates + fresh' <= moved' + 1
      <4>1. ~r.fired
        BY <2>5, <3>2
      <4> QED BY <1>2, <1>4, <2>4, <2>5, <2>7, <4>1
    <3> QED BY <1>2, <1>8, <2>5, <3>1, <3>2 DEF RunInv
  <2>9. FireInv'
    <3> SUFFICES ASSUME fires' # 0 PROVE gate_run'.direction = held' /\ gate_run'.fired
      BY DEF FireInv
    <3>1. CASE admitted'
      BY <1>4, <2>5, <3>1
    <3>2. CASE ~admitted'
      <4>1. edge = held /\ fires # 0
        BY <1>1, <1>3, <3>2 DEF UpTo
      <4>2. gate_run.direction = edge /\ gate_run.fired
        BY <1>1, <1>8, <4>1 DEF FireInv
      <4> QED BY <1>4, <2>2, <2>5, <4>2
    <3> QED BY <3>1, <3>2
  <2>10. FiresAreConfirmed'
    <3> SUFFICES ASSUME admitted'
                 PROVE  lasted' = TConfirm /\ moved' + 1 >= NConfirm /\ fires' = 1
      BY DEF FiresAreConfirmed
    <3>1. ~r.fired /\ r.age = TConfirm /\ r.updates = NConfirm
      BY <2>1 DEF Confirmed
    <3>2. /\ lasted' \in 0 .. TConfirm /\ moved' \in 0 .. NConfirm
          /\ TConfirm \in Nat /\ NConfirm \in Nat
      BY <1>4, GateAssumption DEF Ages, Counts
    <3>3. fires' = 1
      BY <2>7, <3>1
    <3>4. r.age <= lasted' /\ (moved' = NConfirm \/ r.updates <= moved' + 1)
      BY <2>7, <3>1
    <3>5. lasted' = TConfirm
      <4>1. r.age = TConfirm
        BY <3>1
      <4>2. TConfirm <= lasted'
        BY <3>4, <4>1
      <4> QED BY <3>2, <4>2
    <3>6. moved' + 1 >= NConfirm
      <4>1. r.updates = NConfirm
        BY <3>1
      <4>2. CASE moved' = NConfirm
        BY <3>2, <4>2
      <4>3. CASE moved' # NConfirm
        <5>1. NConfirm <= moved' + 1
          BY <3>4, <4>1, <4>3
        <5>2. moved' \in Int /\ NConfirm \in Int
          BY <3>2
        <5> QED BY <5>1, <5>2
      <4> QED BY <4>2, <4>3
    <3> QED BY <3>3, <3>5, <3>6
  <2> QED BY <1>5, <2>6, <2>8, <2>9, <2>10 DEF GateInv
<1> QED BY <1>6, <1>7, <1>8

LEMMA UnseenStep == ASSUME GateInv, NEW e \in Edges, Unseen(e) PROVE GateInv'
<1>1. GateTypeOK /\ RunInv /\ HeldInv /\ FireInv
  BY DEF GateInv
<1> PICK gap \in 0 .. MaxGap : /\ MarketTick(e, gap)
                               /\ IF e = held THEN HoldsOn(gap)
                                  ELSE Replaced(e, 0)
  BY DEF Unseen
<1>2. /\ phase = "trading" /\ phase' = phase /\ enabled' = enabled /\ admitted' = FALSE
  BY DEF Unseen
<1>3. /\ edge' = e /\ fresh' \in 0 .. 2 /\ gate_run' \in GateRuns
      /\ gate_run'.direction = gate_run.direction /\ gate_run'.fired = gate_run.fired
      /\ gate_run = NoRun => gate_run' = NoRun
  BY <1>1, TickTypes
<1>4. /\ held' = e /\ lasted' \in Ages /\ moved' \in Counts /\ fires' \in 0 .. 2
      /\ moved' = NConfirm \/ moved' # 0
      /\ fires' # 0 => e = held /\ fires # 0
  <2>1. CASE e = held
    <3>1. /\ lasted' \in Ages /\ moved' \in Counts /\ held' = held /\ fires' = fires
          /\ moved' = NConfirm \/ moved' = moved + 1
      BY <1>1, <2>1, HoldsTypes
    <3>2. moved + 1 # 0
      BY <1>1, GateNumbers
    <3> QED BY <1>1, <2>1, <3>1, <3>2 DEF GateTypeOK
  <2>2. CASE e # held
    <3>1. /\ held' = e /\ lasted' = 0 /\ moved' = UpTo(NConfirm, 1) /\ fires' = 0
      BY <2>2 DEF Replaced
    <3>2. /\ 0 \in Ages /\ UpTo(NConfirm, 1) \in Counts
          /\ UpTo(NConfirm, 1) = NConfirm \/ UpTo(NConfirm, 1) = 1
      BY <1>1, GateNumbers
    <3>3. 1 # 0 /\ 0 \in 0 .. 2
      OBVIOUS
    <3> QED BY <3>1, <3>2, <3>3
  <2> QED BY <2>1, <2>2
<1>5. GateTypeOK'
  BY <1>1, <1>2, <1>3, <1>4 DEF GateTypeOK
<1>6. RunInv'
  <2>1. enabled \in BOOLEAN
    BY <1>1 DEF GateTypeOK
  <2> QED BY <1>1, <1>2, <1>3, <2>1 DEF RunInv, NoRun
<1>7. HeldInv' /\ FireInv'
  BY <1>1, <1>2, <1>3, <1>4 DEF HeldInv, FireInv
<1>8. FiresAreConfirmed'
  BY <1>2 DEF FiresAreConfirmed
<1> QED BY <1>5, <1>6, <1>7, <1>8 DEF GateInv

LEMMA GateInvariant == GateSpec => []GateInv
<1>1. GateInit => GateInv
  BY GateStarts
<1>2. GateInv /\ [GateNext]_gateVars => GateInv'
  <2> SUFFICES ASSUME GateInv, [GateNext]_gateVars PROVE GateInv'
    OBVIOUS
  <2>1. CASE Assess
    BY <2>1, AssessStep
  <2>2. CASE Settles
    BY <2>2 DEF Settles, GateInv, GateTypeOK, RunInv, HeldInv, FireInv, FiresAreConfirmed
  <2>3. ASSUME NEW e \in Edges, ScheduleEval(e) PROVE GateInv'
    BY <2>3, ScheduleStep
  <2>4. ASSUME NEW e \in Edges, Unseen(e) PROVE GateInv'
    BY <2>4, UnseenStep
  <2>5. CASE UNCHANGED gateVars
    BY <2>5 DEF gateVars, GateInv, GateTypeOK, RunInv, HeldInv, FireInv, FiresAreConfirmed
  <2> QED BY <2>1, <2>2, <2>3, <2>4, <2>5 DEF GateNext, AssessReversion
<1> QED BY <1>1, <1>2, PTL DEF GateSpec

\* PersistenceGate.admit lets an edge pass once, after it has lasted: the ticks that a
\* trade, a repair or a pending reconcile hides from the gate cannot count, a fire that
\* the risk manager blocks is not given again, and of the updates that _schedule_eval
\* drops at most one counts for an edge it does not belong to.
THEOREM FiresAreEarned == GateSpec => []FiresAreConfirmed
<1>1. GateInv => FiresAreConfirmed
  BY DEF GateInv
<1> QED BY <1>1, GateInvariant, PTL

-----------------------------------------------------------------------------
(* The life of the process.                                                 *)

Starting == {"preflight", "connecting", "loading", "presigning"}

\* The task exists once _async_main has started it.
TaskInv == main \in Starting => strat = "none"

\* Having waited for _stop, the task is still there, or it closes or has closed the sink.
RanInv ==
    /\ ran => strat \notin {"none", "created", "seeding"}
    /\ ran /\ strat = "cancelled" => sink = "closed"

\* The exit code is 0 only for a task that ended by its cancellation.
CodeInv == main \in {"disconnecting", "exited"} /\ code = 0 => strat = "cancelled"

RunbotInv == RunbotTypeOK /\ TaskInv /\ RanInv /\ CodeInv

LEMMA RunbotInitial == ASSUME RunbotInit PROVE RunbotInv
  BY DEF RunbotInit, RunbotInv, RunbotTypeOK, TaskInv, RanInv, CodeInv, Legs, StratEnds

\* Starting: the task is not there before _async_main has come to wait.
LEMMA StartStepKeeps ==
    ASSUME RunbotInv, Preflight \/ StartStep \/ StartRaises PROVE RunbotInv'
<1> USE DEF RunbotInv, RunbotTypeOK, TaskInv, RanInv, CodeInv, Starting, stratVars
<1>1. CASE Preflight
  BY <1>1 DEF Preflight
<1>2. CASE StartStep
  BY <1>2 DEF StartStep
<1>3. CASE StartRaises
  BY <1>3 DEF StartRaises
<1> QED BY <1>1, <1>2, <1>3

\* The legs' connections do not touch the task.
LEMMA LegStepKeeps ==
    ASSUME RunbotInv, NEW l \in Legs, Connects(l) \/ ConnectRaises(l) \/ Disconnects(l)
    PROVE  RunbotInv'
<1> USE DEF RunbotInv, RunbotTypeOK, TaskInv, RanInv, CodeInv, Starting, stratVars
<1>1. CASE Connects(l)
  BY <1>1 DEF Connects
<1>2. CASE ConnectRaises(l)
  BY <1>2 DEF ConnectRaises
<1>3. CASE Disconnects(l)
  BY <1>3 DEF Disconnects
<1> QED BY <1>1, <1>2, <1>3

\* The task never goes back, and passes the closing of the sink on a cancelled wait.
LEMMA TaskStepKeeps ==
    ASSUME RunbotInv, StratStarts \/ StratRaises \/ Seeded \/ Cancelled \/ SinkCloses
    PROVE  RunbotInv'
<1> USE DEF RunbotInv, RunbotTypeOK, TaskInv, RanInv, CodeInv, Starting, StratEnds
<1>1. CASE StratStarts
  BY <1>1 DEF StratStarts
<1>2. CASE StratRaises
  BY <1>2 DEF StratRaises
<1>3. CASE Seeded
  BY <1>3 DEF Seeded
<1>4. CASE Cancelled
  BY <1>4 DEF Cancelled
<1>5. CASE SinkCloses
  BY <1>5 DEF SinkCloses
<1> QED BY <1>1, <1>2, <1>3, <1>4, <1>5

\* The code is settled when the task has been awaited.
LEMMA StopStepKeeps ==
    ASSUME RunbotInv, Signal \/ Stop \/ StratAwaited \/ Exits PROVE RunbotInv'
<1> USE DEF RunbotInv, RunbotTypeOK, TaskInv, RanInv, CodeInv, Starting, StratEnds, stratVars
<1>1. CASE Signal
  <2>1. CASE strat = "none" /\ Interrupted
    BY <1>1, <2>1 DEF Signal, Interrupted
  <2>2. CASE strat = "none" /\ main' = "killed" /\ UNCHANGED <<code, drivers>>
    BY <1>1, <2>2 DEF Signal
  <2>3. CASE strat # "none"
    BY <1>1, <2>3 DEF Signal
  <2> QED BY <1>1, <2>1, <2>2, <2>3 DEF Signal
<1>2. CASE Stop
  BY <1>2 DEF Stop
<1>3. CASE StratAwaited
  BY <1>3 DEF StratAwaited
<1>4. CASE Exits
  BY <1>4 DEF Exits
<1> QED BY <1>1, <1>2, <1>3, <1>4

LEMMA RunbotInvariant == RunbotSpec => []RunbotInv
<1>1. RunbotInit => RunbotInv
  BY RunbotInitial
<1>2. RunbotInv /\ [RunbotNext]_runbotVars => RunbotInv'
  <2>1. ASSUME RunbotInv, RunbotNext PROVE RunbotInv'
    BY <2>1, StartStepKeeps, LegStepKeeps, TaskStepKeeps, StopStepKeeps DEF RunbotNext
  <2>2. ASSUME RunbotInv, UNCHANGED runbotVars PROVE RunbotInv'
    BY <2>2 DEF RunbotInv, RunbotTypeOK, TaskInv, RanInv, CodeInv, runbotVars, stratVars
  <2> QED BY <2>1, <2>2
<1> QED BY <1>1, <1>2, PTL DEF RunbotSpec

\* _async_main, the session's and the strategy's run: with code 0 the recorder or the
\* writer has been closed, wherever the signal met the task.
THEOREM CleanExitIsClean == RunbotSpec => []CleanExitClosesSink
<1>1. RunbotInv => CleanExitClosesSink
  BY DEF RunbotInv, RunbotTypeOK, RanInv, CodeInv, CleanExitClosesSink
<1> QED BY <1>1, RunbotInvariant, PTL

-----------------------------------------------------------------------------
(* The order path, the book, the gate and the process side by side.         *)

\* A behaviour of the four parts is a behaviour of each: what is proved of a part by itself
\* holds where they are checked together.
THEOREM LiveHasItsParts ==
    LiveSpec => OrderWaitSpec /\ MarketFeedSpec /\ GateSpec /\ RunbotSpec
<1>1. LiveInit => OrderWaitInit /\ MarketFeedInit /\ GateInit /\ RunbotInit
  BY DEF LiveInit
<1>2. [LiveNext]_liveVars => /\ [OrderWaitNext]_waitVars
                             /\ [MarketFeedNext]_feedVars
                             /\ [GateNext]_gateVars
                             /\ [RunbotNext]_runbotVars
  BY DEF LiveNext, liveVars
<1> QED BY <1>1, <1>2, PTL DEF LiveSpec, OrderWaitSpec, MarketFeedSpec, GateSpec, RunbotSpec

\* Every variable of the order path, the book, the gate and the process keeps its type.
THEOREM LiveTypesHold == LiveSpec => []LiveTypeOK
<1>1. FeedInv /\ GateInv /\ RunbotInv => MarketFeedTypeOK /\ GateTypeOK /\ RunbotTypeOK
  BY DEF FeedInv, GateInv, RunbotInv
<1>2. OrderWaitTypeOK /\ MarketFeedTypeOK /\ GateTypeOK /\ RunbotTypeOK => LiveTypeOK
  BY DEF LiveTypeOK
<1> QED BY <1>1, <1>2, LiveHasItsParts, WaitTypesHold, FeedInvariant, GateInvariant,
           RunbotInvariant, PTL

\* Every invariant proved of one of them holds of the four.
THEOREM LiveIsSafe ==
    LiveSpec => [](/\ ReportsWhatFilled /\ StatusIsFinal /\ FailedMeansNothingDone
                   /\ NoLostWakeup /\ MissingWasSkipped /\ TopIsCurrent
                   /\ RowsOnlyWhenFresh /\ FiresAreConfirmed /\ CleanExitClosesSink)
BY LiveHasItsParts, ReportsAreTrue, StatusesAreFinal, FailuresAreTrue, NoWakeupLost,
   MissingIsKnown, ShownTopIsCurrent, RowsAreFresh, FiresAreEarned, CleanExitIsClean, PTL

=============================================================================
