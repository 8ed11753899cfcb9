-------------------------- MODULE TakerTaker_proofs --------------------------
(***************************************************************************)
(* Proofs about TakerTaker, for every value of the constants.              *)
(***************************************************************************)
EXTENDS TakerTaker, SequenceTheorems, TLAPS

\* Two names for groups of states and of assignments, expanded wherever they occur.
USE DEF Resting, ForgetLocals

-----------------------------------------------------------------------------
(* Facts about the operators.                                              *)

\* The last push on its way, or the cached position when there is none: what the
\* cache will hold once the stream is drained.
Latest(s, base) == IF s = <<>> THEN base ELSE s[Len(s)]

\* A new push is the latest one; without pushes the latest is the cache.
LEMMA LatestAppend ==
    ASSUME NEW s \in Seq(Int), NEW x \in Int, NEW base
    PROVE  Latest(Append(s, x), base) = x
  BY DEF Latest

\* A sequence is empty exactly when its length is 0.
LEMMA EmptyLen ==
    ASSUME NEW s \in Seq(Int)
    PROVE  (s = <<>>) <=> (Len(s) = 0)
  BY EmptySeq

\* Delivering the oldest push does not change the latest position.
LEMMA LatestTail ==
    ASSUME NEW s \in Seq(Int), s # <<>>, NEW base
    PROVE  Latest(Tail(s), Head(s)) = Latest(s, base)
<1>1. Len(s) \in Nat /\ Len(s) # 0 /\ Head(s) = s[1]
  BY EmptyLen
<1>2. Tail(s) \in Seq(Int) /\ Len(Tail(s)) = Len(s) - 1
  BY HeadTailProperties
<1>3. (Tail(s) = <<>>) <=> (Len(s) = 1)
  <2>1. (Tail(s) = <<>>) <=> (Len(Tail(s)) = 0)
    BY <1>2, EmptyLen
  <2> QED
    BY <1>1, <1>2, <2>1, SMTT(20)
<1>4. ASSUME Len(s) # 1
      PROVE  Tail(s)[Len(Tail(s))] = s[Len(s)]
  BY <1>1, <1>2, <1>4
<1> QED
  BY <1>1, <1>3, <1>4 DEF Latest

\* leg_sides gives each leg a signed quantity.
LEMMA DeltaType ==
    ASSUME NEW dir \in Directions
    PROVE  /\ Delta(dir) \in [Legs -> Int]
           /\ Delta(dir)["a"] \in {Qty, -Qty}
           /\ Delta(dir)["b"] = -Delta(dir)["a"]
  BY TakerTakerAssumption DEF Delta, Directions, Legs

\* A venue executes an integer quantity.
LEMMA ExecutableType ==
    ASSUME NEW v \in Int, NEW x \in Int, NEW ro \in BOOLEAN
    PROVE  Executable(v, x, ro) \subseteq Int
  BY DEF Executable, Reducing, Upto

\* An execution keeps positions and streams well typed.
LEMMA ExecuteType ==
    ASSUME TypeOK, NEW l \in Legs, NEW fill \in Int, Execute(l, fill)
    PROVE  /\ venue' \in [Legs -> Int] /\ stream' \in [Legs -> Seq(Int)]
           /\ missed' \in [Legs -> BOOLEAN]
<1>1. venue' \in [Legs -> Int]
  BY DEF Execute, TypeOK
<1>2. CASE fill = 0
  BY <1>1, <1>2 DEF Execute, TypeOK
<1>3. CASE fill # 0
  <2>1. stream' = [stream EXCEPT ![l] = Append(@, venue'[l])]
    BY <1>3 DEF Execute
  <2>2. venue'[l] \in Int /\ stream \in [Legs -> Seq(Int)]
    BY <1>1 DEF TypeOK
  <2>3. Append(stream[l], venue'[l]) \in Seq(Int)
    BY <2>2, AppendProperties
  <2>4. missed' \in [Legs -> BOOLEAN]
    BY <1>3 DEF Execute, TypeOK
  <2> QED
    BY <1>1, <2>1, <2>2, <2>3, <2>4
<1> QED
  BY <1>1, <1>2, <1>3

\* A subscription brings at most the position.
LEMMA SubscribedType ==
    ASSUME venue \in [Legs -> Int], NEW l \in Legs
    PROVE  Subscribed(l) \in Seq(Int)
  BY DEF Subscribed

\* The resets assign well-typed functions.
LEMMA ConstantFunctions ==
    /\ Zero \in [Legs -> Int]
    /\ NoCalls \in [Legs -> LegStates]
    /\ [l \in Legs |-> None] \in [Legs -> Int \cup {None}]
    /\ [l \in Legs |-> "sent"] \in [Legs -> LegStates]
    /\ [l \in Legs |-> TRUE] \in [Legs -> BOOLEAN]
    /\ [l \in Legs |-> FALSE] \in [Legs -> BOOLEAN]
    /\ [l \in Legs |-> <<>>] \in [Legs -> Seq(Orders)]
  BY DEF Zero, NoCalls, LegStates

-----------------------------------------------------------------------------
(* Type correctness.                                                       *)

\* The risk state keeps its type when it is not touched ...
LEMMA RiskTypeKept == RiskTypeOK /\ UNCHANGED riskVars => RiskTypeOK'
  BY DEF RiskTypeOK, riskVars

\* ... the day's profit is a number ...
LEMMA PnlTodayType == RiskTypeOK => PnlToday \in Int
  BY DEF RiskTypeOK, PnlToday

\* ... and every method of RiskManager keeps the type.
LEMMA RolloverType ==
    ASSUME RiskTypeOK, RolloverDay, UNCHANGED <<consecutive_failures, cooling, halted>>
    PROVE  RiskTypeOK'
  BY PnlTodayType DEF RiskTypeOK, RolloverDay

\* record_failure keeps the type.
LEMMA RecordFailureType ==
    ASSUME RiskTypeOK, RecordFailure, UNCHANGED <<realised_pnl_today, day_turned>>
    PROVE  RiskTypeOK'
<1>1. consecutive_failures' \in Nat
  BY DEF RiskTypeOK, RecordFailure
<1>2. cooling' \in BOOLEAN
  BY RiskAssumption DEF RecordFailure
<1>3. halted' \in BOOLEAN
  BY Zenon DEF RecordFailure
<1> QED
  BY <1>1, <1>2, <1>3 DEF RiskTypeOK

\* record_pnl keeps the type.
LEMMA RecordPnlType ==
    ASSUME RiskTypeOK, NEW realised \in PnlValues, RecordPnl(realised),
           RecordSuccess, UNCHANGED cooling
    PROVE  RiskTypeOK'
<1>1. realised_pnl_today' \in Int
  BY PnlTodayType, RiskAssumption DEF RecordPnl
<1>2. halted' \in BOOLEAN
  BY Zenon DEF RecordPnl
<1> QED
  BY <1>1, <1>2 DEF RiskTypeOK, RecordPnl, RecordSuccess

\* The evaluation's own variables have their types when its locals are gone ...
LEMMA ForgetLocalsType ==
    ASSUME ForgetLocals
    PROVE  /\ leg' \in [Legs -> LegStates]
           /\ amount' \in [Legs -> Int]
           /\ target' \in [Legs -> Int]
           /\ snap' \in [Legs -> Int \cup {None}]
           /\ retrying' \in BOOLEAN
  BY ConstantFunctions

\* ... and when it ends.
LEMMA EndEvaluationType ==
    ASSUME EndEvaluation
    PROVE  /\ phase' \in Phases
           /\ leg' \in [Legs -> LegStates]
           /\ amount' \in [Legs -> Int]
           /\ target' \in [Legs -> Int]
           /\ snap' \in [Legs -> Int \cup {None}]
           /\ retrying' \in BOOLEAN
  BY ForgetLocalsType DEF EndEvaluation, Phases

\* A new RiskManager is well typed ...
LEMMA RiskInitType == RiskInit => RiskTypeOK
<1> SUFFICES ASSUME RiskInit PROVE RiskTypeOK
  OBVIOUS
<1>1. consecutive_failures \in Nat /\ realised_pnl_today \in Int
  BY DEF RiskInit
<1>2. cooling \in BOOLEAN /\ halted \in BOOLEAN /\ day_turned \in BOOLEAN
  BY Zenon DEF RiskInit
<1> QED
  BY <1>1, <1>2 DEF RiskTypeOK

\* ... also the one a restart makes.
LEMMA RiskResetType == RiskReset => RiskTypeOK'
<1> SUFFICES ASSUME RiskReset PROVE RiskTypeOK'
  OBVIOUS
<1>1. consecutive_failures' \in Nat /\ realised_pnl_today' \in Int
  BY DEF RiskReset
<1>2. cooling' \in BOOLEAN /\ halted' \in BOOLEAN /\ day_turned' \in BOOLEAN
  BY Zenon DEF RiskReset
<1> QED
  BY <1>1, <1>2 DEF RiskTypeOK

\* What the types rest on: both snapshots are in before a rebalance subtracts them,
\* and a pending reconcile has a target.
SnapTaken == phase \in {"rebalance_a", "rebalance_b"} => snap \in [Legs -> Int]
TypeInv == TypeOK /\ SnapTaken /\ TargetSaved

\* The strategy starts well typed.
LEMMA TypeInit == ASSUME Init PROVE TypeInv
<1>1. venue \in [Legs -> Int]
  <2>1. PICK x \in StartInventory : venue = [l \in Legs |-> IF l = "a" THEN x ELSE -x]
    BY DEF Init
  <2>2. x \in Int
    BY TakerTakerAssumption
  <2> QED
    BY <2>1, <2>2
<1>2. RiskTypeOK
  BY RiskInitType DEF Init
<1>3. stream \in [Legs -> Seq(Int)]
  BY <1>1, SubscribedType DEF Init
<1> QED
  BY <1>1, <1>2, <1>3, ConstantFunctions
  DEF Init, TypeInv, TypeOK, Phases, SnapTaken, TargetSaved

\* A rebalance sends what is missing, or nothing.
LEMMA RebalanceType ==
    ASSUME TypeOK, NEW l, target[l] - snap[l] \in Int, Rebalance(l)
    PROVE  leg' \in [Legs -> LegStates] /\ amount' \in [Legs -> Int]
<1>1. leg \in [Legs -> LegStates] /\ amount \in [Legs -> Int]
  BY DEF TypeOK
<1>2. leg' = [leg EXCEPT ![l] = "ok"] \/ leg' = [leg EXCEPT ![l] = "sent"]
  BY DEF Rebalance
<1>3. amount' = amount \/ amount' = [amount EXCEPT ![l] = target[l] - snap[l]]
  BY DEF Rebalance
<1> QED
  BY <1>1, <1>2, <1>3 DEF LegStates

\* Every step keeps the types.
LEMMA TypeStep == ASSUME TypeInv, [Next]_vars PROVE TypeOK'
<1> USE DEF TypeInv, TypeOK, Phases, LegStates, Returned,
            envVars, cacheVars, legVars, planVars, savedVars
<1>0. CASE SeedsArrive
  <2>1. \A l \in Legs : Seeded(l) \in Int
    BY <1>0 DEF SeedsArrive, Seeded
  <2> QED
    BY <1>0, <2>1, RiskTypeKept, EndEvaluationType, ConstantFunctions DEF SeedsArrive
<1>1. CASE ScheduleEval
  BY <1>1, RiskTypeKept DEF ScheduleEval
<1>2. CASE EvaluateSkip
  <2>1. RiskTypeOK'
    BY <1>2, RiskTypeKept, RolloverType DEF EvaluateSkip
  <2> QED
    BY <1>2, <2>1 DEF EvaluateSkip
<1>3. CASE EvaluateRetry
  <2>1. RiskTypeOK'
    BY <1>3, RolloverType DEF EvaluateRetry
  <2>2. reconcile_target \in [Legs -> Int]
    BY <1>3 DEF EvaluateRetry, TargetSaved
  <2> QED
    BY <1>3, <2>1, <2>2 DEF EvaluateRetry
<1>4. ASSUME NEW dir \in Directions, Fire(dir)
      PROVE  TypeOK'
  <2>1. RiskTypeOK'
    BY <1>4, RolloverType DEF Fire
  <2> QED
    BY <1>4, <2>1, DeltaType, ConstantFunctions DEF Fire
<1>5. CASE ExecSucceeds
  <2>1. RiskTypeOK'
    <3>1. CASE \E realised \in PnlValues : RecordPnl(realised)
      BY <1>5, <3>1, RecordPnlType DEF ExecSucceeds
    <3>2. CASE UNCHANGED <<halted, realised_pnl_today, day_turned>>
      BY <1>5, <3>2 DEF ExecSucceeds, RecordSuccess, RiskTypeOK
    <3> QED
      BY <1>5, <3>1, <3>2 DEF ExecSucceeds
  <2>2. pending' \in [Legs -> Int]
    BY <1>5 DEF ExecSucceeds, OverlayAfter
  <2> QED
    BY <1>5, <2>1, <2>2, EndEvaluationType DEF ExecSucceeds
<1>6. CASE ExecFails
  BY <1>6, RiskTypeKept, ConstantFunctions DEF ExecFails
<1>7. ASSUME NEW l \in Legs, SnapReturns(l)
      PROVE  TypeOK'
  BY <1>7, RiskTypeKept DEF SnapReturns
<1>8. CASE SnapRaises
  BY <1>8, RecordFailureType, EndEvaluationType DEF SnapRaises
<1>9. CASE RebalanceA
  <2>1. target["a"] - snap["a"] \in Int
    <3>1. "a" \in Legs
      BY DEF Legs
    <3>2. snap["a"] \in Int
      BY <1>9, <3>1 DEF RebalanceA
    <3>3. target["a"] \in Int
      BY <3>1
    <3> QED
      BY <3>2, <3>3
  <2>2. leg' \in [Legs -> LegStates] /\ amount' \in [Legs -> Int]
    BY <1>9, <2>1, RebalanceType DEF RebalanceA
  <2>3. RiskTypeOK' /\ phase' = "rebalance_a"
    BY <1>9, RiskTypeKept DEF RebalanceA
  <2>4. UNCHANGED <<envVars, cacheVars, pending, planVars, savedVars>>
    BY <1>9 DEF RebalanceA
  <2> QED
    BY <2>2, <2>3, <2>4
<1>10. CASE RebalanceB
  <2>1. target["b"] - snap["b"] \in Int
    <3>1. "b" \in Legs
      BY DEF Legs
    <3>2. snap["b"] \in Int
      BY <1>10, <3>1 DEF SnapTaken, RebalanceB
    <3>3. target["b"] \in Int
      BY <3>1
    <3> QED
      BY <3>2, <3>3
  <2>2. leg' \in [Legs -> LegStates] /\ amount' \in [Legs -> Int]
    BY <1>10, <2>1, RebalanceType DEF RebalanceB
  <2>3. RiskTypeOK' /\ phase' = "rebalance_b"
    BY <1>10, RiskTypeKept DEF RebalanceB
  <2>4. UNCHANGED <<envVars, cacheVars, pending, planVars, savedVars>>
    BY <1>10 DEF RebalanceB
  <2> QED
    BY <2>2, <2>3, <2>4
<1>11. CASE ReconcileEnds
  <2>1. RiskTypeOK'
    BY <1>11, RecordFailureType DEF ReconcileEnds, RiskTypeOK
  <2>2. pending' \in [Legs -> Int] /\ reconcile_pending' \in BOOLEAN
        /\ reconcile_target' \in [Legs -> Int] \cup {None}
    BY <1>11, ConstantFunctions DEF ReconcileEnds
  <2> QED
    BY <1>11, <2>1, <2>2, EndEvaluationType DEF ReconcileEnds
<1>12. ASSUME NEW l \in Legs, VenueFills(l)
       PROVE  TypeOK'
  <2>1. PICK fill \in Int : Execute(l, fill)
    BY <1>12, ExecutableType DEF VenueFills
  <2> QED
    BY <1>12, <2>1, ExecuteType, RiskTypeKept DEF VenueFills
<1>13. ASSUME NEW l \in Legs, VenueRejects(l)
       PROVE  TypeOK'
  BY <1>13, RiskTypeKept DEF VenueRejects
<1>14. ASSUME NEW l \in Legs, CallReturns(l)
       PROVE  TypeOK'
  BY <1>14, RiskTypeKept DEF CallReturns
<1>15. ASSUME NEW l \in Legs, CallGivesUp(l)
       PROVE  TypeOK'
  <2>1. [amount |-> amount[l], reduce_only |-> phase # "exec"] \in Orders
    BY DEF Orders
  <2>2. leg' \in [Legs -> LegStates]
    BY <1>15 DEF CallGivesUp
  <2>3. late' \in [Legs -> Seq(Orders)]
    BY <1>15, <2>1, AppendProperties DEF CallGivesUp
  <2> QED
    BY <1>15, <2>2, <2>3, RiskTypeKept DEF CallGivesUp
<1>16. ASSUME NEW l \in Legs, LateOrderEnds(l)
       PROVE  TypeOK'
  <2>1. Head(late[l]) \in Orders /\ Tail(late[l]) \in Seq(Orders)
    BY <1>16, HeadTailProperties DEF LateOrderEnds
  <2>2. PICK fill \in Int : Execute(l, fill)
    BY <1>16, <2>1, ExecutableType DEF LateOrderEnds, Orders
  <2>3. late' \in [Legs -> Seq(Orders)]
    BY <1>16, <2>1 DEF LateOrderEnds
  <2>4. venue' \in [Legs -> Int] /\ stream' \in [Legs -> Seq(Int)] /\ missed' \in [Legs -> BOOLEAN]
    BY <2>2, ExecuteType
  <2>5. RiskTypeOK'
    BY <1>16, RiskTypeKept DEF LateOrderEnds
  <2> QED
    BY <1>16, <2>3, <2>4, <2>5 DEF LateOrderEnds
<1>17. ASSUME NEW l \in Legs, VenuePushes(l)
       PROVE  TypeOK'
  BY <1>17, RiskTypeKept DEF VenuePushes
<1>18. ASSUME NEW l \in Legs, PositionEvent(l)
       PROVE  TypeOK'
  BY <1>18, HeadTailProperties, RiskTypeKept DEF PositionEvent
<1>22. ASSUME NEW l \in Legs, StreamReconnects(l)
       PROVE  TypeOK'
  BY <1>22, SubscribedType, RiskTypeKept DEF StreamReconnects
<1>19. CASE Clock
  BY <1>19 DEF Clock, CooldownExpires, DayTurns, RiskTypeOK
<1>20. CASE Restart
  <2>1. \A l \in Legs :
           [amount |-> amount[l], reduce_only |-> phase # "exec"] \in Orders
    BY DEF Orders
  <2>2. RiskTypeOK'
    BY <1>20, RiskResetType DEF Restart
  <2>3. late' \in [Legs -> Seq(Orders)]
    BY <1>20, <2>1, AppendProperties DEF Restart
  <2>4. stream' \in [Legs -> Seq(Int)]
    BY <1>20, SubscribedType DEF Restart
  <2> QED
    BY <1>20, <2>2, <2>3, <2>4, ForgetLocalsType, ConstantFunctions DEF Restart
<1>21. CASE UNCHANGED vars
  BY <1>21, RiskTypeKept DEF vars
<1> QED
  BY <1>0, <1>1, <1>2, <1>3, <1>4, <1>5, <1>6, <1>7, <1>8, <1>9, <1>10, <1>11, <1>12,
     <1>13, <1>14, <1>15, <1>16, <1>17, <1>18, <1>19, <1>20, <1>21, <1>22
     DEF Next, Strategy, Calls

\* A rebalance starts with both snapshots in.
LEMMA SnapTakenStep == ASSUME TypeInv, [Next]_vars PROVE SnapTaken'
<1> USE DEF TypeInv, TypeOK, SnapTaken, Phases, envVars, cacheVars, legVars, planVars,
            savedVars, EndEvaluation
<1>1. CASE phase' \notin {"rebalance_a", "rebalance_b"}
  BY <1>1
<1>2. CASE RebalanceA
  <2>1. snap \in [Legs -> Int]
    BY <1>2 DEF RebalanceA
  <2> QED
    BY <1>2, <2>1 DEF RebalanceA
<1>3. CASE UNCHANGED <<phase, snap>>
  BY <1>3
<1>4. CASE RebalanceB
  BY <1>4 DEF RebalanceB
<1>5. [Next]_vars => phase' \notin {"rebalance_a", "rebalance_b"} \/ RebalanceA
                     \/ UNCHANGED <<phase, snap>> \/ RebalanceB
  BY DEF Next, Strategy, Calls, vars, ScheduleEval, EvaluateSkip, EvaluateRetry, Fire,
         ExecSucceeds, ExecFails, SnapReturns, SnapRaises, ReconcileEnds, VenueFills,
         VenueRejects, CallReturns, CallGivesUp, LateOrderEnds, VenuePushes,
         PositionEvent, StreamReconnects, SeedsArrive, Clock, Restart
<1> QED
  BY <1>1, <1>2, <1>3, <1>4, <1>5

\* Every step that leaves a reconcile pending saves its target.
LEMMA TargetSavedStep == ASSUME TypeInv, [Next]_vars PROVE TargetSaved'
<1> USE DEF TypeInv, TypeOK, TargetSaved, savedVars
<1>1. CASE UNCHANGED savedVars
  BY <1>1
<1>2. CASE SnapRaises
  BY <1>2, NoneAssumption DEF SnapRaises
<1>3. CASE ReconcileEnds
  BY <1>3, NoneAssumption DEF ReconcileEnds
<1>4. CASE Restart
  BY <1>4 DEF Restart
<1>5. UNCHANGED savedVars \/ SnapRaises \/ ReconcileEnds \/ Restart
  BY DEF Next, Strategy, Calls, vars, ScheduleEval, EvaluateSkip, EvaluateRetry, Fire,
         ExecSucceeds, ExecFails, SnapReturns, RebalanceA, RebalanceB, VenueFills,
         VenueRejects, CallReturns, CallGivesUp, LateOrderEnds, VenuePushes,
         PositionEvent, StreamReconnects, SeedsArrive, Clock
<1> QED
  BY <1>1, <1>2, <1>3, <1>4, <1>5

\* The types are invariant, with the two facts they rest on.
LEMMA TypeInvariant == Spec => []TypeInv
<1>1. TypeInv /\ [Next]_vars => TypeInv'
  BY TypeStep, SnapTakenStep, TargetSavedStep DEF TypeInv
<1> QED
  BY <1>1, TypeInit, PTL DEF Spec

\* Every reachable state has the types of the Python fields it stands for.
THEOREM TypeCorrect == Spec => []TypeOK
  BY TypeInvariant, PTL DEF TypeInv

\* A reconcile that _evaluate retries always has its target, the assertion the code
\* makes, whatever the venues, the streams and restarts do.
THEOREM TargetIsSaved == Spec => []TargetSaved
  BY TypeInvariant, PTL DEF TypeInv

-----------------------------------------------------------------------------
(* Safety in every environment.                                            *)

\* A halt is raised where an evaluation ends, and between evaluations no call is out.
HaltInv ==
    /\ halted => phase \in Resting
    /\ phase \in Resting => leg = NoCalls

\* The bot starts running, with no call out.
LEMMA HaltInit == ASSUME Init PROVE HaltInv
  BY DEF Init, RiskInit, HaltInv

\* A halt is only ever raised at the end of an evaluation.
LEMMA HaltStep == ASSUME TypeInv, HaltInv, [Next]_vars PROVE HaltInv'
<1> USE DEF HaltInv
<1>1. CASE UNCHANGED <<phase, leg, halted>>
  BY <1>1
<1>2. CASE EndEvaluation \/ Restart
  BY <1>2 DEF EndEvaluation, Restart
<1>3. CASE EvaluateSkip \/ ScheduleEval
  BY <1>3 DEF EvaluateSkip, ScheduleEval, riskVars, legVars
<1>4. CASE EvaluateRetry \/ (\E dir \in Directions : Fire(dir))
  BY <1>4 DEF EvaluateRetry, Fire, CanTrade
<1>5. CASE ExecFails \/ RebalanceA \/ RebalanceB
  BY <1>5 DEF ExecFails, RebalanceA, RebalanceB, riskVars
<1>6. ASSUME NEW l \in Legs,
             VenueFills(l) \/ VenueRejects(l) \/ CallReturns(l) \/ CallGivesUp(l)
      PROVE  HaltInv'
  <2>1. leg[l] # "none"
    BY <1>6 DEF VenueFills, VenueRejects, CallReturns, CallGivesUp
  <2>2. phase \notin Resting
    BY <2>1 DEF NoCalls
  <2> QED
    BY <1>6, <2>2 DEF VenueFills, VenueRejects, CallReturns, CallGivesUp, riskVars
<1>7. CASE UNCHANGED vars
  BY <1>7 DEF vars, legVars, riskVars
<1>8. ASSUME NEW l \in Legs,
             \/ SnapReturns(l) \/ LateOrderEnds(l) \/ VenuePushes(l)
             \/ PositionEvent(l) \/ StreamReconnects(l)
      PROVE  HaltInv'
  BY <1>8, <1>1 DEF SnapReturns, LateOrderEnds, VenuePushes, PositionEvent,
                    StreamReconnects, legVars, riskVars
<1>9. CASE Clock
  BY <1>9 DEF Clock, CooldownExpires, DayTurns, legVars
<1> QED
  BY <1>1, <1>2, <1>3, <1>4, <1>5, <1>6, <1>7, <1>8, <1>9
  DEF Next, Strategy, Calls, SeedsArrive, ExecSucceeds, SnapRaises, ReconcileEnds

\* While the bot is halted no call is out, neither an entry nor a rebalance.
THEOREM HaltIsSafe == Spec => []HaltStopsOrders
<1>1. TypeInv /\ HaltInv /\ [Next]_vars => HaltInv'
  BY HaltStep
<1>2. HaltInv => HaltStopsOrders
  BY DEF HaltInv, HaltStopsOrders
<1>3. Init => HaltInv
  BY HaltInit
<1> QED
  BY <1>1, <1>2, <1>3, TypeInvariant, PTL DEF Spec

\* A day change may forgive the day's loss, never the halt.
LEMMA RolloverRatchets ==
    ASSUME RiskTypeOK, RatchetsHalt, RolloverDay,
           UNCHANGED <<consecutive_failures, cooling, halted>>
    PROVE  RatchetsHalt'
  BY RiskAssumption DEF RiskTypeOK, RatchetsHalt, RolloverDay, PnlToday

\* record_failure halts at the limit.
LEMMA RecordFailureRatchets ==
    ASSUME RiskTypeOK, RatchetsHalt, RecordFailure,
           UNCHANGED <<realised_pnl_today, day_turned>>
    PROVE  RatchetsHalt'
  BY DEF RatchetsHalt, RecordFailure

\* A success resets the failures, record_pnl halts at the loss cap.
LEMMA SuccessRatchets ==
    ASSUME RiskTypeOK, RatchetsHalt, RecordSuccess,
           \/ \E realised \in PnlValues : RecordPnl(realised)
           \/ UNCHANGED <<halted, realised_pnl_today, day_turned>>
    PROVE  RatchetsHalt'
<1>1. consecutive_failures' < MaxConsecutiveFailures
  BY RiskAssumption DEF RecordSuccess
<1>2. realised_pnl_today' <= -DailyLossCap => halted' \/ day_turned'
  <2>1. CASE \E realised \in PnlValues : RecordPnl(realised)
    BY <2>1 DEF RecordPnl
  <2>2. CASE UNCHANGED <<halted, realised_pnl_today, day_turned>>
    BY <2>2 DEF RatchetsHalt
  <2> QED
    BY <2>1, <2>2
<1> QED
  BY <1>1, <1>2, RiskAssumption DEF RatchetsHalt, RecordSuccess

\* Every step keeps both ratchets.
LEMMA RatchetsStep == ASSUME TypeInv, RatchetsHalt, [Next]_vars PROVE RatchetsHalt'
<1> USE DEF TypeInv, TypeOK
<1>1. CASE UNCHANGED riskVars
  BY <1>1 DEF RatchetsHalt, riskVars
<1>2. CASE EvaluateSkip
  BY <1>1, <1>2, RolloverRatchets DEF EvaluateSkip
<1>3. CASE EvaluateRetry \/ (\E dir \in Directions : Fire(dir))
  BY <1>3, RolloverRatchets DEF EvaluateRetry, Fire
<1>4. CASE ExecSucceeds
  BY <1>4, SuccessRatchets DEF ExecSucceeds
<1>5. CASE SnapRaises \/ ReconcileEnds
  BY <1>5, RecordFailureRatchets DEF SnapRaises, ReconcileEnds, RatchetsHalt
<1>6. CASE Clock
  BY <1>6 DEF Clock, CooldownExpires, DayTurns, RatchetsHalt
<1>7. CASE Restart
  BY <1>7, RiskAssumption DEF Restart, RiskReset, RatchetsHalt
<1> QED
  BY <1>1, <1>2, <1>3, <1>4, <1>5, <1>6, <1>7
  DEF Next, vars, Strategy, Calls, ScheduleEval, ExecFails, SnapReturns, RebalanceA,
      RebalanceB, VenueFills, VenueRejects, CallReturns, CallGivesUp, LateOrderEnds,
      VenuePushes, PositionEvent, StreamReconnects, SeedsArrive

\* Neither ratchet reaches its limit without a halt, across day changes and restarts.
THEOREM RatchetsAreSafe == Spec => []RatchetsHalt
<1>1. Init => RatchetsHalt
  BY RiskAssumption DEF Init, RiskInit, RatchetsHalt
<1>2. TypeInv /\ RatchetsHalt /\ [Next]_vars => RatchetsHalt'
  BY RatchetsStep
<1> QED
  BY <1>1, <1>2, TypeInvariant, PTL DEF Spec

\* What the cache holds when no push comes: its position, or the answer that seeds it.
Holds(l) == IF cached[l] THEN live[l] ELSE IF snap[l] # None THEN snap[l] ELSE venue[l]

\* Once every push on its way has been applied the cache holds the venue's position,
\* unless the last push was lost, and only a starting bot has no position in its cache.
CacheInv ==
    \A l \in Legs : /\ cached[l] \/ phase = "starting"
                    /\ missed[l] \/ Latest(stream[l], Holds(l)) = venue[l]

\* A bot that starts knows nothing, and its streams bring the position or nothing.
LEMMA CacheFresh ==
    ASSUME NEW l \in Legs
    PROVE  Latest(Subscribed(l), venue[l]) = venue[l]
  BY DEF Latest, Subscribed

\* An execution that is pushed keeps the latest position the venue's.
LEMMA ExecuteCache ==
    ASSUME TypeOK, CacheInv, NEW l \in Legs, NEW fill \in Int, Execute(l, fill),
           UNCHANGED <<cached, live, snap, phase>>
    PROVE  CacheInv'
<1> USE DEF TypeOK
<1>1. CASE fill = 0
  <2>1. UNCHANGED <<venue, stream, missed>>
    BY <1>1 DEF Execute
  <2> QED
    BY <2>1 DEF CacheInv, Holds
<1>2. CASE fill # 0
  <2>1. /\ venue'[l] \in Int
        /\ stream' = [stream EXCEPT ![l] = Append(@, venue'[l])]
        /\ \A k \in Legs \ {l} : venue'[k] = venue[k] /\ missed'[k] = missed[k]
    BY <1>2, ExecuteType DEF Execute
  <2>2. Latest(stream'[l], Holds(l)') = venue'[l]
    BY <2>1, LatestAppend
  <2>3. \A k \in Legs \ {l} : stream'[k] = stream[k] /\ Holds(k)' = Holds(k)
    BY <2>1 DEF Holds
  <2> QED
    BY <2>1, <2>2, <2>3 DEF CacheInv
<1> QED
  BY <1>1, <1>2

\* Every step keeps the latest push, or the cache, equal to the venue's position.
LEMMA CacheStep == ASSUME TypeInv, CacheInv, [Next]_vars PROVE CacheInv'
<1> USE DEF TypeInv, TypeOK
<1>1. CASE UNCHANGED <<venue, stream, cacheVars, phase, snap>>
  BY <1>1 DEF CacheInv, Holds, cacheVars
<1>2. ASSUME NEW l \in Legs, VenueFills(l)
      PROVE  CacheInv'
  <2>1. PICK fill \in Int : Execute(l, fill)
    BY <1>2, ExecutableType DEF VenueFills
  <2> QED
    BY <1>2, <2>1, ExecuteCache DEF VenueFills, planVars
<1>3. ASSUME NEW l \in Legs, LateOrderEnds(l)
      PROVE  CacheInv'
  <2>1. Head(late[l]) \in Orders
    BY <1>3, HeadTailProperties DEF LateOrderEnds
  <2>2. PICK fill \in Int : Execute(l, fill)
    BY <1>3, <2>1, ExecutableType DEF LateOrderEnds, Orders
  <2> QED
    BY <1>3, <2>2, ExecuteCache DEF LateOrderEnds, planVars
<1>4. ASSUME NEW l \in Legs, VenuePushes(l)
      PROVE  CacheInv'
  <2>1. Latest(Append(stream[l], venue[l]), Holds(l)) = venue[l]
    BY LatestAppend
  <2>2. \A k \in Legs : Holds(k)' = Holds(k)
    BY <1>4 DEF VenuePushes, Holds, planVars
  <2> QED
    BY <1>4, <2>1, <2>2 DEF VenuePushes, CacheInv
<1>5. ASSUME NEW l \in Legs, PositionEvent(l)
      PROVE  CacheInv'
  <2>1. Latest(Tail(stream[l]), Head(stream[l])) = Latest(stream[l], Holds(l))
    BY <1>5, LatestTail DEF PositionEvent
  <2>2. Holds(l)' = Head(stream[l]) /\ \A k \in Legs \ {l} : Holds(k)' = Holds(k)
    BY <1>5 DEF PositionEvent, Holds, planVars
  <2> QED
    BY <1>5, <2>1, <2>2 DEF PositionEvent, CacheInv
<1>6. ASSUME NEW l \in Legs, StreamReconnects(l)
      PROVE  CacheInv'
  <2>1. \A k \in Legs : Holds(k)' = Holds(k)
    BY <1>6 DEF StreamReconnects, Holds, planVars
  <2>2. l \in Snapshots => Latest(Subscribed(l), Holds(l)) = venue[l]
    BY DEF Latest, Subscribed
  <2> QED
    BY <1>6, <2>1, <2>2 DEF StreamReconnects, CacheInv
<1>7. ASSUME NEW l \in Legs, SnapReturns(l)
      PROVE  CacheInv'
  <2>1. UNCHANGED <<venue, stream, cached, live, missed, phase>>
    BY <1>7 DEF SnapReturns, envVars, cacheVars
  <2>2. Holds(l)' = Holds(l) \/ Holds(l)' = venue[l]
    BY <1>7, <2>1 DEF SnapReturns, Holds
  <2>3. ~cached[l] => Holds(l) = venue[l] /\ Holds(l)' = venue[l]
    BY <1>7, <2>1 DEF SnapReturns, Holds
  <2>4. \A k \in Legs : Holds(k)' = Holds(k)
    BY <1>7, <2>1, <2>3 DEF SnapReturns, Holds
  <2> QED
    BY <2>1, <2>4 DEF CacheInv
<1>8. CASE SeedsArrive
  <2>1. \A l \in Legs : cached'[l] /\ Holds(l)' = Holds(l)
    BY <1>8 DEF SeedsArrive, Seeded, Holds
  <2> QED
    BY <1>8, <2>1 DEF SeedsArrive, CacheInv, envVars
<1>9. CASE Restart
  <2>1. \A l \in Legs : Holds(l)' = venue[l]
    BY <1>9 DEF Restart, Holds
  <2> QED
    BY <1>9, <2>1, CacheFresh DEF Restart, CacheInv
<1>10. CASE /\ UNCHANGED <<venue, stream, cacheVars>>
            /\ phase # "starting"
  <2>1. \A l \in Legs : cached[l] /\ cached'[l] /\ Holds(l)' = Holds(l)
    BY <1>10 DEF CacheInv, Holds, cacheVars
  <2> QED
    BY <1>10, <2>1 DEF CacheInv, cacheVars
<1> QED
  BY <1>1, <1>2, <1>3, <1>4, <1>5, <1>6, <1>7, <1>8, <1>9, <1>10
  DEF Next, vars, envVars, planVars, Strategy, Calls, ScheduleEval, EvaluateSkip,
      EvaluateRetry, Fire, ExecSucceeds, ExecFails, SnapRaises, RebalanceA, RebalanceB,
      ReconcileEnds, VenueRejects, CallReturns, CallGivesUp, Clock

\* The latest push, or without pushes the cache or its seed, is the venue's position.
LEMMA CacheInvariant == Spec => []CacheInv
<1>1. Init => CacheInv
  <2> SUFFICES ASSUME Init PROVE CacheInv
    OBVIOUS
  <2>1. \A l \in Legs : ~cached[l] /\ Holds(l) = venue[l] /\ stream[l] = Subscribed(l)
    BY DEF Init, Holds
  <2> QED
    BY <2>1, CacheFresh DEF Init, CacheInv
<1>2. TypeInv /\ CacheInv /\ [Next]_vars => CacheInv'
  BY CacheStep
<1> QED
  BY <1>1, <1>2, TypeInvariant, PTL DEF Spec

\* With no push on its way the position in the cache of a started bot is the venue's,
\* unless the venue's last push was lost in a reconnect: whatever the order in which
\* seeds, pushes, reconnects, restarts and late fills come.
THEOREM CacheIsConvergent == Spec => []CacheConverges
<1>1. CacheInv => CacheConverges
  BY DEF CacheInv, CacheConverges, Latest, Holds
<1> QED
  BY <1>1, CacheInvariant, PTL

\* An evaluation that runs while a reconcile is pending is that reconcile's retry.
RetryInv == reconcile_pending /\ phase \notin Resting => retrying

\* Every step keeps a retry inside a pending reconcile.
LEMMA RetryStep == ASSUME TypeInv, RetryInv, [Next]_vars PROVE RetryInv'
<1> USE DEF TypeInv, TypeOK, RetryInv
<1>1. CASE UNCHANGED <<phase, retrying, reconcile_pending>>
  BY <1>1
<1>2. CASE EndEvaluation \/ Restart
  BY <1>2 DEF EndEvaluation, Restart
<1>3. CASE ScheduleEval \/ EvaluateSkip
  BY <1>3 DEF ScheduleEval, EvaluateSkip
<1>4. CASE EvaluateRetry
  BY <1>4 DEF EvaluateRetry
<1>5. ASSUME NEW dir \in Directions, Fire(dir)
      PROVE  RetryInv'
  BY <1>5 DEF Fire, savedVars
<1>6. CASE ExecFails \/ RebalanceA \/ RebalanceB
  BY <1>6 DEF ExecFails, RebalanceA, RebalanceB, savedVars, planVars
<1> QED
  BY <1>1, <1>2, <1>3, <1>4, <1>5, <1>6
  DEF Next, vars, planVars, savedVars, Strategy, Calls, ExecSucceeds, SnapReturns,
      SnapRaises, ReconcileEnds, VenueFills, VenueRejects, CallReturns, CallGivesUp,
      LateOrderEnds, VenuePushes, PositionEvent, StreamReconnects, SeedsArrive, Clock

\* An evaluation that started with a reconcile pending is its retry.
LEMMA RetryInvariant == Spec => []RetryInv
<1>1. Init => RetryInv
  BY DEF Init, RetryInv
<1>2. TypeInv /\ RetryInv /\ [Next]_vars => RetryInv'
  BY RetryStep
<1> QED
  BY <1>1, <1>2, TypeInvariant, PTL DEF Spec

\* No single step breaks ReconcileFirst.
LEMMA ReconcileStep ==
    ASSUME RetryInv, Next, reconcile_pending
    PROVE  /\ ~ (phase # "exec" /\ phase' = "exec")
           /\ ~ reconcile_pending' =>
                 (retrying /\ \A l \in Legs : leg[l] = "ok") \/ Restart
<1> USE DEF RetryInv
<1>1. ASSUME phase # "exec", phase' = "exec"
      PROVE  FALSE
  BY <1>1
  DEF Next, Strategy, Calls, ScheduleEval, EvaluateSkip, EvaluateRetry, Fire, ExecSucceeds,
      ExecFails, SnapReturns, SnapRaises, RebalanceA, RebalanceB, ReconcileEnds, VenueFills,
      VenueRejects, CallReturns, CallGivesUp, LateOrderEnds, VenuePushes, PositionEvent,
      StreamReconnects, SeedsArrive, Clock, Restart, EndEvaluation
<1>2. ASSUME ~ reconcile_pending'
      PROVE  ReconcileEnds \/ Restart
  BY <1>2
  DEF Next, savedVars, Strategy, Calls, ScheduleEval, EvaluateSkip, EvaluateRetry, Fire,
      ExecSucceeds, ExecFails, SnapReturns, SnapRaises, RebalanceA, RebalanceB, VenueFills,
      VenueRejects, CallReturns, CallGivesUp, LateOrderEnds, VenuePushes, PositionEvent,
      StreamReconnects, SeedsArrive, Clock
<1>3. ASSUME ~ reconcile_pending', ReconcileEnds
      PROVE  retrying /\ \A l \in Legs : leg[l] = "ok"
  BY <1>3 DEF ReconcileEnds
<1> QED
  BY <1>1, <1>2, <1>3

\* No entry is sent while a reconcile is pending, and only a retry whose two legs were
\* ok, or a restart, lifts it.
THEOREM ReconcileComesFirst == Spec => ReconcileFirst
<1>1. RetryInv /\ [Next]_vars =>
         [ reconcile_pending =>
              /\ ~ (phase # "exec" /\ phase' = "exec")
              /\ ~ reconcile_pending' =>
                    (retrying /\ \A l \in Legs : leg[l] = "ok") \/ Restart ]_vars
  BY ReconcileStep
<1> QED
  BY <1>1, RetryInvariant, PTL DEF Spec, ReconcileFirst

-----------------------------------------------------------------------------
(* A punctual environment: the trade under way and the overlay.            *)

\* A leg of the trade under way has moved by its amount or not at all.
Traded(l) ==
    /\ leg[l] # "none"
    /\ leg[l] \in {"sent", "rejected"} => venue[l] = target[l]
    /\ leg[l] \in {"filled", "ok"} => venue[l] = target[l] + amount[l]
    /\ venue[l] \in {target[l], target[l] + amount[l]}

TradeInv ==
    phase = "exec" =>
        /\ ~reconcile_pending
        /\ amount["a"] \in {Qty, -Qty}
        /\ amount["b"] = -amount["a"]
        /\ Abs(target["a"] + amount["a"]) <= MaxQty
        /\ Traded("a") /\ Traded("b")

OverlayInv == \A l \in Legs : stream[l] = <<>> => pending[l] = 0

NoLate == \A l \in Legs : late[l] = <<>>

NoneMissed == \A l \in Legs : ~missed[l]

PunctualInv == NoLate /\ NoneMissed /\ TradeInv /\ OverlayInv

\* The steps a punctual environment can take.
LEMMA PunctualSteps ==
    ASSUME Punctual, NoLate, [Next]_vars
    PROVE  \/ ScheduleEval \/ Strategy \/ Clock \/ Restart \/ UNCHANGED vars
           \/ \E l \in Legs : VenueFills(l) \/ VenueRejects(l) \/ CallReturns(l)
                                 \/ VenuePushes(l) \/ PositionEvent(l)
  BY DEF Next, Calls, Punctual, NoLate, CallGivesUp, LateOrderEnds, StreamReconnects

\* A punctual venue executes the order of a trade whole.
LEMMA WholeTrades ==
    ASSUME Punctual, TypeInv, HaltInv, NEW l \in Legs, VenueFills(l)
    PROVE  /\ \E fill \in Int : Execute(l, fill)
           /\ phase = "exec" => Execute(l, amount[l])
<1>1. PICK fill \in Executable(venue[l], amount[l], phase # "exec") : Execute(l, fill)
  BY DEF VenueFills
<1>2. fill \in Int
  BY ExecutableType DEF TypeInv, TypeOK
<1>3. phase = "exec" => fill = amount[l]
  BY <1>1 DEF Punctual, Executable
<1> QED
  BY <1>1, <1>2, <1>3

\* An execution is pushed, or leaves what was missed.
LEMMA PushedIsNotMissed ==
    ASSUME TypeInv, NoneMissed, NEW l \in Legs, NEW fill \in Int, Execute(l, fill)
    PROVE  NoneMissed'
<1>1. missed' = missed \/ missed' = [missed EXCEPT ![l] = FALSE]
  BY DEF Execute
<1>2. missed \in [Legs -> BOOLEAN]
  BY DEF TypeInv, TypeOK
<1>3. ASSUME NEW k \in Legs PROVE ~missed'[k]
  <2>1. ~missed[k]
    BY DEF NoneMissed
  <2>2. CASE missed' = missed
    BY <2>1, <2>2
  <2>3. CASE missed' = [missed EXCEPT ![l] = FALSE]
    BY <1>2, <2>1, <2>3
  <2> QED
    BY <1>1, <2>2, <2>3
<1> QED
  BY <1>3 DEF NoneMissed

\* An execution is pushed, or has changed nothing.
LEMMA PushedOverlay ==
    ASSUME TypeInv, OverlayInv, NEW l \in Legs, NEW fill \in Int, Execute(l, fill),
           UNCHANGED pending
    PROVE  OverlayInv'
<1>1. CASE fill = 0
  BY <1>1 DEF Execute, OverlayInv
<1>2. CASE fill # 0
  <2>1. stream' = [stream EXCEPT ![l] = Append(@, venue'[l])]
    BY <1>2 DEF Execute
  <2>2. stream[l] \in Seq(Int) /\ venue'[l] \in Int /\ stream \in [Legs -> Seq(Int)]
    BY ExecuteType DEF TypeInv, TypeOK
  <2>3. Append(stream[l], venue'[l]) # <<>>
    BY <2>2, AppendProperties
  <2>4. stream'[l] # <<>> /\ (\A k \in Legs \ {l} : stream'[k] = stream[k])
    BY <2>1, <2>2, <2>3
  <2> QED
    BY <2>4 DEF OverlayInv
<1> QED
  BY <1>1, <1>2

\* The bot starts with nothing under way.
LEMMA PunctualInit == ASSUME Init PROVE PunctualInv
  BY DEF Init, Zero, PunctualInv, NoLate, NoneMissed, TradeInv, OverlayInv

\* Between trades and with the pushes in, the strategy sees the venue's positions.
LEMMA SeesVenue ==
    ASSUME TypeInv, CacheInv, PunctualInv, phase # "starting",
           NEW l \in Legs, stream[l] = <<>>
    PROVE  live[l] = venue[l] /\ pending[l] = 0 /\ Pos(l) = venue[l]
<1>1. live[l] = venue[l] /\ pending[l] = 0 /\ venue[l] \in Int
  BY DEF CacheInv, Latest, Holds, PunctualInv, NoneMissed, OverlayInv, TypeInv, TypeOK
<1> QED
  BY <1>1 DEF Pos

\* A trade starts from the venues' positions, leg a within the cap.
LEMMA FireStarts ==
    ASSUME Punctual, TypeInv, CacheInv, PunctualInv, NEW dir \in Directions, Fire(dir)
    PROVE  /\ target' = venue /\ amount' = Delta(dir)
           /\ amount'["a"] \in {Qty, -Qty} /\ amount'["b"] = -amount'["a"]
           /\ Abs(target'["a"] + amount'["a"]) <= MaxQty
<1>0. TypeOK /\ Qty \in Nat \ {0} /\ MaxQty \in Nat
  BY TakerTakerAssumption DEF TypeInv
<1>1. \A l \in Legs : stream[l] = <<>>
  BY DEF Fire, Punctual, Drained
<1>2. \A l \in Legs : live[l] = venue[l] /\ Pos(l) = venue[l]
  BY <1>1, SeesVenue DEF Fire
<1>3. target' = venue
  <2>1. live = venue
    BY <1>0, <1>2 DEF TypeOK
  <2> QED
    BY <2>1 DEF Fire
<1>4. amount' = Delta(dir) /\ amount'["a"] \in {Qty, -Qty} /\ amount'["b"] = -amount'["a"]
  BY DeltaType DEF Fire
<1>5. Abs(target'["a"] + amount'["a"]) <= MaxQty
  <2>1. venue["a"] \in Int /\ Pos("a") = venue["a"]
    BY <1>0, <1>2 DEF TypeOK, Legs
  <2>2. Abs(Pos("a") + Delta(dir)["a"]) \in Int
    BY <1>0, <2>1, DeltaType DEF Abs, Legs
  <2> QED
    BY <1>0, <1>3, <1>4, <2>1, <2>2 DEF Fire, ExceedsPositionCap
<1> QED
  BY <1>3, <1>4, <1>5

\* Every step of a punctual environment keeps PunctualInv.
LEMMA PunctualStep ==
    ASSUME Punctual, TypeInv, HaltInv, CacheInv, PunctualInv, [Next]_vars
    PROVE  PunctualInv'
<1> USE DEF PunctualInv, NoLate, NoneMissed, envVars, cacheVars, legVars, planVars, savedVars
<1>0. TypeOK /\ Qty \in Nat \ {0} /\ MaxQty \in Nat
  BY TakerTakerAssumption DEF TypeInv
<1>1. CASE SeedsArrive \/ ScheduleEval \/ EvaluateSkip \/ EvaluateRetry
  BY <1>1 DEF SeedsArrive, EndEvaluation, ScheduleEval, EvaluateSkip, EvaluateRetry,
              TradeInv, OverlayInv
<1>2. ASSUME NEW dir \in Directions, Fire(dir)
      PROVE  PunctualInv'
  <2>1. TradeInv'
    BY <1>0, <1>2, FireStarts DEF Fire, TypeOK, Legs, TradeInv, Traded
  <2> QED
    BY <1>2, <2>1 DEF Fire, OverlayInv
<1>3. CASE ExecSucceeds
  <2>1. OverlayInv'
    <3> SUFFICES ASSUME NEW l \in Legs, stream[l] = <<>>
                 PROVE  pending'[l] = 0
      BY <1>3 DEF ExecSucceeds, OverlayInv
    <3>1. live[l] = venue[l] /\ pending[l] = 0
      BY <1>3, SeesVenue DEF ExecSucceeds
    <3>2. venue[l] = target[l] + amount[l]
      BY <1>3 DEF ExecSucceeds, Legs, TradeInv, Traded
    <3>3. pending'[l] = pending[l] + amount[l] - (live[l] - target[l])
      BY <1>3 DEF ExecSucceeds, OverlayAfter
    <3> QED
      BY <1>0, <3>1, <3>2, <3>3 DEF TypeOK
  <2> QED
    BY <1>3, <2>1 DEF ExecSucceeds, EndEvaluation, TradeInv
<1>4. CASE ExecFails \/ SnapRaises \/ RebalanceA \/ RebalanceB
  BY <1>4 DEF ExecFails, SnapRaises, RebalanceA, RebalanceB, EndEvaluation, TradeInv, OverlayInv
<1>5. ASSUME NEW l \in Legs, SnapReturns(l)
      PROVE  PunctualInv'
  BY <1>5 DEF SnapReturns, TradeInv, OverlayInv
<1>6. CASE ReconcileEnds
  <2>1. pending' = Zero \/ pending' = pending
    BY <1>6 DEF ReconcileEnds
  <2>2. OverlayInv'
    BY <1>6, <2>1 DEF ReconcileEnds, Zero, OverlayInv
  <2> QED
    BY <1>6, <2>2 DEF ReconcileEnds, EndEvaluation, TradeInv
<1>7. ASSUME NEW l \in Legs, VenueFills(l)
      PROVE  PunctualInv'
  <2>0. NoneMissed'
    <3>1. PICK fill \in Int : Execute(l, fill)
      BY <1>7, WholeTrades
    <3> QED
      BY <3>1, PushedIsNotMissed
  <2>1. UNCHANGED <<late, amount, phase, pending, target, reconcile_pending>>
    BY <1>7 DEF VenueFills
  <2>2. OverlayInv'
    BY <1>7, <2>1, WholeTrades, PushedOverlay
  <2>3. CASE phase = "exec"
    <3>1. venue' = [venue EXCEPT ![l] = venue[l] + amount[l]]
      BY <1>7, <2>3, WholeTrades DEF Execute
    <3>2. leg[l] = "sent" /\ leg' = [leg EXCEPT ![l] = "filled"]
      BY <1>7 DEF VenueFills
    <3>3. venue'[l] = venue[l] + amount[l] /\ (\A k \in Legs \ {l} : venue'[k] = venue[k])
          /\ leg'[l] = "filled" /\ (\A k \in Legs \ {l} : leg'[k] = leg[k])
      BY <1>0, <3>1, <3>2 DEF TypeOK
    <3>4. venue[l] = target[l]
      BY <2>3, <3>2 DEF Legs, TradeInv, Traded
    <3>5. TradeInv'
      BY <2>1, <2>3, <3>2, <3>3, <3>4 DEF Legs, TradeInv, Traded
    <3> QED
      BY <2>0, <2>1, <2>2, <3>5
  <2>4. CASE phase # "exec"
    BY <2>0, <2>1, <2>2, <2>4 DEF TradeInv
  <2> QED
    BY <2>3, <2>4
<1>8. ASSUME NEW l \in Legs, VenueRejects(l)
      PROVE  PunctualInv'
  <2>1. leg[l] = "sent" /\ leg'[l] = "rejected"
        /\ (\A k \in Legs \ {l} : leg'[k] = leg[k])
    BY <1>0, <1>8 DEF VenueRejects, TypeOK
  <2>2. UNCHANGED <<late, missed, venue, stream, amount, phase, pending, target,
                    reconcile_pending>>
    BY <1>8 DEF VenueRejects
  <2>3. TradeInv'
    BY <2>1, <2>2 DEF Legs, TradeInv, Traded
  <2> QED
    BY <2>2, <2>3 DEF OverlayInv
<1>9. ASSUME NEW l \in Legs, CallReturns(l)
      PROVE  PunctualInv'
  <2>1. UNCHANGED <<late, missed, venue, stream, amount, phase, pending, target,
                    reconcile_pending>>
    BY <1>9 DEF CallReturns
  <2>2. PICK result \in Returned : leg' = [leg EXCEPT ![l] = result]
    BY <1>9 DEF CallReturns, Returned
  <2>3. /\ leg[l] \in {"filled", "rejected"}
        /\ leg[l] = "rejected" => result = "fail"
        /\ leg'[l] = result /\ (\A k \in Legs \ {l} : leg'[k] = leg[k])
    BY <1>0, <1>9, <2>2 DEF CallReturns, TypeOK
  <2>4. TradeInv'
    BY <2>1, <2>2, <2>3 DEF Returned, Legs, TradeInv, Traded
  <2> QED
    BY <2>1, <2>4 DEF OverlayInv
<1>10. ASSUME NEW l \in Legs, VenuePushes(l)
       PROVE  PunctualInv'
  <2>1. stream' = [stream EXCEPT ![l] = Append(@, venue[l])]
        /\ stream[l] \in Seq(Int) /\ venue[l] \in Int /\ stream \in [Legs -> Seq(Int)]
    BY <1>0, <1>10 DEF VenuePushes, TypeOK
  <2>2. Append(stream[l], venue[l]) # <<>>
    BY <2>1, AppendProperties
  <2>3. stream'[l] # <<>> /\ (\A k \in Legs \ {l} : stream'[k] = stream[k])
    BY <2>1, <2>2
  <2> QED
    BY <1>10, <2>3 DEF VenuePushes, TradeInv, Traded, OverlayInv
<1>11. ASSUME NEW l \in Legs, PositionEvent(l)
       PROVE  PunctualInv'
  <2>1. pending'[l] = 0 /\ (\A k \in Legs \ {l} : /\ pending'[k] = pending[k]
                                                  /\ stream'[k] = stream[k])
    BY <1>0, <1>11 DEF PositionEvent, TypeOK
  <2>2. OverlayInv'
    BY <2>1 DEF OverlayInv
  <2> QED
    BY <1>11, <2>2 DEF PositionEvent, TradeInv, Traded
<1>12. CASE Clock \/ UNCHANGED vars
  BY <1>12 DEF Clock, vars, TradeInv, Traded, OverlayInv
<1>13. CASE Restart
  <2>1. \A l \in Legs : leg[l] # "sent"
    BY <1>13 DEF Restart, Punctual
  <2> QED
    BY <1>13, <2>1 DEF Restart, EndEvaluation, Zero, TradeInv, OverlayInv
<1> QED
  BY <1>1, <1>2, <1>3, <1>4, <1>5, <1>6, <1>7, <1>8, <1>9, <1>10, <1>11, <1>12, <1>13,
     PunctualSteps DEF Strategy

\* What HaltInv says of the calls holds in every environment.
LEMMA HaltInvariant == Spec => []HaltInv
<1>1. TypeInv /\ HaltInv /\ [Next]_vars => HaltInv'
  BY HaltStep
<1> QED
  BY <1>1, HaltInit, TypeInvariant, PTL DEF Spec

LEMMA PunctualInvariant == ASSUME Punctual PROVE Spec => []PunctualInv
<1>1. TypeInv /\ HaltInv /\ CacheInv /\ PunctualInv /\ [Next]_vars => PunctualInv'
  BY PunctualStep
<1>2. Init => PunctualInv
  BY PunctualInit
<1> QED
  BY <1>1, <1>2, TypeInvariant, HaltInvariant, CacheInvariant, PTL DEF Spec

\* The overlay of _fire leaves no trace once the pushes are in, also when repairs are cut
\* short by the venue, positions are pushed unasked and the process is killed: what an
\* entry decision takes for the position is the position.
THEOREM ViewIsExact == ASSUME Punctual PROVE Spec => []ViewExact
<1>1. TypeInv /\ CacheInv /\ PunctualInv => ViewExact
  BY SeesVenue DEF ViewExact, Unsettled
<1> QED
  BY <1>1, TypeInvariant, CacheInvariant, PunctualInvariant, PTL

-----------------------------------------------------------------------------
(* A punctual environment: leg a and the cap.                              *)

\* Leg a is within the cap where it stands and where it is to be brought, and a repair
\* of it starts from where it stands.
FirstLegInv ==
    /\ Abs(venue["a"]) <= MaxQty
    /\ phase \notin Resting => Abs(target["a"]) <= MaxQty
    /\ reconcile_pending => Abs(reconcile_target["a"]) <= MaxQty
    /\ phase \in {"idle", "scheduled", "exec"} => snap["a"] = None
    /\ phase = "snap" => leg["a"] = "none" /\ snap["a"] \in {None, venue["a"]}
    /\ phase = "rebalance_a" /\ leg["a"] = "sent" =>
          amount["a"] = target["a"] - venue["a"]
    /\ phase = "rebalance_b" => leg["a"] \in Returned

\* The bot starts within the cap.
LEMMA FirstLegInit == ASSUME Init PROVE FirstLegInv
<1>1. PICK x \in StartInventory : venue = [l \in Legs |-> IF l = "a" THEN x ELSE -x]
  BY DEF Init
<1>2. Abs(venue["a"]) <= MaxQty
  BY <1>1, TakerTakerAssumption DEF Legs
<1> QED
  BY <1>2 DEF Init, FirstLegInv, Legs

\* A reduce-only order that is executed whole, or cut down to what closes, leaves the
\* position no larger than it was or than it was meant to be.
LEMMA ReducedWithin ==
    ASSUME Punctual, NEW position \in Int, NEW order \in Int,
           NEW fill \in Executable(position, order, TRUE)
    PROVE  fill = order \/ Abs(position + fill) <= Abs(position)
<1>1. fill = Reducing(position, order)
  BY DEF Punctual, Executable
<1> QED
  BY <1>1 DEF Reducing, Abs

\* Every step of a punctual environment keeps FirstLegInv.
LEMMA FirstLegStep ==
    ASSUME Punctual, TypeInv, HaltInv, CacheInv, PunctualInv, FirstLegInv, [Next]_vars
    PROVE  FirstLegInv'
<1> USE DEF FirstLegInv, envVars, cacheVars, legVars, planVars, savedVars
<1>0. TypeOK /\ NoLate /\ TradeInv /\ OverlayInv /\ MaxQty \in Nat /\ "a" \in Legs
  BY TakerTakerAssumption DEF TypeInv, PunctualInv, Legs
<1>1. CASE SeedsArrive \/ ScheduleEval \/ EvaluateSkip
  BY <1>1, <1>0 DEF SeedsArrive, EndEvaluation, ScheduleEval, EvaluateSkip
<1>2. CASE EvaluateRetry
  <2>1. leg["a"] = "none"
    BY <1>0, <1>2 DEF EvaluateRetry, HaltInv, NoCalls
  <2> QED
    BY <1>2, <2>1 DEF EvaluateRetry
<1>3. ASSUME NEW dir \in Directions, Fire(dir)
      PROVE  FirstLegInv'
  <2>1. target' = venue
    BY <1>0, <1>3, FireStarts
  <2> QED
    BY <1>3, <2>1 DEF Fire
<1>4. CASE ExecSucceeds
  BY <1>0, <1>4 DEF ExecSucceeds, EndEvaluation
<1>5. CASE ExecFails
  BY <1>0, <1>5 DEF ExecFails, NoCalls
<1>6. ASSUME NEW l \in Legs, SnapReturns(l)
      PROVE  FirstLegInv'
  BY <1>0, <1>6 DEF SnapReturns, TypeOK
<1>7. CASE SnapRaises
  BY <1>0, <1>7 DEF SnapRaises, EndEvaluation
<1>8. CASE RebalanceA
  <2>1. snap["a"] = venue["a"]
    BY <1>0, <1>8 DEF RebalanceA
  <2>2. leg'["a"] = "sent" => amount'["a"] = target["a"] - venue["a"]
    BY <1>0, <1>8, <2>1 DEF RebalanceA, Rebalance, TypeOK
  <2> QED
    BY <1>8, <2>2 DEF RebalanceA
<1>9. CASE RebalanceB
  <2>1. leg'["a"] = leg["a"]
    BY <1>0, <1>9 DEF RebalanceB, Rebalance, TypeOK
  <2> QED
    BY <1>9, <2>1 DEF RebalanceB
<1>10. CASE ReconcileEnds
  BY <1>0, <1>10 DEF ReconcileEnds, EndEvaluation
<1>11. ASSUME NEW l \in Legs, VenueFills(l)
       PROVE  FirstLegInv'
  <2>1. PICK fill \in Executable(venue[l], amount[l], phase # "exec") : Execute(l, fill)
    BY <1>11 DEF VenueFills
  <2>2. /\ leg[l] = "sent" /\ leg' = [leg EXCEPT ![l] = "filled"]
        /\ UNCHANGED <<amount, phase, target, snap, savedVars>>
    BY <1>11 DEF VenueFills
  <2>3. fill \in Int /\ venue' = [venue EXCEPT ![l] = venue[l] + fill]
    BY <1>0, <2>1, ExecutableType DEF Execute, TypeOK
  <2>4. CASE l # "a"
    BY <1>0, <2>2, <2>3, <2>4 DEF TypeOK
  <2>5. CASE l = "a"
    <3>1. /\ venue'["a"] = venue["a"] + fill /\ leg'["a"] = "filled"
          /\ venue["a"] \in Int /\ amount["a"] \in Int /\ target["a"] \in Int
      BY <1>0, <2>2, <2>3, <2>5 DEF TypeOK
    <3>2. phase \in {"exec", "rebalance_a"}
      BY <1>0, <2>2, <2>5 DEF TypeOK, Phases, HaltInv, NoCalls, Returned
    <3>3. CASE phase = "exec"
      <4>1. fill = amount["a"]
        BY <2>1, <2>5, <3>3 DEF Punctual, Executable
      <4>2. Abs(venue'["a"]) <= MaxQty
        BY <1>0, <2>2, <2>5, <3>1, <3>3, <4>1 DEF TradeInv, Traded
      <4> QED
        BY <2>2, <3>3, <4>2
    <3>4. CASE phase = "rebalance_a"
      <4>1. fill = amount["a"] \/ Abs(venue["a"] + fill) <= Abs(venue["a"])
        BY <2>1, <2>5, <3>1, <3>4, ReducedWithin
      <4>2. amount["a"] = target["a"] - venue["a"]
        BY <2>2, <2>5, <3>4
      <4>3. Abs(venue'["a"]) <= MaxQty
        BY <1>0, <2>3, <3>1, <3>4, <4>1, <4>2 DEF Abs
      <4> QED
        BY <2>2, <3>1, <3>4, <4>3
    <3> QED
      BY <3>2, <3>3, <3>4
  <2> QED
    BY <2>4, <2>5
<1>12. ASSUME NEW l \in Legs, VenueRejects(l) \/ CallReturns(l)
       PROVE  FirstLegInv'
  <2>1. UNCHANGED <<venue, amount, phase, target, snap, savedVars>>
    BY <1>12 DEF VenueRejects, CallReturns
  <2>2. leg[l] \in {"sent", "filled", "rejected"}
    BY <1>12 DEF VenueRejects, CallReturns
  <2>3. leg'["a"] # leg["a"] => l = "a" /\ leg'["a"] # "sent"
    BY <1>0, <1>12 DEF VenueRejects, CallReturns, Returned, TypeOK
  <2>4. phase \in {"snap", "rebalance_b"} => leg'["a"] = leg["a"]
    BY <2>2, <2>3 DEF Returned
  <2> QED
    BY <2>1, <2>3, <2>4
<1>13. ASSUME NEW l \in Legs, VenuePushes(l) \/ PositionEvent(l)
       PROVE  FirstLegInv'
  BY <1>13 DEF VenuePushes, PositionEvent
<1>14. CASE Clock \/ UNCHANGED vars
  BY <1>14 DEF Clock, vars
<1>15. CASE Restart
  BY <1>0, <1>15 DEF Restart, EndEvaluation
<1> QED
  BY <1>0, <1>1, <1>2, <1>3, <1>4, <1>5, <1>6, <1>7, <1>8, <1>9, <1>10, <1>11, <1>12,
     <1>13, <1>14, <1>15, PunctualSteps DEF Strategy

LEMMA FirstLegInvariant == ASSUME Punctual PROVE Spec => []FirstLegInv
<1>1. TypeInv /\ HaltInv /\ CacheInv /\ PunctualInv /\ FirstLegInv /\ [Next]_vars
         => FirstLegInv'
  BY FirstLegStep
<1>2. Init => FirstLegInv
  BY FirstLegInit
<1> QED
  BY <1>1, <1>2, TypeInvariant, HaltInvariant, CacheInvariant, PunctualInvariant, PTL
  DEF Spec

\* _assess caps leg a alone, and that is enough for leg a: neither trades nor repairs
\* bring it past max_qty, also when the venue cuts a repair down, and a process that
\* dies between them leaves it within.
FirstLegCapped == Abs(venue["a"]) <= MaxQty

THEOREM FirstLegIsCapped == ASSUME Punctual PROVE Spec => []FirstLegCapped
<1>1. FirstLegInv => FirstLegCapped
  BY DEF FirstLegInv, FirstLegCapped
<1> QED
  BY <1>1, FirstLegInvariant, PTL

-----------------------------------------------------------------------------
(* A refusing environment: the repair, and the pair.                       *)

\* At most one trade away from where it should be.
Near(position, goal) == position - goal \in {0, Qty, -Qty}

\* A leg of the repair under way is being brought to its target, or is there.
Repaired(l) ==
    /\ leg[l] # "none"
    /\ leg[l] \in {"sent", "rejected"} => amount[l] = target[l] - venue[l]
    /\ leg[l] \in {"filled", "ok"} => venue[l] = target[l]

RepairInv ==
    /\ phase \in {"idle", "scheduled", "exec"} => \A l \in Legs : snap[l] = None
    /\ phase = "snap" =>
          leg = NoCalls /\ \A l \in Legs : snap[l] = None \/ snap[l] = venue[l]
    /\ phase = "rebalance_a" =>
          Repaired("a") /\ leg["b"] = "none" /\ snap["b"] = venue["b"]
    /\ phase = "rebalance_b" =>
          Repaired("a") /\ Repaired("b") /\ leg["a"] \in Returned

\* Whatever a repair still has to do is one trade's worth: never dust.
NearInv ==
    /\ phase \in {"snap", "rebalance_a", "rebalance_b"} =>
          \A l \in Legs : Near(venue[l], target[l])
    /\ reconcile_pending /\ phase \in Resting =>
          \A l \in Legs : Near(venue[l], reconcile_target[l])

RefusingInv == RepairInv /\ NearInv

\* The bot starts with no repair under way.
LEMMA RefusingInit == ASSUME Init PROVE RefusingInv
  BY DEF Init, RefusingInv, RepairInv, NearInv

\* A refusing venue executes any order whole, and only while the evaluation awaits it.
LEMMA WholeFills ==
    ASSUME Refusing, TypeInv, HaltInv, RepairInv, NEW l \in Legs, VenueFills(l)
    PROVE  /\ venue' = [venue EXCEPT ![l] = venue[l] + amount[l]]
           /\ venue'[l] = venue[l] + amount[l]
           /\ \A k \in Legs \ {l} : venue'[k] = venue[k]
           /\ leg[l] = "sent" /\ leg'[l] = "filled"
           /\ \A k \in Legs \ {l} : leg'[k] = leg[k]
           /\ UNCHANGED <<late, amount, phase, pending, target, snap, savedVars>>
<1>1. PICK fill \in Executable(venue[l], amount[l], phase # "exec") : Execute(l, fill)
  BY DEF VenueFills
<1>2. fill = amount[l]
  BY <1>1 DEF Refusing, Punctual, Executable
<1>3. venue' = [venue EXCEPT ![l] = venue[l] + amount[l]]
  BY <1>1, <1>2 DEF Execute
<1>4. leg[l] = "sent" /\ leg' = [leg EXCEPT ![l] = "filled"]
      /\ UNCHANGED <<late, amount, phase, pending, target, snap, savedVars>>
  BY DEF VenueFills, planVars
<1>5. venue \in [Legs -> Int] /\ leg \in [Legs -> LegStates]
  BY DEF TypeInv, TypeOK
<1> QED
  BY <1>3, <1>4, <1>5

\* A call is under way only where the evaluation awaits it.
LEMMA Awaited ==
    ASSUME TypeInv, HaltInv, RepairInv, NEW l \in Legs, leg[l] # "none"
    PROVE  phase \in {"exec", "rebalance_a", "rebalance_b"}
<1>1. leg # NoCalls
  BY DEF NoCalls
<1>2. phase \in Phases
  BY DEF TypeInv, TypeOK
<1> QED
  BY <1>1, <1>2 DEF HaltInv, RepairInv, Phases

\* A failed trade leaves each leg within one trade of where it started.
LEMMA TradeLeaves ==
    ASSUME TypeInv, TradeInv, phase = "exec"
    PROVE  \A l \in Legs : Near(venue[l], target[l])
<1>1. /\ amount["a"] \in {Qty, -Qty} /\ amount["b"] = -amount["a"]
      /\ \A k \in Legs : venue[k] \in {target[k], target[k] + amount[k]}
  BY DEF TradeInv, Traded, Legs
<1>2. Qty \in Int /\ \A l \in Legs : target[l] \in Int
  BY TakerTakerAssumption DEF TypeInv, TypeOK
<1>3. \A l \in Legs : amount[l] \in {Qty, -Qty}
  BY <1>1, <1>2 DEF Legs
<1> QED
  BY <1>1, <1>2, <1>3 DEF Near

\* Below the dust threshold a leg within one trade of its target is at it.
LEMMA NoDust ==
    ASSUME NEW position \in Int, NEW goal \in Int, Near(position, goal),
           Abs(goal - position) < Dust
    PROVE  position = goal
  BY TakerTakerAssumption DEF Near, Abs

\* Every step of a refusing environment keeps RefusingInv.
LEMMA RefusingStep ==
    ASSUME Refusing, TypeInv, HaltInv, CacheInv, PunctualInv, RefusingInv, [Next]_vars
    PROVE  RefusingInv'
<1> USE DEF RefusingInv, envVars, cacheVars, legVars, planVars, savedVars
<1>0. /\ TypeOK /\ Qty \in Nat \ {0} /\ MaxQty \in Nat
      /\ Punctual /\ NoLate /\ TradeInv /\ OverlayInv
  BY TakerTakerAssumption DEF TypeInv, Refusing, PunctualInv
<1>1. CASE ScheduleEval \/ EvaluateSkip
  BY <1>1 DEF ScheduleEval, EvaluateSkip, RepairInv, NearInv
<1>2. CASE EvaluateRetry
  <2>1. leg = NoCalls /\ \A l \in Legs : snap[l] = None
    BY <1>2 DEF EvaluateRetry, HaltInv, RepairInv
  <2> QED
    BY <1>2, <2>1 DEF EvaluateRetry, RepairInv, NearInv
<1>3. ASSUME NEW dir \in Directions, Fire(dir)
      PROVE  RefusingInv'
  <2>1. target' = venue
    BY <1>0, <1>3, FireStarts
  <2> QED
    BY <1>3, <2>1 DEF Fire, RepairInv, NearInv
<1>4. CASE ExecSucceeds
  BY <1>0, <1>4 DEF ExecSucceeds, EndEvaluation, TradeInv, RepairInv, NearInv
<1>5. CASE ExecFails
  <2>1. \A l \in Legs : Near(venue[l], target[l])
    BY <1>0, <1>5, TradeLeaves DEF ExecFails
  <2> QED
    BY <1>5, <2>1 DEF ExecFails, RepairInv, NearInv
<1>6. ASSUME NEW l \in Legs, SnapReturns(l)
      PROVE  RefusingInv'
  BY <1>0, <1>6 DEF SnapReturns, TypeOK, RepairInv, NearInv
<1>7. CASE SnapRaises
  BY <1>7 DEF SnapRaises, EndEvaluation, RepairInv, NearInv
<1>8. CASE RebalanceA
  <2>1. /\ snap["a"] = venue["a"] /\ snap["b"] = venue["b"] /\ leg = NoCalls
        /\ venue["a"] \in Int /\ target["a"] \in Int
        /\ Near(venue["a"], target["a"])
    BY <1>0, <1>8 DEF RebalanceA, Legs, TypeOK, RepairInv, NearInv
  <2>2. Abs(target["a"] - snap["a"]) < Dust => venue["a"] = target["a"]
    BY <2>1, NoDust
  <2>3. /\ leg' = [leg EXCEPT !["a"] = "ok"] \/ leg' = [leg EXCEPT !["a"] = "sent"]
        /\ leg'["a"] = "sent" => amount'["a"] = target["a"] - venue["a"]
        /\ leg'["a"] = "ok" => venue["a"] = target["a"]
    <3>1. leg \in [Legs -> LegStates] /\ amount \in [Legs -> Int] /\ "a" \in Legs
      BY <1>0 DEF TypeOK, Legs
    <3>2. CASE Abs(target["a"] - snap["a"]) < Dust
      BY <1>8, <2>2, <3>1, <3>2 DEF RebalanceA, Rebalance
    <3>3. CASE ~ (Abs(target["a"] - snap["a"]) < Dust)
      BY <1>8, <2>1, <3>1, <3>3 DEF RebalanceA, Rebalance
    <3> QED
      BY <3>2, <3>3
  <2>4. leg'["a"] \in {"ok", "sent"} /\ leg'["b"] = "none"
    BY <1>0, <2>1, <2>3 DEF NoCalls, Legs
  <2> QED
    BY <1>8, <2>1, <2>3, <2>4 DEF RebalanceA, RepairInv, Repaired, NearInv
<1>9. CASE RebalanceB
  <2>1. /\ snap["b"] = venue["b"] /\ Repaired("a")
        /\ venue["b"] \in Int /\ target["b"] \in Int
        /\ Near(venue["b"], target["b"])
        /\ leg["a"] \in Returned
    BY <1>0, <1>9 DEF RebalanceB, Legs, TypeOK, RepairInv, NearInv
  <2>2. Abs(target["b"] - snap["b"]) < Dust => venue["b"] = target["b"]
    BY <2>1, NoDust
  <2>3. /\ leg'["b"] \in {"ok", "sent"} /\ leg'["a"] = leg["a"] /\ amount'["a"] = amount["a"]
        /\ leg'["b"] = "sent" => amount'["b"] = target["b"] - venue["b"]
        /\ leg'["b"] = "ok" => venue["b"] = target["b"]
    <3>1. leg \in [Legs -> LegStates] /\ amount \in [Legs -> Int] /\ {"a", "b"} \subseteq Legs
      BY <1>0 DEF TypeOK, Legs
    <3>2. CASE Abs(target["b"] - snap["b"]) < Dust
      BY <1>9, <2>2, <3>1, <3>2 DEF RebalanceB, Rebalance
    <3>3. CASE ~ (Abs(target["b"] - snap["b"]) < Dust)
      BY <1>9, <2>1, <3>1, <3>3 DEF RebalanceB, Rebalance
    <3> QED
      BY <3>2, <3>3
  <2>4. UNCHANGED <<venue, target, savedVars>> /\ phase' = "rebalance_b"
    BY <1>9 DEF RebalanceB
  <2>5. Repaired("a")' /\ Repaired("b")'
    BY <2>1, <2>3, <2>4 DEF Repaired
  <2>6. RepairInv'
    BY <2>1, <2>3, <2>4, <2>5 DEF RepairInv
  <2> QED
    BY <1>9, <2>4, <2>6 DEF RebalanceB, NearInv
<1>10. CASE ReconcileEnds
  BY <1>10 DEF ReconcileEnds, EndEvaluation, RepairInv, NearInv
<1>11. ASSUME NEW l \in Legs, VenueFills(l)
       PROVE  RefusingInv'
  <2>1. /\ venue'[l] = venue[l] + amount[l]
        /\ \A k \in Legs \ {l} : venue'[k] = venue[k]
        /\ leg[l] = "sent" /\ leg'[l] = "filled"
        /\ \A k \in Legs \ {l} : leg'[k] = leg[k]
        /\ UNCHANGED <<late, amount, phase, pending, target, snap, savedVars>>
    BY <1>11, WholeFills
  <2>2. phase \in {"exec", "rebalance_a", "rebalance_b"}
    BY <2>1, Awaited
  <2>3. venue[l] \in Int /\ amount[l] \in Int /\ target[l] \in Int
    BY <1>0 DEF TypeOK
  <2>4. CASE phase = "exec"
    BY <2>1, <2>4 DEF RepairInv, NearInv
  <2>5. CASE phase \in {"rebalance_a", "rebalance_b"}
    <3>1. venue'[l] = target[l]
      BY <2>1, <2>3, <2>5 DEF Legs, RepairInv, Repaired
    <3>2. RepairInv'
      BY <2>1, <2>5, <3>1 DEF Legs, Returned, RepairInv, Repaired
    <3>3. NearInv'
      BY <1>0, <2>1, <2>3, <2>5, <3>1 DEF Near, NearInv
    <3> QED
      BY <3>2, <3>3
  <2> QED
    BY <2>2, <2>4, <2>5
<1>12. ASSUME NEW l \in Legs, VenueRejects(l) \/ CallReturns(l)
       PROVE  RefusingInv'
  <2>1. UNCHANGED <<venue, amount, phase, target, snap, savedVars>>
    BY <1>12 DEF VenueRejects, CallReturns
  <2>2. PICK result \in {"rejected"} \cup Returned : leg' = [leg EXCEPT ![l] = result]
    BY <1>12 DEF VenueRejects, CallReturns, Returned
  <2>3. /\ leg[l] # "none" /\ leg[l] \in {"sent", "filled", "rejected"}
        /\ leg[l] = "sent" => result = "rejected"
        /\ leg[l] = "rejected" => result = "fail"
        /\ leg[l] = "filled" => result \in Returned
        /\ leg'[l] = result /\ (\A k \in Legs \ {l} : leg'[k] = leg[k])
    BY <1>0, <1>12, <2>2 DEF VenueRejects, CallReturns, TypeOK
  <2>4. phase \in {"exec", "rebalance_a", "rebalance_b"}
    BY <2>3, Awaited
  <2>5. RepairInv'
    BY <2>1, <2>3, <2>4 DEF Returned, Legs, RepairInv, Repaired
  <2> QED
    BY <2>1, <2>5 DEF NearInv
<1>13. ASSUME NEW l \in Legs, VenuePushes(l) \/ PositionEvent(l)
       PROVE  RefusingInv'
  BY <1>13 DEF VenuePushes, PositionEvent, RepairInv, Repaired, NearInv
<1>14. CASE Clock \/ UNCHANGED vars
  BY <1>14 DEF Clock, vars, RepairInv, Repaired, NearInv
<1>15. CASE Restart
  BY <1>15 DEF Restart, EndEvaluation, RepairInv, NearInv
<1>16. CASE SeedsArrive
  BY <1>16 DEF SeedsArrive, EndEvaluation, RepairInv, NearInv
<1> QED
  BY <1>0, <1>1, <1>2, <1>3, <1>4, <1>5, <1>6, <1>7, <1>8, <1>9, <1>10, <1>11, <1>12,
     <1>13, <1>14, <1>15, <1>16, PunctualSteps DEF Strategy

LEMMA RefusingInvariant == ASSUME Refusing PROVE Spec => []RefusingInv
<1>1. Punctual
  BY DEF Refusing
<1>2. TypeInv /\ HaltInv /\ CacheInv /\ PunctualInv /\ RefusingInv /\ [Next]_vars
         => RefusingInv'
  BY RefusingStep
<1>3. Init => RefusingInv
  BY RefusingInit
<1> QED
  BY <1>1, <1>2, <1>3, TypeInvariant, HaltInvariant, CacheInvariant, PunctualInvariant, PTL
  DEF Spec

\* A move of the pair.
LEMMA PairMoves ==
    ASSUME NEW d \in {Qty, -Qty}, Inventory \in Int, Inventory' = Inventory + d,
           Abs(Inventory') <= MaxQty
    PROVE  Pair!Next
<1>1. Pair!Move(d)
  BY TakerTakerAssumption DEF Pair!Move, Abs
<1> QED
  BY <1>1 DEF Pair!Next

\* A trade settles by moving the abstract inventory, a restart in the middle of one may
\* move it, every other step keeps it.
LEMMA PairStep ==
    ASSUME Refusing, TypeInv, HaltInv, CacheInv, PunctualInv, FirstLegInv, RefusingInv,
           [Next]_vars
    PROVE  [Pair!Next]_Inventory
<1> USE DEF envVars, cacheVars, legVars, planVars, savedVars
<1>0. /\ TypeOK /\ TargetSaved /\ Qty \in Nat \ {0} /\ MaxQty \in Nat
      /\ Punctual /\ NoLate /\ TradeInv /\ RepairInv /\ NearInv
  BY TakerTakerAssumption DEF TypeInv, Refusing, PunctualInv, RefusingInv
<1>1. CASE UNCHANGED <<phase, target, reconcile_pending, reconcile_target>>
           /\ (phase \in Resting => UNCHANGED venue)
  BY <1>1 DEF Inventory
<1>2. CASE ScheduleEval \/ EvaluateSkip \/ EvaluateRetry
  BY <1>2 DEF ScheduleEval, EvaluateSkip, EvaluateRetry, Inventory
<1>3. ASSUME NEW dir \in Directions, Fire(dir)
      PROVE  UNCHANGED Inventory
  BY <1>0, <1>3, FireStarts DEF Fire, Inventory
<1>4. CASE ExecSucceeds
  <2>1. /\ amount["a"] \in {Qty, -Qty}
        /\ venue["a"] = target["a"] + amount["a"]
        /\ ~ reconcile_pending
    BY <1>0, <1>4 DEF ExecSucceeds, TradeInv, Traded, Legs
  <2>2. Inventory = target["a"] /\ Inventory' = venue["a"]
    BY <1>4, <2>1 DEF ExecSucceeds, EndEvaluation, Inventory
  <2>3. target["a"] \in Int
    BY <1>0 DEF TypeOK, Legs
  <2> QED
    BY <1>0, <2>1, <2>2, <2>3, PairMoves DEF FirstLegInv
<1>5. CASE ExecFails \/ RebalanceA \/ RebalanceB
  BY <1>5 DEF ExecFails, RebalanceA, RebalanceB, Inventory
<1>6. CASE SnapRaises
  BY <1>6 DEF SnapRaises, EndEvaluation, Inventory
<1>7. CASE ReconcileEnds
  <2>1. CASE \A l \in Legs : leg[l] = "ok"
    <3>1. venue["a"] = target["a"]
      BY <1>0, <1>7, <2>1 DEF ReconcileEnds, RepairInv, Repaired, Legs
    <3> QED
      BY <1>7, <2>1, <3>1 DEF ReconcileEnds, EndEvaluation, Inventory
  <2>2. CASE ~ \A l \in Legs : leg[l] = "ok"
    BY <1>7, <2>2 DEF ReconcileEnds, EndEvaluation, Inventory
  <2> QED
    BY <2>1, <2>2
<1>8. ASSUME NEW l \in Legs, VenueFills(l)
      PROVE  UNCHANGED Inventory
  <2>1. leg[l] # "none" /\ UNCHANGED <<phase, target, savedVars>>
    BY <1>8 DEF VenueFills
  <2>2. phase \in {"exec", "rebalance_a", "rebalance_b"}
    BY <1>0, <2>1, Awaited
  <2> QED
    BY <2>1, <2>2 DEF Inventory
<1>9. CASE Restart
  <2>1. Inventory' = venue["a"] /\ Abs(venue["a"]) <= MaxQty
    BY <1>0, <1>9 DEF Restart, EndEvaluation, Inventory, FirstLegInv
  <2>2. Inventory \in Int /\ venue["a"] \in Int
    <3>1. reconcile_pending => reconcile_target \in [Legs -> Int]
      BY <1>0 DEF TypeOK, TargetSaved
    <3> QED
      BY <1>0, <3>1 DEF TypeOK, Inventory, Legs
  <2>3. venue["a"] - Inventory \in {0, Qty, -Qty}
    <3>1. CASE phase \notin Resting
      <4>1. phase \in {"exec", "snap", "rebalance_a", "rebalance_b"}
        BY <1>0, <3>1 DEF TypeOK, Phases
      <4>2. Near(venue["a"], target["a"])
        BY <1>0, <4>1, TradeLeaves DEF NearInv, Legs
      <4> QED
        BY <3>1, <4>2 DEF Near, Inventory
    <3>2. CASE phase \in Resting /\ reconcile_pending
      <4>1. Near(venue["a"], reconcile_target["a"])
        BY <1>0, <3>2 DEF NearInv, Legs
      <4> QED
        BY <3>2, <4>1 DEF Near, Inventory
    <3>3. CASE phase \in Resting /\ ~reconcile_pending
      BY <2>2, <3>3 DEF Inventory
    <3> QED
      BY <3>1, <3>2, <3>3
  <2>4. CASE venue["a"] = Inventory
    BY <2>1, <2>4
  <2>5. CASE venue["a"] # Inventory
    <3>1. PICK d \in {Qty, -Qty} : venue["a"] - Inventory = d
      BY <2>2, <2>3, <2>5
    <3>2. d \in Int
      BY <1>0
    <3>3. Inventory' = Inventory + d
      BY <2>1, <2>2, <3>1, <3>2
    <3> QED
      BY <2>1, <2>2, <3>3, PairMoves
  <2> QED
    BY <2>4, <2>5
<1>10. CASE SeedsArrive
  BY <1>10 DEF SeedsArrive, EndEvaluation, Inventory
<1> QED
  BY <1>0, <1>1, <1>2, <1>3, <1>4, <1>5, <1>6, <1>7, <1>8, <1>9, <1>10, PunctualSteps
  DEF Strategy, vars, SnapReturns, VenueRejects, CallReturns, VenuePushes, PositionEvent, Clock

\* Two asynchronous legs with failures, lost answers, repairs and restarts implement a
\* pair that trades atomically.
THEOREM PairImplemented == ASSUME Refusing PROVE Spec => ImplementsAtomicPair
<1>1. Init => Pair!Init
  <2> SUFFICES ASSUME Init PROVE Inventory \in StartInventory
    BY DEF Pair!Init
  <2>1. PICK x \in StartInventory : venue = [l \in Legs |-> IF l = "a" THEN x ELSE -x]
    BY DEF Init
  <2> QED
    BY <2>1 DEF Init, Inventory, Legs
<1>2. TypeInv /\ HaltInv /\ CacheInv /\ PunctualInv /\ FirstLegInv /\ RefusingInv
         /\ [Next]_vars => [Pair!Next]_Inventory
  BY PairStep
<1>3. Punctual
  BY DEF Refusing
<1> QED
  BY <1>1, <1>2, <1>3, TypeInvariant, HaltInvariant, CacheInvariant, PunctualInvariant,
     FirstLegInvariant, RefusingInvariant, PTL DEF Spec, ImplementsAtomicPair, Pair!Spec

-----------------------------------------------------------------------------
(* A faithful environment: the other leg.                                  *)

\* A hedged pair of positions within the cap.
Mirrored(p) == /\ p \in [Legs -> Int]
               /\ p["b"] = -p["a"]
               /\ Abs(p["a"]) <= MaxQty

\* Settled, the venues are mirrored; before that, what they are to return to is.
MirrorInv ==
    /\ phase \in Resting /\ ~reconcile_pending => Mirrored(venue)
    /\ phase \notin Resting => Mirrored(target)
    /\ reconcile_pending => Mirrored(reconcile_target)

FaithInv == MirrorInv /\ CapHeld

\* A mirrored pair is within the cap on both sides, and so is the pair a trade leaves.
LEMMA MirroredCap ==
    ASSUME NEW p, Mirrored(p)
    PROVE  \A l \in Legs : Abs(p[l]) <= MaxQty
  BY TakerTakerAssumption DEF Mirrored, Legs, Abs

\* FaithInv holds of the mirrored positions the bot starts with.
LEMMA FaithInit == ASSUME Init PROVE FaithInv
<1>1. PICK x \in StartInventory : venue = [l \in Legs |-> IF l = "a" THEN x ELSE -x]
  BY DEF Init
<1>2. x \in Int /\ Abs(x) <= MaxQty
  BY TakerTakerAssumption
<1>3. Mirrored(venue)
  BY <1>1, <1>2 DEF Mirrored, Legs
<1>4. CapHeld
  BY <1>3, MirroredCap DEF CapHeld
<1> QED
  BY <1>3, <1>4 DEF Init, FaithInv, MirrorInv, Unsettled

\* Every step of a faithful environment keeps FaithInv.
LEMMA FaithStep ==
    ASSUME Faithful, TypeInv, HaltInv, CacheInv, PunctualInv, RefusingInv, FaithInv, [Next]_vars
    PROVE  FaithInv'
<1> USE DEF FaithInv, MirrorInv, Unsettled, envVars, cacheVars, legVars, planVars, savedVars
<1>0. /\ TypeOK /\ TargetSaved /\ Qty \in Nat \ {0} /\ MaxQty \in Nat /\ Refusing
      /\ Punctual /\ NoLate /\ TradeInv /\ RepairInv
  BY TakerTakerAssumption DEF TypeInv, Faithful, Refusing, PunctualInv, RefusingInv
<1>1. CASE ScheduleEval \/ EvaluateSkip \/ EvaluateRetry
  BY <1>1 DEF ScheduleEval, EvaluateSkip, EvaluateRetry, CapHeld
<1>2. ASSUME NEW dir \in Directions, Fire(dir)
      PROVE  FaithInv'
  <2>1. target' = venue /\ Mirrored(venue)
    BY <1>0, <1>2, FireStarts DEF Fire
  <2> QED
    BY <1>2, <2>1 DEF Fire, CapHeld
<1>3. CASE ExecSucceeds
  <2>1. /\ \A l \in Legs : venue[l] = target[l] + amount[l]
        /\ amount["b"] = -amount["a"] /\ Abs(target["a"] + amount["a"]) <= MaxQty
        /\ Mirrored(target)
    BY <1>0, <1>3 DEF ExecSucceeds, TradeInv, Traded, Legs
  <2>2. Mirrored(venue)
    BY <1>0, <2>1 DEF Mirrored, Legs, TypeOK
  <2> QED
    BY <1>0, <1>3, <2>2 DEF ExecSucceeds, EndEvaluation, TradeInv, CapHeld
<1>4. CASE ExecFails \/ RebalanceA \/ RebalanceB
  BY <1>4 DEF ExecFails, RebalanceA, RebalanceB, CapHeld
<1>5. ASSUME NEW l \in Legs, SnapReturns(l)
      PROVE  FaithInv'
  BY <1>5 DEF SnapReturns, CapHeld
<1>6. CASE SnapRaises
  BY <1>6 DEF SnapRaises, EndEvaluation, CapHeld
<1>7. CASE ReconcileEnds
  <2>1. CASE \A l \in Legs : leg[l] = "ok"
    <3>1. venue = target
      <4>1. \A l \in Legs : venue[l] = target[l]
        BY <1>0, <1>7, <2>1 DEF ReconcileEnds, RepairInv, Repaired, Legs
      <4> QED
        BY <1>0, <4>1 DEF TypeOK
    <3> QED
      BY <1>7, <2>1, <3>1 DEF ReconcileEnds, EndEvaluation, CapHeld
  <2>2. CASE ~ \A l \in Legs : leg[l] = "ok"
    BY <1>7, <2>2 DEF ReconcileEnds, EndEvaluation, CapHeld
  <2> QED
    BY <2>1, <2>2
<1>8. ASSUME NEW l \in Legs, VenueFills(l)
      PROVE  FaithInv'
  <2>1. /\ venue'[l] = venue[l] + amount[l]
        /\ \A k \in Legs \ {l} : venue'[k] = venue[k]
        /\ leg[l] = "sent" /\ leg[l] # "none"
        /\ UNCHANGED <<amount, phase, target, savedVars>>
    BY <1>0, <1>8, WholeFills
  <2>2. phase \in {"exec", "rebalance_a", "rebalance_b"}
    BY <1>0, <2>1, Awaited
  <2>3. Mirrored(target) /\ venue[l] \in Int /\ amount[l] \in Int /\ target[l] \in Int
    BY <1>0, <2>2 DEF TypeOK
  <2>4. Abs(venue'[l]) <= MaxQty
    <3>1. CASE phase = "exec"
      <4>1. /\ venue'[l] = target[l] + amount[l]
            /\ amount["b"] = -amount["a"] /\ target["b"] = -target["a"]
            /\ amount["a"] \in Int /\ target["a"] \in Int
            /\ Abs(target["a"] + amount["a"]) <= MaxQty
        BY <1>0, <2>1, <2>3, <3>1 DEF Legs, TradeInv, Traded, Mirrored, TypeOK
      <4>2. CASE l = "a"
        BY <4>1, <4>2
      <4>3. CASE l = "b"
        BY <1>0, <4>1, <4>3 DEF Abs
      <4> QED
        BY <4>2, <4>3 DEF Legs
    <3>2. CASE phase \in {"rebalance_a", "rebalance_b"}
      <4>1. venue'[l] = target[l]
        BY <1>0, <2>1, <2>3, <3>2 DEF Legs, RepairInv, Repaired
      <4> QED
        BY <2>3, <4>1, MirroredCap
    <3> QED
      BY <2>2, <3>1, <3>2
  <2>5. CapHeld'
    BY <2>1, <2>4 DEF CapHeld
  <2> QED
    BY <2>1, <2>2, <2>5
<1>9. ASSUME NEW l \in Legs,
             VenueRejects(l) \/ CallReturns(l) \/ VenuePushes(l) \/ PositionEvent(l)
      PROVE  FaithInv'
  BY <1>9 DEF VenueRejects, CallReturns, VenuePushes, PositionEvent, CapHeld
<1>10. CASE Clock \/ UNCHANGED vars
  BY <1>10 DEF Clock, vars, CapHeld
<1>11. ~Restart
  BY DEF Restart, Faithful
<1>12. CASE SeedsArrive
  BY <1>12 DEF SeedsArrive, EndEvaluation, CapHeld
<1> QED
  BY <1>0, <1>1, <1>2, <1>3, <1>4, <1>5, <1>6, <1>7, <1>8, <1>9, <1>10, <1>11, <1>12,
     PunctualSteps
  DEF Strategy

\* In a faithful environment FaithInv is invariant: everything the next two theorems need.
LEMMA FaithInvariant == ASSUME Faithful PROVE Spec => []FaithInv
<1>1. Punctual /\ Refusing
  BY DEF Faithful, Refusing
<1>2. TypeInv /\ HaltInv /\ CacheInv /\ PunctualInv /\ RefusingInv /\ FaithInv /\ [Next]_vars
         => FaithInv'
  BY FaithStep
<1>3. Init => FaithInv
  BY FaithInit
<1> QED
  BY <1>1, <1>2, <1>3, TypeInvariant, HaltInvariant, CacheInvariant, PunctualInvariant,
     RefusingInvariant, PTL DEF Spec

\* In a faithful environment the two venues are mirrored whenever no trade and no
\* repair is under way, whatever the calls answered and whenever the pushes came.
THEOREM HedgeKept == ASSUME Faithful PROVE Spec => []Hedged
<1>1. FaithInv => Hedged
  <2> SUFFICES ASSUME FaithInv, ~Unsettled PROVE venue["a"] + venue["b"] = 0
    BY DEF Hedged
  <2>1. venue \in [Legs -> Int] /\ venue["b"] = -venue["a"]
    BY DEF FaithInv, MirrorInv, Mirrored, Unsettled
  <2> QED
    BY <2>1 DEF Legs
<1> QED
  BY <1>1, FaithInvariant, PTL

\* In a faithful environment neither venue's position passes max_qty.
THEOREM CapKept == ASSUME Faithful PROVE Spec => []CapHeld
<1>1. FaithInv => CapHeld
  BY DEF FaithInv
<1> QED
  BY <1>1, FaithInvariant, PTL

=============================================================================
