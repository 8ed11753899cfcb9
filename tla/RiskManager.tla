---------------------------- MODULE RiskManager ----------------------------
(***************************************************************************)
(* risk/manager.py: the operational gates in front of every entry.         *)
(*                                                                         *)
(* The methods of RiskManager are actions over the fields of RiskState.    *)
(* They constrain exactly the variables the method assigns, so that a      *)
(* caller can conjoin several of them in one step, as `_fire` does with    *)
(* record_success and record_pnl.                                          *)
(*                                                                         *)
(* Clock time appears only where the code compares it: `cooling` is        *)
(* now_ms() < cooldown_until_ms, and `day_turned` is "the UTC date is no   *)
(* longer day_key", which _rollover_day looks at.                          *)
(***************************************************************************)
EXTENDS Integers

CONSTANTS
    MaxConsecutiveFailures,  \* cfg.max_consecutive_failures
    DailyLossCap,            \* cfg.daily_loss_cap_usd
    HasCooldown,             \* cfg.cooldown_s > 0
    PnlValues,               \* what one pair of fills may realise
    PnlBound                 \* bound of the model: the day's profit stops here

ASSUME RiskAssumption ==
    /\ MaxConsecutiveFailures \in Nat \ {0}
    /\ DailyLossCap \in Nat \ {0}
    /\ HasCooldown \in BOOLEAN
    /\ PnlValues \subseteq Int
    /\ PnlBound \in Nat

VARIABLES
    consecutive_failures,
    cooling,
    halted,
    realised_pnl_today,
    day_turned

riskVars ==
    <<consecutive_failures, cooling, halted, realised_pnl_today, day_turned>>

RiskTypeOK ==
    /\ consecutive_failures \in Nat
    /\ cooling \in BOOLEAN
    /\ halted \in BOOLEAN
    /\ realised_pnl_today \in Int
    /\ day_turned \in BOOLEAN

\* A RiskManager as its constructor leaves it.
RiskInit ==
    /\ consecutive_failures = 0
    /\ cooling = FALSE
    /\ halted = FALSE
    /\ realised_pnl_today = 0
    /\ day_turned = FALSE

\* A new RiskManager: nothing survives the process.
RiskReset ==
    /\ consecutive_failures' = 0
    /\ cooling' = FALSE
    /\ halted' = FALSE
    /\ realised_pnl_today' = 0
    /\ day_turned' = FALSE

-----------------------------------------------------------------------------
\* The day's profit once _rollover_day has run.
PnlToday == IF day_turned THEN 0 ELSE realised_pnl_today

\* _rollover_day on its own: what every call of can_trade does first.
RolloverDay ==
    /\ realised_pnl_today' = PnlToday
    /\ day_turned' = FALSE

\* What can_trade answers, after its rollover.
CanTrade ==
    /\ ~halted
    /\ ~cooling
    /\ consecutive_failures < MaxConsecutiveFailures
    /\ PnlToday > -DailyLossCap

RecordSuccess == consecutive_failures' = 0

\* A plausible mistake (see TakerTaker): halts one failure too late.
MutRecordFailure ==
    /\ consecutive_failures' = consecutive_failures + 1
    /\ cooling' = HasCooldown
    /\ halted' = (halted \/ consecutive_failures' > MaxConsecutiveFailures)

RecordFailure ==
    /\ consecutive_failures' = consecutive_failures + 1
    /\ cooling' = HasCooldown
    /\ halted' = (halted \/ consecutive_failures' >= MaxConsecutiveFailures)

RecordPnl(realised) ==
    /\ PnlToday + realised <= PnlBound
    /\ realised_pnl_today' = PnlToday + realised
    /\ day_turned' = FALSE
    /\ halted' = (halted \/ realised_pnl_today' <= -DailyLossCap)

\* The clock: a cooldown runs out, the UTC day changes (a day without profit or loss
\* changes nothing).
CooldownExpires ==
    /\ cooling
    /\ cooling' = FALSE
    /\ UNCHANGED <<consecutive_failures, halted, realised_pnl_today, day_turned>>

DayTurns ==
    /\ ~day_turned
    /\ realised_pnl_today # 0
    /\ day_turned' = TRUE
    /\ UNCHANGED <<consecutive_failures, cooling, halted, realised_pnl_today>>

=============================================================================
