----------------------------- MODULE RiskEngine -----------------------------
(***************************************************************************)
(* risk/engine.py with the limits of risk/meta_rules.yaml as constants.    *)
(* Percentages are compared by cross multiplication (value * 100 against   *)
(* pct * portfolio) where the code divides floats.  The engine is modelled *)
(* after load_rules; the clock is the time.time() the engine reads, and it *)
(* starts at 1 because the code reads a stamp of 0 as "never".             *)
(***************************************************************************)
EXTENDS Integers

CONSTANTS
  MaxTradeRiskPct, MaxPositionPct, MaxExposurePct,   \* capital
  MaxDailyDrawdownPct, MaxWeeklyDrawdownPct,         \* drawdown
  CoolDown,            \* cool_down_minutes, in clock ticks
  SignificantLoss,     \* significant_loss_pct, which the code compares with money
  MaxDailyTrades, MinOrderInterval,                  \* trading
  MaxTime              \* bound on the clock

ASSUME RulesAssumption ==
  /\ {MaxTradeRiskPct, MaxPositionPct, MaxExposurePct, MaxDailyDrawdownPct,
      MaxWeeklyDrawdownPct, CoolDown, SignificantLoss, MinOrderInterval} \subseteq Nat
  /\ MaxDailyTrades \in Nat \ {0}
  /\ MaxTime \in Nat \ {0}

VARIABLES dailyPnl, weeklyPnl, dailyTradeCount, lastOrderTime, lastLossTime,
          killSwitch, now

riskVars == <<dailyPnl, weeklyPnl, dailyTradeCount, lastOrderTime, lastLossTime,
              killSwitch, now>>

RiskInit ==
  /\ dailyPnl = 0
  /\ weeklyPnl = 0
  /\ dailyTradeCount = 0
  /\ lastOrderTime = 0
  /\ lastLossTime = 0
  /\ killSwitch = FALSE
  /\ now = 1

-----------------------------------------------------------------------------
\* validate: one conjunct per rule.  With a portfolio of zero or less the code
\* takes a share to be 100 percent, the exposure and the drawdown to be 0.

WithinPct(value, pct, portfolio) == value * 100 <= pct * portfolio

TradeRiskOK(t, portfolio) ==
  IF portfolio > 0 THEN WithinPct(t.amount * t.price, MaxTradeRiskPct, portfolio)
                   ELSE MaxTradeRiskPct >= 100

PositionOK(t, portfolio, existing) ==
  LET added == IF t.side = "buy" THEN t.amount * t.price ELSE 0
  IN  IF portfolio > 0 THEN WithinPct(existing + added, MaxPositionPct, portfolio)
                       ELSE MaxPositionPct >= 100

ExposureOK(t, portfolio, exposure) ==
  LET added == IF t.side = "buy" THEN t.amount * t.price ELSE 0
  IN  portfolio > 0 => WithinPct(exposure + added, MaxExposurePct, portfolio)

DrawdownOK(pnl, portfolio, limit) ==
  IF portfolio > 0 /\ pnl < 0 THEN -pnl * 100 < limit * portfolio ELSE limit > 0

CoolDownOver == lastLossTime > 0 => now - lastLossTime >= CoolDown

DailyTradesLeftOffByOne == dailyTradeCount <= MaxDailyTrades   \* seeded fault
DailyTradesLeft == dailyTradeCount < MaxDailyTrades

\* seeded fault: the interval ends a tick early
IntervalOffByOne == lastOrderTime > 0 => now - lastOrderTime >= MinOrderInterval - 1
IntervalElapsed == lastOrderTime > 0 => now - lastOrderTime >= MinOrderInterval

Approves(t, portfolio, existing, exposure) ==
  /\ ~killSwitch
  /\ t.side \in {"buy", "sell"}
  /\ t.amount > 0
  /\ t.price > 0
  /\ t.reason
  /\ TradeRiskOK(t, portfolio)
  /\ PositionOK(t, portfolio, existing)
  /\ ExposureOK(t, portfolio, exposure)
  /\ DrawdownOK(dailyPnl, portfolio, MaxDailyDrawdownPct)
  /\ DrawdownOK(weeklyPnl, portfolio, MaxWeeklyDrawdownPct)
  /\ CoolDownOver
  /\ DailyTradesLeft
  /\ IntervalElapsed

-----------------------------------------------------------------------------
\* record_trade_result, called at every entry with 0 and at every exit.
RecordTradeResult(pnl) ==
  /\ dailyPnl' = dailyPnl + pnl
  /\ weeklyPnl' = weeklyPnl + pnl
  /\ dailyTradeCount' = dailyTradeCount + 1
  /\ lastOrderTime' = now
  /\ lastLossTime' = IF pnl < 0 /\ -pnl > SignificantLoss THEN now ELSE lastLossTime
  /\ UNCHANGED <<killSwitch, now>>

\* reset_daily; it also ends a cool-down, but not the order interval.
ResetDailyCounters ==
  /\ dailyPnl' = 0
  /\ dailyTradeCount' = 0
  /\ lastLossTime' = 0
  /\ UNCHANGED <<lastOrderTime, killSwitch, now>>

ResetDaily  == ResetDailyCounters /\ UNCHANGED weeklyPnl
ResetWeekly == ResetDailyCounters /\ weeklyPnl' = 0

SetKillSwitch(on) ==   \* activate_kill_switch, deactivate_kill_switch
  /\ killSwitch' = on
  /\ UNCHANGED <<dailyPnl, weeklyPnl, dailyTradeCount, lastOrderTime, lastLossTime, now>>

Tick ==
  /\ now < MaxTime
  /\ now' = now + 1
  /\ UNCHANGED <<dailyPnl, weeklyPnl, dailyTradeCount, lastOrderTime, lastLossTime, killSwitch>>
=============================================================================
