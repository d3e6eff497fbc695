---------------------------- MODULE TimersProofs ----------------------------
(***************************************************************************)
(* Theorems about Timers, for any constants: what the timers extrapolate   *)
(* adds up, and waiting ends, whatever the system clock does; and a timer  *)
(* is not ahead of the clock by more than the period.                      *)
(***************************************************************************)
EXTENDS Timers, TLAPS

\* What is assumed of any PeriodicTimer between two calls.
PeriodicTimerType ==
    [wind_up_counter : Nat \ {0}, wind_up_balance : Int, last_wind_up_counter : Nat \ {0},
     last_system_time : Int, approx_time_step : Int, called_at : Int, hasty : BOOLEAN]

InRange(timer) == /\ timer.wind_up_counter <= timer.last_wind_up_counter
                  /\ timer.last_wind_up_counter <= MaxWindUpSteps

LEMMA MaxOfTwo ==
    ASSUME NEW a \in Int, NEW b \in Int
    PROVE  /\ Max({a, b}) \in {a, b} /\ Max({a, b}) >= a /\ Max({a, b}) >= b
           /\ Max({a, b}) \in Int
<1>1. PICK m \in {a, b} : \A x \in {a, b} : m >= x
  OBVIOUS
<1>2. Max({a, b}) \in {a, b} /\ \A x \in {a, b} : Max({a, b}) >= x
  BY <1>1 DEF Max
<1>. QED  BY <1>2

LEMMA MinOfTwo ==
    ASSUME NEW a \in Int, NEW b \in Int
    PROVE  /\ Min({a, b}) \in {a, b} /\ Min({a, b}) <= a /\ Min({a, b}) <= b
           /\ Min({a, b}) \in Int
<1>1. PICK m \in {a, b} : \A x \in {a, b} : x >= m
  OBVIOUS
<1>2. Min({a, b}) \in {a, b} /\ \A x \in {a, b} : Min({a, b}) <= x
  BY <1>1 DEF Min
<1>. QED  BY <1>2

LEMMA QuotientType ==
    ASSUME NEW a \in Int, NEW b \in Nat \ {0}
    PROVE  Quotient(a, b) \in Int
  BY DEF Quotient

\* The clock is read again after at least one call and at most MaxWindUpSteps.
LEMMA NewWindUpCounterBounds ==
    ASSUME NEW timer \in PeriodicTimerType, NEW time_passed \in Int
    PROVE  NewWindUpCounter(timer, time_passed) \in 1 .. MaxWindUpSteps
<1>1. CASE time_passed > 0
  <2>. DEFINE many == (MinSystemClickCallPeriod \div time_passed) * timer.last_wind_up_counter
              fewer == Min({many, MaxWindUpSteps})
  <2>1. many \in Int
    <3>1. MinSystemClickCallPeriod \div time_passed \in Int
      BY <1>1, TimersAssumption
    <3>2. timer.last_wind_up_counter \in Int
      BY DEF PeriodicTimerType
    <3>. QED  BY <3>1, <3>2
  <2>2. fewer \in Int /\ fewer <= MaxWindUpSteps
    <3>1. MaxWindUpSteps \in Int
      BY TimersAssumption
    <3>. HIDE DEF many
    <3>. QED  BY ONLY <2>1, <3>1, MinOfTwo
  <2>3. Max({1, fewer}) \in 1 .. MaxWindUpSteps
    <3>. HIDE DEF fewer
    <3>1. 1 \in Int /\ fewer \in Int
      BY <2>2
    <3>2. Max({1, fewer}) \in {1, fewer} /\ Max({1, fewer}) >= 1
      BY <3>1, MaxOfTwo
    <3>. QED  BY <3>2, <2>2, TimersAssumption
  <2>. QED  BY <1>1, <2>3 DEF NewWindUpCounter
<1>2. CASE ~(time_passed > 0)
  BY <1>2, TimersAssumption DEF NewWindUpCounter
<1>. QED  BY <1>1, <1>2

\* WindUp moves what has passed from the clock into the balance.
LEMMA WindUpBalances ==
    ASSUME NEW timer \in PeriodicTimerType, NEW now \in Int
    PROVE  /\ WindUp(timer, now) \in PeriodicTimerType
           /\ Told(WindUp(timer, now)) = Told(timer)
           /\ InRange(WindUp(timer, now))
<1>. DEFINE time_passed == now - timer.last_system_time
            counter == NewWindUpCounter(timer, time_passed)
            balance == timer.wind_up_balance + time_passed
            step == Quotient(Quotient(time_passed * counter, timer.last_wind_up_counter)
                               + balance, counter + 1)
<1>1. time_passed \in Int /\ balance \in Int /\ timer.last_wind_up_counter \in Nat \ {0}
  BY DEF PeriodicTimerType
<1>2. counter \in 1 .. MaxWindUpSteps
  BY <1>1, NewWindUpCounterBounds
<1>3. counter \in Nat \ {0} /\ counter <= MaxWindUpSteps
  BY <1>2, TimersAssumption
<1>4. step \in Int
  <2>. HIDE DEF time_passed, counter, balance
  <2>1. time_passed * counter \in Int
    BY <1>1, <1>3
  <2>2. Quotient(time_passed * counter, timer.last_wind_up_counter) + balance \in Int
    BY <1>1, <2>1, QuotientType
  <2>. QED  BY <1>3, <2>2, QuotientType
<1>5. WindUp(timer, now) =
        [timer EXCEPT !.wind_up_balance = balance, !.last_system_time = now,
           !.last_wind_up_counter = counter, !.wind_up_counter = counter,
           !.approx_time_step = step]
  BY DEF WindUp
<1>. DEFINE wound == WindUp(timer, now)
<1>6. /\ wound.wind_up_balance = timer.wind_up_balance + time_passed
      /\ wound.last_system_time = now
      /\ wound.last_wind_up_counter = counter /\ wound.wind_up_counter = counter
  BY <1>5 DEF PeriodicTimerType
<1>7. wound \in PeriodicTimerType
  <2>. HIDE DEF counter, step, balance
  <2>. QED  BY <1>1, <1>3, <1>4, <1>5 DEF PeriodicTimerType
<1>8. Told(wound) = Told(timer)
  <2>1. timer.wind_up_balance \in Int /\ timer.last_system_time \in Int
    BY DEF PeriodicTimerType
  <2>. HIDE DEF wound
  <2>. QED  BY <1>6, <2>1 DEF Told
<1>9. InRange(wound)
  <2>. HIDE DEF wound, counter
  <2>. QED  BY <1>3, <1>6 DEF InRange
<1>. QED  BY <1>7, <1>8, <1>9

\* A call tells as much as it returns, and at least the minimum.
LEMMA GetPassedTimeTells ==
    ASSUME NEW timer \in PeriodicTimerType, InRange(timer), NEW now \in Int
    PROVE  /\ GetPassedTime(timer, now) \in PeriodicTimerType
           /\ InRange(GetPassedTime(timer, now))
           /\ Result(GetPassedTime(timer, now)) \in Int
           /\ Result(GetPassedTime(timer, now)) >= MinMeasuredTime
           /\ Told(GetPassedTime(timer, now)) = Told(timer) + Result(GetPassedTime(timer, now))
<1>. DEFINE called == [timer EXCEPT !.called_at = now, !.hasty = @ \/ now <= timer.called_at]
            wound == IF timer.wind_up_counter = 1 THEN WindUp(called, now)
                     ELSE [called EXCEPT !.wind_up_counter = @ - 1]
<1>1. called \in PeriodicTimerType /\ Told(called) = Told(timer) /\ InRange(called)
  BY DEF PeriodicTimerType, Told, InRange
<1>2. wound \in PeriodicTimerType /\ Told(wound) = Told(timer) /\ InRange(wound)
  <2>1. CASE timer.wind_up_counter = 1
    BY <1>1, <2>1, WindUpBalances
  <2>2. CASE timer.wind_up_counter # 1
    <3>1. called.wind_up_counter = timer.wind_up_counter
      BY DEF PeriodicTimerType
    <3>2. wound = [called EXCEPT !.wind_up_counter = @ - 1]
      BY <2>2
    <3>. HIDE DEF called, wound
    <3>3. called.wind_up_counter - 1 \in Nat \ {0}
      BY <1>1, <2>2, <3>1 DEF PeriodicTimerType
    <3>. QED  BY <1>1, <3>2, <3>3, TimersAssumption DEF PeriodicTimerType, Told, InRange
  <2>. QED  BY <2>1, <2>2
<1>3. GetPassedTime(timer, now) = [wound EXCEPT !.wind_up_balance = @ - Result(wound)]
  BY DEF GetPassedTime
<1>. HIDE DEF called, wound
<1>4. Result(wound) \in Int /\ Result(wound) >= MinMeasuredTime
  <2>1. wound.approx_time_step \in Int /\ MinMeasuredTime \in Int
    BY <1>2 DEF PeriodicTimerType, MinMeasuredTime
  <2>. QED  BY <2>1, MaxOfTwo DEF Result
<1>5. GetPassedTime(timer, now).approx_time_step = wound.approx_time_step
  BY <1>2, <1>3 DEF PeriodicTimerType
<1>6. Result(GetPassedTime(timer, now)) = Result(wound)
  BY <1>5 DEF Result
<1>. QED  BY <1>2, <1>3, <1>4, <1>6 DEF PeriodicTimerType, Told, InRange

LEMMA NewTimerType ==
    NewTimer \in PeriodicTimerType /\ InRange(NewTimer) /\ Told(NewTimer) = 0
  BY TimersAssumption DEF NewTimer, PeriodicTimerType, InRange, Told

----------------------------------------------------------------------------
(* The inductive invariant: each object by itself *)

StartFinishTimerType ==
    [start_timer : PeriodicTimerType, finish_timer : PeriodicTimerType,
     measurements_counter : Nat, last_duration : Int, duration_sum : Int]

WaitingTimerType ==
    [periodic_timer : PeriodicTimerType, time_elapsed : Int, polls : Nat, reset_at : Int]

StartFinishInv ==
    /\ start_finish_timer \in StartFinishTimerType
    /\ InRange(start_finish_timer.start_timer) /\ InRange(start_finish_timer.finish_timer)
    /\ start_finish_timer.last_duration =
         Told(start_finish_timer.finish_timer) - Told(start_finish_timer.start_timer)

\* Each poll has added at least the minimum.
WaitingTimerFine(timer) ==
    /\ timer \in WaitingTimerType
    /\ InRange(timer.periodic_timer)
    /\ timer.time_elapsed = Told(timer.periodic_timer) - timer.reset_at
    /\ timer.time_elapsed >= timer.polls

WaitingInv == WaitingTimerFine(waiting_timer)

PeriodicClockInv ==
    /\ periodic_clock \in [periodic_timer : PeriodicTimerType, current_time : Int]
    /\ InRange(periodic_clock.periodic_timer)
    /\ periodic_clock.current_time = Told(periodic_clock.periodic_timer)

TimersInv == system_time \in Nat \ {0} /\ StartFinishInv /\ WaitingInv /\ PeriodicClockInv

LEMMA MultipleDivided ==
    ASSUME NEW a \in Nat, NEW b \in Nat \ {0}
    PROVE  (a * b) \div b = a
  OBVIOUS

\* The first reading of a timer tells all the time there is: the step it extrapolates
\* by is (now * counter + now) / (counter + 1).
LEMMA ResetTells ==
    ASSUME NEW now \in Nat \ {0}
    PROVE  Told(GetPassedTime(NewTimer, now)) = now
<1>. DEFINE called == [NewTimer EXCEPT
              !.called_at = now, !.hasty = @ \/ now <= NewTimer.called_at]
            wound == WindUp(called, now)
            counter == NewWindUpCounter(called, now)
<1>1. called \in PeriodicTimerType /\ called.last_system_time = 0
      /\ called.wind_up_balance = 0 /\ called.last_wind_up_counter = 1
  <2>1. NewTimer.last_system_time = 0 /\ NewTimer.wind_up_balance = 0
        /\ NewTimer.last_wind_up_counter = 1
    BY DEF NewTimer
  <2>2. NewTimer \in PeriodicTimerType /\ now \in Int
    BY NewTimerType
  <2>3. called.last_system_time = NewTimer.last_system_time
        /\ called.wind_up_balance = NewTimer.wind_up_balance
        /\ called.last_wind_up_counter = NewTimer.last_wind_up_counter
    BY <2>2 DEF PeriodicTimerType
  <2>4. called \in PeriodicTimerType
    BY <2>2 DEF PeriodicTimerType
  <2>. QED  BY <2>1, <2>3, <2>4
<1>2. counter \in Nat \ {0}
  <2>. HIDE DEF called
  <2>1. counter \in 1 .. MaxWindUpSteps
    BY <1>1, NewWindUpCounterBounds
  <2>. QED  BY <2>1, TimersAssumption
<1>3. wound.wind_up_balance = now /\ wound.last_system_time = now
      /\ wound.approx_time_step = Quotient(Quotient(now * counter, 1) + now, counter + 1)
      /\ wound \in PeriodicTimerType
  <2>1. now - called.last_system_time = now /\ called.wind_up_balance + now = now
    BY <1>1
  <2>. HIDE DEF called
  <2>2. WindUp(called, now) \in PeriodicTimerType
    BY <1>1, WindUpBalances
  <2>. QED  BY <1>1, <2>1, <2>2 DEF WindUp, PeriodicTimerType
<1>4. Quotient(Quotient(now * counter, 1) + now, counter + 1) = now
  <2>. HIDE DEF counter
  <2>1. now * counter \in Nat /\ now * counter + now = now * (counter + 1)
    BY <1>2
  <2>2. Quotient(now * counter, 1) = now * counter
    BY <2>1 DEF Quotient
  <2>3. (now * (counter + 1)) \div (counter + 1) = now
    BY <1>2, MultipleDivided
  <2>4. now * (counter + 1) >= 0
    BY <2>1
  <2>. QED  BY <2>1, <2>2, <2>3, <2>4 DEF Quotient
<1>5. GetPassedTime(NewTimer, now) = [wound EXCEPT !.wind_up_balance = @ - Result(wound)]
  BY DEF GetPassedTime, NewTimer
<1>. HIDE DEF called, wound, counter
<1>6. Result(wound) = now
  <2>1. Result(wound) = Max({MinMeasuredTime, now})
    BY <1>3, <1>4 DEF Result
  <2>2. now >= MinMeasuredTime /\ MinMeasuredTime \in Int
    BY DEF MinMeasuredTime
  <2>3. Max({MinMeasuredTime, now}) \in {MinMeasuredTime, now}
        /\ Max({MinMeasuredTime, now}) >= now
    BY <2>2, MaxOfTwo
  <2>. QED  BY <2>1, <2>2, <2>3
<1>. QED  BY <1>3, <1>5, <1>6 DEF PeriodicTimerType, Told

\* The WaitingTimer as Reset leaves it.
LEMMA NewWaitingTimerFine ==
    ASSUME NEW now \in Nat \ {0}
    PROVE  WaitingTimerFine(NewWaitingTimer(now))
<1>1. /\ GetPassedTime(NewTimer, now) \in PeriodicTimerType
      /\ InRange(GetPassedTime(NewTimer, now))
  <2>1. now \in Int
    OBVIOUS
  <2>. QED  BY <2>1, NewTimerType, GetPassedTimeTells
<1>. QED  BY <1>1, ResetTells DEF NewWaitingTimer, WaitingTimerFine, WaitingTimerType

LEMMA InitTimersInv == Init => TimersInv
<1>. SUFFICES ASSUME Init PROVE TimersInv
  OBVIOUS
<1>1. StartFinishInv
  BY NewTimerType DEF Init, NewStartFinishTimer, StartFinishInv, StartFinishTimerType
<1>2. WaitingInv
  BY TimersAssumption, NewWaitingTimerFine DEF Init, WaitingInv, WaitingTimerType
<1>3. PeriodicClockInv
  BY NewTimerType DEF Init, PeriodicClockInv
<1>. QED  BY <1>1, <1>2, <1>3, TimersAssumption DEF Init, TimersInv

LEMMA CallAdvances ==
    ASSUME system_time \in Nat \ {0}, Call
    PROVE  system_time' \in Nat \ {0}
  BY TimersAssumption DEF Call

\* The steps, object by object: a call of a timer changes what is told by its result.
LEMMA StartFinishStep ==
    ASSUME TimersInv, [Next]_vars
    PROVE  StartFinishInv'
<1>. USE DEF TimersInv
<1>1. CASE Start
  <2>. DEFINE timer == GetPassedTime(start_finish_timer.start_timer, system_time')
  <2>1. system_time' \in Int
    BY <1>1, CallAdvances DEF Start
  <2>2. /\ timer \in PeriodicTimerType /\ InRange(timer) /\ Result(timer) \in Int
        /\ Told(timer) = Told(start_finish_timer.start_timer) + Result(timer)
    BY <2>1, GetPassedTimeTells DEF StartFinishInv, StartFinishTimerType
  <2>3. start_finish_timer' = [start_finish_timer EXCEPT
             !.start_timer = timer, !.last_duration = @ - Result(timer)]
    BY <1>1 DEF Start
  <2>4. /\ Told(start_finish_timer.start_timer) \in Int
        /\ Told(start_finish_timer.finish_timer) \in Int
    BY DEF StartFinishInv, PeriodicTimerType, Told, StartFinishTimerType
  <2>5. start_finish_timer.last_duration \in Int /\ start_finish_timer.duration_sum \in Int
        /\ start_finish_timer.measurements_counter \in Nat
        /\ start_finish_timer.last_duration =
             Told(start_finish_timer.finish_timer) - Told(start_finish_timer.start_timer)
    BY DEF StartFinishInv, StartFinishTimerType
  <2>. HIDE DEF timer
  <2>6. /\ start_finish_timer'.start_timer = timer
        /\ start_finish_timer'.finish_timer = start_finish_timer.finish_timer
        /\ start_finish_timer'.last_duration = start_finish_timer.last_duration - Result(timer)
    BY <2>3 DEF StartFinishInv, StartFinishTimerType
  <2>7. start_finish_timer' \in StartFinishTimerType
    <3>1. start_finish_timer \in StartFinishTimerType
      BY DEF StartFinishInv
    <3>2. start_finish_timer.last_duration - Result(timer) \in Int
      BY <2>2, <2>5
    <3>. QED  BY <2>2, <2>3, <3>1, <3>2 DEF StartFinishTimerType
  <2>8. start_finish_timer'.last_duration =
          Told(start_finish_timer.finish_timer) - Told(timer)
    BY <2>2, <2>4, <2>5, <2>6
  <2>. QED  BY <2>2, <2>6, <2>7, <2>8 DEF StartFinishInv, StartFinishTimerType
<1>2. CASE Finish
  <2>. DEFINE timer == GetPassedTime(start_finish_timer.finish_timer, system_time')
              duration == start_finish_timer.last_duration + Result(timer)
  <2>1. system_time' \in Int
    BY <1>2, CallAdvances DEF Finish
  <2>2. /\ timer \in PeriodicTimerType /\ InRange(timer) /\ Result(timer) \in Int
        /\ Told(timer) = Told(start_finish_timer.finish_timer) + Result(timer)
    BY <2>1, GetPassedTimeTells DEF StartFinishInv, StartFinishTimerType
  <2>3. start_finish_timer' = [start_finish_timer EXCEPT
             !.finish_timer = timer, !.last_duration = duration,
             !.duration_sum = @ + duration, !.measurements_counter = @ + 1]
    BY <1>2 DEF Finish
  <2>4. /\ Told(start_finish_timer.start_timer) \in Int
        /\ Told(start_finish_timer.finish_timer) \in Int
    BY DEF StartFinishInv, PeriodicTimerType, Told, StartFinishTimerType
  <2>5. start_finish_timer.last_duration \in Int /\ start_finish_timer.duration_sum \in Int
        /\ start_finish_timer.measurements_counter \in Nat
        /\ start_finish_timer.last_duration =
             Told(start_finish_timer.finish_timer) - Told(start_finish_timer.start_timer)
    BY DEF StartFinishInv, StartFinishTimerType
  <2>6. duration \in Int /\ duration = start_finish_timer.last_duration + Result(timer)
    BY <2>2, <2>5
  <2>. HIDE DEF timer, duration
  <2>7. /\ start_finish_timer'.finish_timer = timer
        /\ start_finish_timer'.start_timer = start_finish_timer.start_timer
        /\ start_finish_timer'.last_duration = duration
    BY <2>3 DEF StartFinishInv, StartFinishTimerType
  <2>8. start_finish_timer' \in StartFinishTimerType
    <3>1. start_finish_timer \in StartFinishTimerType
      BY DEF StartFinishInv
    <3>2. start_finish_timer.duration_sum + duration \in Int
          /\ start_finish_timer.measurements_counter + 1 \in Nat
      BY <2>5, <2>6
    <3>. QED  BY <2>2, <2>3, <2>6, <3>1, <3>2 DEF StartFinishTimerType
  <2>9. duration = Told(timer) - Told(start_finish_timer.start_timer)
    BY <2>2, <2>4, <2>5, <2>6
  <2>. QED  BY <2>2, <2>7, <2>8, <2>9 DEF StartFinishInv, StartFinishTimerType
<1>3. CASE Reset
  <2>1. start_finish_timer' = NewStartFinishTimer
    BY <1>3 DEF Reset
  <2>. QED  BY <2>1, NewTimerType DEF NewStartFinishTimer, StartFinishInv, StartFinishTimerType
<1>4. CASE CheckTime \/ ResetWaiting \/ GetTime \/ UNCHANGED vars
  <2>1. start_finish_timer' = start_finish_timer
    BY <1>4 DEF CheckTime, ResetWaiting, GetTime, vars, objects
  <2>. QED  BY <2>1 DEF StartFinishInv, StartFinishTimerType
<1>. QED  BY <1>1, <1>2, <1>3, <1>4 DEF Next

LEMMA WaitingStep ==
    ASSUME TimersInv, [Next]_vars
    PROVE  WaitingInv'
<1>. USE DEF TimersInv
<1>1. CASE CheckTime
  <2>. DEFINE timer == GetPassedTime(waiting_timer.periodic_timer, system_time')
  <2>1. system_time' \in Int
    BY <1>1, CallAdvances DEF CheckTime
  <2>2. /\ timer \in PeriodicTimerType /\ InRange(timer)
        /\ Result(timer) \in Int /\ Result(timer) >= 1
        /\ Told(timer) = Told(waiting_timer.periodic_timer) + Result(timer)
    BY <2>1, GetPassedTimeTells
       DEF WaitingInv, WaitingTimerFine, MinMeasuredTime, WaitingTimerType
  <2>3. waiting_timer' = [waiting_timer EXCEPT
             !.periodic_timer = timer, !.time_elapsed = @ + Result(timer), !.polls = @ + 1]
    BY <1>1 DEF CheckTime
  <2>4. Told(waiting_timer.periodic_timer) \in Int
    BY DEF WaitingInv, WaitingTimerFine, PeriodicTimerType, Told, WaitingTimerType
  <2>5. waiting_timer.time_elapsed \in Int /\ waiting_timer.polls \in Nat
        /\ waiting_timer.reset_at \in Int
    BY DEF WaitingInv, WaitingTimerFine, WaitingTimerType
  <2>. HIDE DEF timer
  <2>6. /\ waiting_timer'.periodic_timer = timer
        /\ waiting_timer'.time_elapsed = waiting_timer.time_elapsed + Result(timer)
        /\ waiting_timer'.polls = waiting_timer.polls + 1
        /\ waiting_timer'.reset_at = waiting_timer.reset_at
    BY <2>3 DEF WaitingInv, WaitingTimerFine, WaitingTimerType
  <2>7. waiting_timer' \in WaitingTimerType
    <3>1. waiting_timer \in WaitingTimerType
      BY DEF WaitingInv, WaitingTimerFine
    <3>2. waiting_timer.time_elapsed + Result(timer) \in Int /\ waiting_timer.polls + 1 \in Nat
      BY <2>2, <2>5
    <3>. QED  BY <2>2, <2>3, <3>1, <3>2 DEF WaitingTimerType
  <2>8. waiting_timer.time_elapsed =
          Told(waiting_timer.periodic_timer) - waiting_timer.reset_at
        /\ waiting_timer.time_elapsed >= waiting_timer.polls
    BY DEF WaitingInv, WaitingTimerFine, WaitingTimerType
  <2>9. waiting_timer'.time_elapsed = Told(timer) - waiting_timer'.reset_at
        /\ waiting_timer'.time_elapsed >= waiting_timer'.polls
    BY <2>2, <2>4, <2>5, <2>6, <2>8
  <2>. QED  BY <2>2, <2>6, <2>7, <2>9 DEF WaitingInv, WaitingTimerFine, WaitingTimerType
<1>2. CASE ResetWaiting
  <2>1. system_time' \in Nat \ {0}
    BY <1>2, CallAdvances DEF ResetWaiting
  <2>2. waiting_timer' = NewWaitingTimer(system_time')
    BY <1>2 DEF ResetWaiting
  <2>3. WaitingTimerFine(NewWaitingTimer(system_time'))
    BY <2>1, NewWaitingTimerFine
  <2>. QED  BY <2>2, <2>3 DEF WaitingInv
<1>3. CASE Start \/ Finish \/ Reset \/ GetTime \/ UNCHANGED vars
  <2>1. waiting_timer' = waiting_timer
    BY <1>3 DEF Start, Finish, Reset, GetTime, vars, objects
  <2>. QED  BY <2>1 DEF WaitingInv
<1>. QED  BY <1>1, <1>2, <1>3 DEF Next

LEMMA PeriodicClockStep ==
    ASSUME TimersInv, [Next]_vars
    PROVE  PeriodicClockInv'
<1>. USE DEF TimersInv
<1>1. CASE GetTime
  <2>. DEFINE timer == GetPassedTime(periodic_clock.periodic_timer, system_time')
  <2>1. system_time' \in Int
    BY <1>1, CallAdvances DEF GetTime
  <2>2. /\ timer \in PeriodicTimerType /\ InRange(timer) /\ Result(timer) \in Int
        /\ Told(timer) = Told(periodic_clock.periodic_timer) + Result(timer)
    BY <2>1, GetPassedTimeTells DEF PeriodicClockInv
  <2>3. periodic_clock' = [periodic_timer |-> timer,
                           current_time |-> periodic_clock.current_time + Result(timer)]
    BY <1>1 DEF GetTime
  <2>. HIDE DEF timer
  <2>. QED  BY <2>2, <2>3 DEF PeriodicClockInv
<1>2. CASE Start \/ Finish \/ Reset \/ CheckTime \/ ResetWaiting \/ UNCHANGED vars
  <2>1. periodic_clock' = periodic_clock
    BY <1>2 DEF Start, Finish, Reset, CheckTime, ResetWaiting, vars, objects
  <2>. QED  BY <2>1 DEF PeriodicClockInv
<1>. QED  BY <1>1, <1>2 DEF Next

LEMMA TimersInvAlways == Spec => []TimersInv
<1>1. TimersInv /\ [Next]_vars => TimersInv'
  <2>. SUFFICES ASSUME TimersInv, [Next]_vars PROVE TimersInv'
    OBVIOUS
  <2>1. system_time' \in Nat \ {0}
    <3>1. CASE UNCHANGED vars
      BY <3>1 DEF TimersInv, vars
    <3>2. CASE Next
      BY <3>2, CallAdvances
         DEF TimersInv, Next, Start, Finish, Reset, CheckTime, ResetWaiting, GetTime
    <3>. QED  BY <3>1, <3>2
  <2>. QED  BY <2>1, StartFinishStep, WaitingStep, PeriodicClockStep DEF TimersInv
<1>. QED  BY <1>1, InitTimersInv, PTL DEF Spec

----------------------------------------------------------------------------
(* How far a timer may be ahead of the system clock *)

LEMMA DivisionFits ==
    ASSUME NEW a \in Nat, NEW b \in Nat \ {0}
    PROVE  a \div b \in Nat /\ b * (a \div b) <= a
  OBVIOUS

LEMMA QuotientFits ==
    ASSUME NEW a \in Int, NEW b \in Nat \ {0}, Quotient(a, b) >= 1
    PROVE  a >= 0 /\ b * Quotient(a, b) <= a
<1>1. CASE a >= 0
  BY <1>1, DivisionFits DEF Quotient
<1>2. CASE a < 0
  <2>1. (-a) \div b \in Nat
    BY <1>2, DivisionFits
  <2>. QED  BY <1>2, <2>1 DEF Quotient
<1>. QED  BY <1>1, <1>2

LEMMA ProductsInOrder ==
    ASSUME NEW a \in Nat, NEW b \in Int, NEW c \in Int, b <= c
    PROVE  a * b <= a * c /\ b * a <= c * a
  OBVIOUS

LEMMA FactorsInOrder ==
    ASSUME NEW a \in Nat \ {0}, NEW b \in Int, NEW c \in Int, a * b <= c * a
    PROVE  b <= c
  OBVIOUS

LEMMA SumBelowProduct ==
    ASSUME NEW a \in Nat \ {0}, NEW b \in Nat \ {0}
    PROVE  a + b <= a * b + 1
<1>1. (a - 1) * (b - 1) \in Nat
  OBVIOUS
<1>2. (a - 1) * (b - 1) = a * b - a - b + 1
  OBVIOUS
<1>. QED  BY <1>1, <1>2

\* What WindUp extrapolates from the time since the last reading is less than the
\* period, or there is but one call until the next reading.
LEMMA ExtrapolationBounded ==
    ASSUME NEW period \in Nat, NEW passed \in Nat \ {0}, NEW before \in Nat \ {0},
           NEW counter \in Nat \ {0}, passed >= before,
           counter = 1 \/ counter <= (period \div passed) * before
    PROVE  LET q == Quotient(passed * counter, before)
           IN  q \in Nat /\ (q <= period \/ (counter = 1 /\ q + before <= passed + 1))
<1>. DEFINE q == Quotient(passed * counter, before)
<1>1. passed * counter \in Nat
  OBVIOUS
<1>2. q = (passed * counter) \div before
  BY <1>1 DEF Quotient
<1>3. q \in Nat /\ before * q <= passed * counter
  BY <1>1, <1>2, DivisionFits
<1>. HIDE DEF q
<1>4. CASE counter = 1
  <2>1. before * q <= passed
    BY <1>3, <1>4
  <2>2. q # 0 => q + before <= q * before + 1
    BY <1>3, SumBelowProduct
  <2>3. q * before = before * q
    BY <1>3
  <2>. QED  BY <1>3, <1>4, <2>1, <2>2, <2>3 DEF q
<1>5. CASE counter <= (period \div passed) * before
  <2>. DEFINE times == period \div passed
  <2>1. times \in Nat /\ passed * times <= period
    BY DivisionFits
  <2>. HIDE DEF times
  <2>2. passed * counter <= passed * (times * before)
    <3>1. times * before \in Int /\ counter <= times * before
      BY <1>5, <2>1 DEF times
    <3>. QED  BY <3>1, ProductsInOrder
  <2>3. (passed * times) * before <= period * before
    <3>1. passed * times \in Int
      BY <2>1
    <3>. QED  BY <2>1, <3>1, ProductsInOrder
  <2>4. passed * (times * before) = (passed * times) * before
    BY <2>1
  <2>5. before * q <= period * before
    <3>1. /\ before * q \in Int /\ passed * counter \in Int /\ period * before \in Int
          /\ passed * (times * before) \in Int
      BY <1>3, <2>1
    <3>. QED  BY <1>3, <2>2, <2>3, <2>4, <3>1
  <2>6. q <= period
    BY <1>3, <2>5, FactorsInOrder
  <2>. QED  BY <1>3, <2>6 DEF q
<1>. QED  BY <1>4, <1>5

\* If told was ahead of the last reading by less than the period and the calls since,
\* it is not ahead of this one by more than the period after the calls to come.
LEMMA StepFits ==
    ASSUME NEW period \in Nat, NEW now \in Int, NEW last \in Int, NEW told \in Int,
           NEW before \in Nat \ {0}, NEW counter \in Nat \ {0}, NEW step \in Int,
           now - last >= before, told <= last + period - 1 + before,
           counter = 1 \/ counter <= (period \div (now - last)) * before,
           step = Quotient(Quotient((now - last) * counter, before) + (now - told), counter + 1),
           step >= 1
    PROVE  told + counter * step <= now + period
<1>. DEFINE passed == now - last
            q == Quotient(passed * counter, before)
<1>1. passed \in Nat \ {0} /\ passed >= before
  OBVIOUS
<1>2. q \in Nat /\ (q <= period \/ (counter = 1 /\ q + before <= passed + 1))
  BY <1>1, ExtrapolationBounded
<1>. HIDE DEF q
<1>3. (counter + 1) * step <= q + (now - told)
  <2>1. q + (now - told) \in Int /\ counter + 1 \in Nat \ {0}
    BY <1>2
  <2>2. step = Quotient(q + (now - told), counter + 1)
    BY DEF q
  <2>. QED  BY ONLY <2>1, <2>2, QuotientFits, step >= 1
<1>4. (counter + 1) * step = counter * step + step /\ counter * step \in Int
  OBVIOUS
<1>5. CASE q <= period
  BY <1>2, <1>3, <1>4, <1>5
<1>6. CASE counter = 1 /\ q + before <= passed + 1
  <2>1. counter * step = step
    BY <1>6
  <2>. QED  BY <1>2, <1>3, <1>4, <1>6, <2>1
<1>. QED  BY <1>2, <1>5, <1>6

\* Counting the results still to come until the clock is read again, a timer is not
\* further ahead of the last reading than the period, unless its results are the
\* minimum: then it gains at most one on the clock with each call.
NotAhead(timer) == timer.hasty \/
    /\ timer.called_at >= timer.last_system_time
                            + (timer.last_wind_up_counter - timer.wind_up_counter)
    /\ \/ Told(timer) + (timer.wind_up_counter - 1) * Result(timer)
            <= timer.last_system_time + MinSystemClickCallPeriod
       \/ /\ Result(timer) = 1
          /\ Told(timer) + (timer.wind_up_counter - 1)
               <= timer.last_system_time + MinSystemClickCallPeriod - 1
                    + timer.last_wind_up_counter

\* The results are whole numbers, and the least is the minimum.
LEMMA ResultType ==
    ASSUME NEW timer \in PeriodicTimerType
    PROVE  /\ Result(timer) \in Nat \ {0}
           /\ Result(timer) = timer.approx_time_step \/ Result(timer) = 1
<1>1. timer.approx_time_step \in Int /\ MinMeasuredTime \in Int /\ MinMeasuredTime = 1
  BY DEF PeriodicTimerType, MinMeasuredTime
<1>2. /\ Result(timer) \in {MinMeasuredTime, timer.approx_time_step}
      /\ Result(timer) >= MinMeasuredTime
  BY ONLY <1>1, MaxOfTwo DEF Result
<1>. QED  BY <1>1, <1>2

LEMMA NewTimerNotAhead == NotAhead(NewTimer)
<1>1. NewTimer.called_at = 0 /\ NewTimer.last_system_time = 0 /\ Told(NewTimer) = 0
      /\ NewTimer.last_wind_up_counter = 1 /\ NewTimer.wind_up_counter = 1
  BY DEF NewTimer, Told
<1>2. Result(NewTimer) \in Int
  BY NewTimerType, ResultType
<1>. QED  BY <1>1, <1>2, TimersAssumption DEF NotAhead

\* A reading of the clock that has advanced starts from a balance above minus the period.
LEMMA ReadingStaysBehind ==
    ASSUME NEW timer \in PeriodicTimerType, ~timer.hasty, NotAhead(timer),
           timer.wind_up_counter = 1, NEW now \in Int, now > timer.called_at
    PROVE  /\ now - timer.last_system_time >= timer.last_wind_up_counter
           /\ Told(timer) <= timer.last_system_time + MinSystemClickCallPeriod - 1
                               + timer.last_wind_up_counter
<1>1. /\ timer.called_at \in Int /\ timer.last_system_time \in Int /\ Told(timer) \in Int
      /\ timer.last_wind_up_counter \in Nat \ {0} /\ Result(timer) \in Nat \ {0}
      /\ MinSystemClickCallPeriod \in Nat
  BY ResultType, TimersAssumption DEF PeriodicTimerType, Told
<1>. QED  BY <1>1 DEF NotAhead

\* The counter is 1, or what passes until the next reading is not above the period.
LEMMA NewWindUpCounterFits ==
    ASSUME NEW timer \in PeriodicTimerType, NEW passed \in Nat \ {0}
    PROVE  LET counter == NewWindUpCounter(timer, passed)
           IN  \/ counter = 1
               \/ counter <= (MinSystemClickCallPeriod \div passed) * timer.last_wind_up_counter
<1>. DEFINE many == (MinSystemClickCallPeriod \div passed) * timer.last_wind_up_counter
            fewer == Min({many, MaxWindUpSteps})
<1>1. many \in Int /\ MaxWindUpSteps \in Int
  <2>1. MinSystemClickCallPeriod \div passed \in Nat
    BY TimersAssumption, DivisionFits
  <2>2. timer.last_wind_up_counter \in Nat
    BY DEF PeriodicTimerType
  <2>. QED  BY <2>1, <2>2, TimersAssumption
<1>2. NewWindUpCounter(timer, passed) = Max({1, fewer})
  <2>1. passed > 0
    OBVIOUS
  <2>. QED  BY ONLY <2>1 DEF NewWindUpCounter
<1>. HIDE DEF many
<1>3. fewer \in Int /\ fewer <= many
  BY <1>1, MinOfTwo
<1>. HIDE DEF fewer
<1>4. Max({1, fewer}) \in {1, fewer}
  BY <1>3, MaxOfTwo
<1>. QED  BY <1>2, <1>3, <1>4 DEF many

\* What a timer is after a reading: WindUp and the result taken from the balance.
LEMMA ReadingKeepsNotAhead ==
    ASSUME NEW timer \in PeriodicTimerType, NEW now \in Int, timer.called_at = now,
           now - timer.last_system_time >= timer.last_wind_up_counter,
           Told(timer) <= timer.last_system_time + MinSystemClickCallPeriod - 1
                            + timer.last_wind_up_counter
    PROVE  LET wound == WindUp(timer, now)
           IN  NotAhead([wound EXCEPT !.wind_up_balance = @ - Result(wound)])
<1>. DEFINE passed == now - timer.last_system_time
            before == timer.last_wind_up_counter
            counter == NewWindUpCounter(timer, passed)
            step == Quotient(Quotient(passed * counter, before) + (now - Told(timer)), counter + 1)
            wound == WindUp(timer, now)
            told == [wound EXCEPT !.wind_up_balance = @ - Result(wound)]
<1>. SUFFICES NotAhead(told)
  OBVIOUS
<1>1. /\ before \in Nat \ {0} /\ timer.last_system_time \in Int /\ Told(timer) \in Int
      /\ timer.wind_up_balance \in Int /\ MinSystemClickCallPeriod \in Nat
  BY TimersAssumption DEF PeriodicTimerType, Told
<1>2. passed \in Nat \ {0} /\ passed >= before
  BY <1>1
<1>3. counter \in Nat \ {0}
  <2>1. counter \in 1 .. MaxWindUpSteps
    BY <1>2, NewWindUpCounterBounds
  <2>. QED  BY <2>1, TimersAssumption
<1>4. counter = 1 \/ counter <= (MinSystemClickCallPeriod \div passed) * before
  BY <1>2, NewWindUpCounterFits
<1>5. timer.wind_up_balance + passed = now - Told(timer)
  BY <1>1 DEF Told
<1>6. /\ wound \in PeriodicTimerType /\ wound.called_at = now /\ wound.last_system_time = now
      /\ wound.last_wind_up_counter = counter /\ wound.wind_up_counter = counter
      /\ wound.approx_time_step = step /\ Told(wound) = Told(timer)
  <2>1. wound \in PeriodicTimerType /\ Told(wound) = Told(timer)
    BY WindUpBalances
  <2>2. wound = [timer EXCEPT !.wind_up_balance = now - Told(timer), !.last_system_time = now,
                   !.last_wind_up_counter = counter, !.wind_up_counter = counter,
                   !.approx_time_step = step]
    BY <1>5 DEF WindUp
  <2>. HIDE DEF wound, counter, step, passed
  <2>. QED  BY <2>1, <2>2 DEF PeriodicTimerType
<1>7. step \in Int
  BY <1>6 DEF PeriodicTimerType
<1>8. Result(wound) \in Nat \ {0} /\ (Result(wound) = step \/ Result(wound) = 1)
  <2>. HIDE DEF wound, step
  <2>. QED  BY <1>6, ResultType
<1>9. Result(wound) = step => Told(timer) + counter * step <= now + MinSystemClickCallPeriod
  <2>. HIDE DEF counter, wound
  <2>1. Result(wound) = step => step >= 1
    BY <1>7, <1>8
  <2>2. step = Quotient(Quotient((now - timer.last_system_time) * counter, before)
                          + (now - Told(timer)), counter + 1)
    OBVIOUS
  <2>3. counter = 1
        \/ counter <= (MinSystemClickCallPeriod \div (now - timer.last_system_time)) * before
    BY <1>4
  <2>. HIDE DEF step, before
  <2>. QED  BY <1>1, <1>2, <1>3, <1>7, <2>1, <2>2, <2>3, StepFits DEF before
<1>. HIDE DEF wound, counter, step, before
<1>10. /\ told.called_at = now /\ told.last_system_time = now
       /\ told.last_wind_up_counter = counter /\ told.wind_up_counter = counter
       /\ Result(told) = Result(wound) /\ Told(told) = Told(timer) + Result(wound)
  <2>1. /\ told.called_at = now /\ told.last_system_time = now
        /\ told.last_wind_up_counter = counter /\ told.wind_up_counter = counter
        /\ told.approx_time_step = wound.approx_time_step
        /\ told.wind_up_balance = wound.wind_up_balance - Result(wound)
    BY <1>6 DEF PeriodicTimerType
  <2>2. wound.wind_up_balance \in Int
    BY <1>6 DEF PeriodicTimerType
  <2>. HIDE DEF told
  <2>3. Result(told) = Result(wound)
    BY <2>1 DEF Result
  <2>. QED  BY <1>6, <1>8, <2>1, <2>2, <2>3 DEF Told
<1>. HIDE DEF told
<1>11. CASE Result(wound) = step
  <2>1. Told(told) + (counter - 1) * step = Told(timer) + counter * step
    BY <1>1, <1>3, <1>7, <1>10, <1>11
  <2>. QED  BY <1>3, <1>9, <1>10, <1>11, <2>1 DEF NotAhead
<1>12. CASE Result(wound) = 1
  <2>1. Told(told) + (counter - 1) <= now + MinSystemClickCallPeriod - 1 + counter
    BY <1>1, <1>2, <1>3, <1>10, <1>12 DEF before
  <2>. QED  BY <1>3, <1>10, <1>12, <2>1 DEF NotAhead
<1>. QED  BY <1>8, <1>11, <1>12

LEMMA CallKeepsNotAhead ==
    ASSUME NEW timer \in PeriodicTimerType, InRange(timer), NotAhead(timer), NEW now \in Int
    PROVE  NotAhead(GetPassedTime(timer, now))
<1>. DEFINE called == [timer EXCEPT !.called_at = now, !.hasty = @ \/ now <= timer.called_at]
            wound == IF timer.wind_up_counter = 1 THEN WindUp(called, now)
                     ELSE [called EXCEPT !.wind_up_counter = @ - 1]
            told == GetPassedTime(timer, now)
<1>1. /\ called \in PeriodicTimerType /\ called.called_at = now
      /\ called.hasty = (timer.hasty \/ now <= timer.called_at)
      /\ called.last_system_time = timer.last_system_time
      /\ called.last_wind_up_counter = timer.last_wind_up_counter
      /\ called.wind_up_counter = timer.wind_up_counter
      /\ called.approx_time_step = timer.approx_time_step
      /\ Told(called) = Told(timer) /\ Result(called) = Result(timer)
  BY DEF PeriodicTimerType, Told, Result
<1>2. told = [wound EXCEPT !.wind_up_balance = @ - Result(wound)]
  BY DEF GetPassedTime
<1>3. /\ told \in PeriodicTimerType /\ Told(told) = Told(timer) + Result(told)
  BY GetPassedTimeTells
<1>. HIDE DEF told, called
<1>4. CASE called.hasty
  <2>1. wound.hasty = called.hasty /\ wound \in PeriodicTimerType
    <3>1. CASE timer.wind_up_counter = 1
      <4>1. wound = WindUp(called, now) /\ wound \in PeriodicTimerType
        BY <1>1, <3>1, WindUpBalances
      <4>. QED  BY <1>1, <4>1 DEF WindUp, PeriodicTimerType
    <3>2. CASE timer.wind_up_counter # 1
      <4>1. called.wind_up_counter - 1 \in Nat \ {0}
        BY <1>1, <3>2 DEF PeriodicTimerType
      <4>. QED  BY <1>1, <3>2, <4>1 DEF PeriodicTimerType
    <3>. QED  BY <3>1, <3>2
  <2>. HIDE DEF wound
  <2>2. told.hasty = wound.hasty
    BY <1>2, <2>1 DEF PeriodicTimerType
  <2>. QED  BY <1>4, <2>1, <2>2 DEF NotAhead, told
<1>5. CASE ~called.hasty
  <2>1. ~timer.hasty /\ now > timer.called_at
    BY <1>1, <1>5 DEF PeriodicTimerType
  <2>2. CASE timer.wind_up_counter = 1
    <3>1. /\ now - called.last_system_time >= called.last_wind_up_counter
          /\ Told(called) <= called.last_system_time + MinSystemClickCallPeriod - 1
                               + called.last_wind_up_counter
      BY <1>1, <2>1, <2>2, ReadingStaysBehind
    <3>. QED  BY <1>1, <1>2, <2>2, <3>1, ReadingKeepsNotAhead DEF told
  <2>3. CASE timer.wind_up_counter # 1
    <3>1. wound = [called EXCEPT !.wind_up_counter = @ - 1]
      BY <2>3
    <3>. HIDE DEF wound
    <3>2. /\ told.called_at = now /\ told.last_system_time = timer.last_system_time
          /\ told.last_wind_up_counter = timer.last_wind_up_counter
          /\ told.wind_up_counter = timer.wind_up_counter - 1
          /\ told.approx_time_step = timer.approx_time_step
      BY <1>1, <1>2, <3>1 DEF PeriodicTimerType
    <3>3. Result(told) = Result(timer)
      BY <3>2 DEF Result
    <3>4. /\ Told(timer) \in Int /\ Result(timer) \in Nat \ {0} /\ timer.wind_up_counter \in Nat
          /\ timer.last_wind_up_counter \in Nat /\ timer.last_system_time \in Int
          /\ timer.called_at \in Int
      BY ResultType DEF PeriodicTimerType, Told
    <3>5. (timer.wind_up_counter - 1) * Result(timer)
            = Result(timer) + (told.wind_up_counter - 1) * Result(told)
      BY <3>2, <3>3, <3>4
    <3>6. told.called_at >= told.last_system_time
                              + (told.last_wind_up_counter - told.wind_up_counter)
      BY <2>1, <3>2, <3>4 DEF NotAhead
    <3>7. CASE Told(timer) + (timer.wind_up_counter - 1) * Result(timer)
                 <= timer.last_system_time + MinSystemClickCallPeriod
      <4>1. Told(told) + (told.wind_up_counter - 1) * Result(told)
              = Told(timer) + (timer.wind_up_counter - 1) * Result(timer)
        <5>1. (told.wind_up_counter - 1) * Result(told) \in Int
          BY <3>2, <3>3, <3>4
        <5>. QED  BY <1>3, <3>3, <3>4, <3>5, <5>1
      <4>. QED  BY <3>2, <3>6, <3>7, <4>1 DEF NotAhead, told
    <3>8. CASE /\ Result(timer) = 1
               /\ Told(timer) + (timer.wind_up_counter - 1)
                    <= timer.last_system_time + MinSystemClickCallPeriod - 1
                         + timer.last_wind_up_counter
      <4>1. Told(told) + (told.wind_up_counter - 1)
              = Told(timer) + (timer.wind_up_counter - 1)
        BY <1>3, <3>2, <3>3, <3>4, <3>8
      <4>. QED  BY <3>2, <3>3, <3>6, <3>8, <4>1 DEF NotAhead, told
    <3>. QED  BY <2>1, <3>7, <3>8 DEF NotAhead
  <2>. QED  BY <2>2, <2>3
<1>. QED  BY <1>1, <1>4, <1>5

\* No timer is ahead of the clock in this sense.
NotAheadInv ==
    /\ NotAhead(start_finish_timer.start_timer) /\ NotAhead(start_finish_timer.finish_timer)
    /\ NotAhead(waiting_timer.periodic_timer) /\ NotAhead(periodic_clock.periodic_timer)

\* No timer is ahead of the clock, nor would it be after a call.
LEMMA TimerCalled ==
    ASSUME TimersInv, NotAheadInv, NEW now \in Int, NEW timer \in AllTimers
    PROVE  NotAhead(timer) /\ NotAhead(GetPassedTime(timer, now))
<1>1. timer \in PeriodicTimerType /\ InRange(timer)
  BY DEF TimersInv, StartFinishInv, WaitingInv, WaitingTimerFine, PeriodicClockInv,
         AllTimers, StartFinishTimerType, WaitingTimerType
<1>2. NotAhead(timer)
  BY DEF NotAheadInv, AllTimers
<1>. QED  BY <1>1, <1>2, CallKeepsNotAhead

LEMMA NewTimerCalled ==
    ASSUME NEW now \in Int PROVE NotAhead(GetPassedTime(NewTimer, now))
  BY NewTimerType, NewTimerNotAhead, CallKeepsNotAhead

LEMMA NotAheadStep ==
    ASSUME TimersInv, NotAheadInv, [Next]_vars
    PROVE  NotAheadInv'
<1>. DEFINE called(timer) == GetPassedTime(timer, system_time')
<1>1. ASSUME Next PROVE system_time' \in Int
  BY <1>1, CallAdvances
     DEF TimersInv, Next, Start, Finish, Reset, CheckTime, ResetWaiting, GetTime
<1>2. Next => \A timer \in AllTimers : NotAhead(timer) /\ NotAhead(called(timer))
  BY <1>1, TimerCalled
<1>3. Next => NotAhead(called(NewTimer))
  BY <1>1, NewTimerCalled
<1>. HIDE DEF called
<1>4. CASE Start
  <2>1. /\ start_finish_timer'.start_timer = called(start_finish_timer.start_timer)
        /\ start_finish_timer'.finish_timer = start_finish_timer.finish_timer
        /\ UNCHANGED <<waiting_timer, periodic_clock>>
    BY <1>4 DEF Start, TimersInv, StartFinishInv, StartFinishTimerType, called
  <2>. QED  BY <1>2, <1>4, <2>1 DEF Next, AllTimers, NotAheadInv
<1>5. CASE Finish
  <2>1. /\ start_finish_timer'.start_timer = start_finish_timer.start_timer
        /\ start_finish_timer'.finish_timer = called(start_finish_timer.finish_timer)
        /\ UNCHANGED <<waiting_timer, periodic_clock>>
    BY <1>5 DEF Finish, TimersInv, StartFinishInv, StartFinishTimerType, called
  <2>. QED  BY <1>2, <1>5, <2>1 DEF Next, AllTimers, NotAheadInv
<1>6. CASE Reset
  <2>1. /\ start_finish_timer'.start_timer = NewTimer
        /\ start_finish_timer'.finish_timer = NewTimer
        /\ UNCHANGED <<waiting_timer, periodic_clock>>
    BY <1>6 DEF Reset, NewStartFinishTimer
  <2>. QED  BY <2>1, NewTimerNotAhead DEF NotAheadInv
<1>7. CASE CheckTime
  <2>1. /\ waiting_timer'.periodic_timer = called(waiting_timer.periodic_timer)
        /\ UNCHANGED <<start_finish_timer, periodic_clock>>
    BY <1>7 DEF CheckTime, TimersInv, WaitingInv, WaitingTimerFine, WaitingTimerType, called
  <2>. QED  BY <1>2, <1>7, <2>1 DEF Next, AllTimers, NotAheadInv
<1>8. CASE ResetWaiting
  <2>1. /\ waiting_timer'.periodic_timer = called(NewTimer)
        /\ UNCHANGED <<start_finish_timer, periodic_clock>>
    BY <1>8 DEF ResetWaiting, NewWaitingTimer, called
  <2>. QED  BY <1>3, <1>8, <2>1 DEF Next, NotAheadInv
<1>9. CASE GetTime
  <2>1. /\ periodic_clock'.periodic_timer = called(periodic_clock.periodic_timer)
        /\ UNCHANGED <<start_finish_timer, waiting_timer>>
    BY <1>9 DEF GetTime, called
  <2>. QED  BY <1>2, <1>9, <2>1 DEF Next, AllTimers, NotAheadInv
<1>10. CASE UNCHANGED vars
  BY <1>10 DEF vars, objects, NotAheadInv
<1>. QED  BY <1>4, <1>5, <1>6, <1>7, <1>8, <1>9, <1>10 DEF Next

----------------------------------------------------------------------------
(* The theorems *)

\* However the system clock jumps and however rarely it is read, the durations, the
\* time elapsed and the current time are differences of what the timers have told.
THEOREM TimesAddUpAlways == Spec => []TimesAddUp
<1>1. TimersInv => TimesAddUp
  BY DEF TimersInv, StartFinishInv, WaitingInv, WaitingTimerFine, PeriodicClockInv,
         TimesAddUp, StartFinishTimerType, WaitingTimerType
<1>. QED  BY <1>1, TimersInvAlways, PTL

\* CheckTime returns true after at most TimePeriod + 1 calls, even if the clock stands
\* still or is set back, and no timer goes on without reading it.
THEOREM WaitingAlwaysEnds == Spec => []WaitingEnds
<1>1. TimersInv => WaitingEnds
  <2>. SUFFICES ASSUME TimersInv PROVE WaitingEnds
    OBVIOUS
  <2>1. waiting_timer.polls > TimePeriod => TimeHasPassed
    BY TimersAssumption
       DEF TimersInv, WaitingInv, WaitingTimerFine, TimeHasPassed, WaitingTimerType
  <2>2. ASSUME NEW timer \in PeriodicTimerType, InRange(timer)
        PROVE  /\ timer.wind_up_counter \in 1 .. timer.last_wind_up_counter
               /\ timer.last_wind_up_counter \in 1 .. MaxWindUpSteps
    BY <2>2, TimersAssumption DEF PeriodicTimerType, InRange
  <2>3. \A timer \in AllTimers : timer \in PeriodicTimerType /\ InRange(timer)
    BY DEF TimersInv, StartFinishInv, WaitingInv, WaitingTimerFine, PeriodicClockInv,
           AllTimers, StartFinishTimerType, WaitingTimerType
  <2>. QED  BY <2>1, <2>2, <2>3 DEF WaitingEnds
<1>. QED  BY <1>1, TimersInvAlways, PTL

\* A timer called at most once in a microsecond tells no more than the period above
\* what the clock shows (GetPassedTime), so a CheckTime is not early by more.
THEOREM NeverFarAheadAlways == Spec => []NeverFarAhead
<1>1. Init => NotAheadInv
  <2>1. ASSUME Init
        PROVE  NotAhead(NewWaitingTimer(Epoch).periodic_timer)
    BY NewTimerCalled, TimersAssumption DEF NewWaitingTimer
  <2>2. ASSUME Init
        PROVE  /\ start_finish_timer.start_timer = NewTimer
               /\ start_finish_timer.finish_timer = NewTimer
               /\ waiting_timer = NewWaitingTimer(Epoch)
               /\ periodic_clock.periodic_timer = NewTimer
    BY <2>2 DEF Init, NewStartFinishTimer
  <2>. QED  BY <2>1, <2>2, NewTimerNotAhead DEF NotAheadInv
<1>2. TimersInv /\ NotAheadInv /\ [Next]_vars => NotAheadInv'
  BY NotAheadStep
<1>3. TimersInv /\ NotAheadInv => NeverFarAhead
  <2>. SUFFICES ASSUME TimersInv, NotAheadInv, NEW timer \in AllTimers, ~timer.hasty
                PROVE  Told(timer) <= timer.called_at + MinSystemClickCallPeriod
    BY DEF NeverFarAhead
  <2>1. timer \in PeriodicTimerType /\ InRange(timer)
    BY DEF TimersInv, StartFinishInv, WaitingInv, WaitingTimerFine, PeriodicClockInv,
           AllTimers, StartFinishTimerType, WaitingTimerType
  <2>2. NotAhead(timer)
    BY DEF NotAheadInv, AllTimers
  <2>3. /\ timer.wind_up_counter \in Nat \ {0} /\ timer.last_wind_up_counter \in Nat \ {0}
        /\ timer.wind_up_counter <= timer.last_wind_up_counter
        /\ Told(timer) \in Int /\ timer.called_at \in Int /\ timer.last_system_time \in Int
        /\ Result(timer) \in Nat \ {0} /\ MinSystemClickCallPeriod \in Nat
    BY <2>1, ResultType, TimersAssumption DEF PeriodicTimerType, InRange, Told
  <2>4. (timer.wind_up_counter - 1) * Result(timer) \in Nat
    BY <2>3
  <2>. QED  BY <2>2, <2>3, <2>4 DEF NotAhead
<1>. QED  BY <1>1, <1>2, <1>3, TimersInvAlways, PTL DEF Spec
=============================================================================
