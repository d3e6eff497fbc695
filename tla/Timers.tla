------------------------------- MODULE Timers -------------------------------
(***************************************************************************)
(* The timers of src/timers.cpp, which read the system clock on few of     *)
(* their calls and extrapolate on the others: PeriodicTimer, and the       *)
(* StartFinishTimer, WaitingTimer and PeriodicClock made of it.  Times are *)
(* in microseconds.  Each object belongs to one thread and shares nothing  *)
(* with the others, so a behaviour is about one of them.                   *)
(***************************************************************************)
EXTENDS Integers, FiniteSetsExt

CONSTANTS
    MinSystemClickCallPeriod,  \* min_system_click_call_period
    MaxWindUpSteps,            \* max_wind_up_steps
    TimePeriod,                \* time_period of the WaitingTimer
    Epoch,                     \* what the system clock shows at the beginning
    Ticks,                     \* what may be added to it between two calls
    MaxCalls                   \* bound: calls of methods

ASSUME TimersAssumption ==
    /\ MinSystemClickCallPeriod \in Nat /\ MaxWindUpSteps \in Nat \ {0}
    /\ TimePeriod \in Nat /\ Epoch \in Nat \ {0}
    /\ Ticks \subseteq Int /\ MaxCalls \in Nat

VARIABLES system_time, start_finish_timer, waiting_timer, periodic_clock,
          calls,   \* methods called so far
          running  \* what is measured is running: Start was called last

objects == <<start_finish_timer, waiting_timer, periodic_clock>>
vars == <<system_time, objects, calls, running>>

MinMeasuredTime == 1

\* Division truncates towards zero.
Quotient(a, b) == IF a >= 0 THEN a \div b ELSE -((-a) \div b)

----------------------------------------------------------------------------
(* PeriodicTimer *)

\* approx_time_step is assigned before it is read.  History: called_at is the time
\* of the last call, and hasty that the clock has not advanced between two calls.
NewTimer ==
    [wind_up_counter |-> 1, wind_up_balance |-> 0, last_wind_up_counter |-> 1,
     last_system_time |-> 0, approx_time_step |-> 0, called_at |-> 0, hasty |-> FALSE]

\* Mutant: the number of calls since the last reading is forgotten.
NewWindUpCounterFlat(timer, time_passed) ==
    IF time_passed > 0
    THEN Max({1, Min({(MinSystemClickCallPeriod \div time_passed) + timer.last_wind_up_counter,
                      MaxWindUpSteps})})
    ELSE MaxWindUpSteps

NewWindUpCounter(timer, time_passed) ==
    IF time_passed > 0
    THEN Max({1, Min({(MinSystemClickCallPeriod \div time_passed) * timer.last_wind_up_counter,
                      MaxWindUpSteps})})
    ELSE MaxWindUpSteps

WindUp(timer, now) ==
    LET time_passed == now - timer.last_system_time
        counter == NewWindUpCounter(timer, time_passed)
        balance == timer.wind_up_balance + time_passed
    IN  [timer EXCEPT
           !.wind_up_balance = balance, !.last_system_time = now,
           !.last_wind_up_counter = counter, !.wind_up_counter = counter,
           !.approx_time_step =
              Quotient(Quotient(time_passed * counter, timer.last_wind_up_counter) + balance,
                       counter + 1)]

\* Mutant: a call may take no time.
ResultUnbounded(timer) == timer.approx_time_step

\* What GetPassedTime returns, of the timer as it leaves it.
Result(timer) == Max({MinMeasuredTime, timer.approx_time_step})

GetPassedTime(timer, now) ==
    LET called == [timer EXCEPT !.called_at = now, !.hasty = @ \/ now <= timer.called_at]
        wound == IF timer.wind_up_counter = 1 THEN WindUp(called, now)
                 ELSE [called EXCEPT !.wind_up_counter = @ - 1]
    IN  [wound EXCEPT !.wind_up_balance = @ - Result(wound)]

----------------------------------------------------------------------------
(* The classes made of it *)

NewStartFinishTimer ==
    [start_timer |-> NewTimer, finish_timer |-> NewTimer, measurements_counter |-> 0,
     last_duration |-> 0, duration_sum |-> 0]

\* Reset calls GetPassedTime once and drops its result.  History: polls is the
\* number of calls of CheckTime since, and reset_at the time of the Reset.
NewWaitingTimer(now) ==
    [periodic_timer |-> GetPassedTime(NewTimer, now), time_elapsed |-> 0,
     polls |-> 0, reset_at |-> now]

Init ==
    /\ system_time = Epoch
    /\ start_finish_timer = NewStartFinishTimer
    /\ waiting_timer = NewWaitingTimer(Epoch)
    /\ periodic_clock = [periodic_timer |-> NewTimer, current_time |-> 0]
    /\ calls = 0 /\ running = FALSE

\* The clock has changed by some tick since the last call.
Call ==
    /\ calls < MaxCalls /\ calls' = calls + 1
    /\ system_time' \in {system_time + tick : tick \in Ticks} /\ system_time' > 0

UsesStartFinishTimer ==
    waiting_timer = NewWaitingTimer(Epoch) /\ periodic_clock.current_time = 0

\* Start again without a Finish: what was measured has thrown.
Start ==
    /\ Call /\ UsesStartFinishTimer /\ running' = TRUE
    /\ LET timer == GetPassedTime(start_finish_timer.start_timer, system_time')
       IN  start_finish_timer' = [start_finish_timer EXCEPT
             !.start_timer = timer, !.last_duration = @ - Result(timer)]
    /\ UNCHANGED <<waiting_timer, periodic_clock>>

Finish ==
    /\ Call /\ running /\ running' = FALSE
    /\ LET timer == GetPassedTime(start_finish_timer.finish_timer, system_time')
           duration == start_finish_timer.last_duration + Result(timer)
       IN  start_finish_timer' = [start_finish_timer EXCEPT
             !.finish_timer = timer, !.last_duration = duration,
             !.duration_sum = @ + duration, !.measurements_counter = @ + 1]
    /\ UNCHANGED <<waiting_timer, periodic_clock>>

\* Mutant: the last duration outlives the timers it is the difference of.
ResetMeasurementsOnly ==
    /\ Call /\ UsesStartFinishTimer /\ running' = FALSE
    /\ start_finish_timer' = [NewStartFinishTimer EXCEPT
          !.last_duration = start_finish_timer.last_duration]
    /\ UNCHANGED <<waiting_timer, periodic_clock>>

Reset ==
    /\ Call /\ UsesStartFinishTimer /\ running' = FALSE
    /\ start_finish_timer' = NewStartFinishTimer
    /\ UNCHANGED <<waiting_timer, periodic_clock>>

UsesWaitingTimer ==
    start_finish_timer = NewStartFinishTimer /\ periodic_clock.current_time = 0

CheckTime ==
    /\ Call /\ UsesWaitingTimer
    /\ LET timer == GetPassedTime(waiting_timer.periodic_timer, system_time')
       IN  waiting_timer' = [waiting_timer EXCEPT
             !.periodic_timer = timer, !.time_elapsed = @ + Result(timer), !.polls = @ + 1]
    /\ UNCHANGED <<start_finish_timer, periodic_clock, running>>

TimeHasPassed == waiting_timer.time_elapsed > TimePeriod

ResetWaiting ==
    /\ Call /\ UsesWaitingTimer /\ waiting_timer' = NewWaitingTimer(system_time')
    /\ UNCHANGED <<start_finish_timer, periodic_clock, running>>

UsesPeriodicClock ==
    start_finish_timer = NewStartFinishTimer /\ waiting_timer = NewWaitingTimer(Epoch)

GetTime ==
    /\ Call /\ UsesPeriodicClock
    /\ LET timer == GetPassedTime(periodic_clock.periodic_timer, system_time')
       IN  periodic_clock' = [periodic_timer |-> timer,
                              current_time |-> periodic_clock.current_time + Result(timer)]
    /\ UNCHANGED <<start_finish_timer, waiting_timer, running>>

Next == Start \/ Finish \/ Reset \/ CheckTime \/ ResetWaiting \/ GetTime

Spec == Init /\ [][Next]_vars

----------------------------------------------------------------------------
(* Properties *)

AllTimers == {start_finish_timer.start_timer, start_finish_timer.finish_timer,
           waiting_timer.periodic_timer, periodic_clock.periodic_timer}

\* The time a timer has told: the sum of its results.
Told(timer) == timer.last_system_time - timer.wind_up_balance

\* What the balance is for: whatever has been extrapolated, and however the system
\* clock jumps, the results add up to the last reading minus the balance.  So a
\* duration, the sum of what Finish has added and Start has subtracted, is the
\* difference of the two timers' times, although both are never synchronized and a
\* Start without a Finish comes between; the time elapsed is the timer's since Reset.
TimesAddUp ==
    /\ start_finish_timer.last_duration =
         Told(start_finish_timer.finish_timer) - Told(start_finish_timer.start_timer)
    /\ waiting_timer.time_elapsed = Told(waiting_timer.periodic_timer) - waiting_timer.reset_at
    /\ periodic_clock.current_time = Told(periodic_clock.periodic_timer)

\* A timer that is not called more than once in a microsecond is never ahead of the
\* system clock by more than the period it may extrapolate for, so that CheckTime is
\* not early by more.
NeverFarAhead == \A timer \in AllTimers : timer.hasty \/
    Told(timer) <= timer.called_at + MinSystemClickCallPeriod

\* Waiting ends after a number of calls that does not depend on the clock, and the
\* clock is read again after a bounded number of calls.
WaitingEnds ==
    /\ waiting_timer.polls > TimePeriod => TimeHasPassed
    /\ \A timer \in AllTimers : timer.wind_up_counter \in 1 .. timer.last_wind_up_counter
                             /\ timer.last_wind_up_counter \in 1 .. MaxWindUpSteps
=============================================================================
