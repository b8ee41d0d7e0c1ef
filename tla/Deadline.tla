------------------------------ MODULE Deadline ------------------------------
(***************************************************************************)
(* The time base and the deadline timer: time.c extends the wrapping       *)
(* RT-Thread tick counter into Lely's monotonic clock, timer.c turns the   *)
(* next deadline of Lely's passive user timer into an RT one-shot timer,   *)
(* and the owner advances the clock whenever it wakes.                     *)
(*                                                                         *)
(* A timespec is the number of its nanoseconds; the units are scaled down  *)
(* (Nano per second, Milli per second) so that every rounding and every    *)
(* wrap happens within a few ticks.  Of Lely's side (io2/user/timer.c,     *)
(* tqueue.c and can_net.c) the model has the deadline that the owner's     *)
(* handlers leave behind, and the calls of setnext that makes.             *)
(***************************************************************************)
EXTENDS Naturals, FiniteSets, FiniteSetsExt

CONSTANTS
    TickRange,   \* values of rt_tick_t: RT_TICK_MAX + 1
    IntMax,      \* INT32_MAX
    TicksPerSec, \* RT_TICK_PER_SECOND
    Nano,        \* nanoseconds per second
    Milli,       \* milliseconds per second
    PollMs,      \* LELY_RTT_COMMAND_SAFETY_POLL_MS
    Ingress,     \* PKG_LELY_USING_MASTER_COMMAND: the owner's wait is bounded
    Phases,      \* values of the tick counter when the runtime starts
    MaxLatency,  \* bound: ticks a runnable owner may be kept waiting
    MaxAhead,    \* bound: how far ahead Lely sets a deadline, nanoseconds
    Horizon,     \* bound: ticks the model runs
    TimerFails   \* whether rt_timer_start() may fail

ASSUME DeadlineAssumption ==
    /\ {TickRange, IntMax, TicksPerSec, Nano, Milli, PollMs} \subseteq Nat \ {0}
    /\ {MaxLatency, MaxAhead, Horizon} \subseteq Nat
    /\ TickRange >= 8 /\ Phases \subseteq 0 .. TickRange - 1
    /\ {Ingress, TimerFails} \subseteq BOOLEAN

NoExpiry == 0        \* the all-zero timespec: no deadline

VARIABLES
    t,        \* ticks since the first sample: the truth
    phase,    \* the tick counter's value at that time
    time,     \* struct lely_rtt_time_state: last_tick, ticks
    clock,    \* the user timer's clock
    expiry,   \* the deadline Lely waits for
    next,     \* the deadline the user timer last announced with setnext()
    timer,    \* deadline_timer: ticks left, 0 when stopped
    clamped,  \* ghost: next was beyond the timer's range when it was armed
    due,      \* LELY_RTT_EVENT_TIMER_DUE is set
    wait,     \* ticks left of the owner's bounded wait
    loop,     \* owner: "wait", "run" or "stop"
    late      \* ticks the owner has been runnable or running

deadlineVars == <<t, phase, time, clock, expiry, next, timer, clamped, due, wait, loop, late>>

-----------------------------------------------------------------------------
(* Conversions *)

DivUp(a, b) == (a + b - 1) \div b

\* Largest delay an RT-Thread timer takes: RT_TICK_MAX / 2 - 1.
TimerMax == (TickRange - 1) \div 2 - 1

TimeoutTicks(ms) ==
    Min({Max({DivUp(ms * TicksPerSec, Milli), 1}), IntMax, TimerMax})

\* A number of ticks as a timespec, truncated to nanoseconds.
Timespec(ticks) ==
    (ticks \div TicksPerSec) * Nano + ((ticks % TicksPerSec) * Nano) \div TicksPerSec

\* Fault: rounds the delay down.
DeadlineTicksDown(now, deadline) ==
    LET sec == (deadline - now) \div Nano
        nsec == (deadline - now) % Nano
        ticks == sec * TicksPerSec + (nsec * TicksPerSec) \div Nano
    IN  IF sec > TimerMax \div TicksPerSec
        THEN TimerMax
        ELSE Min({Max({ticks, 1}), TimerMax})

DeadlineTicks(now, deadline) ==
    LET sec == (deadline - now) \div Nano
        nsec == (deadline - now) % Nano
        ticks == sec * TicksPerSec + DivUp(nsec * TicksPerSec, Nano)
    IN  IF sec > TimerMax \div TicksPerSec
        THEN TimerMax
        ELSE Min({Max({ticks, 1}), TimerMax})

-----------------------------------------------------------------------------
(* Time base *)

rt_tick_get == (phase + t) % TickRange

\* lely_rtt_time_now: unsigned subtraction carries one wrap.
TimeNow ==
    [last |-> rt_tick_get,
     ticks |-> time.ticks + ((rt_tick_get + TickRange - time.last) % TickRange)]

PollTicks == TimeoutTicks(PollMs)

DeadlineInit ==
    /\ t = 0
    /\ phase \in Phases
    /\ time = [last |-> phase, ticks |-> 0]
    /\ clock = 0
    /\ expiry = NoExpiry /\ next = NoExpiry
    /\ timer = 0 /\ clamped = FALSE
    /\ due = FALSE
    /\ wait = PollTicks
    /\ loop = "wait"
    /\ late = 0

Runnable == due \/ (Ingress /\ wait = 0)

\* Time passes: the one-shot timer and the owner's wait count down.  Deadlines
\* are bounded so that the horizon never cuts one off.
Tick ==
    /\ t < Horizon /\ loop # "stop"
    /\ loop = "run" \/ Runnable => late < MaxLatency
    /\ t' = t + 1
    /\ timer' = IF timer > 0 THEN timer - 1 ELSE 0
    /\ due' = (due \/ timer = 1)
    /\ wait' = IF loop = "wait" /\ wait > 0 THEN wait - 1 ELSE wait
    /\ late' = IF loop = "run" \/ Runnable THEN late + 1 ELSE late
    /\ UNCHANGED <<phase, time, clock, expiry, next, clamped, loop>>

-----------------------------------------------------------------------------
(* The user timer and the deadline timer *)

\* lely_rtt_timer_setnext.  A timer that cannot be started requests a stop.
Setnext(deadline) ==
    /\ next' = deadline
    /\ clamped' = (deadline > Timespec(TimeNow.ticks + TimerMax))
    /\ IF deadline = NoExpiry
       THEN timer' = 0 /\ UNCHANGED <<time, due, loop>>
       ELSE /\ time' = TimeNow
            /\ LET now == Timespec(time'.ticks)
               IN  \/ /\ deadline <= now
                      /\ timer' = 0
                      /\ due' = TRUE
                      /\ UNCHANGED loop
                   \/ /\ deadline > now
                      /\ timer' = DeadlineTicks(now, deadline)
                      /\ UNCHANGED <<due, loop>>
                   \/ /\ deadline > now
                      /\ TimerFails
                      /\ timer' = 0
                      /\ loop' = "stop"
                      /\ UNCHANGED due

\* io_user_timer_do_settime for a deadline that lies ahead of the clock: setnext()
\* is called only when the deadline changed.
DoSettime(deadline) ==
    /\ expiry' = deadline
    /\ IF deadline = next
       THEN UNCHANGED <<next, timer, clamped, time, due, loop>>
       ELSE Setnext(deadline)

\* Lely's network sets its next deadline, absolute, while the owner runs.  It adds
\* a period, never 0, to the time it took over from this clock, so the deadline
\* lies ahead of it.  (While can_net_set_time goes through the timers that are
\* due, it may announce one of them, and replaces it before it returns.)
SetDeadline(deadline) ==
    /\ loop = "run" /\ deadline > clock
    /\ DoSettime(deadline)
    /\ UNCHANGED <<t, phase, clock, wait, late>>

-----------------------------------------------------------------------------
(* The owner *)

\* The wait ends: an event, a CAN frame at any time, or the bounded wait.
\* timer_advance samples the time and moves Lely's clock.  A deadline it reaches
\* is handed to the timer queue's waiter: the loop was drained before the owner
\* slept, so the wait of a queue that is not empty is submitted.
Advance ==
    /\ time' = TimeNow
    /\ clock' = Timespec(TimeNow.ticks)
    /\ IF expiry # NoExpiry /\ expiry <= clock'
       THEN expiry' = NoExpiry /\ next' = NoExpiry /\ timer' = 0 /\ clamped' = FALSE
       ELSE UNCHANGED <<expiry, next, timer, clamped>>

\* Fault: the end of the bounded wait begins the next one at once.
OwnerWakeByEvent ==
    /\ loop = "wait" /\ Runnable
    /\ IF due
       THEN /\ loop' = "run" /\ due' = FALSE
            /\ Advance
            /\ UNCHANGED <<wait, late>>
       ELSE /\ time' = TimeNow
            /\ wait' = PollTicks /\ late' = 0
            /\ UNCHANGED <<loop, due, clock, expiry, next, timer, clamped>>
    /\ UNCHANGED <<t, phase>>

LoopWake ==
    /\ loop = "wait" /\ Runnable
    /\ loop' = "run"
    /\ due' = FALSE
    /\ Advance
    /\ UNCHANGED <<t, phase, wait, late>>

OwnerRx ==
    /\ loop = "wait" /\ ~Runnable
    /\ loop' = "run"
    /\ Advance
    /\ UNCHANGED <<t, phase, due, wait, late>>

OwnerWait ==
    /\ loop = "run"
    /\ loop' = "wait"
    /\ wait' = PollTicks
    /\ late' = 0
    /\ UNCHANGED <<t, phase, time, clock, expiry, next, timer, clamped, due>>

\* The runtime leaves its loop; start() begins a new time base.
Stopped == loop = "stop" /\ UNCHANGED deadlineVars

DeadlineNext ==
    \/ Tick \/ LoopWake \/ OwnerRx \/ OwnerWait \/ Stopped
    \/ \E d \in 1 .. Timespec(Horizon - 2 * MaxLatency - PollTicks - 2) :
          d <= clock + MaxAhead /\ SetDeadline(d)

DeadlineSpec == DeadlineInit /\ [][DeadlineNext]_deadlineVars

\* The tick interrupt never stops, a runnable owner is scheduled, and its
\* iteration ends.
DeadlineFairness ==
    WF_deadlineVars(Tick) /\ WF_deadlineVars(LoopWake) /\ WF_deadlineVars(OwnerWait)

DeadlineFairSpec == DeadlineSpec /\ DeadlineFairness

-----------------------------------------------------------------------------
(* Properties *)

\* The types of the state; the RT timer is never given a delay outside the
\* range RT-Thread orders correctly across a wrap of its counter.
DeadlineTypeOK ==
    /\ t \in 0 .. Horizon
    /\ phase \in 0 .. TickRange - 1
    /\ time \in [last : 0 .. TickRange - 1, ticks : 0 .. Horizon]
    /\ {clock, expiry, next} \subseteq 0 .. Timespec(Horizon)
    /\ timer \in 0 .. TimerMax
    /\ wait \in 0 .. TimerMax
    /\ {due, clamped} \subseteq BOOLEAN
    /\ loop \in {"wait", "run", "stop"}
    /\ late \in 0 .. MaxLatency

\* The one-shot timer armed for a deadline within its range never fires before
\* Lely's clock would have reached the deadline (it would not be armed again),
\* and not more than one tick after that.  Nor is a deadline orphaned: while the
\* owner sleeps on one, the timer is running for it or its event is set already.
\* The exception is a deadline beyond the timer's range: after its intermediate
\* wakeup only the bounded wait is left, because the user timer does not announce
\* the same deadline again.  The extended time that all of this is measured by
\* loses no tick, across any number of wraps of the counter.
TimerExact ==
    /\ TimeNow.ticks = t
    /\ ~clamped =>
        /\ timer > 0 => /\ Timespec(t + timer) >= next
                        /\ timer > 2 => Timespec(t + timer - 2) < next
        /\ loop = "wait" /\ expiry # NoExpiry /\ ~due => timer > 0

\* Every deadline that Lely sets is served, whatever its distance, unless the
\* timer could not be started, which stops the runtime.
DeadlineServed == expiry # NoExpiry ~> (expiry = NoExpiry \/ loop = "stop")

=============================================================================
