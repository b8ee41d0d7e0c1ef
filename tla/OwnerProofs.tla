---------------------------- MODULE OwnerProofs ----------------------------
(***************************************************************************)
(* Proofs about what the owner thread does between its events: the time    *)
(* base and the deadline timer (Deadline) for every width of the tick      *)
(* counter, tick rate and deadline, and the sequence-locked snapshots      *)
(* (Snapshots) for every number of readers and width of the counters.      *)
(***************************************************************************)
EXTENDS Snapshots, Deadline, TLAPS

-----------------------------------------------------------------------------
(* Division                                                                *)

\* Quotient and remainder.
LEMMA DivMod ==
    ASSUME NEW a \in Nat, NEW b \in Nat, b > 0
    PROVE  /\ a \div b \in Nat /\ a % b \in 0 .. b - 1
           /\ a = b * (a \div b) + (a % b)
OBVIOUS

\* They are determined by that equation.
LEMMA DivUnique ==
    ASSUME NEW a \in Nat, NEW b \in Nat, b > 0, NEW q \in Int, NEW m \in 0 .. b - 1,
           a = b * q + m
    PROVE  a \div b = q /\ a % b = m
OBVIOUS

\* An inequality between multiples.
LEMMA MulLess ==
    ASSUME NEW b \in Nat, b > 0, NEW x \in Int, NEW y \in Int, b * x < b * y
    PROVE  x < y
OBVIOUS

LEMMA MulLeq ==
    ASSUME NEW b \in Nat, NEW x \in Int, NEW y \in Int, x <= y
    PROVE  b * x <= b * y
OBVIOUS

-----------------------------------------------------------------------------
(* Ticks and nanoseconds                                                   *)

\* The least and the greatest of a few numbers.
LEMMA MinOfTwo ==
    ASSUME NEW a \in Int, NEW b \in Int
    PROVE  Min({a, b}) = IF a <= b THEN a ELSE b
BY DEF Min

LEMMA MaxOfTwo ==
    ASSUME NEW a \in Int, NEW b \in Int
    PROVE  Max({a, b}) = IF a >= b THEN a ELSE b
BY DEF Max

LEMMA MinOfThree ==
    ASSUME NEW a \in Int, NEW b \in Int, NEW c \in Int
    PROVE  Min({a, b, c}) \in {a, b, c} /\ Min({a, b, c}) <= a /\ Min({a, b, c}) <= b /\ Min({a, b, c}) <= c
<1>1. \E x \in {a, b, c} : \A y \in {a, b, c} : x <= y
  <2>1. CASE a <= b /\ a <= c
    BY <2>1
  <2>2. CASE b <= a /\ b <= c
    BY <2>2
  <2>3. CASE c <= a /\ c <= b
    BY <2>3
  <2>4. QED
    BY <2>1, <2>2, <2>3
<1>2. QED
  BY <1>1 DEF Min

\* The constants as numbers.
LEMMA Units ==
    /\ TicksPerSec \in Nat /\ TicksPerSec > 0 /\ Nano \in Nat /\ Nano > 0
    /\ TickRange \in Nat /\ TickRange >= 8 /\ MaxLatency \in Nat
    /\ Milli \in Nat /\ Milli > 0 /\ IntMax \in Nat /\ IntMax > 0 /\ PollMs \in Nat
BY DeadlineAssumption

\* An RT timer can be given a delay, and the owner's bounded wait is one.
LEMMA TimerRange == TimerMax \in Nat /\ TimerMax >= 1 /\ PollTicks \in 1 .. TimerMax
<1>1. TimerMax \in Nat /\ TimerMax >= 1
  BY Units DEF TimerMax
<1>2. PollTicks \in 1 .. TimerMax
  <2> DEFINE up == DivUp(PollMs * TicksPerSec, Milli)
             a == Max({up, 1})
  <2>1. PollMs * TicksPerSec + Milli - 1 \in Nat
    BY Units
  <2>2. up \in Nat
    BY <2>1, Units, DivMod DEF DivUp
  <2> HIDE DEF up
  <2>3. a \in Int /\ a >= 1
    BY <2>2, MaxOfTwo
  <2> HIDE DEF a
  <2>4. Min({a, IntMax, TimerMax}) \in {a, IntMax, TimerMax} /\ Min({a, IntMax, TimerMax}) <= TimerMax
    <3>1. IntMax \in Int /\ TimerMax \in Int
      BY <1>1, Units
    <3>2. QED
      BY <2>3, <3>1, MinOfThree, Zenon
  <2>5. PollTicks = Min({a, IntMax, TimerMax})
    BY DEF PollTicks, TimeoutTicks, a, up
  <2>6. QED
    BY <1>1, <2>3, <2>4, <2>5, Units
<1>3. QED
  BY <1>1, <1>2

\* Timespec(n) is n ticks in nanoseconds, rounded down.
LEMMA TimespecBounds ==
    ASSUME NEW n \in Nat
    PROVE  /\ Timespec(n) \in Nat
           /\ TicksPerSec * Timespec(n) <= Nano * n
           /\ Nano * n < TicksPerSec * Timespec(n) + TicksPerSec
<1> DEFINE q == n \div TicksPerSec
           m == n % TicksPerSec
           w == (m * Nano) \div TicksPerSec
<1>1. q \in Nat /\ m \in 0 .. TicksPerSec - 1 /\ n = TicksPerSec * q + m
  BY Units, DivMod
<1>2. m * Nano \in Nat
  BY <1>1, Units
<1>3. w \in Nat /\ TicksPerSec * w <= m * Nano /\ m * Nano < TicksPerSec * w + TicksPerSec
  <2> DEFINE z == (m * Nano) % TicksPerSec
  <2>1. w \in Nat /\ z \in 0 .. TicksPerSec - 1 /\ m * Nano = TicksPerSec * w + z
    BY <1>2, Units, DivMod
  <2> HIDE DEF w, z, m
  <2>2. TicksPerSec * w \in Int /\ m * Nano \in Nat
    BY <1>2, <2>1, Units
  <2>3. QED
    BY <2>1, <2>2, Units
<1>4. Timespec(n) = q * Nano + w
  BY DEF Timespec
<1> HIDE DEF q, m, w
<1>5. q * Nano \in Nat
  BY <1>1, Units
<1>6. TicksPerSec * (q * Nano + w) = TicksPerSec * (q * Nano) + TicksPerSec * w
  BY <1>3, <1>5, Units
<1>7. Nano * n = TicksPerSec * (q * Nano) + m * Nano
  BY <1>1, Units
<1>8. TicksPerSec * (q * Nano) \in Nat /\ TicksPerSec * w \in Nat
  BY <1>3, <1>5, Units
<1>9. QED
  BY <1>2, <1>3, <1>4, <1>5, <1>6, <1>7, <1>8, Units

\* It never decreases.
LEMMA TimespecMonotone ==
    ASSUME NEW m \in Nat, NEW n \in Nat, m <= n
    PROVE  Timespec(m) <= Timespec(n)
<1>1. /\ Timespec(m) \in Nat /\ TicksPerSec * Timespec(m) <= Nano * m
      /\ Timespec(n) \in Nat /\ Nano * n < TicksPerSec * Timespec(n) + TicksPerSec
  BY TimespecBounds
<1>2. Nano * m <= Nano * n
  BY Units, MulLeq
<1>3. TicksPerSec * Timespec(m) < TicksPerSec * (Timespec(n) + 1)
  BY <1>1, <1>2, Units
<1>4. QED
  BY <1>1, <1>3, Units, MulLess

\* What the delay to a deadline is, in ticks, rounded up: not less than the
\* distance, and less than a tick more.  The RT timer is given it, at most its
\* maximum.
LEMMA DeadlineTicksBounds ==
    ASSUME NEW now \in Nat, NEW d \in Nat, now < d
    PROVE  LET k == DeadlineTicks(now, d)
           IN  /\ k \in 1 .. TimerMax
               /\ k = TimerMax \/ TicksPerSec * (d - now) <= Nano * k
               /\ k > 1 => Nano * (k - 1) < TicksPerSec * (d - now)
<1> DEFINE x == d - now
           sec == x \div Nano
           nsec == x % Nano
           c == DivUp(nsec * TicksPerSec, Nano)
           k0 == sec * TicksPerSec + c
           k == DeadlineTicks(now, d)
<1>1. x \in Nat /\ x > 0
  OBVIOUS
<1> HIDE DEF x
<1>2. sec \in Nat /\ nsec \in 0 .. Nano - 1 /\ x = Nano * sec + nsec
  BY <1>1, Units, DivMod
<1>3. nsec * TicksPerSec \in Nat
  BY <1>2, Units
<1>4. /\ c \in Nat /\ nsec * TicksPerSec <= Nano * c
      /\ Nano * c < nsec * TicksPerSec + Nano
  <2> DEFINE a == nsec * TicksPerSec + Nano - 1
             z == a % Nano
  <2>1. a \in Nat
    BY <1>3, Units
  <2>2. c = a \div Nano
    BY DEF DivUp
  <2>3. c \in Nat /\ z \in 0 .. Nano - 1 /\ a = Nano * c + z
    <3> HIDE DEF a
    <3>1. a \div Nano \in Nat /\ z \in 0 .. Nano - 1 /\ a = Nano * (a \div Nano) + z
      BY <2>1, Units, DivMod
    <3>2. QED
      BY <2>2, <3>1, Zenon
  <2> HIDE DEF c, z, nsec
  <2>4. Nano * c \in Int
    BY <2>3, Units
  <2>5. QED
    BY <1>3, <2>3, <2>4, Units
<1> HIDE DEF c, nsec, sec
<1>5. /\ k0 \in Nat
      /\ Nano * k0 = Nano * (sec * TicksPerSec) + Nano * c
      /\ TicksPerSec * x = Nano * (sec * TicksPerSec) + nsec * TicksPerSec
  BY <1>1, <1>2, <1>4, Units
<1>6. TicksPerSec * x <= Nano * k0 /\ Nano * k0 < TicksPerSec * x + Nano
  <2>1. Nano * (sec * TicksPerSec) \in Int /\ Nano * c \in Int
    BY <1>2, <1>4, Units
  <2>2. QED
    BY <1>3, <1>4, <1>5, <2>1, Units
<1>7. k = IF sec > TimerMax \div TicksPerSec THEN TimerMax ELSE Min({Max({k0, 1}), TimerMax})
  BY DEF DeadlineTicks, k0, c, sec, nsec, x
<1>8. k0 >= sec * TicksPerSec
  BY <1>2, <1>4, Units
<1> HIDE DEF k0, k
<1>9. k0 >= 1
  <2>1. TicksPerSec * x > 0
    BY <1>1, Units
  <2>2. k0 = 0 => Nano * k0 = 0
    BY Units
  <2>3. TicksPerSec * x \in Int /\ Nano * k0 \in Int
    BY <1>1, <1>5, Units
  <2>4. k0 # 0
    BY <1>6, <2>1, <2>2, <2>3
  <2>5. QED
    BY <1>5, <2>4
<1>10. sec > TimerMax \div TicksPerSec => k0 > TimerMax
  <2> DEFINE s == TimerMax \div TicksPerSec
             z == TimerMax % TicksPerSec
  <2>1. s \in Nat /\ z \in 0 .. TicksPerSec - 1 /\ TimerMax = TicksPerSec * s + z
    BY TimerRange, Units, DivMod
  <2> HIDE DEF s, z
  <2> SUFFICES ASSUME sec > s
               PROVE  k0 > TimerMax
    BY DEF s
  <2>2. TicksPerSec * (s + 1) <= TicksPerSec * sec
    BY <1>2, <2>1, Units, MulLeq
  <2>3. QED
    BY <1>2, <1>5, <1>8, <2>1, <2>2, TimerRange, Units
<1>11. k = IF k0 > TimerMax THEN TimerMax ELSE k0
  BY <1>5, <1>7, <1>9, <1>10, TimerRange, MinOfTwo, MaxOfTwo
<1>12. k \in 1 .. TimerMax /\ k <= k0 /\ (k = TimerMax \/ k = k0)
  BY <1>5, <1>9, <1>11, TimerRange
<1>13. k > 1 => Nano * (k - 1) < TicksPerSec * x
  <2>1. Nano * (k - 1) <= Nano * (k0 - 1)
    BY <1>5, <1>12, TimerRange, Units, MulLeq
  <2>2. Nano * (k0 - 1) = Nano * k0 - Nano
    BY <1>5, Units
  <2>3. Nano * (k - 1) \in Int /\ TicksPerSec * x \in Int /\ Nano * k0 \in Int
    BY <1>1, <1>5, <1>12, TimerRange, Units
  <2>4. QED
    BY <1>6, <2>1, <2>2, <2>3, Units
<1>14. QED
  BY <1>6, <1>12, <1>13 DEF k, x

\* The timer is armed for a deadline within its range: it fires when the clock
\* has reached the deadline, and at most one tick after that.
LEMMA ArmedExact ==
    ASSUME Nano >= TicksPerSec, NEW n \in Nat, NEW d \in Nat,
           Timespec(n) < d, d <= Timespec(n + TimerMax)
    PROVE  LET k == DeadlineTicks(Timespec(n), d)
           IN  /\ k \in 1 .. TimerMax
               /\ Timespec(n + k) >= d
               /\ k > 2 => Timespec(n + k - 2) < d
<1> DEFINE now == Timespec(n)
           k == DeadlineTicks(now, d)
           x == d - now
<1>1. now \in Nat /\ TicksPerSec * now <= Nano * n /\ Nano * n < TicksPerSec * now + TicksPerSec
  BY TimespecBounds
<1>2. /\ k \in 1 .. TimerMax
      /\ k = TimerMax \/ TicksPerSec * x <= Nano * k
      /\ k > 1 => Nano * (k - 1) < TicksPerSec * x
  <2> HIDE DEF now
  <2>1. QED
    BY <1>1, DeadlineTicksBounds DEF now
<1>3. x \in Nat /\ d = now + x /\ TicksPerSec * d = TicksPerSec * now + TicksPerSec * x
  BY <1>1, Units
<1> HIDE DEF now, k, x
<1>4. TicksPerSec * now \in Int /\ TicksPerSec * x \in Int /\ Nano * n \in Int /\ Nano * k \in Int
  BY <1>1, <1>2, <1>3, TimerRange, Units
<1>5. Timespec(n + k) >= d
  <2>1. CASE k = TimerMax
    BY <2>1
  <2>2. CASE k # TimerMax
    <3> DEFINE y == Timespec(n + k)
    <3>1. y \in Nat /\ Nano * (n + k) < TicksPerSec * y + TicksPerSec
      BY <1>2, TimerRange, TimespecBounds
    <3> HIDE DEF y
    <3>2. Nano * (n + k) = Nano * n + Nano * k /\ TicksPerSec * (y + 1) = TicksPerSec * y + TicksPerSec
      BY <1>2, <3>1, TimerRange, Units
    <3>3. TicksPerSec * y \in Int
      BY <3>1, Units
    <3>4. TicksPerSec * d < TicksPerSec * (y + 1)
      BY <1>1, <1>2, <1>3, <1>4, <2>2, <3>1, <3>2, <3>3, Units
    <3>5. d < y + 1
      BY <3>1, <3>4, Units, MulLess
    <3>6. QED
      BY <3>1, <3>5 DEF y
  <2>3. QED
    BY <2>1, <2>2
<1>6. ASSUME k > 2
      PROVE  Timespec(n + k - 2) < d
  <2> DEFINE y == Timespec(n + k - 2)
  <2>1. n + k - 2 \in Nat /\ n + k - 2 = n + (k - 1) - 1
    BY <1>2, <1>6, TimerRange
  <2>2. y \in Nat /\ TicksPerSec * y <= Nano * (n + k - 2)
    BY <2>1, TimespecBounds
  <2> HIDE DEF y
  <2>3. Nano * (n + k - 2) = Nano * n + Nano * (k - 1) - Nano
    BY <1>2, TimerRange, Units
  <2>4. TicksPerSec * y \in Int /\ Nano * (k - 1) \in Int
    BY <1>2, <2>2, TimerRange, Units
  <2>5. TicksPerSec * y < TicksPerSec * d
    BY <1>1, <1>2, <1>3, <1>4, <1>6, <2>2, <2>3, <2>4, TimerRange, Units
  <2>6. QED
    BY <2>2, <2>5, Units, MulLess DEF y
<1>7. QED
  BY <1>2, <1>5, <1>6 DEF k, now

-----------------------------------------------------------------------------
(* The deadline timer                                                      *)

\* The counter's difference is the time that has passed, if that is less than
\* one turn of the counter.
LEMMA Extended ==
    ASSUME NEW p \in Nat, NEW a \in Nat, NEW b \in Nat, a <= b, b - a < TickRange
    PROVE  a + ((((p + b) % TickRange) + TickRange - ((p + a) % TickRange)) % TickRange) = b
<1> DEFINE mb == (p + b) % TickRange
           ma == (p + a) % TickRange
           qb == (p + b) \div TickRange
           qa == (p + a) \div TickRange
           x == mb + TickRange - ma
<1>1. /\ mb \in 0 .. TickRange - 1 /\ qb \in Nat /\ p + b = TickRange * qb + mb
      /\ ma \in 0 .. TickRange - 1 /\ qa \in Nat /\ p + a = TickRange * qa + ma
  BY Units, DivMod
<1> HIDE DEF ma, mb, qa, qb
<1>2. TickRange * (qa - qb + 1) = TickRange * qa - TickRange * qb + TickRange
  BY <1>1, Units
<1>3. TickRange * qa \in Int /\ TickRange * qb \in Int
  BY <1>1, Units
<1>4. x \in Nat /\ x = TickRange * (qa - qb + 1) + (b - a) /\ qa - qb + 1 \in Int
  BY <1>1, <1>2, <1>3, Units
<1>5. b - a \in 0 .. TickRange - 1
  BY Units
<1> HIDE DEF x
<1>6. x % TickRange = b - a
  <2> DEFINE q == qa - qb + 1
             m == b - a
  <2>1. x \in Nat /\ q \in Int /\ m \in 0 .. TickRange - 1 /\ x = TickRange * q + m
    BY <1>4, <1>5
  <2> HIDE DEF q, m
  <2>2. x % TickRange = m
    BY <2>1, Units, DivUnique
  <2>3. QED
    BY <2>2 DEF m
<1>7. a + (x % TickRange) = b
  BY <1>6
<1>8. QED
  BY <1>7 DEF x, ma, mb

\* What the theorem asks of the configuration and of the scheduler: the owner's
\* wait is bounded, a tick is at least a nanosecond, and the latest two delays of
\* the owner and its bounded wait together are less than one turn of the counter.
WakesInTime == Ingress /\ Nano >= TicksPerSec /\ 2 * MaxLatency + PollTicks < TickRange

\* The ticks that have passed since the last sample of the counter.
Elapsed == t - time.ticks

\* The state's types.
DeadlineTypes ==
    /\ t \in Nat /\ phase \in Nat /\ time \in [last : Nat, ticks : Nat]
    /\ clock \in Nat /\ expiry \in Nat /\ next \in Nat
    /\ timer \in 0 .. TimerMax /\ wait \in 0 .. PollTicks /\ late \in 0 .. MaxLatency
    /\ due \in BOOLEAN /\ clamped \in BOOLEAN /\ loop \in {"wait", "run", "stop"}

\* The last sample is true, and not too old.
Sampled ==
    /\ time.last = (phase + time.ticks) % TickRange
    /\ Elapsed >= 0
    /\ Elapsed <= IF loop = "wait" THEN MaxLatency + (PollTicks - wait) + late ELSE late

\* The timer is exact for the deadline it was armed for; without it the deadline
\* has been reached and its event is set.
Armed ==
    /\ expiry = next
    /\ ~clamped =>
        /\ timer > 0 => /\ Timespec(t + timer) >= next
                        /\ timer > 2 => Timespec(t + timer - 2) < next
        /\ expiry # NoExpiry /\ loop # "stop" => timer > 0 \/ (due /\ Timespec(t) >= next)

DeadlineInv == DeadlineTypes /\ Sampled /\ Armed

\* lely_rtt_time_now loses no tick.
LEMMA NowExact ==
    ASSUME WakesInTime, DeadlineTypes, Sampled
    PROVE  /\ TimeNow.ticks = t /\ TimeNow.last = (phase + t) % TickRange
           /\ TimeNow \in [last : Nat, ticks : Nat]
<1>1. Elapsed < TickRange /\ time.ticks \in Nat /\ time.ticks <= t /\ t - time.ticks < TickRange
  BY Units, TimerRange DEF WakesInTime, DeadlineTypes, Sampled, Elapsed
<1>2. time.ticks + ((((phase + t) % TickRange) + TickRange - ((phase + time.ticks) % TickRange))
                        % TickRange) = t
  BY <1>1, Extended DEF DeadlineTypes
<1>3. TimeNow.ticks = t
  BY <1>2 DEF TimeNow, rt_tick_get, Sampled
<1>4. TimeNow.last = (phase + t) % TickRange
  BY DEF TimeNow, rt_tick_get
<1>5. (phase + t) % TickRange \in Nat
  BY Units, DivMod DEF DeadlineTypes
<1>6. QED
  BY <1>3, <1>4, <1>5 DEF TimeNow, DeadlineTypes

\* The owner samples the time while it runs, or stops.
LEMMA SampleNow ==
    ASSUME WakesInTime, DeadlineTypes, Sampled, UNCHANGED <<t, phase, late>>,
           time' = TimeNow, loop' # "wait"
    PROVE  Sampled' /\ time' \in [last : Nat, ticks : Nat]
<1>1. /\ time'.ticks = t /\ time'.last = (phase + t) % TickRange
      /\ time' \in [last : Nat, ticks : Nat]
  BY NowExact
<1>2. Elapsed' = 0
  BY <1>1 DEF Elapsed, DeadlineTypes
<1>3. QED
  BY <1>1, <1>2, Units DEF Sampled, DeadlineTypes

\* lely_rtt_timer_setnext.
LEMMA SetnextExact ==
    ASSUME WakesInTime, DeadlineInv, NEW d \in Nat, loop = "run", Setnext(d),
           UNCHANGED <<t, phase, wait, late, clock>>, expiry' = d
    PROVE  DeadlineInv'
<1> USE DEF DeadlineInv
<1>1. TimeNow.ticks = t /\ t \in Nat /\ next' = d
  BY NowExact DEF DeadlineTypes, Setnext
<1>2. clamped' = (d > Timespec(t + TimerMax))
  BY <1>1 DEF Setnext
<1>3. CASE d = NoExpiry
  <2>1. timer' = 0 /\ UNCHANGED <<time, due, loop>>
    BY <1>3 DEF Setnext
  <2>2. DeadlineTypes'
    BY <1>1, <1>2, <2>1, TimerRange DEF DeadlineTypes
  <2>3. Sampled'
    BY <2>1 DEF Sampled, Elapsed
  <2>4. Armed'
    BY <1>1, <1>3, <2>1 DEF Armed
  <2>5. QED
    BY <2>2, <2>3, <2>4
<1>4. CASE d # NoExpiry
  <2> DEFINE now == Timespec(t)
  <2>1. time' = TimeNow /\ time'.ticks = t
    BY <1>1, <1>4 DEF Setnext
  <2>2. \/ d <= now /\ timer' = 0 /\ due' = TRUE /\ UNCHANGED loop
        \/ d > now /\ timer' = DeadlineTicks(now, d) /\ UNCHANGED <<due, loop>>
        \/ d > now /\ timer' = 0 /\ loop' = "stop" /\ UNCHANGED due
    BY <1>4, <2>1 DEF Setnext
  <2>3. loop' \in {"run", "stop"} /\ due' \in BOOLEAN
    BY <2>2 DEF DeadlineTypes
  <2>4. Sampled' /\ time' \in [last : Nat, ticks : Nat]
    BY <2>1, <2>3, SampleNow
  <2>5. now \in Nat
    BY <1>1, TimespecBounds
  <2> HIDE DEF now
  <2>6. timer' \in 0 .. TimerMax
    BY <2>2, <2>5, TimerRange, DeadlineTicksBounds
  <2>7. DeadlineTypes'
    BY <1>1, <1>2, <2>3, <2>4, <2>6 DEF DeadlineTypes
  <2>8. Armed'
    <3> SUFFICES ASSUME ~clamped'
                 PROVE  /\ timer' > 0 => /\ Timespec(t + timer') >= d
                                         /\ timer' > 2 => Timespec(t + timer' - 2) < d
                        /\ loop' # "stop" => timer' > 0 \/ (due' /\ Timespec(t) >= d)
      BY <1>1 DEF Armed
    <3>1. d <= Timespec(t + TimerMax)
      <4>1. Timespec(t + TimerMax) \in Nat
        BY <1>1, TimerRange, TimespecBounds
      <4>2. ~(d > Timespec(t + TimerMax))
        BY <1>2, Zenon
      <4>3. QED
        BY <4>1, <4>2
    <3>2. CASE d <= now
      BY <2>2, <2>5, <3>2 DEF now
    <3>3. CASE d > now /\ timer' = DeadlineTicks(now, d)
      <4>1. Timespec(t) < d
        BY <2>5, <3>3 DEF now
      <4>2. /\ timer' \in 1 .. TimerMax
            /\ Timespec(t + timer') >= d
            /\ timer' > 2 => Timespec(t + timer' - 2) < d
        BY <1>1, <3>1, <3>3, <4>1, ArmedExact DEF WakesInTime, now
      <4>3. QED
        BY <4>2, TimerRange
    <3>4. CASE timer' = 0 /\ loop' = "stop"
      BY <3>4
    <3>5. QED
      BY <2>2, <3>2, <3>3, <3>4
  <2>9. QED
    BY <2>4, <2>7, <2>8
<1>5. QED
  BY <1>3, <1>4

\* The owner wakes and advances Lely's clock.
LEMMA AdvanceExact ==
    ASSUME WakesInTime, DeadlineInv, Advance, loop = "wait", loop' = "run",
           due' \in BOOLEAN,
           UNCHANGED <<t, phase, wait, late>>
    PROVE  DeadlineInv'
<1> USE DEF DeadlineInv
<1>1. time' = TimeNow /\ TimeNow.ticks = t /\ t \in Nat /\ clock' = Timespec(t)
  BY NowExact DEF Advance, DeadlineTypes
<1>2. Sampled' /\ time' \in [last : Nat, ticks : Nat]
  BY <1>1, SampleNow
<1>3. clock' \in Nat
  BY <1>1, TimespecBounds
<1>4. CASE expiry # NoExpiry /\ expiry <= clock'
  <2>1. expiry' = NoExpiry /\ next' = NoExpiry /\ timer' = 0 /\ clamped' = FALSE
    BY <1>4 DEF Advance
  <2>2. DeadlineTypes'
    <3>1. clamped' \in BOOLEAN
      BY <2>1
    <3>2. expiry' \in Nat /\ next' \in Nat /\ timer' \in 0 .. TimerMax
      BY <2>1, TimerRange DEF NoExpiry
    <3>3. QED
      BY <1>2, <1>3, <3>1, <3>2 DEF DeadlineTypes
  <2>3. Armed'
    BY <2>1 DEF Armed
  <2>4. QED
    BY <1>2, <2>2, <2>3
<1>5. CASE ~(expiry # NoExpiry /\ expiry <= clock')
  <2>1. UNCHANGED <<expiry, next, timer, clamped>>
    BY <1>5 DEF Advance
  <2>2. DeadlineTypes'
    BY <1>2, <1>3, <2>1 DEF DeadlineTypes
  <2>3. Armed'
    BY <1>1, <1>3, <1>5, <2>1 DEF Armed, DeadlineTypes
  <2>4. QED
    BY <1>2, <2>2, <2>3
<1>6. QED
  BY <1>4, <1>5

\* A tick passes.
LEMMA TickExact ==
    ASSUME WakesInTime, DeadlineInv, Tick
    PROVE  DeadlineInv'
<1> USE DEF DeadlineInv
<1>1. /\ t' = t + 1 /\ loop # "stop"
      /\ timer' = IF timer > 0 THEN timer - 1 ELSE 0
      /\ due' = (due \/ timer = 1)
      /\ wait' = IF loop = "wait" /\ wait > 0 THEN wait - 1 ELSE wait
      /\ late' = IF loop = "run" \/ Runnable THEN late + 1 ELSE late
      /\ loop = "run" \/ Runnable => late < MaxLatency
      /\ UNCHANGED <<phase, time, clock, expiry, next, clamped, loop>>
  BY DEF Tick
<1>2. DeadlineTypes'
  <2>1. late' \in 0 .. MaxLatency
    BY <1>1, Units DEF DeadlineTypes
  <2>2. QED
    BY <1>1, <2>1, TimerRange DEF DeadlineTypes
<1>3. Sampled'
  <2>1. Elapsed' = Elapsed + 1 /\ Elapsed \in Int
    BY <1>1 DEF Elapsed, DeadlineTypes
  <2>2. CASE loop = "run"
    BY <1>1, <2>1, <2>2, Units DEF Sampled, DeadlineTypes
  <2>3. CASE loop = "wait" /\ wait > 0
    BY <1>1, <2>1, <2>3, Units, TimerRange DEF Sampled, DeadlineTypes
  <2>4. CASE loop = "wait" /\ ~(wait > 0)
    <3>1. Runnable
      BY <2>4, TimerRange DEF Runnable, WakesInTime, DeadlineTypes
    <3>2. QED
      BY <1>1, <2>1, <2>4, <3>1, Units, TimerRange DEF Sampled, DeadlineTypes
  <2>5. QED
    BY <1>1, <2>2, <2>3, <2>4 DEF DeadlineTypes
<1>4. Armed'
  <2> SUFFICES ASSUME ~clamped
               PROVE  /\ timer' > 0 => /\ Timespec(t' + timer') >= next
                                       /\ timer' > 2 => Timespec(t' + timer' - 2) < next
                      /\ expiry # NoExpiry => timer' > 0 \/ (due' /\ Timespec(t') >= next)
    BY <1>1 DEF Armed
  <2>1. CASE timer > 1
    <3>1. timer' = timer - 1 /\ t' + timer' = t + timer /\ t' + timer' - 2 = t + timer - 2
      BY <1>1, <2>1, TimerRange DEF DeadlineTypes
    <3>2. QED
      BY <2>1, <3>1, TimerRange DEF Armed, DeadlineTypes
  <2>2. CASE timer = 1
    <3>1. timer' = 0 /\ t' = t + timer
      BY <1>1, <2>2
    <3>2. due'
      BY <1>1, <2>2, Zenon
    <3>3. Timespec(t + timer) >= next
      BY <2>2 DEF Armed
    <3>4. QED
      BY <3>1, <3>2, <3>3
  <2>3. CASE timer = 0
    <3>1. timer' = 0
      BY <1>1, <2>3
    <3>2. /\ t \in Nat /\ t' \in Nat /\ t <= t' /\ next \in Nat
          /\ Timespec(t) \in Nat /\ Timespec(t') \in Nat
      BY <1>1, TimespecBounds DEF DeadlineTypes
    <3>3. Timespec(t) <= Timespec(t')
      BY <3>2, TimespecMonotone
    <3>4. QED
      BY <1>1, <2>3, <3>1, <3>2, <3>3 DEF Armed, DeadlineTypes
  <2>4. QED
    BY <2>1, <2>2, <2>3, TimerRange DEF DeadlineTypes
<1>5. QED
  BY <1>2, <1>3, <1>4

LEMMA DeadlineInvInit == DeadlineInit => DeadlineInv
<1> SUFFICES ASSUME DeadlineInit
             PROVE  DeadlineInv
  OBVIOUS
<1>1. phase \in Nat /\ phase % TickRange = phase
  BY DeadlineAssumption, Units DEF DeadlineInit
<1>2. DeadlineTypes
  <2>1. /\ t = 0 /\ time = [last |-> phase, ticks |-> 0] /\ clock = 0 /\ expiry = 0 /\ next = 0
        /\ timer = 0 /\ wait = PollTicks /\ late = 0
    BY DEF DeadlineInit, NoExpiry
  <2>2. due \in BOOLEAN /\ clamped \in BOOLEAN /\ loop \in {"wait", "run", "stop"}
    BY DEF DeadlineInit
  <2>3. timer \in 0 .. TimerMax /\ wait \in 0 .. PollTicks /\ late \in 0 .. MaxLatency
    BY <2>1, TimerRange, Units
  <2>4. time \in [last : Nat, ticks : Nat]
    BY <1>1, <2>1
  <2>5. QED
    BY <1>1, <2>1, <2>2, <2>3, <2>4 DEF DeadlineTypes
<1>3. time.ticks = 0 /\ time.last = phase /\ phase + 0 = phase /\ t = 0
  BY <1>1 DEF DeadlineInit
<1>4. Sampled
  BY <1>1, <1>2, <1>3, TimerRange, Units DEF DeadlineInit, Sampled, Elapsed
<1>5. Armed
  BY DEF DeadlineInit, Armed
<1>6. QED
  BY <1>2, <1>4, <1>5 DEF DeadlineInv

\* The invariant of the time base and the deadline timer.
THEOREM DeadlineInvHolds == WakesInTime => (DeadlineSpec => []DeadlineInv)
<1> SUFFICES ASSUME WakesInTime
             PROVE  DeadlineSpec => []DeadlineInv
  OBVIOUS
<1>1. DeadlineInv /\ [DeadlineNext]_deadlineVars => DeadlineInv'
  <2> SUFFICES ASSUME DeadlineInv, [DeadlineNext]_deadlineVars
               PROVE  DeadlineInv'
    OBVIOUS
  <2> USE DEF DeadlineInv
  <2>1. CASE Tick
    BY <2>1, TickExact
  <2>2. CASE LoopWake \/ OwnerRx
    <3>1. /\ Advance /\ loop = "wait" /\ loop' = "run" /\ due' \in BOOLEAN
          /\ UNCHANGED <<t, phase, wait, late>>
      BY <2>2 DEF LoopWake, OwnerRx, DeadlineTypes
    <3>2. QED
      BY <3>1, AdvanceExact
  <2>3. CASE OwnerWait
    <3>1. DeadlineTypes'
      BY <2>3, TimerRange, Units DEF OwnerWait, DeadlineTypes
    <3>2. Sampled'
      BY <2>3, TimerRange, Units DEF OwnerWait, DeadlineTypes, Sampled, Elapsed
    <3>3. Armed'
      BY <2>3 DEF OwnerWait, Armed
    <3>4. QED
      BY <3>1, <3>2, <3>3
  <2>4. ASSUME NEW d \in 1 .. Timespec(Horizon - 2 * MaxLatency - PollTicks - 2), SetDeadline(d)
        PROVE  DeadlineInv'
    <3>1. loop = "run" /\ UNCHANGED <<t, phase, clock, wait, late>> /\ expiry' = d
      BY <2>4 DEF SetDeadline, DoSettime
    <3>2. d \in Nat
      OBVIOUS
    <3>3. CASE d = next
      <4>1. UNCHANGED <<next, timer, clamped, time, due, loop>>
        BY <2>4, <3>3 DEF SetDeadline, DoSettime
      <4>2. expiry' = expiry
        BY <3>1, <3>3 DEF Armed
      <4>3. QED
        BY <3>1, <4>1, <4>2 DEF DeadlineTypes, Sampled, Elapsed, Armed
    <3>4. CASE d # next
      <4>1. Setnext(d)
        BY <2>4, <3>4 DEF SetDeadline, DoSettime
      <4>2. QED
        BY <3>1, <3>2, <4>1, SetnextExact
    <3>5. QED
      BY <3>3, <3>4
  <2>5. CASE UNCHANGED deadlineVars
    BY <2>5 DEF deadlineVars, DeadlineTypes, Sampled, Elapsed, Armed
  <2>6. QED
    BY <2>1, <2>2, <2>3, <2>4, <2>5 DEF DeadlineNext, Stopped
<1>2. QED
  BY <1>1, DeadlineInvInit, PTL DEF DeadlineSpec

\* The extended time loses no tick across any number of wraps; the RT timer
\* never fires before the deadline it was armed for, nor more than a tick after
\* it; and the owner never sleeps on a deadline without a timer.
THEOREM TimerExactHolds == WakesInTime => (DeadlineSpec => []TimerExact)
<1> SUFFICES ASSUME WakesInTime
             PROVE  DeadlineSpec => []TimerExact
  OBVIOUS
<1>1. DeadlineInv => TimerExact
  <2> SUFFICES ASSUME DeadlineInv
               PROVE  TimerExact
    OBVIOUS
  <2>1. TimeNow.ticks = t
    BY NowExact DEF DeadlineInv
  <2>2. QED
    BY <2>1 DEF DeadlineInv, Armed, TimerExact
<1>2. QED
  BY <1>1, DeadlineInvHolds, PTL

-----------------------------------------------------------------------------
(* The snapshots: the invariant                                            *)

LastField(k) == IF k = "od" THEN 4 ELSE 3

\* The owner is between the odd and the even counter of k.
Open(k) == publisher = "publish" /\ target = k

\* The counter of k was reset, and start() has not been called since.
Closed(k) == publisher \in {"reset", "down"} /\ seq[k] = 0

SnapshotsTypes ==
    /\ seq \in [Snapshots -> 0 .. SeqMod - 1]
    /\ field \in [Snapshots -> [1 .. 3 -> Nat] \cup [1 .. 4 -> Nat]]
    /\ \A k \in Snapshots : field[k] \in [1 .. LastField(k) -> Nat]
    /\ publisher \in {"run", "publish", "reset", "down"} /\ target \in Snapshots
    /\ step \in 0 .. LastField(target) + 1 /\ base \in 0 .. SeqMod - 4
    /\ published \in Nat /\ last \in [Snapshots -> Nat]

ReaderTypes ==
    /\ rpc \in [Readers -> {"idle", "begin", "load", "end", "sleep", "done"}]
    /\ what \in [Readers -> Snapshots] /\ begin \in [Readers -> 0 .. SeqMod - 1]
    /\ got \in [Readers -> Seq(Nat)]
    /\ floor \in [Readers -> Nat] /\ during \in [Readers -> Nat]

\* The counter is odd during a publication only, and then it is one more than
\* the even value the publication began at.
Counters ==
    /\ base % 2 = 0
    /\ \A k \in Snapshots : /\ Open(k) => seq[k] = base + 1
                            /\ ~Open(k) => seq[k] % 2 = 0

\* An even counter that is not 0 marks one publication's fields; an open one has
\* stored its first fields; a counter is 0 before its fields are cleared.
Contents ==
    /\ publisher = "publish" => step >= 1 /\ published > 0
    /\ publisher = "reset" /\ step >= 1 => seq[target] = 0
    /\ \A k \in Snapshots :
        /\ last[k] <= published
        /\ ~Open(k) /\ seq[k] # 0 =>
             last[k] > 0 /\ \A i \in 1 .. LastField(k) : field[k][i] = last[k]
        /\ Open(k) => \A i \in 1 .. LastField(k) : i < step => field[k][i] = published

\* Nothing is published back in time.
Floors ==
    \A r \in Readers : rpc[r] # "idle" => floor[r] <= last[what[r]] \/ Closed(what[r])

\* The even value that the counter of k has, or will have when the publication
\* is over.
Mark(k) == IF Open(k) THEN base + 2 ELSE seq[k]

\* Where the counter is after d publications of k since it was b.
Turned(k, b, d) ==
    /\ Mark(k) \in 2 .. SeqMod - 2
    /\ Mark(k) = b + 2 * d \/ Mark(k) = b + 2 * d - (SeqMod - 2)

\* What an attempt of reader r knows: the counter tells how many publications
\* have begun since, and when it is none, the fields loaded so far are the last
\* publication's.
Attempt(r) ==
    LET k == what[r]
    IN  /\ rpc[r] \in {"load", "end"} =>
             /\ begin[r] % 2 = 0 /\ begin[r] >= 2
             /\ IF rpc[r] = "load" THEN Len(got[r]) < LastField(k) ELSE Len(got[r]) = LastField(k)
             /\ \/ Closed(k) \/ during[r] >= Cycle
                \/ /\ Turned(k, begin[r], during[r])
                   /\ during[r] = 0 =>
                        ~Open(k) /\ \A i \in 1 .. Len(got[r]) : got[r][i] = last[k]
        /\ rpc[r] = "done" /\ during[r] < Cycle =>
             /\ Len(got[r]) = LastField(k)
             /\ \E p \in Nat : /\ p > 0 /\ p >= floor[r]
                               /\ \A i \in 1 .. LastField(k) : got[r][i] = p

Attempts == \A r \in Readers : Attempt(r)

SnapshotsInv == SnapshotsTypes /\ ReaderTypes /\ Counters /\ Contents /\ Floors /\ Attempts

\* The constants, and the number of publications that bring the counter back.
LEMMA CounterRange ==
    /\ SeqMod \in Nat /\ SeqMod % 2 = 0 /\ SeqMod >= 6
    /\ Cycle \in Nat /\ Cycle >= 2 /\ SeqMod = 2 * Cycle + 2
BY SnapshotsAssumption DEF Cycle

LEMMA SeqSmall ==
    ASSUME NEW x \in Nat, x < SeqMod
    PROVE  x % SeqMod = x
BY CounterRange

LEMMA FieldRange ==
    ASSUME NEW k \in Snapshots
    PROVE  Fields(k) = 1 .. LastField(k) /\ LastField(k) \in {3, 4}
BY DEF Fields, LastField

\* Where a publication begins.
LEMMA BeginBase ==
    ASSUME SnapshotsTypes, Counters, NEW k \in Snapshots, ~Open(k)
    PROVE  /\ NextBase(k) \in 0 .. SeqMod - 4 /\ NextBase(k) % 2 = 0
           /\ NextBase(k) = IF seq[k] = SeqMod - 2 THEN 0 ELSE seq[k]
<1>1. seq[k] \in 0 .. SeqMod - 1 /\ seq[k] % 2 = 0
  BY DEF SnapshotsTypes, Counters
<1>2. NextBase(k) = IF seq[k] > SeqMod - 4 THEN 0 ELSE seq[k]
  BY <1>1 DEF NextBase
<1>3. QED
  BY <1>1, <1>2, CounterRange

-----------------------------------------------------------------------------
(* The snapshots: the owner                                                *)

\* The store of the odd counter.
LEMMA BeginOwner ==
    ASSUME SnapshotsTypes, Counters, Contents, NEW k \in Snapshots, PublishBegin(k)
    PROVE  /\ SnapshotsTypes' /\ Counters' /\ Contents'
           /\ \A j \in Snapshots : ~Open(j) /\ (Open(j)' <=> j = k)
           /\ seq'[k] = base' + 1 /\ base' = NextBase(k)
           /\ \A j \in Snapshots : j # k => seq'[j] = seq[j]
<1>1. publisher = "run" /\ \A j \in Snapshots : ~Open(j)
  BY DEF PublishBegin, Open
<1>2. /\ base' \in 0 .. SeqMod - 4 /\ base' % 2 = 0 /\ base' = NextBase(k)
      /\ NextBase(k) + 1 \in Nat /\ NextBase(k) + 1 < SeqMod
  BY <1>1, BeginBase, CounterRange DEF PublishBegin
<1>3. seq' = [seq EXCEPT ![k] = base' + 1] /\ base' + 1 \in 0 .. SeqMod - 1
  <2>1. (NextBase(k) + 1) % SeqMod = NextBase(k) + 1
    BY <1>2, SeqSmall
  <2>2. base' + 1 \in 0 .. SeqMod - 1
    BY <1>2, CounterRange
  <2>3. QED
    BY <1>2, <2>1, <2>2 DEF PublishBegin
<1>4. /\ publisher' = "publish" /\ target' = k /\ step' = 1 /\ published' = published + 1
      /\ UNCHANGED <<field, last>>
  BY DEF PublishBegin
<1>5. SnapshotsTypes'
  <2>1. step' \in 0 .. LastField(k) + 1
    BY <1>4, FieldRange
  <2>2. seq' \in [Snapshots -> 0 .. SeqMod - 1]
    BY <1>3 DEF SnapshotsTypes
  <2>3. published' \in Nat
    BY <1>4 DEF SnapshotsTypes
  <2>4. QED
    BY <1>2, <1>4, <2>1, <2>2, <2>3 DEF SnapshotsTypes
<1>6. \A j \in Snapshots : Open(j)' <=> j = k
  BY <1>4 DEF Open
<1>7. seq'[k] = base' + 1 /\ \A j \in Snapshots : j # k => seq'[j] = seq[j]
  BY <1>3 DEF SnapshotsTypes
<1>8. Counters'
  BY <1>1, <1>2, <1>6, <1>7 DEF Counters
<1>9. Contents'
  <2>1. published \in Nat /\ published' \in Nat /\ published' > 0
    BY <1>4 DEF SnapshotsTypes
  <2>2. ASSUME NEW j \in Snapshots
        PROVE  /\ last'[j] <= published'
               /\ ~Open(j)' /\ seq'[j] # 0 =>
                    last'[j] > 0 /\ \A i \in 1 .. LastField(j) : field'[j][i] = last'[j]
               /\ Open(j)' => \A i \in 1 .. LastField(j) : i < step' => field'[j][i] = published'
    <3>1. last'[j] <= published'
      BY <1>4 DEF Contents, SnapshotsTypes
    <3>2. ~Open(j)' /\ seq'[j] # 0 =>
             last'[j] > 0 /\ \A i \in 1 .. LastField(j) : field'[j][i] = last'[j]
      BY <1>1, <1>4, <1>6, <1>7 DEF Contents
    <3>3. \A i \in 1 .. LastField(j) : ~(i < step')
      BY <1>4, FieldRange
    <3>4. QED
      BY <3>1, <3>2, <3>3
  <2>3. QED
    BY <1>4, <2>1, <2>2 DEF Contents
<1>10. QED
  BY <1>1, <1>2, <1>5, <1>6, <1>7, <1>8, <1>9

\* One field is stored.
LEMMA FieldOwner ==
    ASSUME SnapshotsTypes, Counters, Contents, PublishField
    PROVE  SnapshotsTypes' /\ Counters' /\ Contents'
<1>1. /\ publisher = "publish" /\ step \in 1 .. LastField(target) /\ target \in Snapshots
      /\ field' = [field EXCEPT ![target][step] = published] /\ step' = step + 1
      /\ UNCHANGED <<seq, publisher, target, base, published, last>>
  BY FieldRange DEF PublishField, SnapshotsTypes
<1>2. published \in Nat /\ field[target] \in [1 .. LastField(target) -> Nat]
  BY <1>1 DEF SnapshotsTypes
<1>3. /\ field'[target] = [field[target] EXCEPT ![step] = published]
      /\ \A j \in Snapshots : j # target => field'[j] = field[j]
      /\ DOMAIN field' = Snapshots
  BY <1>1 DEF SnapshotsTypes
<1>4. field'[target] \in [1 .. LastField(target) -> Nat]
  BY <1>2, <1>3
<1>5. SnapshotsTypes'
  <2>1. \A j \in Snapshots : field'[j] \in [1 .. LastField(j) -> Nat]
    BY <1>1, <1>3, <1>4 DEF SnapshotsTypes
  <2>2. \A j \in Snapshots : field'[j] \in [1 .. 3 -> Nat] \cup [1 .. 4 -> Nat]
    BY <2>1 DEF LastField
  <2>3. field' = [j \in Snapshots |-> field'[j]]
    BY <1>1 DEF SnapshotsTypes
  <2>4. field' \in [Snapshots -> [1 .. 3 -> Nat] \cup [1 .. 4 -> Nat]]
    BY <2>2, <2>3
  <2>5. step' \in 0 .. LastField(target') + 1
    BY <1>1, FieldRange
  <2>6. QED
    BY <1>1, <2>1, <2>4, <2>5 DEF SnapshotsTypes
<1>6. Counters'
  BY <1>1 DEF Counters, Open
<1>7. Contents'
  <2>1. \A i \in 1 .. LastField(target) : i < step' => field'[target][i] = published
    <3> TAKE i \in 1 .. LastField(target)
    <3>1. LastField(target) \in {3, 4}
      BY <1>1, FieldRange
    <3>2. CASE i = step
      BY <1>1, <1>2, <1>3, <3>2
    <3>3. CASE i # step
      <4>1. i < step' => i < step
        BY <1>1, <3>1, <3>3
      <4>2. field'[target][i] = field[target][i]
        BY <1>2, <1>3, <3>3
      <4>3. Open(target)
        BY <1>1 DEF Open
      <4>4. QED
        BY <1>1, <4>1, <4>2, <4>3 DEF Contents
    <3>4. QED
      BY <3>2, <3>3
  <2>2. ASSUME NEW j \in Snapshots
        PROVE  /\ last'[j] <= published'
               /\ ~Open(j)' /\ seq'[j] # 0 =>
                    last'[j] > 0 /\ \A i \in 1 .. LastField(j) : field'[j][i] = last'[j]
               /\ Open(j)' => \A i \in 1 .. LastField(j) : i < step' => field'[j][i] = published'
    <3>1. CASE j = target
      BY <1>1, <2>1, <3>1 DEF Contents, Open
    <3>2. CASE j # target
      BY <1>1, <1>3, <3>2 DEF Contents, Open
    <3>3. QED
      BY <3>1, <3>2
  <2>3. step' >= 1 /\ published' > 0 /\ publisher' = "publish"
    BY <1>1, FieldRange DEF Contents
  <2>4. QED
    BY <2>2, <2>3 DEF Contents
<1>8. QED
  BY <1>5, <1>6, <1>7

\* The store of the even counter.
LEMMA EndOwner ==
    ASSUME SnapshotsTypes, Counters, Contents, PublishEnd
    PROVE  /\ SnapshotsTypes' /\ Counters' /\ Contents'
           /\ \A j \in Snapshots : (Open(j) <=> j = target) /\ ~Open(j)'
           /\ seq'[target] = base + 2 /\ last'[target] = published
           /\ \A j \in Snapshots : j # target => seq'[j] = seq[j] /\ last'[j] = last[j]
<1>1. /\ publisher = "publish" /\ step \notin 1 .. LastField(target) /\ target \in Snapshots
      /\ publisher' = "run" /\ UNCHANGED <<field, target, step, base, published>>
      /\ last' = [last EXCEPT ![target] = published]
  BY FieldRange DEF PublishEnd, SnapshotsTypes
<1>2. base + 2 \in Nat /\ base + 2 < SeqMod /\ base + 2 \in 0 .. SeqMod - 1
  BY CounterRange DEF SnapshotsTypes
<1>3. seq' = [seq EXCEPT ![target] = base + 2]
  BY <1>2, SeqSmall DEF PublishEnd
<1>4. SnapshotsTypes'
  BY <1>1, <1>2, <1>3 DEF SnapshotsTypes
<1>5. \A j \in Snapshots : (Open(j) <=> j = target) /\ ~Open(j)'
  BY <1>1 DEF Open
<1>6. /\ seq'[target] = base + 2 /\ last'[target] = published
      /\ \A j \in Snapshots : j # target => seq'[j] = seq[j] /\ last'[j] = last[j]
  BY <1>1, <1>3 DEF SnapshotsTypes
<1>7. Counters'
  <2>1. (base + 2) % 2 = 0
    BY DEF Counters, SnapshotsTypes
  <2>2. QED
    BY <1>1, <1>5, <1>6, <2>1 DEF Counters
<1>8. Contents'
  <2>0. LastField(target) \in Nat /\ step \in 0 .. LastField(target) + 1
    BY <1>1, FieldRange DEF SnapshotsTypes
  <2>1. step > LastField(target) /\ published > 0
    <3>1. step >= 1 /\ published > 0
      BY <1>1 DEF Contents
    <3>2. QED
      BY <1>1, <2>0, <3>1
  <2>2. \A i \in 1 .. LastField(target) : field[target][i] = published
    <3> TAKE i \in 1 .. LastField(target)
    <3>1. i < step
      BY <2>0, <2>1
    <3>2. QED
      BY <1>1, <1>5, <3>1 DEF Contents
  <2>3. ASSUME NEW j \in Snapshots
        PROVE  /\ last'[j] <= published'
               /\ seq'[j] # 0 =>
                    last'[j] > 0 /\ \A i \in 1 .. LastField(j) : field'[j][i] = last'[j]
    <3>1. CASE j = target
      BY <1>1, <1>6, <2>1, <2>2, <3>1 DEF SnapshotsTypes
    <3>2. CASE j # target
      BY <1>1, <1>5, <1>6, <3>2 DEF Contents
    <3>3. QED
      BY <3>1, <3>2
  <2>4. QED
    BY <1>1, <1>5, <2>3 DEF Contents
<1>9. QED
  BY <1>4, <1>5, <1>6, <1>7, <1>8

\* The reset of a counter.
LEMMA ResetSeqOwner ==
    ASSUME SnapshotsTypes, Counters, Contents, ResetSeq
    PROVE  /\ SnapshotsTypes' /\ Counters' /\ Contents' /\ Closed(target)'
           /\ \A j \in Snapshots : ~Open(j) /\ ~Open(j)' /\ (Closed(j) => Closed(j)')
           /\ \A j \in Snapshots : j # target => seq'[j] = seq[j] /\ last'[j] = last[j]
<1>1. /\ publisher = "reset" /\ target \in Snapshots /\ step' = 1
      /\ seq' = [seq EXCEPT ![target] = 0] /\ last' = [last EXCEPT ![target] = 0]
      /\ UNCHANGED <<field, publisher, target, base, published>>
  BY DEF ResetSeq, SnapshotsTypes
<1>2. SnapshotsTypes'
  BY <1>1, CounterRange, FieldRange DEF SnapshotsTypes
<1>3. /\ seq'[target] = 0 /\ last'[target] = 0
      /\ \A j \in Snapshots : j # target => seq'[j] = seq[j] /\ last'[j] = last[j]
  BY <1>1 DEF SnapshotsTypes
<1>4. \A j \in Snapshots : ~Open(j) /\ ~Open(j)'
  BY <1>1 DEF Open
<1>5. Counters'
  BY <1>1, <1>3, <1>4 DEF Counters
<1>6. Contents'
  <2>1. ASSUME NEW j \in Snapshots
        PROVE  /\ last'[j] <= published'
               /\ seq'[j] # 0 =>
                    last'[j] > 0 /\ \A i \in 1 .. LastField(j) : field'[j][i] = last'[j]
    <3>1. CASE j = target
      BY <1>1, <1>3, <3>1 DEF SnapshotsTypes
    <3>2. CASE j # target
      BY <1>1, <1>3, <1>4, <3>2 DEF Contents
    <3>3. QED
      BY <3>1, <3>2
  <2>2. QED
    BY <1>1, <1>3, <1>4, <2>1 DEF Contents
<1>7. Closed(target)' /\ \A j \in Snapshots : Closed(j) => Closed(j)'
  BY <1>1, <1>3 DEF Closed
<1>8. QED
  BY <1>2, <1>3, <1>4, <1>5, <1>6, <1>7

\* A field is cleared.
LEMMA ResetFieldOwner ==
    ASSUME SnapshotsTypes, Counters, Contents, ResetField
    PROVE  /\ SnapshotsTypes' /\ Counters' /\ Contents'
           /\ \A j \in Snapshots : ~Open(j) /\ ~Open(j)' /\ (Closed(j) => Closed(j)')
<1>1. /\ publisher = "reset" /\ step \in 1 .. LastField(target) /\ target \in Snapshots
      /\ field' = [field EXCEPT ![target][step] = 0]
      /\ UNCHANGED <<seq, base, published, last>>
  BY FieldRange DEF ResetField, SnapshotsTypes
<1>2. /\ publisher' \in {"reset", "down"} /\ target' \in Snapshots
      /\ \/ step' = 0
         \/ step' = step + 1 /\ step + 1 \in 1 .. LastField(target) /\ target' = target
  BY <1>1, FieldRange DEF ResetField, ResetOrder, Snapshots
<1>3. /\ field'[target] = [field[target] EXCEPT ![step] = 0]
      /\ \A j \in Snapshots : j # target => field'[j] = field[j]
  BY <1>1 DEF SnapshotsTypes
<1>4. SnapshotsTypes'
  <2>1. \A j \in Snapshots : field'[j] \in [1 .. LastField(j) -> Nat]
    BY <1>1, <1>3 DEF SnapshotsTypes
  <2>2. \A j \in Snapshots : field'[j] \in [1 .. 3 -> Nat] \cup [1 .. 4 -> Nat]
    BY <2>1 DEF LastField
  <2>3. field' = [j \in Snapshots |-> field'[j]]
    BY <1>1 DEF SnapshotsTypes
  <2>4. field' \in [Snapshots -> [1 .. 3 -> Nat] \cup [1 .. 4 -> Nat]]
    BY <2>2, <2>3
  <2>5. step' \in 0 .. LastField(target') + 1
    BY <1>1, <1>2, FieldRange
  <2>6. QED
    BY <1>1, <1>2, <2>1, <2>4, <2>5 DEF SnapshotsTypes
<1>5. \A j \in Snapshots : ~Open(j) /\ ~Open(j)' /\ (Closed(j) => Closed(j)')
  BY <1>1, <1>2 DEF Open, Closed
<1>6. Counters'
  BY <1>1, <1>5 DEF Counters
<1>7. Contents'
  <2>1. seq[target] = 0
    BY <1>1, FieldRange DEF Contents
  <2>2. publisher' # "publish" /\ (step' >= 1 => seq'[target'] = 0)
    BY <1>1, <1>2, <2>1
  <2>3. ASSUME NEW j \in Snapshots
        PROVE  /\ last'[j] <= published'
               /\ seq'[j] # 0 =>
                    last'[j] > 0 /\ \A i \in 1 .. LastField(j) : field'[j][i] = last'[j]
    <3>1. CASE j = target
      BY <1>1, <2>1, <3>1 DEF Contents
    <3>2. CASE j # target
      BY <1>1, <1>3, <1>5, <3>2 DEF Contents
    <3>3. QED
      BY <3>1, <3>2
  <2>4. QED
    BY <1>5, <2>2, <2>3 DEF Contents
<1>8. QED
  BY <1>4, <1>5, <1>6, <1>7

\* The owner does nothing that a reader could tell.
LEMMA QuietOwner ==
    ASSUME Floors, Attempts, UNCHANGED <<seq, last, base, readerVars, during>>,
           \A k \in Snapshots : (Open(k)' <=> Open(k)) /\ (Closed(k) => Closed(k)'),
           what \in [Readers -> Snapshots]
    PROVE  Floors' /\ Attempts'
<1>1. Floors'
  BY DEF Floors, readerVars
<1>2. ASSUME NEW r \in Readers
      PROVE  Attempt(r)'
  <2> DEFINE k == what[r]
  <2>1. k \in Snapshots /\ k' = k
    BY DEF readerVars
  <2>2. (Open(k)' <=> Open(k)) /\ (Closed(k) => Closed(k)') /\ Mark(k)' = Mark(k)
    BY <2>1 DEF Mark, Open, Closed
  <2>3. Turned(k, begin[r], during[r])' <=> Turned(k, begin[r], during[r])
    BY <2>2 DEF Turned, readerVars
  <2>4. Attempt(r)
    BY DEF Attempts
  <2>5. QED
    BY <2>1, <2>2, <2>3, <2>4 DEF Attempt, readerVars
<1>3. QED
  BY <1>1, <1>2 DEF Attempts

\* A publication begins: a reader of k counts it, and it finds the counter two
\* further on, or at 2 again.
LEMMA BeginReaders ==
    ASSUME SnapshotsInv, NEW k \in Snapshots, PublishBegin(k)
    PROVE  Floors' /\ Attempts' /\ ReaderTypes'
<1> USE DEF SnapshotsInv
<1>1. /\ publisher = "run" /\ publisher' = "publish" /\ UNCHANGED <<last, readerVars>>
      /\ during' = [r \in Readers |-> IF rpc[r] # "idle" /\ what[r] = k
                                      THEN during[r] + 1 ELSE during[r]]
  BY DEF PublishBegin
<1>2. /\ SnapshotsTypes'
      /\ \A j \in Snapshots : ~Open(j) /\ (Open(j)' <=> j = k)
      /\ seq'[k] = base' + 1 /\ base' = NextBase(k)
      /\ \A j \in Snapshots : j # k => seq'[j] = seq[j]
  BY BeginOwner
<1>3. /\ NextBase(k) \in 0 .. SeqMod - 4
      /\ NextBase(k) = IF seq[k] = SeqMod - 2 THEN 0 ELSE seq[k]
  BY <1>2, BeginBase
<1>4. \A j \in Snapshots : ~Closed(j)
  BY <1>1 DEF Closed
<1>5. ReaderTypes'
  BY <1>1 DEF ReaderTypes, readerVars
<1>6. Floors'
  BY <1>1, <1>4 DEF Floors, readerVars, ReaderTypes
<1>7. ASSUME NEW r \in Readers
      PROVE  Attempt(r)'
  <2> DEFINE j == what[r]
             b == begin[r]
             d == during[r]
  <2>1. /\ j \in Snapshots /\ b \in 0 .. SeqMod - 1 /\ d \in Nat /\ what'[r] = j /\ begin'[r] = b
        /\ rpc'[r] = rpc[r] /\ got'[r] = got[r] /\ floor'[r] = floor[r]
    BY <1>1 DEF ReaderTypes, readerVars
  <2>2. Attempt(r)
    BY DEF Attempts
  <2>3. CASE rpc[r] \in {"load", "end"} /\ j = k
    <3>1. during'[r] = d + 1
      BY <1>1, <2>3
    <3>2. d < Cycle => Turned(k, b, d)
      BY <1>4, <2>1, <2>2, <2>3, CounterRange DEF Attempt
    <3>3. Mark(k) = seq[k] /\ Mark(k)' = NextBase(k) + 2
      BY <1>2 DEF Mark
    <3>4. d + 1 < Cycle => Turned(k, begin[r], during[r])'
      <4> SUFFICES ASSUME d + 1 < Cycle
                   PROVE  /\ Mark(k)' \in 2 .. SeqMod - 2
                          /\ Mark(k)' = b + 2 * (d + 1) \/ Mark(k)' = b + 2 * (d + 1) - (SeqMod - 2)
        BY <2>1, <3>1 DEF Turned
      <4>1. /\ seq[k] \in 2 .. SeqMod - 2
            /\ seq[k] = b + 2 * d \/ seq[k] = b + 2 * d - (SeqMod - 2)
        BY <2>1, <3>2, <3>3, CounterRange DEF Turned
      <4>2. b <= SeqMod - 2
        BY <2>1, <2>2, <2>3, CounterRange DEF Attempt
      <4> HIDE DEF b, d
      <4>3. CASE seq[k] = SeqMod - 2
        BY <1>3, <2>1, <3>3, <4>1, <4>2, <4>3, CounterRange
      <4>4. CASE seq[k] # SeqMod - 2
        BY <1>3, <2>1, <3>3, <4>1, <4>4, CounterRange
      <4>5. QED
        BY <4>3, <4>4
    <3>5. d + 1 < Cycle \/ d + 1 >= Cycle
      BY <2>1, CounterRange
    <3>6. d + 1 # 0
      BY <2>1
    <3>7. rpc[r] # "done"
      BY <2>3
    <3>8. Turned(k, begin[r], during[r])' \/ during'[r] >= Cycle
      BY <3>1, <3>4, <3>5
    <3>9. QED
      BY <2>1, <2>2, <2>3, <3>1, <3>6, <3>7, <3>8 DEF Attempt
  <2>4. CASE rpc[r] \in {"load", "end"} /\ j # k
    <3>1. during'[r] = d
      BY <1>1, <2>4
    <3>2. Mark(j)' = Mark(j) /\ (Open(j)' <=> Open(j))
      BY <1>2, <2>1, <2>4 DEF Mark
    <3>3. Turned(j, b, d)' <=> Turned(j, b, d)
      BY <2>1, <3>1, <3>2 DEF Turned
    <3>4. last'[j] = last[j] /\ ~Closed(j)
      BY <1>1, <1>4, <2>1
    <3>5. QED
      BY <2>1, <2>2, <2>4, <3>1, <3>2, <3>3, <3>4 DEF Attempt
  <2>5. CASE rpc[r] = "done"
    <3>1. during'[r] < Cycle => d < Cycle
      BY <1>1, <2>1, CounterRange
    <3>2. QED
      BY <2>1, <2>2, <2>5, <3>1 DEF Attempt
  <2>6. CASE rpc[r] \notin {"load", "end", "done"}
    BY <2>1, <2>6 DEF Attempt
  <2>7. QED
    BY <2>3, <2>4, <2>5, <2>6
<1>8. QED
  BY <1>5, <1>6, <1>7 DEF Attempts

\* The publication ends: its readers have counted it.
LEMMA EndReaders ==
    ASSUME SnapshotsInv, PublishEnd
    PROVE  Floors' /\ Attempts'
<1> USE DEF SnapshotsInv
<1>1. /\ publisher = "publish" /\ target \in Snapshots
      /\ UNCHANGED <<target, base, published, readerVars, during>>
  BY DEF PublishEnd, SnapshotsTypes
<1>2. /\ \A j \in Snapshots : (Open(j) <=> j = target) /\ ~Open(j)'
      /\ seq'[target] = base + 2 /\ last'[target] = published
      /\ \A j \in Snapshots : j # target => seq'[j] = seq[j] /\ last'[j] = last[j]
  BY EndOwner
<1>3. \A j \in Snapshots : ~Closed(j) /\ Mark(j)' = Mark(j)
  BY <1>1, <1>2 DEF Closed, Mark
<1>4. Floors'
  <2> SUFFICES ASSUME NEW r \in Readers, rpc[r] # "idle"
               PROVE  floor[r] <= last'[what[r]]
    BY <1>1 DEF Floors, readerVars
  <2>1. /\ what[r] \in Snapshots /\ floor[r] \in Nat /\ floor[r] <= last[what[r]]
        /\ last[what[r]] \in Nat /\ published \in Nat /\ last[what[r]] <= published
    BY <1>3 DEF Floors, ReaderTypes, SnapshotsTypes, Contents
  <2>2. QED
    BY <1>2, <2>1
<1>5. ASSUME NEW r \in Readers
      PROVE  Attempt(r)'
  <2>1. what[r] \in Snapshots /\ what'[r] = what[r]
    BY <1>1 DEF ReaderTypes, readerVars
  <2>2. Attempt(r)
    BY DEF Attempts
  <2>3. Turned(what[r], begin[r], during[r])' <=> Turned(what[r], begin[r], during[r])
    BY <1>1, <1>3, <2>1 DEF Turned, readerVars
  <2>4. during[r] = 0 /\ Turned(what[r], begin[r], during[r]) /\ ~Open(what[r]) =>
            last'[what[r]] = last[what[r]]
    BY <1>2, <2>1
  <2>5. ~Closed(what[r]) /\ ~Open(what[r])'
    BY <1>2, <1>3, <2>1 DEF Open
  <2>6. QED
    BY <1>1, <2>1, <2>2, <2>3, <2>4, <2>5 DEF Attempt, readerVars
<1>6. QED
  BY <1>4, <1>5 DEF Attempts

\* A counter is reset: its readers will find it 0.
LEMMA ResetReaders ==
    ASSUME SnapshotsInv, ResetSeq
    PROVE  Floors' /\ Attempts'
<1> USE DEF SnapshotsInv
<1>1. target \in Snapshots /\ UNCHANGED <<target, base, readerVars, during>>
  BY DEF ResetSeq, SnapshotsTypes
<1>2. /\ Closed(target)'
      /\ \A j \in Snapshots : ~Open(j) /\ ~Open(j)' /\ (Closed(j) => Closed(j)')
      /\ \A j \in Snapshots : j # target => seq'[j] = seq[j] /\ last'[j] = last[j]
  BY ResetSeqOwner
<1>3. Floors'
  <2> SUFFICES ASSUME NEW r \in Readers, rpc[r] # "idle"
               PROVE  floor[r] <= last'[what[r]] \/ Closed(what[r])'
    BY <1>1 DEF Floors, readerVars
  <2>1. what[r] \in Snapshots /\ what'[r] = what[r]
    BY <1>1 DEF ReaderTypes, readerVars
  <2>2. CASE what[r] = target
    BY <1>1, <1>2, <2>1, <2>2 DEF Closed
  <2>3. CASE what[r] # target
    BY <1>1, <1>2, <2>1, <2>3 DEF Floors, Closed
  <2>4. QED
    BY <2>2, <2>3
<1>4. ASSUME NEW r \in Readers
      PROVE  Attempt(r)'
  <2>1. what[r] \in Snapshots /\ what'[r] = what[r]
    BY <1>1 DEF ReaderTypes, readerVars
  <2>2. Attempt(r)
    BY DEF Attempts
  <2>3. CASE what[r] = target
    <3>1. Closed(what[r])'
      BY <1>1, <1>2, <2>1, <2>3 DEF Closed
    <3>2. QED
      BY <1>1, <2>1, <2>2, <3>1 DEF Attempt, readerVars
  <2>4. CASE what[r] # target
    <3>1. /\ Mark(what[r])' = Mark(what[r]) /\ last'[what[r]] = last[what[r]]
          /\ ~Open(what[r])' /\ (Closed(what[r]) => Closed(what[r])')
      BY <1>1, <1>2, <2>1, <2>4 DEF Mark, Open, Closed
    <3>2. Turned(what[r], begin[r], during[r])' <=> Turned(what[r], begin[r], during[r])
      BY <1>1, <3>1 DEF Turned, readerVars
    <3>3. QED
      BY <1>1, <2>1, <2>2, <3>1, <3>2 DEF Attempt, readerVars
  <2>5. QED
    BY <2>3, <2>4
<1>5. QED
  BY <1>3, <1>4 DEF Attempts

-----------------------------------------------------------------------------
(* The snapshots: the readers                                              *)

\* The load of begin.
LEMMA BeginAttempt ==
    ASSUME SnapshotsInv, NEW r \in Readers, ReadBegin(r)
    PROVE  ReaderTypes' /\ Attempt(r)'
<1> USE DEF SnapshotsInv
<1> DEFINE k == what[r]
           s == seq[k]
<1>1. /\ k \in Snapshots /\ s \in 0 .. SeqMod - 1 /\ UNCHANGED <<publisherVars, what, floor>>
      /\ begin' = [begin EXCEPT ![r] = s] /\ got' = [got EXCEPT ![r] = <<>>]
      /\ during' = [during EXCEPT ![r] = 0]
      /\ rpc' = [rpc EXCEPT ![r] = IF s = 0 THEN "idle"
                                   ELSE IF s % 2 = 1 THEN "sleep" ELSE "load"]
  BY DEF ReadBegin, ReaderTypes, SnapshotsTypes
<1>2. ReaderTypes'
  BY <1>1 DEF ReaderTypes
<1>3. CASE s = 0 \/ s % 2 = 1
  <2>1. rpc'[r] \in {"idle", "sleep"}
    BY <1>1, <1>3 DEF ReaderTypes
  <2>2. QED
    BY <1>2, <2>1 DEF Attempt
<1>4. CASE s # 0 /\ s % 2 # 1
  <2>1. rpc'[r] = "load" /\ begin'[r] = s /\ got'[r] = <<>> /\ during'[r] = 0 /\ what'[r] = k
    BY <1>1, <1>4 DEF ReaderTypes
  <2>2. Len(got'[r]) = 0
    BY <2>1
  <2>3. s % 2 = 0 /\ s >= 2 /\ s <= SeqMod - 2
    <3> HIDE DEF s
    <3>1. QED
      BY <1>1, <1>4, CounterRange
  <2>4. ~Open(k)
    <3>1. Open(k) => s = base + 1 /\ base % 2 = 0 /\ base \in Nat
      BY <1>1 DEF Counters, SnapshotsTypes
    <3> HIDE DEF s
    <3>2. QED
      BY <2>3, <3>1
  <2>5. ~Open(k)' /\ Mark(k)' = s
    BY <1>1, <2>4 DEF Open, Mark, publisherVars
  <2>6. Turned(k, begin[r], during[r])'
    <3> HIDE DEF s
    <3>1. s = s + 2 * 0 /\ s \in 2 .. SeqMod - 2
      BY <1>1, <2>3, CounterRange
    <3>2. QED
      BY <2>1, <2>5, <3>1 DEF Turned
  <2>7. LastField(k)' > 0 /\ LastField(k)' \in Nat
    BY <1>1, FieldRange
  <2> HIDE DEF s
  <2>8. QED
    BY <1>2, <2>1, <2>2, <2>3, <2>5, <2>6, <2>7 DEF Attempt
<1>5. QED
  BY <1>3, <1>4

\* The load of a field.
LEMMA FieldAttempt ==
    ASSUME SnapshotsInv, NEW r \in Readers, ReadField(r)
    PROVE  ReaderTypes' /\ Attempt(r)'
<1> USE DEF SnapshotsInv
<1> DEFINE k == what[r]
           n == Len(got[r])
           v == field[k][n + 1]
<1>1. /\ rpc[r] = "load" /\ k \in Snapshots /\ got[r] \in Seq(Nat)
      /\ UNCHANGED <<publisherVars, what, begin, floor, during>>
      /\ got' = [got EXCEPT ![r] = Append(got[r], v)]
      /\ rpc' = [rpc EXCEPT ![r] = IF n + 2 \in 1 .. LastField(k) THEN "load" ELSE "end"]
  BY FieldRange DEF ReadField, ReaderTypes
<1>2. Attempt(r)
  BY DEF Attempts
<1>3. n \in Nat /\ n < LastField(k) /\ LastField(k) \in {3, 4} /\ n + 1 \in 1 .. LastField(k)
  BY <1>1, <1>2, FieldRange DEF Attempt
<1>4. v \in Nat
  BY <1>1, <1>3 DEF SnapshotsTypes
<1>5. ReaderTypes'
  BY <1>1, <1>4 DEF ReaderTypes
<1>6. /\ got'[r] = Append(got[r], v) /\ Len(got'[r]) = n + 1 /\ what'[r] = k
      /\ begin'[r] = begin[r] /\ during'[r] = during[r]
      /\ \A i \in 1 .. n : got'[r][i] = got[r][i]
      /\ got'[r][n + 1] = v
  BY <1>1, <1>4 DEF ReaderTypes
<1>7. rpc'[r] = IF n + 2 \in 1 .. LastField(k) THEN "load" ELSE "end"
  BY <1>1 DEF ReaderTypes
<1>8. /\ rpc'[r] \in {"load", "end"}
      /\ IF rpc'[r] = "load" THEN n + 1 < LastField(k) ELSE n + 1 = LastField(k)
  BY <1>3, <1>7
<1>9. /\ Turned(k, begin[r], during[r])' <=> Turned(k, begin[r], during[r])
      /\ Open(k)' <=> Open(k)
      /\ Closed(k)' <=> Closed(k)
      /\ last'[k] = last[k]
  BY <1>1, <1>6 DEF Turned, Mark, Open, Closed, publisherVars
<1>10. Turned(k, begin[r], during[r]) /\ ~Open(k) => v = last[k]
  <2> SUFFICES ASSUME Turned(k, begin[r], during[r]), ~Open(k)
               PROVE  v = last[k]
    OBVIOUS
  <2>1. seq[k] # 0
    BY CounterRange DEF Turned, Mark
  <2>2. QED
    BY <1>1, <1>3, <2>1 DEF Contents
<1>11. (\A i \in 1 .. n : got[r][i] = last[k]) /\ v = last[k]
          => \A i \in 1 .. n + 1 : got'[r][i] = last[k]
  <2> HIDE DEF v, n
  <2>1. \A i \in 1 .. n + 1 : i \in 1 .. n \/ i = n + 1
    BY <1>3
  <2>2. QED
    BY <1>6, <2>1
<1>12. LastField(k)' = LastField(k)
  BY <1>1 DEF LastField
<1> HIDE DEF v
<1>13. QED
  BY <1>1, <1>2, <1>5, <1>6, <1>8, <1>9, <1>10, <1>11, <1>12 DEF Attempt

\* The load of end.
LEMMA EndAttempt ==
    ASSUME SnapshotsInv, NEW r \in Readers, ReadEnd(r)
    PROVE  ReaderTypes' /\ Attempt(r)'
<1> USE DEF SnapshotsInv
<1> DEFINE k == what[r]
           s == seq[k]
           b == begin[r]
           d == during[r]
<1>1. /\ rpc[r] = "end" /\ k \in Snapshots /\ s \in 0 .. SeqMod - 1
      /\ UNCHANGED <<publisherVars, what, begin, got, floor, during>>
      /\ rpc' = [rpc EXCEPT ![r] = IF b = s /\ s % 2 = 0 THEN "done" ELSE "sleep"]
  BY DEF ReadEnd, ReaderTypes, SnapshotsTypes
<1>2. Attempt(r) /\ b \in Nat /\ d \in Nat
  BY DEF Attempts, ReaderTypes
<1>3. ReaderTypes'
  BY <1>1 DEF ReaderTypes
<1>4. CASE ~(b = s /\ s % 2 = 0)
  <2>1. rpc'[r] = "sleep"
    BY <1>1, <1>4 DEF ReaderTypes
  <2>2. QED
    BY <1>3, <2>1 DEF Attempt
<1>5. CASE b = s /\ s % 2 = 0
  <2> SUFFICES ASSUME d < Cycle
               PROVE  /\ Len(got[r]) = LastField(k)
                      /\ \E p \in Nat : /\ p > 0 /\ p >= floor[r]
                                        /\ \A i \in 1 .. LastField(k) : got[r][i] = p
    <3>1. rpc'[r] = "done"
      BY <1>1, <1>5 DEF ReaderTypes
    <3>2. QED
      BY <1>1, <1>3, <3>1 DEF Attempt
  <2>2. b >= 2 /\ Len(got[r]) = LastField(k)
    BY <1>1, <1>2 DEF Attempt
  <2>3. ~Closed(k) /\ ~(d >= Cycle)
    <3>1. ~(d >= Cycle)
      BY <1>2, CounterRange
    <3>2. s # 0
      <4> HIDE DEF s
      <4>1. QED
        BY <1>5, <2>2
    <3>3. QED
      BY <3>1, <3>2 DEF Closed
  <2>4. Turned(k, b, d) /\ (d = 0 => ~Open(k) /\ \A i \in 1 .. Len(got[r]) : got[r][i] = last[k])
    BY <1>1, <1>2, <2>3 DEF Attempt
  <2>5. ~Open(k)
    <3>1. Open(k) => s = base + 1 /\ base % 2 = 0 /\ base \in Nat
      BY <1>1 DEF Counters, SnapshotsTypes
    <3> HIDE DEF s
    <3>2. QED
      BY <1>5, <3>1
  <2>6. s = b + 2 * d \/ s = b + 2 * d - (SeqMod - 2)
    BY <2>4, <2>5 DEF Turned, Mark
  <2>7. d = 0
    <3> HIDE DEF s, b, d
    <3>1. QED
      BY <1>1, <1>5, <1>2, <2>3, <2>6, CounterRange
  <2>8. last[k] > 0 /\ last[k] \in Nat
    <3>1. s # 0
      <4> HIDE DEF s
      <4>1. QED
        BY <1>5, <2>2
    <3>2. QED
      BY <1>1, <2>5, <3>1 DEF Contents, SnapshotsTypes
  <2>9. floor[r] <= last[k] /\ floor[r] \in Nat
    BY <1>1, <2>3 DEF Floors, ReaderTypes
  <2>10. last[k] >= floor[r]
    BY <2>8, <2>9
  <2>11. \A i \in 1 .. LastField(k) : got[r][i] = last[k]
    BY <2>2, <2>4, <2>7
  <2>12. QED
    BY <2>2, <2>8, <2>10, <2>11
<1>6. QED
  BY <1>4, <1>5

\* Any step of a reader.
LEMMA ReaderStep ==
    ASSUME SnapshotsInv, NEW r \in Readers,
           (\E k \in Snapshots : ReadCall(r, k)) \/ Reading(r)
    PROVE  UNCHANGED publisherVars /\ ReaderTypes' /\ Floors' /\ Attempts'
<1> USE DEF SnapshotsInv
<1>1. UNCHANGED publisherVars
  BY DEF ReadCall, Reading, ReadBegin, ReadField, ReadEnd, ReadWake, ReadReturn
<1>2. \A q \in Readers : q # r =>
        /\ rpc'[q] = rpc[q] /\ what'[q] = what[q] /\ begin'[q] = begin[q]
        /\ got'[q] = got[q] /\ floor'[q] = floor[q] /\ during'[q] = during[q]
  BY DEF ReadCall, Reading, ReadBegin, ReadField, ReadEnd, ReadWake, ReadReturn, ReaderTypes
<1>3. ReaderTypes' /\ Attempt(r)' /\ (rpc'[r] # "idle" => floor'[r] <= last[what'[r]] \/ Closed(what'[r]))
  <2>1. ASSUME NEW k \in Snapshots, ReadCall(r, k)
        PROVE  ReaderTypes' /\ Attempt(r)' /\ floor'[r] <= last[what'[r]]
    <3>1. last[k] \in Nat /\ last[k] <= last[k]
      BY DEF SnapshotsTypes
    <3>2. ReaderTypes'
      BY <2>1, <3>1 DEF ReadCall, ReaderTypes
    <3>3. rpc'[r] = "begin" /\ what'[r] = k /\ floor'[r] = last[k]
      BY <2>1 DEF ReadCall, ReaderTypes
    <3>4. QED
      BY <3>1, <3>2, <3>3 DEF Attempt
  <2>2. CASE ReadBegin(r)
    <3>1. what'[r] = what[r] /\ floor'[r] = floor[r] /\ rpc[r] = "begin"
      BY <2>2 DEF ReadBegin
    <3>2. QED
      BY <2>2, <3>1, BeginAttempt DEF Floors
  <2>3. CASE ReadField(r)
    <3>1. what'[r] = what[r] /\ floor'[r] = floor[r] /\ rpc[r] = "load"
      BY <2>3 DEF ReadField
    <3>2. QED
      BY <2>3, <3>1, FieldAttempt DEF Floors
  <2>4. CASE ReadEnd(r)
    <3>1. what'[r] = what[r] /\ floor'[r] = floor[r] /\ rpc[r] = "end"
      BY <2>4 DEF ReadEnd
    <3>2. QED
      BY <2>4, <3>1, EndAttempt DEF Floors
  <2>5. CASE ReadWake(r)
    <3>1. ReaderTypes' /\ rpc[r] = "sleep" /\ rpc'[r] = "begin" /\ what'[r] = what[r] /\ floor'[r] = floor[r]
      BY <2>5 DEF ReadWake, ReaderTypes
    <3>2. QED
      BY <3>1 DEF Attempt, Floors
  <2>6. CASE ReadReturn(r)
    <3>1. ReaderTypes' /\ rpc'[r] = "idle"
      BY <2>6, CounterRange DEF ReadReturn, ReaderTypes
    <3>2. QED
      BY <3>1 DEF Attempt
  <2>7. QED
    BY <2>1, <2>2, <2>3, <2>4, <2>5, <2>6 DEF Reading
<1>4. ASSUME NEW q \in Readers
      PROVE  Attempt(q)' /\ (rpc'[q] # "idle" => floor'[q] <= last[what'[q]] \/ Closed(what'[q]))
  <2>1. CASE q = r
    BY <1>3, <2>1
  <2>2. CASE q # r
    <3>1. /\ Turned(what[q], begin[q], during[q])' <=> Turned(what[q], begin[q], during[q])
          /\ Open(what[q])' <=> Open(what[q])
          /\ Closed(what[q])' <=> Closed(what[q])
          /\ LastField(what[q])' = LastField(what[q]) /\ last' = last
      BY <1>1, <1>2, <2>2 DEF Turned, Mark, Open, Closed, LastField, publisherVars
    <3>2. Attempt(q)
      BY DEF Attempts
    <3>3. Attempt(q)'
      BY <1>2, <2>2, <3>1, <3>2 DEF Attempt
    <3>4. QED
      BY <1>2, <2>2, <3>3 DEF Floors
  <2>3. QED
    BY <2>1, <2>2
<1>5. Floors'
  BY <1>1, <1>4 DEF Floors, Closed, publisherVars
<1>6. QED
  BY <1>1, <1>3, <1>4, <1>5 DEF Attempts

-----------------------------------------------------------------------------
(* The snapshots: the theorems                                             *)

\* The invariant of the sequence locks, when start() is not called while a read
\* of the run before is still going on.
THEOREM SnapshotsInvHolds == DrainReaders => (SnapshotsSpec => []SnapshotsInv)
<1> SUFFICES ASSUME DrainReaders
             PROVE  SnapshotsSpec => []SnapshotsInv
  OBVIOUS
<1>1. SnapshotsInit => SnapshotsInv
  <2> SUFFICES ASSUME SnapshotsInit
               PROVE  SnapshotsInv
    OBVIOUS
  <2>1. SnapshotsTypes
    <3>1. \A k \in Snapshots : Empty(k) \in [1 .. LastField(k) -> Nat]
      BY FieldRange DEF Empty
    <3>2. \A k \in Snapshots : Empty(k) \in [1 .. 3 -> Nat] \cup [1 .. 4 -> Nat]
      BY <3>1 DEF LastField
    <3>3. 0 \in 0 .. SeqMod - 1 /\ 0 \in 0 .. SeqMod - 4 /\ "od" \in Snapshots /\ LastField("od") = 4
      BY CounterRange DEF Snapshots, LastField
    <3>4. QED
      BY <3>1, <3>2, <3>3 DEF SnapshotsInit, SnapshotsTypes
  <2>2. ReaderTypes
    BY CounterRange DEF SnapshotsInit, ReaderTypes, Snapshots
  <2>3. Counters /\ Contents
    BY DEF SnapshotsInit, Counters, Contents, Open
  <2>4. Floors /\ Attempts
    BY DEF SnapshotsInit, Floors, Attempts, Attempt
  <2>5. QED
    BY <2>1, <2>2, <2>3, <2>4 DEF SnapshotsInv
<1>2. SnapshotsInv /\ [SnapshotsNext]_snapshotsVars => SnapshotsInv'
  <2> SUFFICES ASSUME SnapshotsInv, [SnapshotsNext]_snapshotsVars
               PROVE  SnapshotsInv'
    OBVIOUS
  <2> USE DEF SnapshotsInv
  <2>1. ASSUME NEW k \in Snapshots, PublishBegin(k)
        PROVE  SnapshotsInv'
    BY <2>1, BeginOwner, BeginReaders
  <2>2. ASSUME UNCHANGED <<readerVars, during>>
        PROVE  ReaderTypes' /\ what \in [Readers -> Snapshots]
    BY <2>2 DEF ReaderTypes, readerVars
  <2>3. CASE PublishField
    <3>1. UNCHANGED <<seq, last, base, publisher, target, readerVars, during>>
      BY <2>3 DEF PublishField
    <3>2. \A k \in Snapshots : (Open(k)' <=> Open(k)) /\ (Closed(k) => Closed(k)')
      BY <3>1 DEF Open, Closed
    <3>3. QED
      BY <2>2, <2>3, <3>1, <3>2, FieldOwner, QuietOwner
  <2>4. CASE PublishEnd
    <3>1. UNCHANGED <<readerVars, during>>
      BY <2>4 DEF PublishEnd
    <3>2. QED
      BY <2>2, <2>4, <3>1, EndOwner, EndReaders
  <2>5. CASE ResetBegin
    <3>1. /\ publisher = "run" /\ publisher' = "reset" /\ target' = "od" /\ step' = 0
          /\ UNCHANGED <<seq, field, base, published, last, readerVars, during>>
      BY <2>5 DEF ResetBegin, ResetOrder
    <3>2. \A k \in Snapshots : ~Open(k)' /\ ~Open(k) /\ ~Closed(k)
      BY <3>1 DEF Open, Closed
    <3>3. SnapshotsTypes'
      BY <3>1 DEF SnapshotsTypes, Snapshots, LastField
    <3>4. Counters' /\ Contents'
      BY <3>1, <3>2 DEF Counters, Contents
    <3>5. QED
      BY <2>2, <3>1, <3>2, <3>3, <3>4, QuietOwner
  <2>6. CASE ResetSeq
    <3>1. UNCHANGED <<readerVars, during>>
      BY <2>6 DEF ResetSeq
    <3>2. QED
      BY <2>2, <2>6, <3>1, ResetSeqOwner, ResetReaders
  <2>7. CASE ResetField
    <3>1. UNCHANGED <<seq, last, base, readerVars, during>>
      BY <2>7 DEF ResetField
    <3>2. \A k \in Snapshots : (Open(k)' <=> Open(k)) /\ (Closed(k) => Closed(k)')
      BY <2>7, ResetFieldOwner
    <3>3. QED
      BY <2>2, <2>7, <3>1, <3>2, ResetFieldOwner, QuietOwner
  <2>8. CASE Restart
    <3>1. /\ publisher = "down" /\ publisher' = "run" /\ \A r \in Readers : rpc[r] = "idle"
          /\ UNCHANGED <<seq, field, target, step, base, published, last, readerVars, during>>
      BY <2>8 DEF Restart
    <3>2. \A k \in Snapshots : ~Open(k)' /\ ~Open(k)
      BY <3>1 DEF Open
    <3>3. SnapshotsTypes' /\ ReaderTypes'
      BY <2>2, <3>1 DEF SnapshotsTypes
    <3>4. Counters' /\ Contents'
      BY <3>1, <3>2 DEF Counters, Contents
    <3>5. Floors' /\ Attempts'
      BY <3>1 DEF Floors, Attempts, Attempt, readerVars
    <3>6. QED
      BY <3>3, <3>4, <3>5
  <2>9. ASSUME NEW r \in Readers, (\E k \in Snapshots : ReadCall(r, k)) \/ Reading(r)
        PROVE  SnapshotsInv'
    <3>1. UNCHANGED publisherVars /\ ReaderTypes' /\ Floors' /\ Attempts'
      BY <2>9, ReaderStep
    <3>2. SnapshotsTypes' /\ Counters' /\ Contents'
      BY <3>1 DEF SnapshotsTypes, Counters, Contents, Open, publisherVars
    <3>3. QED
      BY <3>1, <3>2
  <2>10. CASE UNCHANGED snapshotsVars
    BY <2>10
    DEF snapshotsVars, publisherVars, readerVars, SnapshotsTypes, ReaderTypes, Counters, Contents,
        Open, Closed, Floors, Attempts, Attempt, Turned, Mark
  <2>11. QED
    BY <2>1, <2>3, <2>4, <2>5, <2>6, <2>7, <2>8, <2>9, <2>10
    DEF SnapshotsNext, SyncInd, TimeInd, LocalOdDnInd, Publishing, Resetting, GetSync, GetTime,
        GetLocalOdChange, Snapshots
<1>3. QED
  BY <1>1, <1>2, PTL DEF SnapshotsSpec

\* What get_sync, get_time and get_local_od_change return is one publication,
\* not older than the last one when the call began.
THEOREM ReadStableHolds == DrainReaders => (SnapshotsSpec => []ReadStable)
<1> SUFFICES ASSUME DrainReaders
             PROVE  SnapshotsSpec => []ReadStable
  OBVIOUS
<1>1. SnapshotsInv => ReadStable
  <2> SUFFICES ASSUME SnapshotsInv, NEW r \in Readers, rpc[r] = "done", during[r] < Cycle
               PROVE  /\ \A i, j \in Fields(what[r]) : got[r][i] = got[r][j]
                      /\ got[r][1] > 0 /\ got[r][1] >= floor[r]
    BY DEF ReadStable
  <2>1. what[r] \in Snapshots
    BY DEF SnapshotsInv, ReaderTypes
  <2>2. PICK p \in Nat : /\ p > 0 /\ p >= floor[r]
                         /\ \A i \in 1 .. LastField(what[r]) : got[r][i] = p
    BY DEF SnapshotsInv, Attempts, Attempt
  <2>3. Fields(what[r]) = 1 .. LastField(what[r]) /\ 1 \in 1 .. LastField(what[r])
    BY <2>1, FieldRange
  <2>4. QED
    BY <2>2, <2>3
<1>2. QED
  BY <1>1, SnapshotsInvHolds, PTL

=============================================================================
