--------------------------- MODULE ScheduleProofs ---------------------------
(***************************************************************************)
(* Proofs about Schedule: for any number of days, any hours and any number *)
(* of saves and starts every active row is armed, and every timer keeps    *)
(* its day and, once it is armed, its time of the week for ever.           *)
(***************************************************************************)
EXTENDS Schedule, TLAPS

-----------------------------------------------------------------------------
\* Division, for any positive divisor.

\* Quotient and remainder add up to the number.
LEMMA DivMod ==
  ASSUME NEW W \in Nat \ {0}, NEW a \in Int
  PROVE  /\ a % W \in 0..(W - 1)
         /\ a \div W \in Int
         /\ a = W * (a \div W) + (a % W)
  OBVIOUS

\* They are the only ones that do.
LEMMA DivUnique ==
  ASSUME NEW W \in Nat \ {0}, NEW q \in Int, NEW r \in 0..(W - 1), NEW a \in Int,
         a = W * q + r
  PROVE  a \div W = q /\ a % W = r
  OBVIOUS

\* A remainder may be taken before an addition as well.
LEMMA ModAdd ==
  ASSUME NEW W \in Nat \ {0}, NEW a \in Int, NEW b \in Int
  PROVE  (b + (a % W)) % W = (a + b) % W
<1> DEFINE q == ((a + b) \div W) - (a \div W)
           r == (a + b) % W
<1>1. a = W * (a \div W) + (a % W) /\ a \div W \in Int /\ a % W \in 0..(W - 1)
  BY DivMod
<1>2. a + b = W * ((a + b) \div W) + r /\ (a + b) \div W \in Int /\ r \in 0..(W - 1)
  BY DivMod
<1>3. q \in Int /\ W * q = W * ((a + b) \div W) - W * (a \div W)
  BY <1>1, <1>2
<1> DEFINE c == b + (a % W)
<1>4. c \in Int /\ c = W * q + r
  BY <1>1, <1>2, <1>3
<1> HIDE DEF q, r, c
<1>5. c % W = r
  BY <1>2, <1>3, <1>4, DivUnique
<1> QED BY <1>5 DEF r, c

\* The week has at least one step.
LEMMA WeekPositive == Week \in Nat \ {0} /\ Week = 2 * HalfDay * Days
  BY ScheduleAssumption DEF Week

-----------------------------------------------------------------------------
\* The date that Calendar computes for a row.

\* It is within the week, on the day asked for, at the hour of twelve asked
\* for.
LEMMA TargetFacts ==
  ASSUME NEW d \in Day, NEW hour \in Hour, now \in 0..(Week - 1)
  PROVE  /\ Target(d, hour) \in 0..(Week - 1)
         /\ Target(d, hour) \div (2 * HalfDay) = d
         /\ (Target(d, hour) - hour) % HalfDay = 0
<1> DEFINE h == HalfOf(now)
           m == hour % HalfDay
           T == Target(d, hour)
<1>1. HalfDay \in Nat \ {0} /\ 2 * HalfDay \in Nat \ {0} /\ d \in Nat /\ hour \in Int
  BY ScheduleAssumption DEF Day, Hour
<1>2. now \in Int
  BY WeekPositive
<1>3. h \in 0..1
  <2>1. now \div HalfDay \in Int
    BY <1>1, <1>2, DivMod
  <2> QED BY <2>1 DEF HalfOf
<1>4. m \in 0..(HalfDay - 1) /\ hour \div HalfDay \in Int /\ hour = HalfDay * (hour \div HalfDay) + m
  BY <1>1, DivMod
<1>5. T = d * 2 * HalfDay + h * HalfDay + m
  BY DEF Target
<1> HIDE DEF h, m, T
<1>6. h * HalfDay + m \in 0..(2 * HalfDay - 1)
  BY <1>1, <1>3, <1>4
<1>7. T \in Int /\ T = (2 * HalfDay) * d + (h * HalfDay + m)
  BY <1>1, <1>3, <1>4, <1>5
<1>8. T \div (2 * HalfDay) = d
  BY <1>1, <1>6, <1>7, DivUnique
<1>9. T = HalfDay * (2 * d + h) + m /\ 2 * d + h \in Int
  BY <1>1, <1>3, <1>4, <1>5
<1>10. (T - hour) % HalfDay = 0
  <2> DEFINE q == 2 * d + h - (hour \div HalfDay)
  <2>1. q \in Int /\ HalfDay * q = HalfDay * (2 * d + h) - HalfDay * (hour \div HalfDay)
    BY <1>1, <1>3, <1>4
  <2> DEFINE c == T - hour
  <2>2. c \in Int /\ c = HalfDay * q + 0 /\ 0 \in 0..(HalfDay - 1)
    BY <2>1, <1>1, <1>4, <1>7, <1>9
  <2> HIDE DEF q, c
  <2>3. c % HalfDay = 0
    BY <1>1, <2>1, <2>2, DivUnique
  <2> QED BY <2>3 DEF c
<1>11. T \in 0..(Week - 1)
  <2>1. d <= Days - 1 /\ Days \in Nat
    BY ScheduleAssumption DEF Day
  <2>2. (2 * HalfDay) * d <= (2 * HalfDay) * (Days - 1)
    BY <1>1, <2>1
  <2>3. (2 * HalfDay) * (Days - 1) = Week - 2 * HalfDay
    BY <1>1, <2>1, WeekPositive
  <2>4. (2 * HalfDay) * d \in Nat
    BY <1>1
  <2> QED BY <1>1, <1>6, <1>7, <2>2, <2>3, <2>4, WeekPositive
<1> QED BY <1>8, <1>10, <1>11 DEF T

\* What is due now, on its day and at its hour of twelve, is due at the date
\* that Calendar computes now.
LEMMA SameTarget ==
  ASSUME NEW d \in Day, NEW hour \in Hour, now \in 0..(Week - 1),
         now \div (2 * HalfDay) = d, (now - hour) % HalfDay = 0
  PROVE  Target(d, hour) = now
<1> DEFINE h == HalfOf(now)
           m == hour % HalfDay
           n == now \div HalfDay
           q == n \div 2
           r == now % HalfDay
<1>1. HalfDay \in Nat \ {0} /\ 2 * HalfDay \in Nat \ {0} /\ d \in Nat /\ hour \in Int
  BY ScheduleAssumption DEF Day, Hour
<1>2. now \in Int
  BY WeekPositive
<1>3. n \in Int /\ r \in 0..(HalfDay - 1) /\ now = HalfDay * n + r
  BY <1>1, <1>2, DivMod
<1>4. h = n % 2
  BY DEF HalfOf
<1> HIDE DEF h, n, r
<1>5. q \in Int /\ h \in 0..1 /\ n = 2 * q + h
  BY <1>3, <1>4
<1> HIDE DEF q
<1>6. q = d
  <2>1. HalfDay * n = (2 * HalfDay) * q + HalfDay * h
    BY <1>1, <1>5
  <2>2. HalfDay * h + r \in 0..(2 * HalfDay - 1)
    BY <1>1, <1>3, <1>5
  <2>3. now = (2 * HalfDay) * q + (HalfDay * h + r)
    BY <1>1, <1>3, <1>5, <2>1
  <2> DEFINE rest == HalfDay * h + r
             W == 2 * HalfDay
  <2>4. W \in Nat \ {0} /\ rest \in 0..(W - 1) /\ now = W * q + rest
    BY <1>1, <2>2, <2>3
  <2> HIDE DEF rest, W
  <2>5. now \div W = q
    BY <1>2, <1>5, <2>4, DivUnique
  <2> QED BY <2>5 DEF W
<1>7. r = m
  <2> DEFINE p == (now - hour) \div HalfDay
             u == hour \div HalfDay
             c == now - hour
  <2>1. u \in Int /\ m \in 0..(HalfDay - 1) /\ hour = HalfDay * u + m
    BY <1>1, DivMod
  <2>2. c \in Int /\ c % HalfDay = 0
    BY <1>1, <1>2
  <2>3. p \in Int /\ c = HalfDay * p + 0
    <3> HIDE DEF c
    <3>1. c \div HalfDay \in Int /\ c = HalfDay * (c \div HalfDay) + (c % HalfDay)
      BY <1>1, <2>2, DivMod
    <3> QED BY <1>1, <2>2, <3>1 DEF c
  <2> HIDE DEF p, u, m
  <2>4. p + u \in Int /\ HalfDay * (p + u) = HalfDay * p + HalfDay * u
    BY <1>1, <2>1, <2>3
  <2>5. now = HalfDay * (p + u) + m
    BY <1>1, <1>2, <2>1, <2>3, <2>4
  <2> DEFINE k == p + u
  <2>6. k \in Int /\ now = HalfDay * k + m
    BY <2>4, <2>5
  <2> HIDE DEF k, c
  <2>7. HalfDay \in Nat \ {0} /\ m \in 0..(HalfDay - 1)
    BY <1>1, <2>1
  <2>8. now % HalfDay = m
    BY ONLY <1>2, <2>6, <2>7, DivUnique
  <2> QED BY <2>8 DEF r
<1>8. Target(d, hour) = d * 2 * HalfDay + h * HalfDay + m
  BY DEF Target, h
<1> HIDE DEF m
<1>9. HalfDay * n = d * 2 * HalfDay + h * HalfDay
  BY <1>1, <1>5, <1>6
<1> QED BY <1>3, <1>7, <1>8, <1>9

\* The wait ends at that date, this week or the next one.
LEMMA UntilFacts ==
  ASSUME NEW d \in Day, NEW hour \in Hour, now \in 0..(Week - 1)
  PROVE  /\ Until(d, hour) \in 0..Week
         /\ (now + Until(d, hour)) % Week = Target(d, hour)
<1> DEFINE T == Target(d, hour)
           z == T - now
           w == z % Week
<1>1. T \in 0..(Week - 1)
  BY TargetFacts
<1>2. Week \in Nat \ {0} /\ now \in Int /\ T \in Int /\ z \in Int /\ z + now = T
  BY WeekPositive, <1>1
<1> HIDE DEF z, T
<1>3. w \in 0..(Week - 1)
  BY <1>2, DivMod
<1>4. (now + w) % Week = T
  <2>1. (now + w) % Week = (z + now) % Week
    BY <1>2, ModAdd, Zenon
  <2>2. T % Week = T
    BY <1>1, <1>2, DivUnique
  <2> QED BY <1>2, <2>1, <2>2
<1>5. w = 0 => (now + Week) % Week = T
  <2>1. (now + (Week % Week)) % Week = (Week + now) % Week
    <3>1. Week \in Int
      BY <1>2
    <3> QED BY <1>2, <3>1, ModAdd, Zenon
  <2>2. Week % Week = 0
    BY <1>2, DivUnique
  <2> QED BY <1>2, <1>4, <2>1, <2>2
<1>6. Until(d, hour) = w \/ (w = 0 /\ Until(d, hour) = Week)
  BY DEF Until, z, T
<1> HIDE DEF w
<1> QED BY <1>2, <1>3, <1>4, <1>5, <1>6 DEF T

\* A timer that is armed now has the hour asked for and comes on the day asked
\* for, at this hour of twelve.
LEMMA ArmedFacts ==
  ASSUME NEW d \in Day, NEW hour \in Hour, now \in 0..(Week - 1)
  PROVE  /\ Armed(d, hour) \in Timer
         /\ Armed(d, hour).time = hour
         /\ (now + Armed(d, hour).wait) % Week = Target(d, hour)
         /\ Target(d, hour) \div (2 * HalfDay) = d
         /\ (Target(d, hour) - hour) % HalfDay = 0
<1>1. /\ Armed(d, hour).time = hour
      /\ Armed(d, hour).wait = Until(d, hour)
      /\ Until(d, hour) \in 0..Week => Armed(d, hour) \in Timer
  BY DEF Armed, Timer
<1>2. Until(d, hour) \in 0..Week /\ (now + Until(d, hour)) % Week = Target(d, hour)
  BY UntilFacts
<1> QED BY <1>1, <1>2, TargetFacts

-----------------------------------------------------------------------------
\* The inductive invariant.  What fires is due, so that it is armed again in the
\* half of the day it was due in; and calls of initScheduler never arm a timer
\* that is already there.
TypeInv ==
  /\ now \in 0..(Week - 1)
  /\ edge \in BOOLEAN
  /\ store \in [Day -> Row]
  /\ inits \in 0..MaxInits
  /\ \A k \in DOMAIN timers : k \in Keys /\ k[1] <= inits /\ timers[k] \in Timer

OnItsDay == \A k \in DOMAIN timers : Due(k) \div (2 * HalfDay) = k[2]
OnItsHour == \A k \in DOMAIN timers : (Due(k) - timers[k].time) % HalfDay = 0

IInv == TypeInv /\ RowsAreArmed /\ OnItsDay /\ OnItsHour

\* No step moves a timer.
Steady == \A k \in DOMAIN timers \cap DOMAIN timers' : Due(k)' = Due(k)

\* Nothing is armed at first.
LEMMA InitInv == Init => IInv
<1> SUFFICES ASSUME Init PROVE IInv
  OBVIOUS
<1>1. DOMAIN timers = {} /\ inits = 0
  BY DEF Init
<1>2. TypeInv
  <2>1. now \in 0..(Week - 1) /\ edge \in BOOLEAN /\ store \in [Day -> Row]
    BY ScheduleAssumption DEF Init
  <2>2. inits \in 0..MaxInits
    BY <1>1, ScheduleAssumption
  <2>3. \A k \in DOMAIN timers : k \in Keys /\ k[1] <= inits /\ timers[k] \in Timer
    BY <1>1
  <2> QED BY <2>1, <2>2, <2>3 DEF TypeInv
<1>3. RowsAreArmed /\ OnItsDay /\ OnItsHour
  BY <1>1 DEF RowsAreArmed, OnItsDay, OnItsHour
<1> QED BY <1>2, <1>3 DEF IInv

\* What a timer that is due now is due at.
LEMMA DueNow ==
  ASSUME TypeInv, NEW k \in DOMAIN timers, timers[k].wait = 0
  PROVE  Due(k) = now
<1>1. now \in 0..(Week - 1) /\ now + timers[k].wait = now
  BY WeekPositive DEF TypeInv
<1>2. now % Week = now
  <2>1. now \in Int /\ now = Week * 0 + now /\ 0 \in Int
    BY <1>1, WeekPositive
  <2> QED BY <1>1, <2>1, WeekPositive, DivUnique
<1> QED BY <1>1, <1>2 DEF Due

\* A call of initScheduler keeps the timers there are, and arms the rows.
LEMMA InitSchedulerInv ==
  ASSUME IInv, NEW st \in [Day -> Row], InitScheduler(st),
         store' = st, UNCHANGED <<now, edge>>
  PROVE  IInv' /\ Steady
<1> DEFINE new == NewTimers(st)
           old == DOMAIN timers
<1>1. TypeInv /\ RowsAreArmed /\ OnItsDay /\ OnItsHour
  BY DEF IInv
<1>2. inits \in Nat /\ MaxInits \in Nat /\ inits < MaxInits /\ inits' = inits + 1
  BY <1>1, ScheduleAssumption DEF TypeInv, InitScheduler
<1>3. /\ DOMAIN timers' = old \cup new
      /\ \A k \in old : timers'[k] = timers[k]
      /\ \A k \in new \ old : timers'[k] = Armed(k[2], TimeOf(st[k[2]], k[3]))
  BY DEF InitScheduler
<1>4. ASSUME NEW k \in new
      PROVE  /\ k \in Keys /\ k[1] = inits + 1 /\ k[2] \in Day /\ k[3] \in Kinds
             /\ TimeOf(st[k[2]], k[3]) \in Hour
             /\ k \notin old
  <2>1. PICK d \in Day, kind \in Kinds : k = <<inits + 1, d, kind>> /\ st[d].active
    BY DEF NewTimers
  <2>2. k \in Keys
    BY <1>2, <2>1 DEF Keys
  <2>3. TimeOf(st[d], kind) \in Hour
    BY DEF TimeOf, Row
  <2>4. k \notin old
    BY <1>1, <1>2, <2>1 DEF TypeInv
  <2> QED BY <2>1, <2>2, <2>3, <2>4
<1>5. \A k \in new : timers'[k] = Armed(k[2], TimeOf(st[k[2]], k[3]))
  BY <1>3, <1>4
<1>6. TypeInv'
  <2>1. \A k \in old : k \in Keys /\ k[1] <= inits + 1 /\ timers'[k] \in Timer
    BY <1>1, <1>2, <1>3 DEF TypeInv, Keys
  <2>2. \A k \in new : k \in Keys /\ k[1] <= inits + 1 /\ timers'[k] \in Timer
    <3> TAKE k \in new
    <3>1. Armed(k[2], TimeOf(st[k[2]], k[3])) \in Timer
      BY <1>1, <1>4, ArmedFacts DEF TypeInv
    <3> QED BY <1>2, <1>4, <1>5, <3>1
  <2> QED BY <1>1, <1>2, <1>3, <2>1, <2>2 DEF TypeInv
<1>7. RowsAreArmed'
  <2> SUFFICES ASSUME NEW d \in Day, NEW kind \in Kinds, st[d].active
               PROVE  /\ <<inits + 1, d, kind>> \in DOMAIN timers'
                      /\ timers'[<<inits + 1, d, kind>>].time = TimeOf(st[d], kind)
    BY <1>2 DEF RowsAreArmed
  <2>1. <<inits + 1, d, kind>> \in new
    BY DEF NewTimers
  <2>2. timers'[<<inits + 1, d, kind>>] = Armed(d, TimeOf(st[d], kind))
    BY <1>5, <2>1
  <2> QED BY <1>3, <2>1, <2>2 DEF Armed
<1>8. \A k \in old : Due(k)' = Due(k) /\ timers'[k] = timers[k]
  BY <1>3 DEF Due
<1>9. ASSUME NEW k \in new
      PROVE  /\ Due(k)' \div (2 * HalfDay) = k[2]
             /\ (Due(k)' - timers'[k].time) % HalfDay = 0
  <2> DEFINE hour == TimeOf(st[k[2]], k[3])
             a == Armed(k[2], hour)
  <2>1. Due(k)' = (now + a.wait) % Week /\ timers'[k].time = a.time
    BY <1>5 DEF Due
  <2>2. k[2] \in Day /\ hour \in Hour /\ now \in 0..(Week - 1)
    BY <1>1, <1>4 DEF TypeInv
  <2> HIDE DEF hour
  <2>3. /\ a.time = hour
        /\ (now + a.wait) % Week = Target(k[2], hour)
        /\ Target(k[2], hour) \div (2 * HalfDay) = k[2]
        /\ (Target(k[2], hour) - hour) % HalfDay = 0
    BY <2>2, ArmedFacts
  <2> QED BY <2>1, <2>3
<1>10. OnItsDay' /\ OnItsHour'
  BY <1>1, <1>3, <1>8, <1>9 DEF OnItsDay, OnItsHour
<1>11. Steady
  BY <1>3, <1>4, <1>8 DEF Steady
<1> QED BY <1>6, <1>7, <1>10, <1>11 DEF IInv

\* A timer that fires is armed again for the same time of the week.
LEMMA FireInv ==
  ASSUME IInv, NEW f \in Keys, Fire(f)
  PROVE  IInv' /\ Steady
<1> DEFINE a == Armed(f[2], timers[f].time)
<1>1. TypeInv /\ RowsAreArmed /\ OnItsDay /\ OnItsHour
  BY DEF IInv
<1>2. /\ f \in DOMAIN timers /\ timers[f].wait = 0
      /\ DOMAIN timers' = DOMAIN timers
      /\ timers'[f] = a
      /\ \A k \in DOMAIN timers \ {f} : timers'[k] = timers[k]
      /\ UNCHANGED <<now, edge, store, inits>>
  BY DEF Fire
<1>3. f[2] \in Day /\ timers[f].time \in Hour /\ now \in 0..(Week - 1)
  BY <1>1, <1>2 DEF TypeInv, Keys, Timer
<1>4. Due(f) = now
  BY <1>1, <1>2, DueNow
<1>5. Target(f[2], timers[f].time) = now
  <2>1. now \div (2 * HalfDay) = f[2] /\ (now - timers[f].time) % HalfDay = 0
    BY <1>1, <1>2, <1>4 DEF OnItsDay, OnItsHour
  <2> QED BY <1>3, <2>1, SameTarget
<1>6. /\ a \in Timer /\ a.time = timers[f].time
      /\ (now + a.wait) % Week = now
  BY <1>3, <1>5, ArmedFacts
<1> HIDE DEF a
<1>7. TypeInv'
  BY <1>1, <1>2, <1>6 DEF TypeInv
<1>8. \A k \in DOMAIN timers : timers'[k].time = timers[k].time
  BY <1>2, <1>6
<1>9. RowsAreArmed'
  BY <1>1, <1>2, <1>8 DEF RowsAreArmed
<1>10. \A k \in DOMAIN timers : Due(k)' = Due(k)
  BY <1>2, <1>4, <1>6 DEF Due
<1> QED BY <1>1, <1>2, <1>7, <1>8, <1>9, <1>10 DEF IInv, OnItsDay, OnItsHour, Steady

\* The passing of time leaves every timer due when it was.
LEMMA TickInv ==
  ASSUME IInv, Tick
  PROVE  IInv' /\ Steady
<1>1. TypeInv /\ RowsAreArmed /\ OnItsDay /\ OnItsHour
  BY DEF IInv
<1>2. /\ DOMAIN timers' = DOMAIN timers
      /\ now' = (now + 1) % Week
      /\ edge' = TRUE
      /\ UNCHANGED <<store, inits>>
  BY DEF Tick
<1>3. ASSUME NEW k \in DOMAIN timers
      PROVE  /\ timers'[k] \in Timer
             /\ timers'[k].time = timers[k].time
             /\ timers'[k].wait = timers[k].wait - 1
  <2>1. timers[k] \in Timer /\ timers[k].wait > 0
    BY <1>1 DEF TypeInv, Tick
  <2>2. timers'[k] = [timers[k] EXCEPT !.wait = @ - 1]
    BY DEF Tick
  <2>3. timers[k].wait - 1 \in 0..Week
    BY <2>1, WeekPositive DEF Timer
  <2> QED BY <2>1, <2>2, <2>3 DEF Timer
<1>4. now \in Int /\ Week \in Nat \ {0}
  BY <1>1, WeekPositive DEF TypeInv
<1>5. TypeInv'
  <2>1. now' \in 0..(Week - 1)
    <3> DEFINE n == now + 1
    <3>1. n \in Int
      BY <1>4
    <3> HIDE DEF n
    <3>2. n % Week \in 0..(Week - 1)
      BY <1>4, <3>1, DivMod
    <3> QED BY <1>2, <3>2 DEF n
  <2> QED BY <1>1, <1>2, <1>3, <2>1 DEF TypeInv
<1>6. RowsAreArmed'
  BY <1>1, <1>2, <1>3 DEF RowsAreArmed
<1>7. ASSUME NEW k \in DOMAIN timers
      PROVE  Due(k)' = Due(k)
  <2> DEFINE w == timers[k].wait
             b == w - 1
             n == now + 1
  <2>1. w \in Int /\ b \in Int /\ n \in Int /\ n + b = now + w
    BY <1>1, <1>4 DEF TypeInv, Timer
  <2>2. Due(k)' = ((n % Week) + b) % Week
    BY <1>2, <1>3 DEF Due
  <2>3. Due(k) = (now + w) % Week
    BY DEF Due
  <2> HIDE DEF w, b, n
  <2>4. n % Week \in Int
    BY <1>4, <2>1, DivMod
  <2>5. (b + (n % Week)) % Week = (n + b) % Week
    BY <1>4, <2>1, ModAdd, Zenon
  <2>6. (n % Week) + b = b + (n % Week)
    BY <2>1, <2>4
  <2> QED BY <2>1, <2>2, <2>3, <2>5, <2>6
<1>8. OnItsDay' /\ OnItsHour'
  BY <1>1, <1>2, <1>3, <1>7 DEF OnItsDay, OnItsHour
<1> QED BY <1>2, <1>5, <1>6, <1>7, <1>8 DEF IInv, Steady

\* Every step keeps the invariant, and no step moves a timer.
LEMMA NextInv == IInv /\ [Next]_vars => IInv' /\ [Steady]_vars
<1> SUFFICES ASSUME IInv, [Next]_vars PROVE IInv' /\ [Steady]_vars
  OBVIOUS
<1> USE DEF IInv
<1>1. CASE StartService
  <2>1. store \in [Day -> Row]
    BY DEF TypeInv
  <2> QED BY <1>1, <2>1, InitSchedulerInv DEF StartService
<1>2. ASSUME NEW ds \in SUBSET Day, NEW changed \in [ds -> Rows], Save(changed)
      PROVE  IInv' /\ Steady
  <2>1. store' \in [Day -> Row]
    BY <1>2, ScheduleAssumption DEF Save, TypeInv
  <2>2. InitScheduler(store') /\ UNCHANGED <<now, edge>>
    BY <1>2 DEF Save
  <2> DEFINE st == store'
  <2>3. st \in [Day -> Row] /\ InitScheduler(st) /\ store' = st
    BY <2>1, <2>2
  <2> QED BY <2>2, <2>3, InitSchedulerInv
<1>3. ASSUME NEW k \in Keys, Fire(k)
      PROVE  IInv' /\ Steady
  BY <1>3, FireInv
<1>4. CASE Die
  <2>1. DOMAIN timers' = {} /\ inits' = 0 /\ UNCHANGED <<now, edge, store>>
    BY <1>4 DEF Die
  <2> QED BY <2>1, ScheduleAssumption DEF TypeInv, RowsAreArmed, OnItsDay, OnItsHour, Steady
<1>5. CASE Settle
  <2>1. edge' = FALSE /\ UNCHANGED <<now, store, inits, timers>>
    BY <1>5 DEF Settle
  <2> QED BY <2>1 DEF TypeInv, RowsAreArmed, OnItsDay, OnItsHour, Due, Steady
<1>6. CASE Tick
  BY <1>6, TickInv
<1>7. CASE UNCHANGED vars
  BY <1>7 DEF vars, TypeInv, RowsAreArmed, OnItsDay, OnItsHour, Due
<1> QED BY <1>1, <1>2, <1>3, <1>4, <1>5, <1>6, <1>7 DEF Next

\* The invariant holds for ever.
THEOREM Invariance == Spec => []IInv
BY InitInv, NextInv, PTL DEF Spec

\* After any number of saves, starts and weeks every active row has its two
\* timers, with the times of the row.
THEOREM RowsStayArmed == Spec => []RowsAreArmed
<1>1. IInv => RowsAreArmed
  BY DEF IInv
<1> QED BY <1>1, Invariance, PTL

\* Every timer comes on the day of its row, and no save, start or firing moves
\* it: it comes back week after week at the time it was first armed for.
THEOREM TimersStayInStep == Spec => TimersKeepStep
<1>1. IInv => \A k \in DOMAIN timers : Due(k) \div (2 * HalfDay) = k[2]
  BY DEF IInv, OnItsDay
<1>2. [Steady]_vars => [\A k \in DOMAIN timers \cap DOMAIN timers' : Due(k)' = Due(k)]_vars
  BY DEF Steady
<1> QED BY <1>1, <1>2, NextInv, Invariance, PTL DEF Spec, TimersKeepStep
=============================================================================
