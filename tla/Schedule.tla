------------------------------ MODULE Schedule ------------------------------
(***************************************************************************)
(* The weekly schedule of the Android application: the rows of the         *)
(* database, one for each day, that the user saves, and the timers that    *)
(* ScheduleServiceImpl arms for them on the executor of the application.   *)
(*                                                                         *)
(* Time goes in steps around the week.  A timer is due at the first        *)
(* millisecond of a step; `edge' tells whether that is still now.          *)
(***************************************************************************)
EXTENDS Integers

CONSTANTS
  Days,      \* the days of the week are 0..(Days - 1)
  HalfDay,   \* steps of time from midnight to noon, and from noon to midnight
  Rows,      \* what a user may save for a day
  FirstRow,  \* FirstRow[d]: what the database is created with
  MaxInits   \* bound: calls of initScheduler in one process

Day == 0..(Days - 1)
Hour == 0..(2 * HalfDay - 1)
Week == Days * 2 * HalfDay
Row == [start : Hour, stop : Hour, active : BOOLEAN]

ASSUME ScheduleAssumption ==
  /\ Days \in Nat \ {0} /\ HalfDay \in Nat \ {0} /\ MaxInits \in Nat
  /\ Rows \subseteq Row
  /\ FirstRow \in [Day -> Row]

Kinds == {"start", "stop"}

VARIABLES
  now,    \* the step of the week
  edge,   \* it has only begun
  store,  \* the rows of the database
  inits,  \* calls of initScheduler since the process was started
  timers, \* timers[<<n, d, kind>>]: the timer of day d that call n has armed
  fired   \* the event fired last

vars == <<now, edge, store, inits, timers, fired>>

\* A timer keeps the time of the row it was armed for, and how long to wait.
Timer == [time : Hour, wait : 0..Week]
Keys == (1..MaxInits) \X Day \X Kinds

TimeOf(row, kind) == IF kind = "start" THEN row.start ELSE row.stop

-----------------------------------------------------------------------------
\* getTimeUntilNextStart and getTimeUntilNextStop.  Calendar.HOUR leaves the
\* half of the day as it is at the moment; what is past comes next week, but
\* not what is due within this very millisecond.
HalfOf(step) == (step \div HalfDay) % 2

Target(d, hour) == d * 2 * HalfDay + HalfOf(now) * HalfDay + (hour % HalfDay)

\* Mutant: what is past comes on the next day.
UntilTomorrow(d, hour) ==
  LET wait == Target(d, hour) - now
  IN IF wait > 0 THEN wait ELSE wait % (2 * HalfDay)

Until(d, hour) ==
  LET wait == (Target(d, hour) - now) % Week
  IN IF wait = 0 /\ ~edge THEN Week ELSE wait

Armed(d, hour) == [time |-> hour, wait |-> Until(d, hour)]

\* Mutant: the call for the stops is left out.
NewTimersStarts(st) ==
  {<<inits + 1, d, kind>> : d \in {e \in Day : st[e].active}, kind \in {"start"}}

NewTimers(st) ==
  {<<inits + 1, d, kind>> : d \in {e \in Day : st[e].active}, kind \in Kinds}

\* initScheduler: clearScheduler finds no timer, as none has been put down, so
\* that those of earlier calls go on.
InitScheduler(st) ==
  /\ inits < MaxInits
  /\ inits' = inits + 1
  /\ timers' = [k \in DOMAIN timers \cup NewTimers(st) |->
                  IF k \in DOMAIN timers THEN timers[k]
                  ELSE Armed(k[2], TimeOf(st[k[2]], k[3]))]

-----------------------------------------------------------------------------
Init ==
  /\ now \in 0..(Week - 1)
  /\ edge = FALSE
  /\ store = FirstRow
  /\ inits = 0
  /\ timers = [k \in {} |-> 0]
  /\ fired = "none"

\* MainService.setupContext, at each start of the service.
StartService ==
  /\ InitScheduler(store)
  /\ UNCHANGED <<now, edge, store, fired>>

\* validateEvent; the dates of a row are of one day.
Valid(row) == row.start <= row.stop

\* save, of the rows that have been changed: the valid ones are stored, and when
\* there is none nothing happens.
Save(changed) ==
  /\ \E d \in DOMAIN changed : Valid(changed[d])
  /\ store' = [d \in Day |->
                 IF d \in DOMAIN changed /\ Valid(changed[d]) THEN changed[d]
                 ELSE store[d]]
  /\ InitScheduler(store')
  /\ UNCHANGED <<now, edge, fired>>

\* Mutant: a stop is not armed again.
FireOnce(k) ==
  /\ k \in DOMAIN timers /\ timers[k].wait = 0
  /\ fired' = k[3]
  /\ timers' = IF k[3] = "start"
               THEN [timers EXCEPT ![k] = Armed(k[2], @.time)]
               ELSE [l \in DOMAIN timers \ {k} |-> timers[l]]
  /\ UNCHANGED <<now, edge, store, inits>>

\* run() of a timer fires its event and arms the next one, for the row as it
\* was; within the same millisecond that one is due at once.
Fire(k) ==
  /\ k \in DOMAIN timers /\ timers[k].wait = 0
  /\ fired' = k[3]
  /\ timers' = [timers EXCEPT ![k] = Armed(k[2], @.time)]
  /\ UNCHANGED <<now, edge, store, inits>>

\* The process ends, with its executor: the system stops it, or onStartCommand
\* throws, for want of a board or at the null intent of a sticky restart.  The
\* end of the service alone leaves the executor and its timers as they are.
Die ==
  /\ inits > 0
  /\ inits' = 0
  /\ timers' = [k \in {} |-> 0]
  /\ fired' = "none"
  /\ UNCHANGED <<now, edge, store>>

\* Time: the executor is not late by more than the current step.
Settle ==
  /\ edge
  /\ edge' = FALSE
  /\ UNCHANGED <<now, store, inits, timers, fired>>

Tick ==
  /\ ~edge
  /\ \A k \in DOMAIN timers : timers[k].wait > 0
  /\ now' = (now + 1) % Week
  /\ edge' = TRUE
  /\ timers' = [k \in DOMAIN timers |-> [timers[k] EXCEPT !.wait = @ - 1]]
  /\ UNCHANGED <<store, inits, fired>>

Next ==
  \/ StartService \/ Die \/ Settle \/ Tick
  \/ \E ds \in SUBSET Day : \E changed \in [ds -> Rows] : Save(changed)
  \/ \E k \in Keys : Fire(k)

Spec == Init /\ [][Next]_vars

\* Time passes and the executor runs what is due.
FairSpec ==
  /\ Spec
  /\ WF_vars(Settle) /\ WF_vars(Tick)
  /\ \A k \in Keys : WF_vars(Fire(k))

-----------------------------------------------------------------------------
Due(k) == (now + timers[k].wait) % Week

\* After the last of any number of saves and starts every active row has its
\* two timers, however often they have fired, with the times of the row.
RowsAreArmed ==
  inits > 0 =>
    \A d \in Day, kind \in Kinds : store[d].active =>
      /\ <<inits, d, kind>> \in DOMAIN timers
      /\ timers[<<inits, d, kind>>].time = TimeOf(store[d], kind)

\* Every timer, those of older rows too, comes on the day of its row, and one
\* that has fired comes back at the same time of the week, although its hour is
\* read against the half of the day in which it is armed.
TimersKeepStep ==
  /\ [](\A k \in DOMAIN timers : Due(k) \div (2 * HalfDay) = k[2])
  /\ [][\A k \in DOMAIN timers \cap DOMAIN timers' : Due(k)' = Due(k)]_vars

\* Every timer comes at the hour of the day that its row holds, 0 to 23, as the
\* user has set it and reads it (ScheduleActivity) and as the rows that the
\* database is created with have it, 10:00 to 12:30 (MigrationScript).
TimersKeepTheHour ==
  \A k \in DOMAIN timers : Due(k) % (2 * HalfDay) = timers[k].time

\* A start is followed by a stop, whatever has been saved since and also when
\* the row has been switched off, as long as the process lives.
StopFollowsStart == (fired = "start") ~> (fired = "stop" \/ inits = 0)
=============================================================================
