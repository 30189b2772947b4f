------------------------------ MODULE alt_tick ------------------------------
(***************************************************************************)
(* The HAL's system clock: the tick interrupt with its list of alarms      *)
(* (HAL/src/alt_tick.c, alt_alarm_start.c) and the time of day derived     *)
(* from it (alt_settod.c, alt_gettod.c).  alt_tick() runs at interrupt     *)
(* level: the program runs between ticks, and its calls exclude interrupts *)
(* while they touch the list.                                              *)
(***************************************************************************)
EXTENDS Integers, Sequences, SequencesExt

CONSTANTS
  ULIMIT,           \* the number of values of alt_u32, 2^32
  Alarm,
  ListHead,         \* the head of the circular list, where a walk ends
  Delays,           \* nticks arguments and results of callbacks
  RATE,             \* ticks per second, once there is a system clock
  ALT_US,           \* microseconds in a second, 1000000
  Times             \* seconds a program sets the time of day to

\* A delay of 2^32 - 1 would wrap the alarm's time onto the current tick; a
\* rate that does not divide a second makes the time of day jump.
ASSUME TickAssumption ==
  /\ ULIMIT \in Nat /\ ULIMIT > 1
  /\ ListHead \notin Alarm
  /\ Delays \subseteq 0 .. ULIMIT - 2
  /\ RATE \in Nat \ {0} /\ ALT_US \in Nat \ {0} /\ ALT_US % RATE = 0
  /\ Times \subseteq Nat

VARIABLES
  _alt_tick_rate, nticks,
  alarm_list,       \* the registered alarms in the order of the list
  time, rollover,   \* by alarm
  alarm,            \* the alarm alt_tick() looks at, ListHead between ticks
  left              \* history: ticks until the next callback, by alarm

alarmVars == <<_alt_tick_rate, nticks, alarm_list, time, rollover, alarm, left>>

Plus(x, y) == IF x + y < ULIMIT THEN x + y ELSE x + y - ULIMIT

Registered == Range(alarm_list)

Position(list, a) == CHOOSE k \in DOMAIN list : list[k] = a

SuccessorOf(a) ==
  LET k == Position(alarm_list, a)
  IN IF k = Len(alarm_list) THEN ListHead ELSE alarm_list[k + 1]

\* Taking out an alarm that is in no list is harmless: it points to itself.
Without(list, a) == IF a \in Range(list) THEN RemoveAt(list, Position(list, a)) ELSE list

BetweenTicks == alarm = ListHead

-----------------------------------------------------------------------------
AlarmInit ==
  /\ _alt_tick_rate = 0 /\ nticks = 0
  /\ alarm_list = << >> /\ alarm = ListHead
  /\ time = [a \in Alarm |-> 0] /\ rollover = [a \in Alarm |-> FALSE]
  /\ left = [a \in Alarm |-> 0]

\* The driver of a system clock announces its rate once; the board support
\* package of this system has none, and then no alarm ever starts.
alt_sysclk_init ==
  /\ _alt_tick_rate = 0
  /\ _alt_tick_rate' = RATE
  /\ UNCHANGED <<nticks, alarm_list, time, rollover, alarm, left>>

\* Bug: the wrap of the sum is not noticed.
MutWraps(t) == FALSE

\* An alarm whose time is smaller than the counter waits for it to roll over.
Wraps(t) == t < nticks

alt_alarm_start(a, n) ==
  /\ BetweenTicks /\ _alt_tick_rate # 0 /\ a \notin Registered
  /\ alarm_list' = <<a>> \o alarm_list
  /\ time' = [time EXCEPT ![a] = Plus(Plus(n, nticks), 1)]
  /\ rollover' = [rollover EXCEPT ![a] = Wraps(time'[a])]
  /\ left' = [left EXCEPT ![a] = n + 1]
  /\ UNCHANGED <<_alt_tick_rate, nticks, alarm>>

alt_alarm_stop(a) ==
  /\ BetweenTicks /\ a \in Registered
  /\ alarm_list' = Without(alarm_list, a)
  /\ UNCHANGED <<_alt_tick_rate, nticks, time, rollover, alarm, left>>

-----------------------------------------------------------------------------
\* The tick interrupt: count, then walk the list.
alt_tick ==
  /\ BetweenTicks /\ _alt_tick_rate # 0
  /\ nticks' = Plus(nticks, 1)
  /\ alarm' = IF alarm_list = << >> THEN ListHead ELSE Head(alarm_list)
  /\ left' = [a \in Alarm |-> IF a \in Registered /\ left[a] > 0 THEN left[a] - 1 ELSE left[a]]
  /\ UNCHANGED <<_alt_tick_rate, alarm_list, time, rollover>>

\* Bug: the flag is never taken back.
MutRollover(a) == rollover[a]

\* The flag as it is once the counter has come round.
Rollover(a) == rollover[a] /\ nticks # 0

Expired(a) == time[a] <= nticks /\ ~Rollover(a)

\* A look at an alarm that has not run out.
Skip ==
  /\ ~BetweenTicks /\ ~Expired(alarm)
  /\ rollover' = [rollover EXCEPT ![alarm] = Rollover(alarm)]
  /\ alarm' = SuccessorOf(alarm)
  /\ UNCHANGED <<_alt_tick_rate, nticks, alarm_list, time, left>>

\* The callback has answered r; list is the list it left, started the alarms
\* it started (at most one) with the delay n.
AfterCallback(r, list, started, n) ==
  LET again == [a \in Alarm |-> CASE a = alarm /\ r # 0 -> Plus(time[a], r)
                                  [] a \in started -> Plus(Plus(n, nticks), 1)
                                  [] OTHER -> time[a]]
  IN /\ alarm_list' = IF r = 0 THEN Without(list, alarm) ELSE list
     /\ time' = again
     /\ rollover' = [a \in Alarm |->
          CASE a = alarm -> r # 0 /\ Wraps(again[a])
            [] a \in started -> Wraps(again[a])
            [] OTHER -> rollover[a]]
     /\ left' = [a \in Alarm |-> CASE a = alarm -> r [] a \in started -> n + 1
                                   [] OTHER -> left[a]]
     /\ alarm' = SuccessorOf(alarm)
     /\ UNCHANGED <<_alt_tick_rate, nticks>>

\* A callback may do nothing, start an alarm, or stop one, itself included.
\* It must not stop the alarm after its own: the walk would go on there, and
\* an alarm that was taken out leads back to itself.
Callback(r) ==
  /\ ~BetweenTicks /\ Expired(alarm)
  /\ \/ AfterCallback(r, alarm_list, {}, 0)
     \/ \E b \in Alarm \ Registered, n \in Delays :
          AfterCallback(r, <<b>> \o alarm_list, {b}, n)
     \/ \E b \in Registered \ {SuccessorOf(alarm)} :
          AfterCallback(r, Without(alarm_list, b), {}, 0)

AlarmNext ==
  \/ alt_sysclk_init
  \/ \E a \in Alarm, n \in Delays : alt_alarm_start(a, n)
  \/ \E a \in Alarm : alt_alarm_stop(a)
  \/ alt_tick
  \/ Skip
  \/ \E r \in Delays : Callback(r)

\* The clock runs and the interrupt handler is not left half-way.
AlarmFairness ==
  WF_alarmVars(alt_tick) /\ WF_alarmVars(Skip \/ \E r \in Delays : Callback(r))

AlarmSpec == AlarmInit /\ [][AlarmNext]_alarmVars /\ AlarmFairness

-----------------------------------------------------------------------------
\* The time of day, as seconds and microseconds.

UsPerTick == ALT_US \div RATE

\* settimeofday(): the time at which the counter was 0.  The product has the
\* width of alt_u32.
ALT_SETTIMEOFDAY(t) ==
  [sec |-> t.sec - nticks \div RATE,
   usec |-> t.usec - (((nticks * UsPerTick) % ULIMIT) % ALT_US)]

\* Bug: no borrow from the seconds.
MutBorrow(t) == t

Borrow(t) ==
  CASE t.usec >= 0 -> t
    [] t.usec < 0 /\ t.sec <= 0 -> [sec |-> 0, usec |-> 0]
    [] t.usec < 0 /\ t.sec > 0 -> [sec |-> t.sec - 1, usec |-> t.usec + ALT_US]

Carry(t) == IF t.usec < ALT_US THEN t ELSE [sec |-> t.sec + 1, usec |-> t.usec - ALT_US]

\* gettimeofday() at tick n: here the product is wide enough.
ALT_GETTIMEOFDAY(resettime, n) ==
  Carry(Borrow([sec |-> resettime.sec + n \div RATE,
                usec |-> resettime.usec + ((n * UsPerTick) % ALT_US)]))

-----------------------------------------------------------------------------
AlarmTypeOK ==
  /\ _alt_tick_rate \in {0, RATE}
  /\ nticks \in 0 .. ULIMIT - 1
  /\ alarm_list \in Seq(Alarm) /\ IsInjective(alarm_list)
  /\ time \in [Alarm -> 0 .. ULIMIT - 1]
  /\ rollover \in [Alarm -> BOOLEAN]
  /\ alarm \in Registered \cup {ListHead}
  /\ left \in [Alarm -> 0 .. ULIMIT - 1]

\* An alarm is called back on the very tick it asked for and on no other, from
\* its start or its last callback on, also when the counter or the alarm's time
\* rolls over in between, whatever callbacks do to the list meanwhile.
CallbackOnTime ==
  /\ ~BetweenTicks => (Expired(alarm) <=> left[alarm] = 0)
  /\ BetweenTicks => \A a \in Registered : left[a] > 0

\* A registered alarm gets its callback, unless it is stopped before.
AlarmComes ==
  \A a \in Alarm : a \in Registered ~> (alarm = a /\ Expired(a)) \/ a \notin Registered

\* After settimeofday(), gettimeofday() returns, normalised, the time that was
\* set plus the time that has passed, up to a drift that depends on nothing but
\* the tick of the setting: it is none as long as the product in settimeofday()
\* fits alt_u32, and from then on, where that product wraps and the one in
\* gettimeofday() does not, it is less than a second and stays the same until
\* the time is set again.  A time before 0 is returned as 0.  (The times are
\* those before the tick counter itself comes round.)
TimeOfDayKept ==
  \E drift \in 1 - ALT_US .. ALT_US - 1 :
    /\ nticks * UsPerTick < ULIMIT => drift = 0
    /\ \A sec \in Times, usec \in 0 .. ALT_US - 1, passed \in 0 .. ULIMIT - 1 - nticks :
         LET resettime == ALT_SETTIMEOFDAY([sec |-> sec, usec |-> usec])
             now == ALT_GETTIMEOFDAY(resettime, nticks + passed)
             due == sec * ALT_US + usec + passed * UsPerTick + drift
         IN /\ now.sec * ALT_US + now.usec = IF due >= 0 THEN due ELSE 0
            /\ now.usec \in 0 .. ALT_US - 1
=============================================================================
