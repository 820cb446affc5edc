-------------------------------- MODULE Cron --------------------------------
(***************************************************************************)
(* Cron jobs of apps (kelso/lib/lifecycle/cron.py, kelso/lib/cronexpr.py). *)
(* A tick, kelsod's or `kelso cron tick`, lists the jobs with their next   *)
(* times and runs the due ones of running apps in turn, recording each     *)
(* before it runs.  A lock that nobody waits for keeps ticks apart; each   *)
(* job runs under its app's lock, and is recorded under kelso's as well.   *)
(*                                                                         *)
(* Time is in minutes.  The calendar is scaled down: every month has as    *)
(* many days, every day as many hours, every hour as many minutes, and a   *)
(* week as many days as the constants say.  The host's clock may be set    *)
(* back by an hour once, as at the end of summer time.                     *)
(***************************************************************************)
EXTENDS Integers, Sequences, FiniteSets, Functions

CONSTANTS
    Jobs,        \* cron jobs, [app, name, fields]: the five fields as written
    Tickers,     \* processes that tick
    NoTime,      \* no record of a run, app not loaded
    Minutes, Hours, Days, Months, Week,   \* the calendar
    SetBack,     \* the minute at which the local clock is set back an hour
    CronEnd      \* bound: minutes

\* The calendar has every unit, and the clock is not set back past its beginning.
CronAssumption ==
    /\ IsFiniteSet(Jobs)
    /\ {Minutes, Hours, Days, Months, Week} \subseteq Nat \ {0}
    /\ CronEnd \in Nat /\ SetBack \in Nat /\ SetBack >= Minutes
    /\ NoTime \notin Nat

VARIABLES
    minute,   \* now
    lastRan,     \* per job, its record in the activity log, or NoTime
    loaded,   \* per app, when it was loaded, or NoTime
    running,  \* apps whose unit for the command is up
    busy,     \* apps whose lock another process has
    tick,     \* per ticker, its tick: where it is, when it began, the jobs left, and for
              \* the properties the jobs due when it began and those that failed
    ran       \* per job, when it was last recorded and the time before, at most

vars == <<minute, lastRan, loaded, running, busy, tick, ran>>

CronApps == {j.app : j \in Jobs}

-----------------------------------------------------------------------------
(* Schedules. *)

Minute(t)  == t % Minutes
Hour(t)    == (t \div Minutes) % Hours
DayNo(t)   == t \div (Minutes * Hours)
Day(t)     == (DayNo(t) % Days) + 1
Month(t)   == ((DayNo(t) \div Days) % Months) + 1
\* Python's Monday is 0, cron's Sunday is.
Weekday(t) == ((DayNo(t) % Week) + 1) % Week

Star  == -1
Unset == -2
\* Items of a field: a star, a span or a start, with or without a step; {} if
\* one is out of range.
parse_field(items, low, high) ==
    LET Step(i)  == IF i.step = Unset THEN 1 ELSE i.step
        Start(i) == IF i.from = Star THEN low ELSE i.from
        End(i)   == IF i.from = Star THEN high
                    ELSE IF i.to # Unset THEN i.to
                    ELSE IF i.step # Unset THEN high ELSE i.from
        Stepped(i) == {v \in Start(i)..End(i) : (v - Start(i)) % Step(i) = 0}
    IN  IF \E i \in items : ~(low <= Start(i) /\ Start(i) <= End(i) /\ End(i) <= high) THEN {}
        ELSE UNION {Stepped(i) : i \in items}

Every == {[from |-> Star, to |-> Unset, step |-> Unset]}
parse(f) ==
    [minutes  |-> parse_field(f.minute, 0, Minutes - 1),
     hours    |-> parse_field(f.hour, 0, Hours - 1),
     days     |-> parse_field(f.day, 1, Days),
     months   |-> parse_field(f.month, 1, Months),
     weekdays |-> {d % Week : d \in parse_field(f.weekday, 0, Week)},
     anyDay   |-> f.day = Every,
     anyWeekday |-> f.weekday = Every]

\* Both day fields restricted: either is enough.
day_matches(s, t) ==
    LET inDays == Day(t) \in s.days
        inWeek == Weekday(t) \in s.weekdays
    IN  /\ s.anyDay => s.anyWeekday \/ inWeek
        /\ ~s.anyDay => inDays \/ (~s.anyWeekday /\ inWeek)

\* The first minute of the next month, day or hour.
Begin(t, unit) == (t \div unit + 1) * unit
\* Mutant: a day that does not match is left for the same hour of the next.
SkipDay(s, t) ==
    CASE Month(t) \notin s.months -> Begin(t, Minutes * Hours * Days)
      [] Month(t) \in s.months /\ ~day_matches(s, t) -> t + Minutes * Hours
      [] Month(t) \in s.months /\ day_matches(s, t) /\ Hour(t) \notin s.hours -> Begin(t, Minutes)
      [] OTHER -> t + 1
\* Where the search goes from a minute that does not match.
Skip(s, t) ==
    CASE Month(t) \notin s.months -> Begin(t, Minutes * Hours * Days)
      [] Month(t) \in s.months /\ ~day_matches(s, t) -> Begin(t, Minutes * Hours)
      [] Month(t) \in s.months /\ day_matches(s, t) /\ Hour(t) \notin s.hours -> Begin(t, Minutes)
      [] OTHER -> t + 1

Matches(s, t) == /\ Month(t) \in s.months /\ day_matches(s, t)
                 /\ Hour(t) \in s.hours /\ Minute(t) \in s.minutes

\* The search ends after five years at the latest; here, a year past the end.
Limit == CronEnd + Minutes * Hours * Days * Months
next_after(s, t) ==
    LET seek[at \in 0..(2 * Limit)] ==
            IF at >= Limit THEN Limit ELSE IF Matches(s, at) THEN at ELSE seek[Skip(s, at)]
    IN  seek[t + 1]

\* The local clock, and the minute it is first read at.
Local(t) == IF t >= SetBack THEN t - Minutes ELSE t
Instant(l) == IF l >= SetBack THEN l + Minutes ELSE l
next(j, since) == Instant(next_after(parse(j.fields), Local(since)))

\* For the properties: a scheduled minute after one and not after the other; an
\* hour that passes twice counts the first time.
Scheduled(j, from, to) ==
    \E t \in (from + 1)..to \ SetBack..(SetBack + Minutes - 1) : Matches(parse(j.fields), Local(t))

-----------------------------------------------------------------------------

Idle == [pc |-> "idle", began |-> 0, jobs |-> <<>>, due |-> {}, failed |-> {}]

Init ==
    /\ minute = 0
    /\ lastRan = [j \in Jobs |-> NoTime]
    /\ loaded = [a \in CronApps |-> NoTime]
    /\ running = {} /\ busy = {}
    /\ tick = [k \in Tickers |-> Idle]
    /\ ran = [j \in Jobs |-> <<>>]

\* The clock goes on whatever the others do.
Clock ==
    /\ minute < CronEnd /\ minute' = minute + 1
    /\ UNCHANGED <<lastRan, loaded, running, busy, tick, ran>>

\* Other verbs: load, unload, up and down, and one that has the app's lock.
\* An app's records stay when it is unloaded.
Verb(a) ==
    /\ \/ /\ a \notin busy /\ busy' = busy \cup {a} /\ UNCHANGED <<loaded, running>>
          /\ \A k \in Tickers : ~(tick[k].pc \in {"lock", "command"} /\ tick[k].jobs[1].app = a)
       \/ /\ a \in busy /\ busy' = busy \ {a}
          /\ \/ loaded' = [loaded EXCEPT ![a] = minute] /\ UNCHANGED running
             \/ loaded' = [loaded EXCEPT ![a] = NoTime] /\ running' = running \ {a}
             \/ loaded[a] # NoTime /\ running' = running \cup {a} /\ UNCHANGED loaded
             \/ running' = running \ {a} /\ UNCHANGED loaded
    /\ UNCHANGED <<minute, lastRan, tick, ran>>

Since(j) == IF lastRan[j] # NoTime THEN lastRan[j] ELSE loaded[j.app]
\* Jobs listed soonest first, those of one time by name; of two apps, either.
cron_runs(jobs) ==
    LET Before(i, j) == \/ next(i, Since(i)) < next(j, Since(j))
                        \/ next(i, Since(i)) = next(j, Since(j)) /\ i.name < j.name
    IN  {s \in [1..Cardinality(jobs) -> jobs] :
            /\ IsInjective(s) /\ Range(s) = jobs
            /\ \A m, n \in DOMAIN s : m < n => ~Before(s[n], s[m])}
Due(j, t) == next(j, Since(j)) <= t

\* Mutant: a tick does not mind another.
TickAnyway(k) == TRUE
\* The lock, acquired or given up at once.
cron_lock(k) == \A o \in Tickers : tick[o].pc = "idle"

\* tick: the due jobs of running apps, as they stand when they are listed.
Tick(k) ==
    /\ tick[k].pc = "idle" /\ cron_lock(k)
    /\ LET listed == {j \in Jobs : loaded[j.app] # NoTime /\ j.app \in running}
           ready  == {j \in listed : Due(j, minute)}
           due    == {j \in listed : Scheduled(j, Since(j), minute)}
       IN  \E jobs \in cron_runs(ready) :
             tick' = [tick EXCEPT ![k] = [pc |-> "next", began |-> minute, jobs |-> jobs,
                                          due |-> due, failed |-> {}]]
    /\ UNCHANGED <<minute, lastRan, loaded, running, busy, ran>>

\* A failed job does not end the tick; not recorded, it stays due.
Fails(k) ==
    /\ tick' = [tick EXCEPT ![k].pc = "next", ![k].jobs = Tail(@),
                            ![k].failed = @ \cup {tick[k].jobs[1]}]
    /\ UNCHANGED <<lastRan, ran>>

\* Recorded before it runs.
Record(k) ==
    LET j == tick[k].jobs[1]
    IN  /\ lastRan' = [lastRan EXCEPT ![j] = minute]
        /\ ran' = [ran EXCEPT ![j] = IF @ = <<>> THEN <<minute>> ELSE <<minute, @[1]>>]

\* _run: the app's lock is had, or not in time.
AppLock(k) ==
    /\ tick[k].pc = "next" /\ tick[k].jobs # <<>>
    /\ \/ /\ tick[k].jobs[1].app \notin busy
          /\ tick' = [tick EXCEPT ![k].pc = "lock"] /\ UNCHANGED <<lastRan, ran>>
       \/ tick[k].jobs[1].app \in busy /\ Fails(k)
    /\ UNCHANGED <<minute, loaded, running, busy>>

\* Then kelso's, which any other verb may have, for longer than is waited for it
\* through a git fetch say: the app's is let go again.  Else the job is recorded,
\* and runs.
RunJob(k) ==
    /\ tick[k].pc = "lock"
    /\ \/ Record(k) /\ tick' = [tick EXCEPT ![k].pc = "command"]
       \/ Fails(k)
    /\ UNCHANGED <<minute, loaded, running, busy>>

\* The command ends, fails, or is left running after its time: all the same
\* to the tick, which goes on.
CommandEnds(k) ==
    /\ tick[k].pc = "command"
    /\ tick' = [tick EXCEPT ![k].pc = "next", ![k].jobs = Tail(@)]
    /\ UNCHANGED <<minute, lastRan, loaded, running, busy, ran>>

TickEnds(k) ==
    /\ tick[k].pc = "next" /\ tick[k].jobs = <<>>
    /\ tick' = [tick EXCEPT ![k] = Idle]
    /\ UNCHANGED <<minute, lastRan, loaded, running, busy, ran>>

\* The process is killed; its locks go with it.
TickDies(k) ==
    /\ tick[k].pc # "idle" /\ tick' = [tick EXCEPT ![k] = Idle]
    /\ UNCHANGED <<minute, lastRan, loaded, running, busy, ran>>

Next == \/ Clock \/ \E a \in CronApps : Verb(a)
        \/ \E k \in Tickers : Tick(k) \/ AppLock(k) \/ RunJob(k) \/ CommandEnds(k) \/ TickEnds(k) \/ TickDies(k)

Spec == Init /\ [][Next]_vars

-----------------------------------------------------------------------------
(* Properties. *)

\* "A job that crashes waits for its next time rather than running again every
\* tick": between two runs of a job lies a time it is scheduled for, whichever
\* process ticks and wherever one is killed.  Not so in the hour after the clock
\* is set back: the next time is read as the hour's first passing.
OncePerTime ==
    \A j \in Jobs : Len(ran[j]) = 2 /\ ran[j][2] \notin SetBack..(SetBack + Minutes - 1)
        => Scheduled(j, ran[j][2], ran[j][1])

\* A tick that came to its end has run every job that was due when it began and
\* whose app was running, unless another process had the app's lock or kelso's
\* when its turn came: no scheduled minute is passed over by the search for the
\* next.
NoneLeftDue ==
    \A k \in Tickers : tick[k].pc = "next" /\ tick[k].jobs = <<>> =>
        \A j \in tick[k].due \ tick[k].failed : lastRan[j] # NoTime /\ lastRan[j] >= tick[k].began
=============================================================================
