----------------------------- MODULE CronProofs -----------------------------
(***************************************************************************)
(* Proofs about Cron, for any calendar, jobs and processes: the search for *)
(* a schedule's next time finds the first minute that matches, a job runs  *)
(* once for a scheduled time, and a tick that ends leaves none due.        *)
(***************************************************************************)
EXTENDS MCHost, FiniteSetTheorems, WellFoundedInduction, TLAPS

-----------------------------------------------------------------------------
(* The calendar. *)

LEMMA Counts ==
    /\ Minutes \in Nat /\ Minutes > 0 /\ Hours \in Nat /\ Hours > 0
    /\ Days \in Nat /\ Days > 0 /\ Months \in Nat /\ Months > 0
    /\ Week \in Nat /\ Week > 0
    /\ CronEnd \in Nat /\ SetBack \in Nat /\ SetBack >= Minutes /\ NoTime \notin Nat
BY CalendarAssumption DEF C!CronAssumption

LEMMA Divide ==
    ASSUME NEW t \in Nat, NEW n \in Nat, n > 0
    PROVE  /\ t \div n \in Nat
           /\ (t \div n) * n <= t /\ t < (t \div n + 1) * n
OBVIOUS

LEMMA Quotient ==
    ASSUME NEW t \in Nat, NEW n \in Nat, n > 0, NEW q \in Nat, q * n <= t, t < (q + 1) * n
    PROVE  t \div n = q
OBVIOUS

LEMMA Times ==
    ASSUME NEW a \in Nat, NEW b \in Nat, a > 0, b > 0
    PROVE  a * b \in Nat /\ a * b > 0 /\ a <= a * b
OBVIOUS

LEMMA DivideTwice ==
    ASSUME NEW t \in Nat, NEW a \in Nat, NEW b \in Nat, a > 0, b > 0
    PROVE  (t \div a) \div b = t \div (a * b)
<1> DEFINE u == t \div a
           q == u \div b
<1>1. u \in Nat /\ u * a <= t /\ t < (u + 1) * a
  BY Divide
<1>2. q \in Nat /\ q * b <= u /\ u < (q + 1) * b
  BY <1>1, Divide
<1> HIDE DEF u, q
<1>3. (q * b) * a <= u * a /\ (u + 1) * a <= ((q + 1) * b) * a
  BY <1>1, <1>2
<1>4. q * (a * b) <= t /\ t < (q + 1) * (a * b)
  BY <1>1, <1>2, <1>3
<1> QED BY <1>2, <1>4, Times, Quotient DEF u, q

\* Minutes of one part of the calendar are in the same part of the larger ones.
LEMMA SameBlock ==
    ASSUME NEW t \in Nat, NEW n \in Nat, n > 0, NEW u \in t..(C!Begin(t, n) - 1)
    PROVE  u \in Nat /\ u \div n = t \div n
<1>1. /\ t \div n \in Nat /\ (t \div n) * n <= t /\ t < (t \div n + 1) * n
  BY Divide
<1>2. u \in Nat /\ (t \div n) * n <= u /\ u < (t \div n + 1) * n
  BY <1>1 DEF C!Begin
<1> QED BY <1>1, <1>2, Quotient

LEMMA NextBlock ==
    ASSUME NEW t \in Nat, NEW n \in Nat, n > 0
    PROVE  C!Begin(t, n) \in Nat /\ t < C!Begin(t, n) /\ C!Begin(t, n) <= t + n
<1>1. /\ t \div n \in Nat /\ (t \div n) * n <= t /\ t < (t \div n + 1) * n
  BY Divide
<1>2. (t \div n + 1) * n = (t \div n) * n + n /\ (t \div n) * n \in Nat
  BY <1>1
<1> QED BY <1>1, <1>2 DEF C!Begin

LEMMA Units ==
    /\ Minutes * Hours \in Nat /\ Minutes * Hours > 0
    /\ Minutes * Hours * Days \in Nat /\ Minutes * Hours * Days > 0
    /\ Minutes * Hours * Days * Months \in Nat
    /\ Minutes <= Minutes * Hours /\ Minutes * Hours <= Minutes * Hours * Days
    /\ Minutes * Hours * Days <= Minutes * Hours * Days * Months
<1> DEFINE day == Minutes * Hours
           month == day * Days
<1>2. day \in Nat /\ day > 0 /\ Minutes <= day
  BY Times, Counts
<1> HIDE DEF day
<1>3. month \in Nat /\ month > 0 /\ day <= month
  BY Times, <1>2, Counts
<1> HIDE DEF month
<1>4. month * Months \in Nat /\ month <= month * Months
  BY Times, <1>3, Counts
<1> QED BY <1>2, <1>3, <1>4 DEF month, day

LEMMA SameHour ==
    ASSUME NEW t \in Nat, NEW u \in Nat, u \div Minutes = t \div Minutes
    PROVE  C!Hour(u) = C!Hour(t)
BY DEF C!Hour

LEMMA SameDay ==
    ASSUME NEW t \in Nat, NEW u \in Nat, C!DayNo(u) = C!DayNo(t), NEW s
    PROVE  (C!day_matches(s, u) <=> C!day_matches(s, t)) /\ C!Month(u) = C!Month(t)
BY DEF C!day_matches, C!Day, C!Weekday, C!Month

\* The search passes over no minute that matches.
LEMMA SkipsNone ==
    ASSUME NEW s, NEW t \in Nat, ~C!Matches(s, t)
    PROVE  /\ C!Skip(s, t) \in Nat /\ t < C!Skip(s, t)
           /\ C!Skip(s, t) <= t + Minutes * Hours * Days
           /\ \A u \in t..(C!Skip(s, t) - 1) : ~C!Matches(s, u)
<1> DEFINE day == Minutes * Hours
           month == Minutes * Hours * Days
<1>1. /\ day \in Nat /\ day > 0 /\ month \in Nat /\ month > 0
      /\ Minutes <= month /\ day <= month /\ Minutes \in Nat /\ Minutes > 0
  BY Units, Counts
<1>2. month = day * Days
  BY DEF day, month
<1> HIDE DEF day, month
<1>3. CASE C!Month(t) \notin s.months
  <2>1. C!Skip(s, t) = C!Begin(t, month)
    BY <1>3 DEF C!Skip, month
  <2>2. ASSUME NEW u \in t..(C!Begin(t, month) - 1) PROVE C!Month(u) = C!Month(t)
    <3>1. u \in Nat /\ u \div month = t \div month
      BY <1>1, SameBlock
    <3>2. (u \div day) \div Days = u \div month /\ (t \div day) \div Days = t \div month
      BY <1>1, <1>2, <3>1, DivideTwice, Counts
    <3> QED BY <3>1, <3>2 DEF C!Month, C!DayNo, day
  <2>3. \A u \in t..(C!Begin(t, month) - 1) : ~C!Matches(s, u)
    BY <1>3, <2>2 DEF C!Matches
  <2> QED BY <1>1, <2>1, <2>3, NextBlock DEF month
<1>4. CASE C!Month(t) \in s.months /\ ~C!day_matches(s, t)
  <2>1. C!Skip(s, t) = C!Begin(t, day)
    BY <1>4 DEF C!Skip, day
  <2>2. ASSUME NEW u \in t..(C!Begin(t, day) - 1) PROVE ~C!day_matches(s, u)
    <3>1. u \in Nat /\ u \div day = t \div day
      BY <1>1, SameBlock
    <3>2. C!DayNo(u) = C!DayNo(t)
      BY <3>1 DEF C!DayNo, day
    <3> QED BY <1>4, <3>1, <3>2, SameDay
  <2>3. \A u \in t..(C!Begin(t, day) - 1) : ~C!Matches(s, u)
    BY <2>2 DEF C!Matches
  <2>4. /\ C!Begin(t, day) \in Nat /\ t < C!Begin(t, day) /\ C!Begin(t, day) <= t + day
    BY <1>1, NextBlock
  <2>5. t + day <= t + month
    BY <1>1
  <2>6. C!Begin(t, day) <= t + month
    BY <1>1, <2>4, <2>5
  <2> QED BY <2>1, <2>3, <2>4, <2>6 DEF month
<1>5. CASE C!Month(t) \in s.months /\ C!day_matches(s, t) /\ C!Hour(t) \notin s.hours
  <2>1. C!Skip(s, t) = C!Begin(t, Minutes)
    BY <1>5 DEF C!Skip
  <2>2. ASSUME NEW u \in t..(C!Begin(t, Minutes) - 1) PROVE C!Hour(u) = C!Hour(t)
    <3>1. u \in Nat /\ u \div Minutes = t \div Minutes
      BY <1>1, SameBlock
    <3> QED BY <3>1, SameHour
  <2>3. \A u \in t..(C!Begin(t, Minutes) - 1) : ~C!Matches(s, u)
    BY <1>5, <2>2 DEF C!Matches
  <2>4. /\ C!Begin(t, Minutes) \in Nat /\ t < C!Begin(t, Minutes)
        /\ C!Begin(t, Minutes) <= t + Minutes
    BY <1>1, NextBlock
  <2>5. C!Begin(t, Minutes) <= t + month
    BY <1>1, <2>4
  <2> QED BY <2>1, <2>3, <2>4, <2>5 DEF month
<1>6. CASE C!Month(t) \in s.months /\ C!day_matches(s, t) /\ C!Hour(t) \in s.hours
  <2>1. C!Skip(s, t) = t + 1
    BY <1>6 DEF C!Skip
  <2>2. \A u \in t..t : u = t
    OBVIOUS
  <2>3. t..(C!Skip(s, t) - 1) = t..t
    BY <2>1
  <2> QED BY <1>1, <2>1, <2>2, <2>3 DEF month
<1> QED BY <1>3, <1>4, <1>5, <1>6

-----------------------------------------------------------------------------
(* The search. *)

Moments == 0..(2 * C!Limit)
\* The first minute from t on that matches, or the limit; and a search for it.
Upcoming(s, t) == {u \in t..(C!Limit - 1) : C!Matches(s, u)}
IsFirst(s, t, u) ==
    IF Upcoming(s, t) = {} THEN u = C!Limit
                           ELSE u \in Upcoming(s, t) /\ \A w \in Upcoming(s, t) : u <= w
Seek(s, f) ==
    f = [t \in Moments |-> IF t >= C!Limit THEN C!Limit
                           ELSE IF C!Matches(s, t) THEN t ELSE f[C!Skip(s, t)]]

LEMMA LimitFar ==
    C!Limit \in Nat /\ Minutes * Hours * Days <= C!Limit /\ CronEnd < C!Limit
<1>1. 1 <= Minutes * Hours * Days * Months
  BY Units, Counts
<1> QED BY <1>1, Units, Counts DEF C!Limit

LEMMA Smallest ==
    ASSUME NEW S \in SUBSET Nat, S # {}
    PROVE  \E n \in S : \A m \in S : n <= m
<1>1. PICK n \in S : \A m \in S : ~(<<m, n>> \in OpToRel(<, Nat))
  BY NatLessThanWellFounded, WFMin
<1>2. \A m \in S : ~(m < n)
  BY <1>1 DEF OpToRel
<1> QED BY <1>2

LEMMA FirstIs == ASSUME NEW s, NEW t \in Nat PROVE \E u \in Nat : IsFirst(s, t, u)
<1>1. C!Limit \in Nat /\ Upcoming(s, t) \in SUBSET Nat
  BY LimitFar DEF Upcoming
<1>2. CASE Upcoming(s, t) = {}
  BY <1>1, <1>2 DEF IsFirst
<1>3. CASE Upcoming(s, t) # {}
  BY <1>1, <1>3, Smallest DEF IsFirst
<1> QED BY <1>2, <1>3

LEMMA FirstUnique ==
    ASSUME NEW s, NEW t \in Nat, NEW u, NEW w, IsFirst(s, t, u), IsFirst(s, t, w)
    PROVE  u = w
BY LimitFar DEF Upcoming, IsFirst

\* Where the search goes there is the same to be found.
LEMMA FirstSkips ==
    ASSUME NEW s, NEW t \in Nat, t < C!Limit, ~C!Matches(s, t)
    PROVE  /\ C!Skip(s, t) \in Moments /\ t < C!Skip(s, t)
           /\ Upcoming(s, C!Skip(s, t)) = Upcoming(s, t)
<1>1. /\ C!Skip(s, t) \in Nat /\ t < C!Skip(s, t)
      /\ C!Skip(s, t) <= t + Minutes * Hours * Days
      /\ \A u \in t..(C!Skip(s, t) - 1) : ~C!Matches(s, u)
  BY SkipsNone
<1>2. C!Skip(s, t) <= 2 * C!Limit
  BY <1>1, LimitFar, Units
<1>3. \A u \in t..(C!Limit - 1) : C!Matches(s, u) => u \in C!Skip(s, t)..(C!Limit - 1)
  BY <1>1, LimitFar
<1> QED BY <1>1, <1>2, <1>3, LimitFar DEF Moments, Upcoming

LEMMA FirstHere ==
    ASSUME NEW s, NEW t \in Nat, t < C!Limit, C!Matches(s, t) PROVE IsFirst(s, t, t)
BY LimitFar DEF IsFirst, Upcoming

LEMMA FirstNone == ASSUME NEW s, NEW t \in Nat, t >= C!Limit PROVE IsFirst(s, t, C!Limit)
BY LimitFar DEF IsFirst, Upcoming

\* There is such a search, and every one finds the first.
LEMMA Seeks == ASSUME NEW s PROVE \E f : Seek(s, f)
<1> DEFINE f == [t \in Moments |-> CHOOSE u \in Nat : IsFirst(s, t, u)]
<1>1. Moments \subseteq Nat
  BY LimitFar DEF Moments
<1>2. ASSUME NEW t \in Moments PROVE f[t] \in Nat /\ IsFirst(s, t, f[t])
  BY <1>1, FirstIs
<1> HIDE DEF f
<1>3. ASSUME NEW t \in Moments
      PROVE  f[t] = IF t >= C!Limit THEN C!Limit
                    ELSE IF C!Matches(s, t) THEN t ELSE f[C!Skip(s, t)]
  <2>1. CASE t >= C!Limit
    BY <1>1, <1>2, <2>1, FirstNone, FirstUnique
  <2>2. CASE t < C!Limit /\ C!Matches(s, t)
    <3>1. ~(t >= C!Limit)
      BY <1>1, <2>2, LimitFar
    <3> QED BY <1>1, <1>2, <2>2, <3>1, FirstHere, FirstUnique
  <2>3. CASE t < C!Limit /\ ~C!Matches(s, t)
    <3>1. C!Skip(s, t) \in Moments /\ Upcoming(s, C!Skip(s, t)) = Upcoming(s, t)
      BY <1>1, <2>3, FirstSkips
    <3>2. IsFirst(s, t, f[C!Skip(s, t)])
      BY <1>2, <3>1 DEF IsFirst
    <3>3. ~(t >= C!Limit)
      BY <1>1, <2>3, LimitFar
    <3>4. f[t] = f[C!Skip(s, t)]
      BY <1>1, <1>2, <3>2, FirstUnique
    <3> QED BY <2>3, <3>3, <3>4
  <2> QED BY <1>1, <2>1, <2>2, <2>3, LimitFar
<1>4. f = [t \in Moments |-> f[t]]
  BY DEF f
<1>5. Seek(s, f)
  BY <1>3, <1>4 DEF Seek
<1> QED BY <1>5

\* Otherwise there is a last minute from which it finds something else.
LEMMA SeekFinds ==
    ASSUME NEW s, NEW f, Seek(s, f), NEW t \in Moments PROVE IsFirst(s, t, f[t])
<1> DEFINE Back(w) == 2 * C!Limit - w
           Wrong == {Back(w) : w \in {v \in Moments : ~IsFirst(s, v, f[v])}}
<1>0. Moments \subseteq Nat /\ C!Limit \in Nat
  BY LimitFar DEF Moments
<1>1. SUFFICES ASSUME Wrong # {} PROVE FALSE
  OBVIOUS
<1>2. Wrong \in SUBSET Nat
  BY LimitFar DEF Moments
<1>3. PICK b \in Wrong : \A c \in Wrong : b <= c
  BY <1>1, <1>2, Smallest
<1>4. PICK w \in Moments : ~IsFirst(s, w, f[w]) /\ b = Back(w)
  BY <1>3
<1>5. \A v \in Moments : v > w => IsFirst(s, v, f[v])
  <2> SUFFICES ASSUME NEW v \in Moments, v > w, ~IsFirst(s, v, f[v]) PROVE FALSE
    OBVIOUS
  <2>1. Back(v) \in Wrong
    OBVIOUS
  <2>2. Back(w) <= Back(v)
    BY <1>3, <1>4, <2>1
  <2> QED BY <1>0, <1>4, <2>2
<1> HIDE DEF Wrong
<1>6. f[w] = IF w >= C!Limit THEN C!Limit ELSE IF C!Matches(s, w) THEN w ELSE f[C!Skip(s, w)]
  BY <1>4 DEF Seek
<1>7. CASE w >= C!Limit
  BY <1>0, <1>4, <1>6, <1>7, FirstNone
<1>8. CASE w < C!Limit /\ C!Matches(s, w)
  <2>1. ~(w >= C!Limit)
    BY <1>0, <1>8
  <2> QED BY <1>0, <1>4, <1>6, <1>8, <2>1, FirstHere
<1>9. CASE w < C!Limit /\ ~C!Matches(s, w)
  <2>1. /\ C!Skip(s, w) \in Moments /\ w < C!Skip(s, w)
        /\ Upcoming(s, C!Skip(s, w)) = Upcoming(s, w)
    BY <1>0, <1>9, FirstSkips
  <2>2. ~(w >= C!Limit)
    BY <1>0, <1>9
  <2>3. IsFirst(s, C!Skip(s, w), f[C!Skip(s, w)])
    BY <1>0, <1>5, <2>1
  <2>4. IsFirst(s, w, f[w])
    BY <1>6, <1>9, <2>1, <2>2, <2>3 DEF IsFirst
  <2> QED BY <1>4, <2>4
<1> QED BY <1>0, <1>7, <1>8, <1>9

\* The search for a schedule's next time gives the first minute after that matches, and the
\* limit if there is none: none is passed over, whatever the calendar (CronSchedule.next_after).
THEOREM FindsNext ==
    ASSUME NEW s, NEW t \in Int, t + 1 \in Moments
    PROVE  IsFirst(s, t + 1, C!next_after(s, t))
<1> DEFINE found == CHOOSE f : Seek(s, f)
<1>1. Seek(s, found)
  BY Seeks
<1>2. C!next_after(s, t) = found[t + 1]
  BY DEF C!next_after, Seek, Moments
<1> QED BY <1>1, <1>2, SeekFinds

-----------------------------------------------------------------------------
(* The local clock. *)

Second == SetBack..(SetBack + Minutes - 1)  \* the hour that passes a second time

LEMMA Clocks ==
    ASSUME NEW t \in 0..CronEnd
    PROVE  /\ C!Local(t) \in Nat /\ C!Local(t) + 1 \in Moments /\ C!Local(t) <= t
           /\ t \notin Second => C!Instant(C!Local(t)) = t
BY Counts, LimitFar DEF C!Local, C!Instant, Moments, Second

LEMMA Instants ==
    ASSUME NEW l \in Nat
    PROVE  /\ C!Instant(l) \in Nat /\ l <= C!Instant(l)
           /\ C!Instant(l) \notin Second /\ C!Local(C!Instant(l)) = l
BY Counts DEF C!Local, C!Instant, Second

LEMMA LocalLater ==
    ASSUME NEW t \in 0..CronEnd, NEW u \in 0..CronEnd, t < u, u \notin Second
    PROVE  C!Local(t) < C!Local(u)
BY Counts DEF C!Local, Second

LEMMA InstantLater ==
    ASSUME NEW t \in 0..CronEnd, t \notin Second, NEW l \in Nat, C!Local(t) < l
    PROVE  t < C!Instant(l)
BY Counts DEF C!Local, C!Instant, Second

\* A job is due when a minute it is scheduled for has passed since, and only then.
LEMMA DueIfScheduled ==
    ASSUME NEW j, NEW since \in 0..CronEnd, NEW now \in 0..CronEnd
    PROVE  /\ C!Scheduled(j, since, now) => C!next(j, since) <= now
           /\ since \notin Second /\ C!next(j, since) <= now => C!Scheduled(j, since, now)
<1> DEFINE s == C!parse(j.fields)
           from == C!Local(since) + 1
           l == C!next_after(s, C!Local(since))
<1>1. from \in Nat /\ from \in Moments /\ C!Local(since) \in Nat
  BY Clocks
<1>2. IsFirst(s, from, l)
  BY <1>1, FindsNext
<1>3. C!next(j, since) = C!Instant(l)
  BY DEF C!next
<1>4. C!Scheduled(j, since, now) <=>
          \E t \in ((since + 1)..now) \ Second : C!Matches(s, C!Local(t))
  BY DEF C!Scheduled, Second
<1> HIDE DEF s, l
<1>5. l \in Nat
  BY <1>1, <1>2, LimitFar DEF IsFirst, Upcoming
<1>6. ASSUME NEW t \in ((since + 1)..now) \ Second, C!Matches(s, C!Local(t))
      PROVE  C!next(j, since) <= now
  <2>1. t \in 0..CronEnd /\ since < t /\ t <= now
    BY Counts
  <2>2. C!Local(t) \in Nat /\ C!Instant(C!Local(t)) = t /\ C!Local(t) <= t
    BY <2>1, <1>6, Clocks
  <2>3. C!Local(t) \in Upcoming(s, from)
    BY <1>1, <1>6, <2>1, <2>2, LocalLater, LimitFar, Counts DEF Upcoming
  <2>4. l <= C!Local(t)
    BY <1>2, <2>3 DEF IsFirst
  <2>5. C!Instant(l) <= C!Instant(C!Local(t))
    BY <1>5, <2>2, <2>4, Counts DEF C!Instant
  <2> QED BY <1>3, <1>5, <2>1, <2>2, <2>5, Instants
<1>7. ASSUME since \notin Second, C!next(j, since) <= now PROVE C!Scheduled(j, since, now)
  <2>1. C!Instant(l) \in Nat /\ l <= C!Instant(l) /\ C!Instant(l) \notin Second
        /\ C!Local(C!Instant(l)) = l
    BY <1>5, Instants
  <2>2. l # C!Limit
    BY <1>3, <1>5, <1>7, <2>1, LimitFar, Counts
  <2>3. l \in Upcoming(s, from)
    BY <1>2, <2>2 DEF IsFirst
  <2>4. C!Local(since) < l /\ C!Matches(s, l)
    BY <1>1, <1>5, <2>3 DEF Upcoming
  <2>5. since < C!Instant(l)
    BY <1>5, <1>7, <2>4, InstantLater
  <2> QED BY <1>3, <1>4, <1>7, <2>1, <2>4, <2>5
<1> QED BY <1>4, <1>6, <1>7

-----------------------------------------------------------------------------
(***************************************************************************)
(* Ticks.  One ticks at a time.  A job on its list that has run before was *)
(* due when the list was made and has not run since; one that was due then *)
(* is on the list still, failed, or has run.                               *)
(***************************************************************************)

Past == {NoTime} \cup (0..minute)

Once(j, from, to) == from \notin Second => C!Scheduled(j, from, to)
RanAsRecorded(j) ==
    \/ lastRan[j] = NoTime /\ ran[j] = <<>>
    \/ \E a \in 0..minute :
         /\ lastRan[j] = a
         /\ \/ ran[j] = <<a>>
            \/ \E b \in 0..a : ran[j] = <<a, b>> /\ Once(j, b, a)

HasRun(j, t) == lastRan[j] # NoTime /\ lastRan[j] >= t.began
Pending(t) == {n \in DOMAIN t.jobs : t.pc = "command" => n # 1}
TickTypes(t) ==
    /\ t.pc \in {"next", "lock", "command"} /\ t.began \in 0..minute
    /\ t.jobs \in Seq(CronJobs) /\ t.due \subseteq CronJobs
    /\ \A m, n \in DOMAIN t.jobs : t.jobs[m] = t.jobs[n] => m = n
TickSound(t) ==
    /\ t.pc = "lock" => t.jobs # <<>>
    /\ t.pc = "command" => t.jobs # <<>> /\ HasRun(t.jobs[1], t)
    /\ \A n \in Pending(t) :
         lastRan[t.jobs[n]] # NoTime => C!next(t.jobs[n], lastRan[t.jobs[n]]) <= t.began
    /\ \A j \in t.due \ t.failed : (\E n \in Pending(t) : t.jobs[n] = j) \/ HasRun(j, t)

CronTypes ==
    /\ minute \in 0..CronEnd
    /\ lastRan \in [CronJobs -> Past] /\ loaded \in [C!CronApps -> Past]
    /\ DOMAIN tick = Tickers /\ DOMAIN ran = CronJobs
OneTicks == \A k, o \in Tickers : tick[k].pc # "idle" /\ tick[o].pc # "idle" => k = o
CronInv ==
    /\ CronTypes /\ OneTicks
    /\ \A j \in CronJobs : RanAsRecorded(j)
    /\ \A k \in Tickers : tick[k].pc # "idle" => TickTypes(tick[k]) /\ TickSound(tick[k])

LEMMA CronInit == ASSUME C!Init PROVE CronInv
<1>1. CronTypes
  BY Counts DEF C!Init, CronTypes, Past
<1>2. \A k \in Tickers : tick[k].pc = "idle"
  BY DEF C!Init, C!Idle
<1>3. \A j \in CronJobs : lastRan[j] = NoTime /\ ran[j] = <<>>
  BY DEF C!Init
<1> QED BY <1>1, <1>2, <1>3 DEF CronInv, OneTicks, RanAsRecorded

\* What is left as it is while the clock goes on.
LEMMA ClockKeeps ==
    ASSUME CronInv, minute' \in minute..CronEnd, UNCHANGED <<lastRan, ran>>,
           loaded' \in [C!CronApps -> Past']
    PROVE  /\ (DOMAIN tick' = Tickers) => CronTypes'
           /\ \A j \in CronJobs : RanAsRecorded(j)'
           /\ \A t : TickTypes(t) => TickTypes(t)'
           /\ \A t : TickSound(t) => TickSound(t)'
<1>1. minute \in 0..CronEnd /\ CronEnd \in Nat
  BY Counts DEF CronInv, CronTypes
<1>2. 0..minute \subseteq 0..minute' /\ minute' \in 0..CronEnd
  BY <1>1
<1>3. lastRan' \in [CronJobs -> Past']
  BY <1>2 DEF CronInv, CronTypes, Past
<1>4. ASSUME NEW j \in CronJobs PROVE RanAsRecorded(j)'
  <2>1. RanAsRecorded(j)
    BY DEF CronInv
  <2>3. \A a, b : Once(j, b, a) => Once(j, b, a)'
    BY DEF Once
  <2> QED BY <1>2, <2>1, <2>3 DEF RanAsRecorded
<1>5. \A t : TickTypes(t) => TickTypes(t)'
  BY <1>2 DEF TickTypes
<1>6. \A t : TickSound(t) => TickSound(t)'
  BY DEF TickSound, HasRun, Pending
<1>7. (DOMAIN tick' = Tickers) => CronTypes'
  BY <1>2, <1>3 DEF CronInv, CronTypes, Past
<1> QED BY <1>4, <1>5, <1>6, <1>7

\* A step of one ticker's tick that leaves clock and records alone.
LEMMA TickKeeps ==
    ASSUME CronInv, UNCHANGED <<minute, lastRan, loaded, ran>>,
           NEW k \in Tickers, NEW t, tick' = [tick EXCEPT ![k] = t],
           \/ t.pc = "idle"
           \/ /\ tick[k].pc # "idle" \/ \A o \in Tickers : tick[o].pc = "idle"
              /\ TickTypes(t) /\ TickSound(t)
    PROVE  CronInv'
<1>1. minute' \in minute..CronEnd /\ loaded' \in [C!CronApps -> Past']
  BY Counts DEF CronInv, CronTypes, Past
<1>2. DOMAIN tick' = Tickers /\ tick'[k] = t /\ \A o \in Tickers : o # k => tick'[o] = tick[o]
  BY DEF CronInv, CronTypes
<1>3. CronTypes' /\ \A j \in CronJobs : RanAsRecorded(j)'
  BY <1>1, <1>2, ClockKeeps
<1>4. OneTicks'
  BY <1>2 DEF CronInv, OneTicks
<1>5. ASSUME NEW o \in Tickers, tick'[o].pc # "idle"
      PROVE  (TickTypes(tick[o]) /\ TickSound(tick[o]))'
  <2>1. PICK u : u = tick'[o]
    OBVIOUS
  <2>2. TickTypes(u) /\ TickSound(u)
    BY <1>2, <1>5, <2>1 DEF CronInv
  <2>3. TickTypes(u)' /\ TickSound(u)'
    BY <1>1, <2>2, ClockKeeps
  <2>4. TickTypes(tick[o])'
    BY <2>1, <2>3 DEF TickTypes
  <2>5. TickSound(tick[o])'
    BY <2>1, <2>3 DEF TickSound, HasRun, Pending
  <2> QED BY <2>4, <2>5
<1> QED BY <1>3, <1>4, <1>5 DEF CronInv

LEMMA JobsListed ==
    ASSUME NEW S \in SUBSET CronJobs, NEW s \in C!cron_runs(S)
    PROVE  /\ s \in Seq(S) /\ C!Range(s) = S
           /\ \A m, n \in DOMAIN s : s[m] = s[n] => m = n
<1>1. IsFiniteSet(CronJobs)
  BY CalendarAssumption DEF C!CronAssumption, C!IsFiniteSet, IsFiniteSet
<1>2. Cardinality(S) \in Nat
  BY <1>1, FS_Subset, FS_CardinalityType
<1>3. C!Cardinality(S) = Cardinality(S)
  BY DEF C!Cardinality, Cardinality
<1>4. s \in [1..Cardinality(S) -> S] /\ C!IsInjective(s) /\ C!Range(s) = S
  BY <1>3 DEF C!cron_runs
<1>5. s \in Seq(S)
  BY <1>2, <1>4
<1>6. \A m, n \in DOMAIN s : s[m] = s[n] => m = n
  BY <1>4 DEF C!IsInjective
<1> QED BY <1>4, <1>5, <1>6

LEMMA ListBegins ==
    ASSUME CronInv, NEW k \in Tickers, C!Tick(k) PROVE CronInv'
<1> DEFINE listed == {j \in CronJobs : loaded[j.app] # NoTime /\ j.app \in running}
           ready  == {j \in listed : C!Due(j, minute)}
           due    == {j \in listed : C!Scheduled(j, C!Since(j), minute)}
<1>1. PICK list \in C!cron_runs(ready) :
        tick' = [tick EXCEPT ![k] = [pc |-> "next", began |-> minute, jobs |-> list,
                                     due |-> due, failed |-> {}]]
  BY DEF C!Tick
<1> DEFINE t == [pc |-> "next", began |-> minute, jobs |-> list, due |-> due, failed |-> {}]
<1>2. /\ list \in Seq(ready) /\ C!Range(list) = ready
      /\ \A m, n \in DOMAIN list : list[m] = list[n] => m = n
  <2>1. ready \in SUBSET CronJobs
    OBVIOUS
  <2> HIDE DEF ready
  <2> QED BY <1>1, <2>1, JobsListed
<1>3. minute \in 0..CronEnd /\ minute \in Nat /\ ready \subseteq CronJobs
  BY Counts DEF CronInv, CronTypes
<1>4. TickTypes(t)
  <2>1. list \in Seq(CronJobs)
    BY <1>2, <1>3
  <2> QED BY <1>2, <1>3, <2>1 DEF TickTypes
<1>5. ASSUME NEW j \in CronJobs
      PROVE  /\ lastRan[j] # NoTime => C!Since(j) = lastRan[j]
             /\ j \in listed => C!Since(j) \in 0..CronEnd
  <2>1. j.app \in C!CronApps
    BY DEF C!CronApps
  <2> QED BY <1>3, <2>1, Counts DEF CronInv, CronTypes, Past, C!Since
<1>6. \A j \in due : j \in ready
  BY <1>3, <1>5, DueIfScheduled DEF C!Due
<1>7. TickSound(t)
  <2>1. \A n \in Pending(t) :
           lastRan[t.jobs[n]] # NoTime => C!next(t.jobs[n], lastRan[t.jobs[n]]) <= t.began
    <3> SUFFICES ASSUME NEW n \in DOMAIN list, lastRan[list[n]] # NoTime
                 PROVE  C!next(list[n], lastRan[list[n]]) <= minute
      BY DEF Pending
    <3>1. list[n] \in ready
      BY <1>2
    <3> QED BY <1>3, <1>5, <3>1 DEF C!Due
  <2>2. \A j \in due : \E n \in Pending(t) : t.jobs[n] = j
    <3> SUFFICES ASSUME NEW j \in due PROVE \E n \in DOMAIN list : list[n] = j
      BY DEF Pending
    <3> QED BY <1>2, <1>6 DEF C!Range
  <2> QED BY <2>1, <2>2 DEF TickSound
<1>8. \A o \in Tickers : tick[o].pc = "idle"
  BY DEF C!Tick, C!cron_lock
<1>9. UNCHANGED <<minute, lastRan, loaded, ran>>
  BY DEF C!Tick
<1> HIDE DEF t
<1>10. tick' = [tick EXCEPT ![k] = t]
  BY <1>1 DEF t
<1> QED BY <1>4, <1>7, <1>8, <1>9, <1>10, TickKeeps

\* A job off the front of the list has failed or run.
LEMMA TailSound ==
    ASSUME NEW t, NEW u, TickTypes(t), TickSound(t), t.jobs # <<>>,
           u.pc = "next", u.began = t.began, u.due = t.due, u.jobs = Tail(t.jobs),
           t.failed \subseteq u.failed,
           t.jobs[1] \in u.failed \/ t.pc = "command"
    PROVE  TickTypes(u) /\ TickSound(u)
<1>1. /\ t.jobs \in Seq(CronJobs) /\ Tail(t.jobs) \in Seq(CronJobs)
      /\ \A n \in DOMAIN Tail(t.jobs) : n + 1 \in DOMAIN t.jobs /\ n + 1 # 1
                                        /\ Tail(t.jobs)[n] = t.jobs[n + 1]
      /\ \A n \in DOMAIN t.jobs : n # 1 => n - 1 \in DOMAIN Tail(t.jobs)
                                           /\ Tail(t.jobs)[n - 1] = t.jobs[n]
  BY DEF TickTypes
<1>2. \A m, n \in DOMAIN u.jobs : u.jobs[m] = u.jobs[n] => m = n
  <2> SUFFICES ASSUME NEW m \in DOMAIN u.jobs, NEW n \in DOMAIN u.jobs, u.jobs[m] = u.jobs[n]
               PROVE  m = n
    OBVIOUS
  <2>1. m + 1 = n + 1 /\ m \in Nat /\ n \in Nat
    BY <1>1 DEF TickTypes
  <2> QED BY <2>1
<1>3. TickTypes(u)
  BY <1>1, <1>2 DEF TickTypes
<1>4. Pending(u) = DOMAIN u.jobs
  BY DEF Pending
<1>5. ASSUME NEW n \in Pending(u), lastRan[u.jobs[n]] # NoTime
      PROVE  C!next(u.jobs[n], lastRan[u.jobs[n]]) <= u.began
  <2>1. n + 1 \in Pending(t) /\ u.jobs[n] = t.jobs[n + 1]
    BY <1>1, <1>4 DEF Pending
  <2> QED BY <1>5, <2>1 DEF TickSound
<1>6. ASSUME NEW j \in u.due \ u.failed
      PROVE  (\E n \in Pending(u) : u.jobs[n] = j) \/ HasRun(j, u)
  <2>1. (\E n \in Pending(t) : t.jobs[n] = j) \/ HasRun(j, t)
    BY DEF TickSound
  <2>2. CASE HasRun(j, t)
    BY <2>2 DEF HasRun
  <2>3. ASSUME NEW n \in Pending(t), t.jobs[n] = j
        PROVE  \E m \in Pending(u) : u.jobs[m] = j
    <3>1. n # 1
      BY <2>3 DEF Pending
    <3> QED BY <1>1, <1>4, <2>3, <3>1 DEF Pending
  <2> QED BY <2>1, <2>2, <2>3
<1>7. TickSound(u)
  BY <1>5, <1>6 DEF TickSound
<1> QED BY <1>3, <1>7

\* A job's turn fails: its app is locked, or kelso is.
LEMMA TurnFails ==
    ASSUME CronInv, NEW k \in Tickers, tick[k].pc \in {"next", "lock"}, tick[k].jobs # <<>>,
           UNCHANGED <<minute, loaded>>, C!Fails(k)
    PROVE  CronInv'
<1> DEFINE old == tick[k]
           t == [old EXCEPT !.pc = "next", !.jobs = Tail(@), !.failed = @ \cup {old.jobs[1]}]
<1>1. TickTypes(old) /\ TickSound(old) /\ old.pc \in {"next", "lock"}
  BY DEF CronInv
<1>2. tick' = [tick EXCEPT ![k] = t] /\ UNCHANGED <<minute, lastRan, loaded, ran>>
  BY DEF C!Fails, CronInv, CronTypes
<1>3. old.jobs \in Seq(CronJobs) /\ old.jobs # <<>>
  BY <1>1 DEF TickTypes
<1> HIDE DEF old
<1>4. /\ t.pc = "next" /\ t.began = old.began /\ t.due = old.due /\ t.jobs = Tail(old.jobs)
      /\ old.failed \subseteq t.failed /\ old.jobs[1] \in t.failed
  BY <1>3
<1> HIDE DEF t
<1>5. TickTypes(t) /\ TickSound(t)
  BY <1>1, <1>3, <1>4, TailSound
<1> QED BY <1>1, <1>2, <1>5, TickKeeps DEF old

\* A job's turn comes, and its app's lock is had.
LEMMA TurnComes ==
    ASSUME CronInv, NEW k \in Tickers, tick[k].pc = "next", tick[k].jobs # <<>>,
           UNCHANGED <<minute, lastRan, loaded, ran>>, tick' = [tick EXCEPT ![k].pc = "lock"]
    PROVE  CronInv'
<1> DEFINE old == tick[k]
           t == [old EXCEPT !.pc = "lock"]
<1>1. TickTypes(old) /\ TickSound(old) /\ old.pc = "next"
  BY DEF CronInv
<1>2. tick' = [tick EXCEPT ![k] = t]
  BY DEF CronInv, CronTypes
<1>3. old.jobs # <<>>
  OBVIOUS
<1> HIDE DEF old
<1>4. /\ t.pc = "lock" /\ t.began = old.began /\ t.due = old.due /\ t.jobs = old.jobs
      /\ t.failed = old.failed
  OBVIOUS
<1> HIDE DEF t
<1>5. TickTypes(t)
  BY <1>1, <1>4 DEF TickTypes
<1>6. TickSound(t)
  BY <1>1, <1>3, <1>4 DEF TickSound, HasRun, Pending
<1> QED BY <1>1, <1>2, <1>5, <1>6, TickKeeps DEF old

\* A job's turn is over.
LEMMA TurnEnds ==
    ASSUME CronInv, NEW k \in Tickers, C!CommandEnds(k)
    PROVE  CronInv'
<1> DEFINE old == tick[k]
           t == [old EXCEPT !.pc = "next", !.jobs = Tail(@)]
<1>1. TickTypes(old) /\ TickSound(old) /\ old.pc = "command" /\ old.jobs # <<>>
  BY DEF CronInv, C!CommandEnds, TickSound
<1>2. tick' = [tick EXCEPT ![k] = t] /\ UNCHANGED <<minute, lastRan, loaded, ran>>
  BY DEF C!CommandEnds, CronInv, CronTypes
<1>3. old.jobs \in Seq(CronJobs)
  BY <1>1 DEF TickTypes
<1> HIDE DEF old
<1>4. /\ t.pc = "next" /\ t.began = old.began /\ t.due = old.due /\ t.jobs = Tail(old.jobs)
      /\ old.failed = t.failed
  BY <1>3
<1> HIDE DEF t
<1>5. TickTypes(t) /\ TickSound(t)
  BY <1>1, <1>3, <1>4, TailSound
<1> QED BY <1>1, <1>2, <1>5, TickKeeps DEF old

\* A job's turn begins: it is recorded, once for the time that was due.
LEMMA TurnBegins ==
    ASSUME CronInv, NEW k \in Tickers, tick[k].pc = "lock",
           UNCHANGED <<minute, loaded>>, C!Record(k), tick' = [tick EXCEPT ![k].pc = "command"]
    PROVE  CronInv'
<1> DEFINE old == tick[k]
           j == old.jobs[1]
<1>1. /\ TickTypes(old) /\ TickSound(old) /\ CronTypes /\ OneTicks
      /\ \A o \in Tickers : o # k => tick[o].pc = "idle"
      /\ old.jobs # <<>>
  BY DEF CronInv, OneTicks, TickSound
<1>2. /\ old.jobs \in Seq(CronJobs) /\ j \in CronJobs /\ 1 \in DOMAIN old.jobs
      /\ old.began \in 0..minute /\ minute \in 0..CronEnd
      /\ \A m, n \in DOMAIN old.jobs : old.jobs[m] = old.jobs[n] => m = n
  BY <1>1 DEF TickTypes, CronTypes
<1>3. /\ lastRan' = [lastRan EXCEPT ![j] = minute]
      /\ ran' = [ran EXCEPT ![j] = IF @ = <<>> THEN <<minute>> ELSE <<minute, @[1]>>]
  BY DEF C!Record
<1>4. lastRan[j] # NoTime => C!next(j, lastRan[j]) <= old.began
  BY <1>1, <1>2 DEF TickSound, Pending
<1>5. CronTypes'
  BY <1>1, <1>2, <1>3, Counts DEF CronTypes, Past
<1>6. OneTicks'
  BY <1>1 DEF OneTicks, CronTypes
<1>7. RanAsRecorded(j)'
  <2>1. lastRan'[j] = minute /\ minute \in Nat /\ NoTime \notin Nat
    BY <1>1, <1>2, <1>3, Counts DEF CronTypes
  <2>2. CASE ran[j] = <<>>
    <3>1. ran'[j] = <<minute>>
      BY <1>1, <1>2, <1>3, <2>2 DEF CronTypes
    <3> QED BY <2>1, <3>1 DEF RanAsRecorded
  <2>3. CASE ran[j] # <<>>
    <3>1. PICK a \in 0..minute : lastRan[j] = a /\ ran[j][1] = a
      BY <1>2, <2>3 DEF CronInv, RanAsRecorded
    <3>2. ran'[j] = <<minute, a>>
      BY <1>1, <1>2, <1>3, <2>3, <3>1 DEF CronTypes
    <3>3. C!next(j, a) <= old.began
      BY <1>4, <2>1, <3>1
    <3>4. a \notin Second => C!Scheduled(j, a, old.began)
      BY <1>2, <3>1, <3>3, Counts, DueIfScheduled
    <3>5. C!Scheduled(j, a, old.began) => C!Scheduled(j, a, minute)
      BY <1>2, <3>1, Counts DEF C!Scheduled
    <3>6. Once(j, a, minute)'
      BY <3>4, <3>5 DEF Once
    <3>7. minute' \in 0..minute' /\ a \in 0..minute'
      BY <2>1, <3>1
    <3> QED BY <2>1, <3>2, <3>6, <3>7 DEF RanAsRecorded
  <2> QED BY <2>2, <2>3
<1>8. \A i \in CronJobs : i # j => RanAsRecorded(i)'
  BY <1>1, <1>3 DEF CronInv, CronTypes, RanAsRecorded, Once
<1>9. (TickTypes(tick[k]) /\ TickSound(tick[k]))'
  <2>1. /\ tick'[k].pc = "command" /\ tick'[k].jobs = old.jobs /\ tick'[k].began = old.began
        /\ tick'[k].due = old.due /\ tick'[k].failed = old.failed
    BY <1>1 DEF CronTypes
  <2>2. lastRan'[j] = minute /\ \A i \in CronJobs : i # j => lastRan'[i] = lastRan[i]
    BY <1>1, <1>2, <1>3 DEF CronTypes
  <2>3. minute \in Nat /\ minute # NoTime /\ minute >= old.began
    BY <1>2, Counts
  <2> HIDE DEF old
  <2>4. TickTypes(tick[k])'
    BY <1>1, <2>1 DEF TickTypes
  <2>5. /\ tick'[k].jobs # <<>> /\ HasRun(tick[k].jobs[1], tick[k])'
    BY <1>2, <2>1, <2>2, <2>3 DEF HasRun
  <2>6. \A n \in DOMAIN old.jobs : n # 1 => old.jobs[n] # j /\ old.jobs[n] \in CronJobs
    BY <1>2
  <2>7. ASSUME NEW n \in DOMAIN old.jobs, n # 1, lastRan'[old.jobs[n]] # NoTime
        PROVE  C!next(old.jobs[n], lastRan'[old.jobs[n]]) <= old.began
    <3>1. lastRan'[old.jobs[n]] = lastRan[old.jobs[n]]
      BY <2>2, <2>6, <2>7
    <3>2. n \in Pending(old)
      BY <2>7 DEF Pending
    <3> QED BY <1>1, <2>7, <3>1, <3>2 DEF TickSound
  <2>8. ASSUME NEW i \in old.due \ old.failed
        PROVE  (\E n \in DOMAIN old.jobs : n # 1 /\ old.jobs[n] = i) \/ HasRun(i, tick[k])'
    <3>1. i \in CronJobs
      BY <1>1 DEF TickTypes
    <3>2. (\E n \in DOMAIN old.jobs : old.jobs[n] = i) \/ HasRun(i, old)
      BY <1>1 DEF TickSound, Pending
    <3>3. CASE i = j
      BY <2>1, <2>2, <2>3, <3>3 DEF HasRun
    <3>4. CASE i # j
      BY <2>1, <2>2, <3>1, <3>2, <3>4 DEF HasRun
    <3> QED BY <3>3, <3>4
  <2>9. TickSound(tick[k])'
    BY <2>1, <2>5, <2>7, <2>8 DEF TickSound, Pending
  <2> QED BY <2>4, <2>9
<1>10. \A o \in Tickers : o # k => tick'[o].pc = "idle"
  BY <1>1 DEF CronTypes
<1> QED BY <1>5, <1>6, <1>7, <1>8, <1>9, <1>10 DEF CronInv

LEMMA CronStep == ASSUME CronInv, [C!Next]_(C!vars) PROVE CronInv'
<1>1. minute \in 0..CronEnd /\ CronEnd \in Nat /\ loaded \in [C!CronApps -> Past]
  BY Counts DEF CronInv, CronTypes
<1>2. ASSUME UNCHANGED <<lastRan, ran, tick>>, minute' \in minute..CronEnd,
             loaded' \in [C!CronApps -> Past']
      PROVE  CronInv'
  <2>1. CronTypes' /\ \A j \in CronJobs : RanAsRecorded(j)'
    BY <1>2, ClockKeeps DEF CronInv, CronTypes
  <2>2. OneTicks'
    BY <1>2 DEF CronInv, OneTicks
  <2>3. ASSUME NEW k \in Tickers, tick'[k].pc # "idle"
        PROVE  (TickTypes(tick[k]) /\ TickSound(tick[k]))'
    <3>1. PICK u : u = tick[k]
      OBVIOUS
    <3>2. TickTypes(u)' /\ TickSound(u)'
      BY <1>2, <2>3, <3>1, ClockKeeps DEF CronInv
    <3>3. TickTypes(tick[k])'
      BY <1>2, <3>1, <3>2 DEF TickTypes
    <3>4. TickSound(tick[k])'
      BY <1>2, <3>1, <3>2 DEF TickSound, HasRun, Pending
    <3> QED BY <3>3, <3>4
  <2> QED BY <2>1, <2>2, <2>3 DEF CronInv
<1>3. CASE UNCHANGED C!vars
  BY <1>1, <1>2, <1>3 DEF C!vars, Past
<1>4. CASE C!Clock
  <2>1. minute' \in minute..CronEnd /\ 0..minute \subseteq 0..minute'
    BY <1>1, <1>4 DEF C!Clock
  <2> QED BY <1>1, <1>2, <1>4, <2>1 DEF C!Clock, Past
<1>5. ASSUME NEW a \in C!CronApps, C!Verb(a) PROVE CronInv'
  <2>1. loaded' \in [C!CronApps -> Past] /\ UNCHANGED <<minute, lastRan, tick, ran>>
    BY <1>1, <1>5 DEF C!Verb, Past
  <2> QED BY <1>1, <1>2, <2>1 DEF Past
<1>6. ASSUME NEW k \in Tickers, C!AppLock(k) \/ C!RunJob(k) PROVE CronInv'
  <2>1. CASE C!AppLock(k)
    BY <2>1, TurnComes, TurnFails DEF C!AppLock
  <2>2. CASE C!RunJob(k)
    <3>1. tick[k].jobs # <<>>
      BY <2>2 DEF C!RunJob, CronInv, TickSound
    <3> QED BY <2>2, <3>1, TurnBegins, TurnFails DEF C!RunJob
  <2> QED BY <1>6, <2>1, <2>2
<1>7. ASSUME NEW k \in Tickers, C!TickEnds(k) \/ C!TickDies(k) PROVE CronInv'
  <2>1. tick' = [tick EXCEPT ![k] = C!Idle] /\ UNCHANGED <<minute, lastRan, loaded, ran>>
    BY <1>7 DEF C!TickEnds, C!TickDies
  <2>2. C!Idle.pc = "idle"
    BY DEF C!Idle
  <2> QED BY <2>1, <2>2, TickKeeps
<1> QED BY <1>3, <1>4, <1>5, <1>6, <1>7, ListBegins, TurnEnds DEF C!Next

LEMMA CronAlways == C!Spec => []CronInv
<1>1. C!Init => CronInv
  BY CronInit
<1>2. CronInv /\ [C!Next]_(C!vars) => CronInv'
  BY CronStep
<1> QED BY <1>1, <1>2, PTL DEF C!Spec

\* Between two runs of a job lies a minute it is scheduled for, but in the hour that passes a
\* second time, whichever process ticks, wherever one is killed, and however often the app is
\* loaded again (cron.tick, cron._run).
THEOREM RunsOncePerTime == C!Spec => []OncePerTime
<1>1. CronInv => OncePerTime
  <2> SUFFICES ASSUME CronInv, NEW j \in CronJobs, Len(ran[j]) = 2, ran[j][2] \notin Second
               PROVE  C!Scheduled(j, ran[j][2], ran[j][1])
    BY DEF OncePerTime, C!OncePerTime, Second
  <2>1. PICK a \in 0..minute : \E b \in 0..a : ran[j] = <<a, b>> /\ Once(j, b, a)
    BY DEF CronInv, RanAsRecorded
  <2> QED BY <2>1 DEF Once
<1> QED BY <1>1, CronAlways, PTL

\* A tick that came to its end has run every job that was due when it began, but for those
\* whose turn found their app or kelso locked for too long (cron.tick, cron._run).
THEOREM LeavesNoneDue == C!Spec => []NoneLeftDue
<1>1. CronInv => NoneLeftDue
  <2> SUFFICES ASSUME CronInv, NEW k \in Tickers, tick[k].pc = "next", tick[k].jobs = <<>>,
                      NEW j \in tick[k].due \ tick[k].failed
               PROVE  lastRan[j] # NoTime /\ lastRan[j] >= tick[k].began
    BY DEF NoneLeftDue, C!NoneLeftDue
  <2>1. TickTypes(tick[k]) /\ TickSound(tick[k])
    BY DEF CronInv
  <2>2. Pending(tick[k]) = {}
    BY DEF Pending
  <2> QED BY <2>1, <2>2 DEF TickSound, HasRun
<1> QED BY <1>1, CronAlways, PTL
=============================================================================
