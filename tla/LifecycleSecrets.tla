-------------------------- MODULE LifecycleSecrets --------------------------
(***************************************************************************)
(* An app's data and its secrets stay together, for any apps, any number   *)
(* of processes, any faults and crashes: containers start only with the    *)
(* secrets the data was made with, and none are generated for an app that  *)
(* has data.                                                               *)
(*                                                                         *)
(* Config and volumes change in different steps, and a purge or a load can *)
(* be cut short between them.  What repairs that is the order of the steps *)
(* and the check a load begins with, so Matched says what may be left of   *)
(* an app between verbs, and KeyAt what has been seen to by each label.    *)
(* Two verbs are left out: a restore puts back data and config one after   *)
(* the other, and `kelso config` makes an empty config for an app whose    *)
(* purge was cut short, which the check of a load then lets pass.          *)
(***************************************************************************)
EXTENDS LifecycleSafety

Keys(c)   == c \notin {NoFile, Empty}
Filled(s) == s.data \notin {NoDirs, NoData}

\* Data goes with the secrets on file, if there are any; without a config a loaded app
\* has no data, and with an empty one none has; and what compose.yml was made of, or is
\* to be made of again, is secrets on file.
Matched(s) ==
    /\ Filled(s) /\ Keys(s.config) => s.data = s.config
    /\ Filled(s) => s.config # Empty
    /\ Filled(s) /\ s.bundle # 0 => s.config # NoFile
    /\ s.compose \/ s.pending => Keys(s.config)

\* The part of a load in which its check holds good.
Checked == {"commitOut", "commitOver", "commitNew", "takeDown", "generate"}

\* At a label l of a verb with the frame f, its app in the state s: past its check a load
\* is not of data without a config; compose.yml is made with secrets and there when
\* containers come up; and a purge has unloaded what it takes the config of.
KeyAt(l, f, s) ==
    /\ l # "idle" => f.op \notin {"restore", "config"}
    /\ l \notin RestoreLabels
    /\ l \in Checked => (Filled(s) => s.config # NoFile)
    /\ l = "materialize" => Keys(s.config)
    /\ l = "composeUp" => s.compose
    /\ l = "rmConfig" /\ f.plan.config => ~s.compose /\ s.bundle = 0
    /\ l # "idle" /\ f.plan.config => f.arg = "purge"

KeyInv ==
    /\ IndInv /\ NoRestores /\ NoConfigs
    /\ \A a \in Apps : Matched(st[a])
    /\ \A p \in Procs : KeyAt(pc[p], fr[p], st[fr[p].app])

\* What the two properties say of one app.
KeyStep(s, t) ==
    /\ t.cont = "running" /\ s.cont # "running" => t.data = t.config
    /\ t.gen # s.gen => ~Filled(s)

-----------------------------------------------------------------------------
(* What the operators make of an app's config and data. *)

\* t is s with this copy, compose.yml, config and data, and pending only if s is.
Turned(s, t, bundle, compose, config, data) ==
    /\ t.bundle = bundle /\ t.compose = compose /\ t.config = config /\ t.data = data
    /\ t.gen = s.gen /\ (t.pending => s.pending)
Unturned(s, t) == Turned(s, t, s.bundle, s.compose, s.config, s.data)

LEMMA UnturnedMatched ==
    ASSUME NEW s, NEW t, Unturned(s, t), Matched(s)
    PROVE  /\ Matched(t) /\ (Filled(t) <=> Filled(s))
           /\ \A l, f : KeyAt(l, f, s) => KeyAt(l, f, t)
BY DEF Unturned, Turned, Matched, Filled, KeyAt

\* Taking routes down, recording an action, and what else leaves config, data and copy.
LEMMA UnturnedBy ==
    ASSUME NEW s \in StateSet, NEW p, NEW verb, NEW v, NEW reason, NEW sources
    PROVE  /\ Unturned(s, s) /\ Unturned(s, unregistered(s))
           /\ Unturned(s, Recorded(p, s, verb)) /\ Unturned(s, Backed(s, reason, sources))
           /\ Unturned(s, [s EXCEPT !.cont = v]) /\ Unturned(s, [s EXCEPT !.published = v])
           /\ Unturned(s, [s EXCEPT !.source = v])
<1> USE DEF Unturned, Turned, StateSet
<1>1. Unturned(s, s)
  OBVIOUS
<1>2. Unturned(s, unregistered(s))
  BY DEF unregistered
<1>3. Unturned(s, Recorded(p, s, verb))
  <2> DEFINE w == Wish(p, s, verb)
             b == s.pending /\ verb \notin {"loaded", "started"}
  <2>1. b => s.pending
    OBVIOUS
  <2> HIDE DEF w, b
  <2>2. Unturned(s, [s EXCEPT !.last = verb, !.wish = w, !.pending = b])
    BY <2>1
  <2> QED BY <2>2 DEF Recorded, w, b
<1>4. ASSUME NEW x PROVE Unturned(s, [s EXCEPT !.backups = x])
  OBVIOUS
<1>5. Unturned(s, Backed(s, reason, sources))
  BY <1>4, Zenon DEF Backed
<1>6. Unturned(s, [s EXCEPT !.cont = v]) /\ Unturned(s, [s EXCEPT !.published = v])
      /\ Unturned(s, [s EXCEPT !.source = v])
  OBVIOUS
<1> QED BY <1>1, <1>2, <1>3, <1>5, <1>6

\* Opening a store, renaming a copy, making compose.yml, removing the run directory, the
\* config or data, and bringing containers up.
LEMMA TurnedBy ==
    ASSUME NEW s \in StateSet, NEW b, NEW mode
    PROVE  /\ Turned(s, Opened(s), s.bundle, s.compose,
                     IF s.config = NoFile THEN Empty ELSE s.config, s.data)
           /\ Turned(s, [s EXCEPT !.bundle = b], b, s.compose, s.config, s.data)
           /\ Turned(s, Derived(s), s.bundle, TRUE, s.config,
                     IF s.data = NoDirs THEN NoData ELSE s.data)
           /\ Turned(s, Unloaded(s), 0, FALSE, s.config, s.data)
           /\ Turned(s, Unconfigured(s), s.bundle, s.compose, NoFile, s.data)
           /\ ~Unconfigured(s).pending
           /\ Turned(s, Emptied(s, mode), s.bundle, s.compose, s.config,
                     IF mode = "data" THEN NoData ELSE NoDirs)
           /\ Turned(s, Up(s), s.bundle, s.compose, s.config,
                     IF s.data \in {NoDirs, NoData} THEN s.config ELSE s.data)
<1> USE DEF Turned, StateSet
<1>1. ASSUME NEW v PROVE Turned(s, [s EXCEPT !.config = v], s.bundle, s.compose, v, s.data)
  OBVIOUS
<1>2. ASSUME NEW v PROVE Turned(s, [s EXCEPT !.data = v], s.bundle, s.compose, s.config, v)
  OBVIOUS
<1>3. ASSUME NEW v
      PROVE  /\ Turned(s, [s EXCEPT !.compose = TRUE, !.data = v], s.bundle, TRUE, s.config, v)
             /\ Turned(s, [s EXCEPT !.cont = "running", !.data = v], s.bundle, s.compose,
                       s.config, v)
  OBVIOUS
<1>4. Turned(s, [s EXCEPT !.bundle = b], b, s.compose, s.config, s.data)
  OBVIOUS
<1>5. Turned(s, Unloaded(s), 0, FALSE, s.config, s.data)
  BY DEF Unloaded
<1>6. /\ Turned(s, Unconfigured(s), s.bundle, s.compose, NoFile, s.data)
      /\ ~Unconfigured(s).pending
  BY DEF Unconfigured
<1>7. Turned(s, Opened(s), s.bundle, s.compose,
             IF s.config = NoFile THEN Empty ELSE s.config, s.data)
  BY <1>1, Zenon DEF Opened
<1>8. /\ Turned(s, Derived(s), s.bundle, TRUE, s.config,
                IF s.data = NoDirs THEN NoData ELSE s.data)
      /\ Turned(s, Up(s), s.bundle, s.compose, s.config,
                IF s.data \in {NoDirs, NoData} THEN s.config ELSE s.data)
  BY <1>3, Zenon DEF Derived, Up
<1>9. Turned(s, Emptied(s, mode), s.bundle, s.compose, s.config,
             IF mode = "data" THEN NoData ELSE NoDirs)
  BY <1>2, Zenon DEF Emptied
<1> QED BY <1>4, <1>5, <1>6, <1>7, <1>8, <1>9

\* Generating secrets.
LEMMA KeyedTurns ==
    ASSUME NEW s \in StateSet
    PROVE  /\ Keyed(s).bundle = s.bundle /\ Keyed(s).compose = s.compose
           /\ Keyed(s).data = s.data /\ Keys(Keyed(s).config)
<1> DEFINE n == s.gen + 1
<1>1. Keys(n)
  BY DEF StateSet, Keys, NoFile, Empty
<1> HIDE DEF n
<1>2. LET k == [s EXCEPT !.config = n, !.gen = n, !.pending = TRUE] IN
      k.bundle = s.bundle /\ k.compose = s.compose /\ k.data = s.data /\ k.config = n
  BY DEF StateSet
<1> QED BY <1>1, <1>2 DEF Keyed, n

\* A store may be opened of an app that has no data without a config, its compose.yml be
\* made where there are secrets.
LEMMA OpenedMatched ==
    ASSUME NEW s \in StateSet, Matched(s), Filled(s) => s.config # NoFile
    PROVE  /\ Matched(Opened(s)) /\ (Filled(Opened(s)) <=> Filled(s))
           /\ \A l, f : KeyAt(l, f, s) => KeyAt(l, f, Opened(s))
           /\ Opened(s).pending => s.pending
           /\ Keys(s.config) => Keys(Opened(s).config)
           /\ Opened(s).gen = s.gen /\ Opened(s).config # NoFile
           /\ Opened(s).compose = s.compose /\ Opened(s).bundle = s.bundle
<1> DEFINE o == Opened(s)
<1>1. /\ o.bundle = s.bundle /\ o.compose = s.compose /\ o.data = s.data /\ o.gen = s.gen
      /\ o.config = IF s.config = NoFile THEN Empty ELSE s.config
      /\ o.pending => s.pending
  BY TurnedBy DEF Turned
<1> HIDE DEF o
<1>2. Filled(o) <=> Filled(s)
  BY <1>1 DEF Filled
<1>3. Keys(s.config) => o.config = s.config
  BY <1>1 DEF Keys
<1>4. o.config # NoFile /\ (Keys(s.config) => Keys(o.config))
  BY <1>1, <1>3 DEF NoFile, Empty
<1>5. Keys(o.config) => Keys(s.config)
  BY <1>1 DEF Keys, NoFile, Empty
<1>6. Matched(o)
  <2>1. Filled(o) => o.config = s.config
    BY <1>1, <1>2
  <2> QED BY <1>1, <1>2, <1>3, <1>4, <1>5, <2>1 DEF Matched
<1>7. \A l, f : KeyAt(l, f, s) => KeyAt(l, f, o)
  BY <1>1, <1>4 DEF KeyAt
<1> QED BY <1>1, <1>2, <1>4, <1>6, <1>7 DEF o

LEMMA DerivedMatched ==
    ASSUME NEW s \in StateSet, Matched(s), Keys(s.config)
    PROVE  Matched(Derived(s)) /\ Derived(s).compose /\ Derived(s).gen = s.gen
BY TurnedBy DEF Turned, Matched, Filled, Keys, NoFile, Empty, NoDirs, NoData
-----------------------------------------------------------------------------
(* A step of a verb keeps its own app's data with its secrets. *)

\* At most labels nothing more is asked of the app than at others.
Seen == Checked \cup RestoreLabels \cup {"materialize", "composeUp", "rmConfig"}
LEMMA UnseenKey ==
    ASSUME NEW l, NEW f, NEW s, KeyAt(l, f, s), l # "idle", NEW m, m \notin Seen,
           NEW g, g.op = f.op, g.plan = f.plan, g.arg = f.arg
    PROVE  \A t : KeyAt(m, g, t)
BY DEF KeyAt, Seen, Checked

\* An app that only changes otherwise.
LEMMA UnturnedStep ==
    ASSUME NEW s, NEW t, Unturned(s, t), Matched(s), t.cont = "running" => s.cont = "running"
    PROVE  Matched(t) /\ KeyStep(s, t)
BY UnturnedMatched DEF Unturned, Turned, KeyStep

\* The steps of the routines.
LEMMA RoutinesKey ==
    ASSUME KeyInv, NEW p \in Procs, fr[p].app \in Apps, Routines(p)
    PROVE  /\ Matched(st'[fr[p].app]) /\ KeyStep(st[fr[p].app], st'[fr[p].app])
           /\ KeyAt(pc'[p], fr[p], st'[fr[p].app])
<1> DEFINE s == st[fr[p].app]
           t == st'[fr[p].app]
           f == fr[p]
           m == pc'[p]
<1>0. /\ s \in StateSet /\ st \in [Apps -> StateSet] /\ pc \in [Procs -> Labels]
      /\ Matched(s) /\ KeyAt(pc[p], f, s)
  BY DEF KeyInv, IndInv, LockInv, LockTypes
<1>a. \A l : Goto(p, l) => m = l
  BY <1>0 DEF Goto
<1>b. UNCHANGED st => t = s
  OBVIOUS
<1>c. \A x : Becomes(p, x) => t = x
  BY <1>0, BecomesTakes
<1>d. (t.cont = "running" => s.cont = "running") \/ pc[p] = "composeUp"
  BY RoutinesMove, OnlyUpStarts DEF KeyInv
<1>e. pc[p] # "idle" /\ m \notin Seen => KeyAt(m, f, t)
  BY <1>0, UnseenKey
<1>f. \A verb, v : /\ Unturned(s, s) /\ Unturned(s, Recorded(p, s, verb))
                   /\ Unturned(s, [s EXCEPT !.cont = v])
                   /\ Unturned(s, [s EXCEPT !.published = v])
  BY <1>0, UnturnedBy
<1>g. pc[p] # "composeUp" /\ Unturned(s, t) => Matched(t) /\ KeyStep(s, t)
  BY <1>0, <1>d, UnturnedStep
<1>h. pc[p] # "idle" => f.op \notin {"restore", "config"}
  BY <1>0 DEF KeyAt
<1>i. pc[p] # "composeUp" /\ Matched(t) /\ t.gen = s.gen => KeyStep(s, t)
  BY <1>d DEF KeyStep
<1> SUFFICES Matched(t) /\ KeyStep(s, t) /\ KeyAt(m, f, t)
  OBVIOUS
<1> HIDE DEF t, m
<1>1. CASE Stop(p) \/ StopRecorded(p)
  <2>1. pc[p] \in {"stop", "stopped"} /\ Unturned(s, t)
    BY <1>1, <1>b, <1>c, <1>f DEF Stop, StopRecorded, At
  <2>2. m \in {"fail", "stopped"} \/ m = AfterStop(p)
    BY <1>1, <1>a DEF Stop, StopRecorded
  <2>3. m \notin Seen
    BY <2>1, <2>2, <1>h DEF AfterStop, Seen, Checked, RestoreLabels
  <2> QED BY <1>e, <1>g, <2>1, <2>3
<1>2. CASE Load(p)
  <2>1. pc[p] = "load" /\ t = s
    BY <1>2, <1>b DEF Load, At
  <2>2. m = "fail" \/ (m = "commitOut" /\ ~LoadRefused(p))
    BY <1>2, <1>a DEF Load
  <2>3. CASE m = "fail"
    <3>1. m \notin Seen
      BY <2>3 DEF Seen, Checked, RestoreLabels
    <3> QED BY <1>e, <1>f, <1>g, <2>1, <3>1
  <2>4. CASE m = "commitOut" /\ ~LoadRefused(p)
    <3>1. Filled(s) => s.config # NoFile
      BY <2>4 DEF LoadRefused, HasData, Filled
    <3>2. KeyAt(m, f, s)
      BY <1>0, <2>1, <2>4, <3>1 DEF KeyAt, Checked, RestoreLabels
    <3> QED BY <1>f, <1>g, <2>1, <3>2
  <2> QED BY <2>2, <2>3, <2>4
<1>3. CASE CommitOut(p) \/ CommitIn(p)
  <2>1. /\ pc[p] \in Checked /\ m \in Checked /\ m # "commitOut"
        /\ t = [s EXCEPT !.bundle = 0] \/ t = [s EXCEPT !.bundle = s.source]
    BY <1>3, <1>a, <1>c DEF CommitOut, CommitIn, At, Checked
  <2>2. \E b : Turned(s, t, b, s.compose, s.config, s.data)
    <3>1. \A b : Turned(s, [s EXCEPT !.bundle = b], b, s.compose, s.config, s.data)
      BY <1>0, TurnedBy
    <3> QED BY <2>1, <3>1
  <2>3. Filled(s) => s.config # NoFile
    BY <1>0, <2>1 DEF KeyAt
  <2>4. Matched(t) /\ t.gen = s.gen /\ (Filled(t) => t.config # NoFile)
    BY <1>0, <2>2, <2>3 DEF Turned, Matched, Filled
  <2>5. KeyAt(m, f, t)
    BY <1>0, <2>1, <2>4 DEF KeyAt, Checked, RestoreLabels
  <2> QED BY <1>i, <2>1, <2>4, <2>5 DEF Checked
<1>4. CASE TakeDown(p)
  <2> DEFINE o == Opened(s)
  <2>1. pc[p] = "takeDown" /\ m = "generate" /\ t \in {unregistered(o), o}
    BY <1>4, <1>a, <1>c DEF TakeDown, At
  <2>2. Filled(s) => s.config # NoFile
    BY <1>0, <2>1 DEF KeyAt, Checked
  <2>3. o \in StateSet /\ Matched(o) /\ o.config # NoFile /\ o.gen = s.gen
    BY <1>0, <2>2, OpenedMatched, OpenedType
  <2> HIDE DEF o
  <2>4. Unturned(o, t)
    BY <2>1, <2>3, UnturnedBy
  <2>5. Matched(t) /\ t.config # NoFile /\ t.gen = s.gen
    BY <2>3, <2>4, UnturnedMatched DEF Unturned, Turned
  <2>6. KeyAt(m, f, t)
    BY <1>0, <2>1, <2>5 DEF KeyAt, Checked, RestoreLabels
  <2> QED BY <1>i, <2>1, <2>5, <2>6
<1>5. CASE GenerateConfig(p)
  <2>1. pc[p] = "generate" /\ m = "materialize"
    BY <1>5, <1>a DEF GenerateConfig, At
  <2>2. Filled(s) => s.config # NoFile
    BY <1>0, <2>1 DEF KeyAt, Checked
  <2>3. CASE missing(s)
    <3>1. t = Keyed(s)
      BY <1>5, <1>c, <2>3 DEF GenerateConfig
    <3>2. ~Filled(s)
      BY <1>0, <2>2, <2>3 DEF missing, Matched
    <3>3. Matched(t) /\ Keys(t.config)
      BY <1>0, <3>1, <3>2, KeyedTurns DEF Matched, Filled, Keys
    <3>4. KeyStep(s, t)
      BY <1>d, <2>1, <3>2 DEF KeyStep
    <3>5. KeyAt(m, f, t)
      BY <1>0, <2>1, <3>3 DEF KeyAt, Checked, RestoreLabels
    <3> QED BY <3>3, <3>4, <3>5
  <2>4. CASE ~missing(s)
    <3>1. t = s
      BY <1>5, <1>c, <2>4 DEF GenerateConfig
    <3>2. KeyAt(m, f, t)
      BY <1>0, <2>1, <2>4, <3>1 DEF KeyAt, Checked, RestoreLabels, missing, Keys
    <3> QED BY <1>f, <1>g, <2>1, <3>1, <3>2
  <2> QED BY <2>3, <2>4
<1>6. CASE Materialize(p)
  <2>1. /\ pc[p] = "materialize" /\ m \in {"fail", "loaded"}
        /\ t = Derived(s) \/ t = Recorded(p, s, "load-failed")
    BY <1>6, <1>a, <1>c DEF Materialize, At
  <2>2. m \notin Seen
    BY <2>1 DEF Seen, Checked, RestoreLabels
  <2>3. CASE t = Derived(s)
    <3>1. Matched(t) /\ t.gen = s.gen
      BY <1>0, <2>1, <2>3, DerivedMatched DEF KeyAt
    <3> QED BY <1>e, <1>i, <2>1, <2>2, <3>1
  <2>4. CASE t = Recorded(p, s, "load-failed")
    BY <1>e, <1>f, <1>g, <2>1, <2>2, <2>4
  <2> QED BY <2>1, <2>3, <2>4
<1>7. CASE LoadRecorded(p)
  <2>1. pc[p] = "loaded" /\ m = AfterLoad(p) /\ Unturned(s, t)
    BY <1>7, <1>a, <1>c, <1>f DEF LoadRecorded, At
  <2>2. m \notin Seen
    BY <2>1 DEF AfterLoad, Seen, Checked, RestoreLabels
  <2> QED BY <1>e, <1>g, <2>1, <2>2
<1>8. CASE Start(p)
  <2> DEFINE o == Opened(s)
             d == Derived(o)
  <2>1. /\ pc[p] = "start" /\ m \in {"load", "fail", "blockers"}
        /\ \/ t = s
           \/ s.bundle # 0 /\ t = o
           \/ s.bundle # 0 /\ s.pending /\ t \in {unregistered(d), d, unregistered(o)}
    BY <1>8, <1>a, <1>b, <1>c DEF Start, At
  <2>2. m \notin Seen
    BY <2>1 DEF Seen, Checked, RestoreLabels
  <2>3. CASE t = s
    BY <1>e, <1>f, <1>g, <2>1, <2>2, <2>3
  <2>4. CASE t # s
    <3>1. Filled(s) => s.config # NoFile
      BY <1>0, <2>1, <2>4 DEF Matched
    <3>2. /\ o \in StateSet /\ Matched(o) /\ o.gen = s.gen
          /\ s.pending => Keys(o.config)
      <4>1. s.pending => Keys(s.config)
        BY <1>0 DEF Matched
      <4> QED BY <1>0, <3>1, <4>1, OpenedMatched, OpenedType
    <3> HIDE DEF o
    <3>3. s.pending => d \in StateSet /\ Matched(d) /\ d.gen = s.gen
      BY <3>2, DerivedMatched, DerivedType
    <3> HIDE DEF d
    <3>4. \/ Unturned(o, t)
          \/ s.pending /\ Unturned(d, t)
      BY <2>1, <2>4, <3>2, <3>3, UnturnedBy
    <3>5. Matched(t) /\ t.gen = s.gen
      BY <3>2, <3>3, <3>4, UnturnedMatched DEF Unturned, Turned
    <3> QED BY <1>e, <1>i, <2>1, <2>2, <3>5
  <2> QED BY <2>3, <2>4
<1>9. CASE Blockers(p)
  <2>1. /\ pc[p] = "blockers" /\ Unturned(s, t)
        /\ m = "fail" \/ (m = "composeUp" /\ s.compose /\ t = s)
    BY <1>9, <1>a, <1>b, <1>c, <1>f DEF Blockers, At
  <2>2. KeyAt(m, f, t)
    <3>1. CASE m = "fail"
      <4>1. m \notin Seen
        BY <3>1 DEF Seen, Checked, RestoreLabels
      <4> QED BY <1>e, <2>1, <4>1
    <3>2. CASE m = "composeUp" /\ s.compose /\ t = s
      BY <1>0, <2>1, <3>2 DEF KeyAt, Checked, RestoreLabels
    <3> QED BY <2>1, <3>1, <3>2
  <2> QED BY <1>g, <2>1, <2>2
<1>10. CASE ComposeUp(p)
  <2> DEFINE r == Recorded(p, s, "start-failed")
  <2>1. pc[p] = "composeUp" /\ m \in {"register", "fail"} /\ t \in {Up(s), r, Up(r)}
    BY <1>10, <1>a, <1>c DEF ComposeUp, At
  <2>2. m \notin Seen
    BY <2>1 DEF Seen, Checked, RestoreLabels
  <2>3. Keys(s.config) /\ s.compose
    BY <1>0, <2>1 DEF KeyAt, Matched
  <2>4. /\ r \in StateSet /\ Unturned(s, r) /\ r.cont = s.cont /\ Matched(r)
    <3>1. r \in StateSet /\ Same(s, r)
      BY <1>0, RecordedType, RecordedMakes DEF Actions
    <3> QED BY <1>0, <1>f, <3>1, UnturnedMatched DEF Same, Made
  <2>5. ASSUME NEW x \in StateSet, Unturned(s, x), Matched(x), t = Up(x)
        PROVE  Matched(t) /\ KeyStep(s, t)
    <3>1. Keys(x.config) /\ x.compose
      BY <2>3, <2>5 DEF Unturned, Turned
    <3>2. t.config = x.config /\ t.compose = x.compose /\ t.gen = s.gen
          /\ t.data = IF x.data \in {NoDirs, NoData} THEN x.config ELSE x.data
      BY <2>5, TurnedBy DEF Unturned, Turned
    <3>3. t.data = t.config
      BY <2>5, <3>1, <3>2 DEF Matched, Filled
    <3>4. Matched(t)
      BY <3>1, <3>2, <3>3 DEF Matched, Keys
    <3> QED BY <3>2, <3>3, <3>4 DEF KeyStep
  <2> HIDE DEF r
  <2>6. ASSUME t = r PROVE Matched(t) /\ KeyStep(s, t)
    BY <1>0, <2>4, <2>6, UnturnedStep
  <2> QED BY <1>0, <1>e, <1>f, <2>1, <2>2, <2>4, <2>5, <2>6
<1>11. CASE Register(p) \/ StartRecorded(p)
  <2>1. pc[p] \in {"register", "started"} /\ Unturned(s, t)
    BY <1>11, <1>c, <1>f DEF Register, StartRecorded, At
  <2>2. m \in {"fail", "started"} \/ m = AfterStart(p)
    BY <1>11, <1>a DEF Register, StartRecorded
  <2>3. m \notin Seen
    BY <2>1, <2>2, <1>h DEF AfterStart, Seen, Checked, RestoreLabels
  <2> QED BY <1>e, <1>g, <2>1, <2>3
<1> QED
  BY <1>1, <1>2, <1>3, <1>4, <1>5, <1>6, <1>7, <1>8, <1>9, <1>10, <1>11 DEF Routines

\* Setting a flag leaves the operation, plan and argument of a frame, setting a plan the
\* operation and argument.
LEMMA FrameKeys ==
    ASSUME NEW f \in FrameSet, NEW b
    PROVE  /\ [f EXCEPT !.was = b].op = f.op /\ [f EXCEPT !.was = b].plan = f.plan
           /\ [f EXCEPT !.was = b].arg = f.arg
           /\ [f EXCEPT !.bad = b].op = f.op /\ [f EXCEPT !.bad = b].plan = f.plan
           /\ [f EXCEPT !.bad = b].arg = f.arg
           /\ [f EXCEPT !.plan = b].op = f.op /\ [f EXCEPT !.plan = b].plan = b
           /\ [f EXCEPT !.plan = b].arg = f.arg
BY DEF FrameSet

\* The steps of a verb's body, but for the backup.
LEMMA BodyKey ==
    ASSUME KeyInv, NEW p \in Procs, fr[p].app \in Apps, Body(p), ~Snapshot(p)
    PROVE  /\ Matched(st'[fr[p].app]) /\ KeyStep(st[fr[p].app], st'[fr[p].app])
           /\ KeyAt(pc'[p], fr'[p], st'[fr[p].app])
<1> DEFINE a == fr[p].app
           s == st[fr[p].app]
           t == st'[fr[p].app]
           f == fr[p]
           g == fr'[p]
           m == pc'[p]
<1>0. /\ s \in StateSet /\ st \in [Apps -> StateSet] /\ pc \in [Procs -> Labels]
      /\ fr \in [Procs -> FrameSet] /\ f \in FrameSet
      /\ Matched(s) /\ KeyAt(pc[p], f, s)
  BY DEF KeyInv, IndInv, LockInv, LockTypes
<1>a. \A l : Goto(p, l) => m = l
  BY <1>0 DEF Goto
<1>b. UNCHANGED st => t = s
  OBVIOUS
<1>c. \A x : Becomes(p, x) => t = x
  BY <1>0, BecomesTakes
<1>d. (t.cont = "running" => s.cont = "running") \/ pc[p] = "composeUp"
  BY BodyMove, OnlyUpStarts DEF KeyInv
<1>e. /\ pc[p] # "idle" /\ m \notin Seen /\ g.op = f.op /\ g.plan = f.plan /\ g.arg = f.arg
      => KeyAt(m, g, t)
  BY <1>0, UnseenKey
<1>f. \A verb : Unturned(s, s) /\ Unturned(s, Recorded(p, s, verb))
  BY <1>0, UnturnedBy
<1>g. pc[p] # "composeUp" /\ Unturned(s, t) => Matched(t) /\ KeyStep(s, t)
  BY <1>0, <1>d, UnturnedStep
<1>h. /\ pc[p] # "idle" => f.op \notin {"restore", "config"}
      /\ pc[p] \notin RestoreLabels
  BY <1>0 DEF KeyAt
<1>i. pc[p] # "composeUp" /\ Matched(t) /\ t.gen = s.gen => KeyStep(s, t)
  BY <1>d DEF KeyStep
<1>j. \A ops, l : Enter(p, ops, l) => pc[p] = "enter" /\ f.op \in ops /\ m = l
  BY <1>a DEF Enter, At
<1>k. fr' = fr => g.op = f.op /\ g.plan = f.plan /\ g.arg = f.arg
  OBVIOUS
<1>l. ASSUME NEW b, fr' = [fr EXCEPT ![p].was = b]
      PROVE  g.op = f.op /\ g.plan = f.plan /\ g.arg = f.arg
  BY <1>0, <1>l, FrameKeys
<1>m. ASSUME NEW b, fr' = [fr EXCEPT ![p].plan = b]
      PROVE  g.op = f.op /\ g.plan = b /\ g.arg = f.arg
  BY <1>0, <1>m, FrameKeys
<1> SUFFICES Matched(t) /\ KeyStep(s, t) /\ KeyAt(m, g, t)
  OBVIOUS
<1> HIDE DEF t, m, g
<1>1. CASE EnterSimple(p) \/ EnterReload(p) \/ EnterBackup(p)
  <2>1. pc[p] = "enter" /\ t = s
    BY <1>1, <1>b, <1>j DEF EnterSimple, EnterReload, EnterBackup
  <2>2. m \in {"start", "stop", "done", "fail", "load", "unlockK"}
    BY <1>1, <1>j DEF EnterSimple, EnterReload, EnterBackup
  <2>3. g.op = f.op /\ g.plan = f.plan /\ g.arg = f.arg
    BY <1>1, <1>k, <1>l DEF EnterSimple, EnterReload, EnterBackup, KeepFrame
  <2>4. m \notin Seen
    BY <2>2 DEF Seen, Checked, RestoreLabels
  <2> QED BY <1>e, <1>f, <1>g, <2>1, <2>3, <2>4
<1>2. CASE EnterRemove(p)
  <2> DEFINE plan == IF f.op = "rm" THEN removal_plan(a, f.arg) ELSE f.plan
  <2>1. /\ pc[p] = "enter" /\ t = s /\ f.op \in Removes
        /\ m \in {"fail", "stop", "rmRun"}
    BY <1>2, <1>b, <1>j DEF EnterRemove
  <2>2. g.op = f.op /\ g.plan = plan /\ g.arg = f.arg
    BY <1>2, <1>m DEF EnterRemove
  <2>3. plan.config => f.arg = "purge"
    <3>1. f.op = "rm" => plan.config = (f.arg = "purge" /\ st[a].config # NoFile)
      BY DEF removal_plan
    <3>2. f.op # "rm" => plan = f.plan
      OBVIOUS
    <3> QED BY <1>0, <2>1, <3>1, <3>2 DEF KeyAt
  <2> HIDE DEF plan
  <2>4. KeyAt(m, g, t)
    BY <1>h, <2>1, <2>2, <2>3 DEF KeyAt, Checked, RestoreLabels
  <2> QED BY <1>f, <1>g, <2>1, <2>4
<1>3. CASE RemoveRun(p)
  <2> DEFINE u == unregistered(s)
  <2>1. /\ pc[p] = "rmRun" /\ m = "rmConfig" /\ g.op = f.op /\ g.plan = f.plan /\ g.arg = f.arg
        /\ \/ ~unloads(f.arg) /\ t = s
           \/ t = Unloaded(s)
           \/ t = Unloaded(u)
    BY <1>3, <1>a, <1>b, <1>c, <1>k DEF RemoveRun, KeepFrame, At
  <2>2. u \in StateSet /\ Unturned(s, u)
    BY <1>0, UnregisteredType, UnturnedBy
  <2> HIDE DEF u
  <2>4. f.plan.config => f.arg = "purge"
    BY <1>0, <2>1 DEF KeyAt
  <2>5. CASE ~unloads(f.arg) /\ t = s
    <3>1. ~f.plan.config
      BY <2>4, <2>5 DEF unloads
    <3>2. KeyAt(m, g, t)
      BY <1>h, <2>1, <3>1 DEF KeyAt, Checked, RestoreLabels
    <3> QED BY <1>f, <1>g, <2>1, <2>5, <3>2
  <2>6. CASE t = Unloaded(s) \/ t = Unloaded(u)
    <3>1. Turned(s, t, 0, FALSE, s.config, s.data)
      <4>1. /\ Turned(s, Unloaded(s), 0, FALSE, s.config, s.data)
            /\ Turned(u, Unloaded(u), 0, FALSE, u.config, u.data)
        BY <1>0, <2>2, TurnedBy
      <4> QED BY <2>2, <2>6, <4>1 DEF Unturned, Turned
    <3>2. Matched(t) /\ t.gen = s.gen /\ ~t.compose /\ t.bundle = 0
      BY <1>0, <3>1 DEF Turned, Matched, Filled
    <3>3. KeyAt(m, g, t)
      BY <1>h, <2>1, <2>4, <3>2 DEF KeyAt, Checked, RestoreLabels
    <3> QED BY <1>i, <2>1, <3>2, <3>3
  <2> QED BY <2>1, <2>5, <2>6
<1>4. CASE RemoveConfig(p)
  <2>1. /\ pc[p] = "rmConfig" /\ m = "rmVolumes" /\ g.op = f.op /\ g.plan = f.plan /\ g.arg = f.arg
        /\ t = IF f.plan.config THEN Unconfigured(s) ELSE s
    BY <1>4, <1>a, <1>c, <1>k DEF RemoveConfig, KeepFrame, At
  <2>2. m \notin Seen
    BY <2>1 DEF Seen, Checked, RestoreLabels
  <2>3. CASE f.plan.config
    <3>1. /\ Turned(s, t, s.bundle, s.compose, NoFile, s.data) /\ ~t.pending
          /\ ~s.compose /\ s.bundle = 0
      BY <1>0, <2>1, <2>3, TurnedBy DEF KeyAt
    <3>2. Matched(t) /\ t.gen = s.gen
      BY <3>1 DEF Turned, Matched, Filled, Keys, NoFile, Empty
    <3> QED BY <1>e, <1>i, <2>1, <2>2, <3>2
  <2>4. CASE ~f.plan.config
    BY <1>e, <1>f, <1>g, <2>1, <2>2, <2>4
  <2> QED BY <2>3, <2>4
<1>5. CASE RemoveVolumes(p)
  <2>1. /\ pc[p] = "rmVolumes" /\ m \in {"rmRecord", "fail"} /\ g.op = f.op /\ g.plan = f.plan
        /\ g.arg = f.arg /\ t \in {s, Emptied(s, f.arg)}
    BY <1>5, <1>a, <1>b, <1>c, <1>k DEF RemoveVolumes, KeepFrame, At
  <2>2. m \notin Seen
    BY <2>1 DEF Seen, Checked, RestoreLabels
  <2>3. CASE t = Emptied(s, f.arg)
    <3>1. /\ Turned(s, t, s.bundle, s.compose, s.config,
                    IF f.arg = "data" THEN NoData ELSE NoDirs)
      BY <1>0, <2>3, TurnedBy
    <3>2. Matched(t) /\ t.gen = s.gen
      BY <1>0, <3>1 DEF Turned, Matched, Filled
    <3> QED BY <1>e, <1>i, <2>1, <2>2, <3>2
  <2>4. CASE t = s
    BY <1>e, <1>f, <1>g, <2>1, <2>2, <2>4
  <2> QED BY <2>1, <2>3, <2>4
<1>6. CASE RemoveRecorded(p) \/ UpdateRecorded(p)
  <2>1. /\ pc[p] \in {"rmRecord", "updated"} /\ m \in {"done", "start"} /\ Unturned(s, t)
        /\ g.op = f.op /\ g.plan = f.plan /\ g.arg = f.arg
    BY <1>6, <1>a, <1>c, <1>f, <1>k DEF RemoveRecorded, UpdateRecorded, KeepFrame, At
  <2>2. m \notin Seen
    BY <2>1 DEF Seen, Checked, RestoreLabels
  <2> QED BY <1>e, <1>g, <2>1, <2>2
<1>7. CASE EnterConfig(p) \/ EnterRestore(p)
  <2>1. pc[p] = "enter" /\ f.op \in {"restore", "config"}
    BY <1>7, <1>j DEF EnterConfig, EnterRestore, At
  <2> QED BY <1>h, <2>1
<1>8. CASE PreSnapshot(p) \/ ReplaceData(p) \/ ReplaceConfig(p) \/ ReplaceRun(p)
           \/ ReplaceBundle(p) \/ Rebuild(p) \/ RestoreRecorded(p)
  <2>1. pc[p] \in RestoreLabels
    BY <1>8 DEF PreSnapshot, ReplaceData, ReplaceConfig, ReplaceRun, ReplaceBundle, Rebuild,
       RestoreRecorded, At, RestoreLabels
  <2> QED BY <1>h, <2>1
<1> QED BY <1>1, <1>2, <1>3, <1>4, <1>5, <1>6, <1>7, <1>8 DEF Body

\* A process that leaves its app goes on with no frame, or with its own.
LEMMA LeftKey ==
    ASSUME NEW p \in Procs, pc \in [Procs -> Labels], fr \in [Procs -> FrameSet],
           KeyAt(pc[p], fr[p], st[fr[p].app]), pc[p] # "idle",
           Goto(p, Leave(p)), fr' = [fr EXCEPT ![p] = Left(p)]
    PROVE  KeyAt(pc'[p], fr'[p], st'[fr'[p].app])
<1>1. CASE fr[p].op \in Sweeps
  <2>1. pc'[p] = "nextApp" /\ fr'[p] = [fr[p] EXCEPT !.app = NoApp]
    BY <1>1 DEF Goto, Leave, Left
  <2>2. fr'[p].op = fr[p].op /\ fr'[p].plan = fr[p].plan /\ fr'[p].arg = fr[p].arg
    BY <2>1 DEF FrameSet
  <2>3. "nextApp" \notin Seen
    BY DEF Seen, Checked, RestoreLabels
  <2> QED BY <2>1, <2>2, <2>3, UnseenKey
<1>2. CASE fr[p].op \notin Sweeps
  <2>1. pc'[p] = "idle"
    BY <1>2 DEF Goto, Leave
  <2> QED BY <2>1 DEF KeyAt, Checked, RestoreLabels
<1> QED BY <1>1, <1>2

\* The backup itself.
LEMMA SnapshotKey ==
    ASSUME KeyInv, NEW p \in Procs, fr[p].app \in Apps, Snapshot(p)
    PROVE  /\ Matched(st'[fr[p].app]) /\ KeyStep(st[fr[p].app], st'[fr[p].app])
           /\ KeyAt(pc'[p], fr'[p], st'[fr'[p].app])
<1> DEFINE s == st[fr[p].app]
           t == st'[fr[p].app]
<1>0. /\ s \in StateSet /\ st \in [Apps -> StateSet] /\ pc \in [Procs -> Labels]
      /\ fr \in [Procs -> FrameSet] /\ fr[p] \in FrameSet
      /\ Matched(s) /\ KeyAt(pc[p], fr[p], s) /\ pc[p] = "snapshot"
  BY DEF KeyInv, IndInv, LockInv, LockTypes, Snapshot, At
<1>1. t = s \/ t = Backed(s, Reason(p), app_sources(fr[p].app))
  BY <1>0, BecomesTakes DEF Snapshot
<1>2. Unturned(s, t)
  <2>1. \A reason, sources : Unturned(s, s) /\ Unturned(s, Backed(s, reason, sources))
    BY <1>0, UnturnedBy
  <2> QED BY <1>1, <2>1
<1>3. Same(s, t)
  BY <1>0, <1>1, OthersMake, Unchanged
<1>4. Matched(t) /\ KeyStep(s, t)
  BY <1>0, <1>2, <1>3, UnturnedStep DEF Same, Made
<1>5. \/ pc'[p] = "relock" /\ fr' = fr
      \/ pc'[p] = "relock" /\ fr' = [fr EXCEPT ![p].bad = TRUE]
      \/ GiveUp(p)
  BY <1>0 DEF Snapshot, KeepFrame, Goto
<1>6. ASSUME pc'[p] = "relock", fr' = fr \/ fr' = [fr EXCEPT ![p].bad = TRUE]
      PROVE  KeyAt(pc'[p], fr'[p], st'[fr'[p].app])
  <2>1. fr'[p].op = fr[p].op /\ fr'[p].plan = fr[p].plan /\ fr'[p].arg = fr[p].arg
    <3>1. CASE fr' = fr
      BY <3>1
    <3>2. CASE fr' = [fr EXCEPT ![p].bad = TRUE]
      <4> DEFINE g == [fr[p] EXCEPT !.bad = TRUE]
      <4>1. g.op = fr[p].op /\ g.plan = fr[p].plan /\ g.arg = fr[p].arg
        BY <1>0, FrameKeys
      <4>2. fr'[p] = g
        BY <1>0, <3>2
      <4> HIDE DEF g
      <4> QED BY <4>1, <4>2
    <3> QED BY <1>6, <3>1, <3>2
  <2>2. "relock" \notin Seen
    BY DEF Seen, Checked, RestoreLabels
  <2> QED BY <1>0, <1>6, <2>1, <2>2, UnseenKey
<1>7. ASSUME GiveUp(p) PROVE KeyAt(pc'[p], fr'[p], st'[fr'[p].app])
  BY <1>0, <1>7, LeftKey DEF GiveUp
<1> QED BY <1>4, <1>5, <1>6, <1>7

\* Locks are taken and let go of.
LEMMA LockingKey ==
    ASSUME KeyInv, NEW p \in Procs, Locking(p)
    PROVE  KeyAt(pc'[p], fr'[p], st'[fr'[p].app])
<1>0. /\ pc \in [Procs -> Labels] /\ fr \in [Procs -> FrameSet] /\ fr[p] \in FrameSet
      /\ KeyAt(pc[p], fr[p], st[fr[p].app])
  BY DEF KeyInv, IndInv, LockInv, LockTypes
<1>1. CASE SweepGroup(p) \/ SweepApp(p)
  <2>1. pc[p] # "idle" /\ pc'[p] \in {"idle", "nextApp", "nextGroup", "lockA"}
    BY <1>0, <1>1 DEF SweepGroup, SweepApp, At, Goto
  <2>2. \/ pc'[p] = "idle"
        \/ fr'[p].op = fr[p].op /\ fr'[p].plan = fr[p].plan /\ fr'[p].arg = fr[p].arg
    <3>1. \/ pc'[p] = "idle" \/ fr' = fr
          \/ \E x, y : fr' = [fr EXCEPT ![p] = [fr[p] EXCEPT !.todo = x, !.batch = y]]
          \/ \E x, y : fr' = [fr EXCEPT ![p] = [fr[p] EXCEPT !.batch = x, !.app = y]]
      BY <1>0, <1>1 DEF SweepGroup, SweepApp, Goto
    <3>2. ASSUME NEW x, NEW y, fr' = [fr EXCEPT ![p] = [fr[p] EXCEPT !.todo = x, !.batch = y]]
          PROVE  fr'[p].op = fr[p].op /\ fr'[p].plan = fr[p].plan /\ fr'[p].arg = fr[p].arg
      <4> DEFINE g == [fr[p] EXCEPT !.todo = x, !.batch = y]
      <4>1. g.op = fr[p].op /\ g.plan = fr[p].plan /\ g.arg = fr[p].arg
        BY <1>0 DEF FrameSet
      <4>2. fr'[p] = g
        BY <1>0, <3>2
      <4> HIDE DEF g
      <4> QED BY <4>1, <4>2
    <3>3. ASSUME NEW x, NEW y, fr' = [fr EXCEPT ![p] = [fr[p] EXCEPT !.batch = x, !.app = y]]
          PROVE  fr'[p].op = fr[p].op /\ fr'[p].plan = fr[p].plan /\ fr'[p].arg = fr[p].arg
      <4> DEFINE g == [fr[p] EXCEPT !.batch = x, !.app = y]
      <4>1. g.op = fr[p].op /\ g.plan = fr[p].plan /\ g.arg = fr[p].arg
        BY <1>0 DEF FrameSet
      <4>2. fr'[p] = g
        BY <1>0, <3>3
      <4> HIDE DEF g
      <4> QED BY <4>1, <4>2
    <3> QED BY <3>1, <3>2, <3>3, Zenon
  <2>3. pc'[p] \notin Seen
    BY <2>1 DEF Seen, Checked, RestoreLabels
  <2>4. CASE pc'[p] = "idle"
    BY <2>4, <2>3 DEF KeyAt, Seen, Checked
  <2> QED BY <1>0, <2>1, <2>2, <2>3, <2>4, UnseenKey
<1>2. CASE LockApp(p) \/ LockKelso(p) \/ LockKelsoAgain(p) \/ UnlockKelso(p)
  <2>1. /\ pc[p] # "idle" /\ fr' = fr
        /\ pc'[p] \in {"snapshot", "lockK", "enter", "load", "start"}
    BY <1>0, <1>2 DEF LockApp, LockKelso, LockKelsoAgain, UnlockKelso, At, Goto
  <2>2. pc'[p] \notin Seen
    BY <2>1 DEF Seen, Checked, RestoreLabels
  <2> QED BY <1>0, <2>1, <2>2, UnseenKey
<1>3. CASE LockTimeout(p) \/ BackupRefused(p) \/ Unlock(p)
  <2>1. pc[p] # "idle"
    BY <1>3 DEF LockTimeout, BackupRefused, Unlock, At
  <2> QED BY <1>0, <1>3, <2>1, LeftKey DEF LockTimeout, BackupRefused, Unlock, GiveUp
<1> QED BY <1>1, <1>2, <1>3 DEF Locking

\* What another process goes by stays true while its app is locked, and while its store
\* is only opened.
LEMMA KeptKey ==
    ASSUME NEW q \in Procs, KeyAt(pc[q], fr[q], st[fr[q].app]), pc'[q] = pc[q], fr'[q] = fr[q],
           pc[q] \in AppHeld =>
               (KeyAt(pc[q], fr[q], st[fr[q].app]) => KeyAt(pc[q], fr[q], st'[fr[q].app]))
    PROVE  KeyAt(pc'[q], fr'[q], st'[fr'[q].app])
<1>1. CASE pc[q] \in AppHeld
  BY <1>1
<1>2. CASE pc[q] \notin AppHeld
  BY <1>2 DEF KeyAt, Checked, AppHeld, BothHeld
<1> QED BY <1>1, <1>2

-----------------------------------------------------------------------------
(* Every step keeps the invariant, and does what the properties say. *)

KeyNext == KeyInv' /\ \A a \in Apps : KeyStep(st[a], st'[a])

LEMMA KeyAll ==
    ASSUME KeyInv, IndInv', \A a \in Apps : Matched(st'[a]) /\ KeyStep(st[a], st'[a]),
           \A q \in Procs : KeyAt(pc'[q], fr'[q], st'[fr'[q].app])
    PROVE  KeyNext
<1>1. \A a \in Apps : Matched(st[a])'
  BY DEF Matched, Filled
<1>2. \A q \in Procs : KeyAt(pc[q], fr[q], st[fr[q].app])'
  BY DEF KeyAt, Filled
<1> QED BY <1>1, <1>2 DEF KeyNext, KeyInv

\* An app nothing happens to.
LEMMA StillKey == ASSUME NEW s, Matched(s) PROVE KeyStep(s, s)
BY DEF KeyStep

LEMMA StepKey ==
    ASSUME KeyInv, NEW p \in Procs, Step(p)
    PROVE  KeyNext
<1>0. /\ IndInv /\ LockInv /\ st \in [Apps -> StateSet] /\ fr \in [Procs -> FrameSet]
      /\ pc \in [Procs -> Labels] /\ UNCHANGED scene
      /\ \A q \in Procs : KeyAt(pc[q], fr[q], st[fr[q].app])
      /\ \A a \in Apps : Matched(st[a])
  BY DEF KeyInv, IndInv, LockInv, LockTypes, Step
<1>1. IndInv'
  BY <1>0, StepKeeps
<1>2. CASE Locking(p)
  <2>1. UNCHANGED st /\ \A q \in Procs \ {p} : pc'[q] = pc[q] /\ fr'[q] = fr[q]
    BY <1>0, <1>2, LockingUntouched
  <2>2. \A a \in Apps : Matched(st'[a]) /\ KeyStep(st[a], st'[a])
    BY <1>0, <2>1, StillKey
  <2>3. \A q \in Procs \ {p} : KeyAt(pc'[q], fr'[q], st'[fr'[q].app])
    BY <1>0, <2>1
  <2>4. \A q \in Procs : KeyAt(pc'[q], fr'[q], st'[fr'[q].app])
    BY <1>2, <2>3, LockingKey
  <2> QED BY <1>1, <2>2, <2>4, KeyAll
<1>3. CASE Body(p) \/ Routines(p)
  <2>1. pc[p] \in AppHeld /\ fr[p].app \in Apps
    <3>1. CASE Snapshot(p)
      BY <1>0, <3>1 DEF Snapshot, At, AppHeld, LockInv, Placed
    <3>2. CASE ~Snapshot(p)
      <4>1. Inside(p)
        BY <1>0, <1>3, <3>2, BodyInside, RoutinesInside
      <4> QED BY <1>0, <4>1 DEF Inside, AppHeld, LockInv, Placed
    <3> QED BY <3>1, <3>2
  <2>2. Owns(p)
    BY <1>0, <1>3, <2>1, BodyOwns, RoutinesOwn
  <2>3. /\ Matched(st'[fr[p].app]) /\ KeyStep(st[fr[p].app], st'[fr[p].app])
        /\ KeyAt(pc'[p], fr'[p], st'[fr'[p].app])
    <3>1. CASE Routines(p)
      BY <2>1, <3>1, RoutinesKey, RoutinesFrame
    <3>2. CASE Body(p) /\ ~Snapshot(p)
      <4>1. fr'[p].app = fr[p].app
        BY <1>0, <3>2, BodyInside DEF Inside
      <4> QED BY <2>1, <3>2, <4>1, BodyKey
    <3>3. CASE Snapshot(p)
      BY <2>1, <3>3, SnapshotKey
    <3> QED BY <1>3, <3>1, <3>2, <3>3
  <2>4. ASSUME NEW a \in Apps PROVE Matched(st'[a]) /\ KeyStep(st[a], st'[a])
    <3>1. CASE a = fr[p].app
      BY <2>3, <3>1
    <3>2. CASE a # fr[p].app
      <4>1. st'[a] = st[a]
        BY <1>0, <2>1, <2>2, <3>2 DEF Owns, Becomes
      <4> QED BY <1>0, <4>1, StillKey
    <3> QED BY <3>1, <3>2
  <2>5. ASSUME NEW q \in Procs \ {p} PROVE KeyAt(pc'[q], fr'[q], st'[fr'[q].app])
    <3>1. pc'[q] = pc[q] /\ fr'[q] = fr[q]
      BY <1>0, <1>3, InsideElsewhere
    <3>2. pc[q] \in AppHeld => st'[fr[q].app] = st[fr[q].app]
      BY <1>0, <2>1, <2>2, ElsewhereSame
    <3> QED BY <1>0, <3>1, <3>2, KeptKey
  <2>6. \A q \in Procs : KeyAt(pc'[q], fr'[q], st'[fr'[q].app])
    BY <2>3, <2>5
  <2> QED BY <1>1, <2>4, <2>6, KeyAll
<1> QED BY <1>2, <1>3 DEF Step

\* What is read before the locks opens the stores of loaded apps.
LEMMA AskingOpens ==
    ASSUME KeyInv, NEW p \in Procs, Asking(p), NEW a \in Apps
    PROVE  /\ Matched(st'[a]) /\ KeyStep(st[a], st'[a])
           /\ \A l, f : KeyAt(l, f, st[a]) => KeyAt(l, f, st'[a])
<1>0. st \in [Apps -> StateSet] /\ IndInv /\ st[a] \in StateSet /\ Matched(st[a])
  BY DEF KeyInv, IndInv
<1>1. st'[a] = st[a] \/ (st[a].bundle # 0 /\ st'[a] = Opened(st[a]))
  <2>1. CASE \E op \in OneApp, b \in scene.apps : AskApp(p, op, b)
    BY <1>0, <2>1 DEF AskApp, is_loaded
  <2>2. CASE \E op \in Removes, b \in scene.apps, mode \in Modes : AskRemove(p, op, b, mode)
    BY <2>2 DEF AskRemove
  <2>3. CASE \E b \in scene.apps, reason \in Reasons : AskRestore(p, b, reason)
    BY <2>3 DEF AskRestore
  <2>4. CASE \E op \in Sweeps : AskSweep(p, op)
    BY <2>4 DEF AskSweep, is_loaded
  <2> QED BY <2>1, <2>2, <2>3, <2>4 DEF Asking
<1>2. CASE st'[a] = st[a]
  BY <1>0, <1>2, StillKey
<1>3. CASE st[a].bundle # 0 /\ st'[a] = Opened(st[a])
  <2>1. Filled(st[a]) => st[a].config # NoFile
    BY <1>0, <1>3 DEF Matched
  <2>2. Same(st[a], st'[a])
    BY <1>0, AskingSame
  <2>3. Matched(st'[a]) /\ st'[a].gen = st[a].gen
        /\ \A l, f : KeyAt(l, f, st[a]) => KeyAt(l, f, st'[a])
    BY <1>0, <1>3, <2>1, OpenedMatched
  <2> QED BY <2>2, <2>3 DEF KeyStep, Same, Made
<1> QED BY <1>1, <1>2, <1>3

\* Only `rm --purge` is asked for with a plan to remove a config.
LEMMA AskedKey ==
    ASSUME KeyInv, NEW p \in Procs, Asking(p)
    PROVE  \A t : KeyAt(pc'[p], fr'[p], t)
<1>0. /\ pc \in [Procs -> Labels] /\ fr \in [Procs -> FrameSet] /\ scene \in Scenes
      /\ NoRestores /\ NoConfigs
  BY DEF KeyInv, IndInv, LockInv, LockTypes
<1>1. "restore" \notin scene.does[p] /\ "config" \notin scene.does[p]
  BY <1>0 DEF NoRestores, NoConfigs
<1>2. ASSUME NEW op \in scene.does[p], fr'[p].op = op, pc'[p] \in {"lockA", "nextGroup"},
             fr'[p].plan.config => fr'[p].arg = "purge"
      PROVE  \A t : KeyAt(pc'[p], fr'[p], t)
  BY <1>1, <1>2 DEF KeyAt, Checked, RestoreLabels
<1> USE DEF Ask, Goto
<1>3. ASSUME NEW op \in OneApp, NEW a \in scene.apps, AskApp(p, op, a)
      PROVE  \A t : KeyAt(pc'[p], fr'[p], t)
  <2>1. op \in scene.does[p] /\ fr'[p] = Frame(op, a, "-") /\ pc'[p] = "lockA"
    BY <1>0, <1>3 DEF AskApp
  <2>2. fr'[p].op = op /\ ~fr'[p].plan.config
    BY <2>1 DEF Frame, NoPlan
  <2> QED BY <1>2, <2>1, <2>2
<1>4. ASSUME NEW op \in Removes, NEW a \in scene.apps, NEW mode \in Modes,
             AskRemove(p, op, a, mode)
      PROVE  \A t : KeyAt(pc'[p], fr'[p], t)
  <2> DEFINE plan == IF op = "rmCli" THEN removal_plan(a, mode) ELSE NoPlan
             f == [Frame(op, a, mode) EXCEPT !.plan = plan]
  <2>1. op \in scene.does[p] /\ fr'[p] = f /\ pc'[p] = "lockA"
    BY <1>0, <1>4 DEF AskRemove
  <2>2. plan.config => mode = "purge"
    BY DEF NoPlan, removal_plan
  <2> HIDE DEF plan
  <2>3. f.op = op /\ f.arg = mode /\ f.plan = plan
    BY DEF Frame
  <2> HIDE DEF f
  <2> QED BY <1>2, <2>1, <2>2, <2>3
<1>5. ASSUME NEW a \in scene.apps, NEW reason \in Reasons, AskRestore(p, a, reason)
      PROVE  FALSE
  BY <1>1, <1>5 DEF AskRestore
<1>6. ASSUME NEW op \in Sweeps, AskSweep(p, op)
      PROVE  \A t : KeyAt(pc'[p], fr'[p], t)
  <2> DEFINE todo == {a \in Apps : is_loaded(a) /\ Group[a] \in Covered(op)}
             f == [Frame(op, NoApp, "-") EXCEPT !.todo = todo]
  <2>1. op \in scene.does[p] /\ fr'[p] = f /\ pc'[p] = "nextGroup"
    BY <1>0, <1>6 DEF AskSweep
  <2> HIDE DEF todo
  <2>2. f.op = op /\ ~f.plan.config
    BY DEF Frame, NoPlan
  <2> HIDE DEF f
  <2> QED BY <1>2, <2>1, <2>2
<1> QED BY <1>3, <1>4, <1>5, <1>6 DEF Asking

\* The processes a step leaves alone.
LEMMA ElsewhereKey ==
    ASSUME KeyInv, NEW q \in Procs, pc'[q] = pc[q], fr'[q] = fr[q],
           \A a \in Apps : \A l, f : KeyAt(l, f, st[a]) => KeyAt(l, f, st'[a])
    PROVE  KeyAt(pc'[q], fr'[q], st'[fr'[q].app])
<1>1. /\ KeyAt(pc[q], fr[q], st[fr[q].app])
      /\ pc[q] \in AppHeld => fr[q].app \in Apps
  BY DEF KeyInv, IndInv, LockInv, LockTypes, Placed
<1> QED BY <1>1, KeptKey

LEMMA AskingKey ==
    ASSUME KeyInv, NEW p \in Procs, Asking(p), UNCHANGED scene
    PROVE  KeyNext
<1>1. IndInv'
  BY AskingKeeps DEF KeyInv
<1>2. \A q \in Procs \ {p} : pc'[q] = pc[q] /\ fr'[q] = fr[q]
  BY AskingBegins DEF KeyInv, Begins, IndInv, LockInv, LockTypes
<1>3. \A a \in Apps : /\ Matched(st'[a]) /\ KeyStep(st[a], st'[a])
                      /\ \A l, f : KeyAt(l, f, st[a]) => KeyAt(l, f, st'[a])
  BY AskingOpens
<1>4. \A q \in Procs : KeyAt(pc'[q], fr'[q], st'[fr'[q].app])
  BY <1>2, <1>3, AskedKey, ElsewhereKey
<1> QED BY <1>1, <1>3, <1>4, KeyAll

\* What happens to apps otherwise changes neither config nor data.
LEMMA UnturnedAll ==
    ASSUME KeyInv, IndInv',
           \A a \in Apps : /\ Unturned(st[a], st'[a])
                           /\ st'[a].cont = "running" => st[a].cont = "running",
           \A q \in Procs : \/ pc'[q] = "idle"
                            \/ pc'[q] = pc[q] /\ fr'[q] = fr[q]
    PROVE  KeyNext
<1>1. \A a \in Apps : Matched(st[a])
  BY DEF KeyInv
<1>2. \A a \in Apps : Matched(st'[a]) /\ KeyStep(st[a], st'[a])
  BY <1>1, UnturnedStep
<1>3. \A a \in Apps : \A l, f : KeyAt(l, f, st[a]) => KeyAt(l, f, st'[a])
  BY <1>1, UnturnedMatched
<1>4. ASSUME NEW q \in Procs, pc'[q] = "idle"
      PROVE  KeyAt(pc'[q], fr'[q], st'[fr'[q].app])
  BY <1>4 DEF KeyAt, Checked, RestoreLabels
<1>5. \A q \in Procs : KeyAt(pc'[q], fr'[q], st'[fr'[q].app])
  BY <1>3, <1>4, ElsewhereKey
<1> QED BY <1>2, <1>5, KeyAll

LEMMA CrashKey ==
    ASSUME KeyInv, NEW p \in Procs, Crash(p), UNCHANGED scene
    PROVE  KeyNext
<1>0. IndInv /\ st \in [Apps -> StateSet] /\ pc \in [Procs -> Labels] /\ fr \in [Procs -> FrameSet]
  BY DEF KeyInv, IndInv, LockInv, LockTypes
<1>1. IndInv' /\ UNCHANGED st
  BY <1>0, CrashStays DEF Crash
<1>2. \A a \in Apps : Unturned(st[a], st'[a])
  BY <1>0, <1>1, UnturnedBy
<1>3. \A q \in Procs : pc'[q] = "idle" \/ (pc'[q] = pc[q] /\ fr'[q] = fr[q])
  BY <1>0 DEF Crash, Goto
<1> QED BY <1>1, <1>2, <1>3, UnturnedAll

LEMMA RebootKey ==
    ASSUME KeyInv, Reboot, UNCHANGED scene
    PROVE  KeyNext
<1>0. IndInv /\ st \in [Apps -> StateSet]
  BY DEF KeyInv, IndInv
<1>1. IndInv'
  BY <1>0, RebootStays
<1>2. ASSUME NEW a \in Apps
      PROVE  Unturned(st[a], st'[a]) /\ (st'[a].cont = "running" => st[a].cont = "running")
  <2> DEFINE x == [st[a] EXCEPT !.cont = "exited"]
  <2>1. Unturned(st[a], st[a]) /\ Unturned(st[a], x) /\ x.cont = "exited"
    BY <1>0, UnturnedBy DEF StateSet
  <2>2. st'[a] = st[a] \/ st'[a] = x
    BY DEF Reboot
  <2> HIDE DEF x
  <2> QED BY <2>1, <2>2
<1>3. \A q \in Procs : pc'[q] = "idle"
  BY DEF Reboot
<1> QED BY <1>1, <1>2, <1>3, UnturnedAll

LEMMA SourceKey ==
    ASSUME KeyInv, NEW a \in scene.apps, SourceMoves(a), UNCHANGED scene
    PROVE  KeyNext
<1>0. IndInv /\ st \in [Apps -> StateSet] /\ a \in Apps
  BY ConstantsAssumption DEF KeyInv, IndInv, LockInv, LockTypes, SceneSet
<1>1. IndInv'
  BY <1>0, SourceMovesKeeps
<1> DEFINE n == st[a].source + 1
           m == [st[a] EXCEPT !.source = n]
<1>2. st' = [st EXCEPT ![a] = m]
  BY <1>0 DEF SourceMoves
<1>3. Unturned(st[a], m) /\ m.cont = st[a].cont
  <2> HIDE DEF n
  <2> QED BY <1>0, UnturnedBy DEF StateSet
<1> HIDE DEF m
<1>4. \A b \in Apps : /\ Unturned(st[b], st'[b])
                      /\ st'[b].cont = "running" => st[b].cont = "running"
  <2>1. \A b \in Apps : Unturned(st[b], st[b])
    BY <1>0, UnturnedBy
  <2> QED BY <1>0, <1>2, <1>3, <2>1
<1>5. \A q \in Procs : pc'[q] = pc[q] /\ fr'[q] = fr[q]
  BY DEF SourceMoves
<1> QED BY <1>1, <1>4, <1>5, UnturnedAll

LEMMA InitKey == ASSUME NoRestores, NoConfigs, Init PROVE KeyInv
<1>1. IndInv
  BY InitInv
<1>2. \A a \in Apps : Matched(st[a])
  BY DEF Init, Fresh, Matched, Filled, Keys, NoDirs, NoData, NoFile, Empty
<1>3. \A p \in Procs : KeyAt(pc[p], fr[p], st[fr[p].app])
  BY DEF Init, KeyAt, Checked, RestoreLabels
<1> QED BY <1>1, <1>2, <1>3 DEF KeyInv

LEMMA KeyNextAll == ASSUME KeyInv, [Next]_vars PROVE KeyNext
<1>1. CASE \E p \in Procs : Step(p)
  BY <1>1, StepKey
<1>2. CASE \E p \in Procs : (Asking(p) \/ Crash(p)) /\ UNCHANGED scene
  BY <1>2, AskingKey, CrashKey
<1>3. CASE \E a \in scene.apps : SourceMoves(a) /\ UNCHANGED scene
  BY <1>3, SourceKey
<1>4. CASE Reboot /\ UNCHANGED scene
  BY <1>4, RebootKey
<1>5. CASE UNCHANGED vars
  <2>1. IndInv' /\ st \in [Apps -> StateSet]
    BY <1>5, StutterInv DEF KeyInv, IndInv
  <2>2. \A a \in Apps : Unturned(st[a], st'[a])
    BY <1>5, <2>1, UnturnedBy DEF vars
  <2> QED BY <1>5, <2>1, <2>2, UnturnedAll DEF vars
<1> QED BY <1>1, <1>2, <1>3, <1>4, <1>5 DEF Next

\* Secrets are generated only for an app without data, whoever loads it and wherever a
\* purge or a load before was cut short.
THEOREM SecretsFresh == ASSUME NoRestores, NoConfigs PROVE Spec => FreshSecrets
<1>1. Init => KeyInv
  BY InitKey
<1>2. KeyInv /\ [Next]_vars => KeyInv'
  BY KeyNextAll DEF KeyNext
<1>3. KeyInv /\ [Next]_vars => [\A a \in Apps : st'[a].gen # st[a].gen => ~HasData(a)]_vars
  BY KeyNextAll DEF KeyNext, KeyStep, HasData, Filled
<1> QED BY <1>1, <1>2, <1>3, PTL DEF Spec, FreshSecrets

\* Containers start only with the secrets the app's data was made with.
THEOREM SecretsRight == ASSUME NoRestores, NoConfigs PROVE Spec => RightSecrets
<1>1. Init => KeyInv
  BY InitKey
<1>2. KeyInv /\ [Next]_vars => KeyInv'
  BY KeyNextAll DEF KeyNext
<1>3. KeyInv /\ [Next]_vars =>
          [\A a \in Apps : running(a)' /\ ~running(a) => st'[a].data = st'[a].config]_vars
  BY KeyNextAll DEF KeyNext, KeyStep, running
<1> QED BY <1>1, <1>2, <1>3, PTL DEF Spec, RightSecrets
=============================================================================
