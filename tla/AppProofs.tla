----------------------------- MODULE AppProofs ------------------------------
(***************************************************************************)
(* Proofs about an app's routes, its source and what docker is handed of   *)
(* it, for any apps, providers, bundles, repositories and scenes.  Host    *)
(* ports and owners are right in every scene; where nobody is asked for a  *)
(* restore, what stands at a provider is on record and leads to the app's  *)
(* own containers, wherever a verb is cut short.  What runs is of one      *)
(* source, unless it was mixed on purpose or loaded unchecked.  What a     *)
(* start hands docker is whole, unless a load was cut short before it.     *)
(***************************************************************************)
EXTENDS MCApp, SequenceTheorems, TLAPS

-----------------------------------------------------------------------------
(* The walks through the records of an app. *)

RecordSet == [name : RouteNames, sub : Subdomains, port : Nat, at : Seq(Tags)]

\* Each of what is to be done is one of the records rs, with providers of its own.
Within(todo, rs) ==
    \A r \in ToSet(todo) : \E q \in ToSet(rs) :
        q.name = r.name /\ q.sub = r.sub /\ q.port = r.port /\ ToSet(r.at) \subseteq ToSet(q.at)

\* A sequence is its head and its tail.
LEMMA TailWalk ==
    ASSUME NEW X, NEW todo \in Seq(X), todo # <<>>
    PROVE  /\ Tail(todo) \in Seq(X) /\ ToSet(Tail(todo)) \subseteq ToSet(todo)
           /\ Head(todo) \in ToSet(todo) /\ Head(todo) \in X
           /\ \A r \in ToSet(todo) : r = Head(todo) \/ r \in ToSet(Tail(todo))
<1>1. /\ Len(todo) \in Nat \ {0} /\ DOMAIN todo = 1..Len(todo) /\ Head(todo) = todo[1]
      /\ \A i \in 1..Len(todo) : todo[i] \in X
  OBVIOUS
<1>2. /\ Tail(todo) \in Seq(X) /\ DOMAIN Tail(todo) = 1..(Len(todo) - 1)
      /\ \A i \in 1..(Len(todo) - 1) : Tail(todo)[i] = todo[i + 1]
  OBVIOUS
<1>3. ToSet(Tail(todo)) \subseteq ToSet(todo)
  <2>1. \A i \in 1..(Len(todo) - 1) : i + 1 \in 1..Len(todo)
    BY <1>1
  <2> QED BY <1>1, <1>2, <2>1 DEF ToSet
<1>4. ASSUME NEW i \in 1..Len(todo)
      PROVE  todo[i] = Head(todo) \/ todo[i] \in ToSet(Tail(todo))
  <2>1. i = 1 \/ (i - 1 \in 1..(Len(todo) - 1) /\ (i - 1) + 1 = i)
    BY <1>1
  <2> QED BY <1>1, <1>2, <2>1 DEF ToSet
<1>5. Head(todo) \in ToSet(todo) /\ Head(todo) \in X
  BY <1>1 DEF ToSet
<1> QED BY <1>1, <1>2, <1>3, <1>4, <1>5 DEF ToSet

\* A step of a walk leaves the records it has before it, but for a provider of the first.
LEMMA RestWalk ==
    ASSUME NEW todo \in Seq(RecordSet), todo # <<>>, Head(todo).at # <<>>
    PROVE  /\ rest(todo) \in Seq(RecordSet)
           /\ next(todo).tag \in Tags /\ next(todo).sub \in Subdomains
           /\ next(todo).port \in Nat
           /\ \E r \in ToSet(todo) : r = Head(todo) /\ next(todo).tag \in ToSet(r.at)
                 /\ next(todo) = Entry(r, next(todo).tag)
           /\ \A r \in ToSet(rest(todo)) : \E q \in ToSet(todo) :
                 q.name = r.name /\ q.sub = r.sub /\ q.port = r.port
                 /\ ToSet(r.at) \subseteq ToSet(q.at)
           /\ \A e \in published(ToSet(todo)) :
                 e = next(todo) \/ e \in published(ToSet(rest(todo)))
<1> DEFINE h == Head(todo)
           t == Tail(h.at)
           k == [h EXCEPT !.at = t]
           w == rest(todo)
<1>1. /\ Len(todo) \in Nat \ {0} /\ DOMAIN todo = 1..Len(todo) /\ h = todo[1] /\ 1 \in 1..Len(todo)
      /\ \A i \in 1..Len(todo) : todo[i] \in RecordSet
      /\ h \in RecordSet
  OBVIOUS
<1>2. h.at \in Seq(Tags) /\ h.at # <<>> /\ h.sub \in Subdomains /\ h.port \in Nat
  BY <1>1 DEF RecordSet
<1>3. /\ t \in Seq(Tags) /\ Head(h.at) \in Tags /\ Head(h.at) \in ToSet(h.at)
      /\ ToSet(t) \subseteq ToSet(h.at)
      /\ \A x \in ToSet(h.at) : x = Head(h.at) \/ x \in ToSet(t)
  BY <1>2, TailWalk
<1> HIDE DEF t
<1>4. k \in RecordSet /\ k.name = h.name /\ k.sub = h.sub /\ k.port = h.port /\ k.at = t
  BY <1>1, <1>3 DEF RecordSet
<1>5. w = [todo EXCEPT ![1] = k]
  BY <1>1 DEF rest, t
<1> HIDE DEF k, w, h
<1>6. /\ DOMAIN w = 1..Len(todo) /\ w[1] = k /\ w \in Seq(RecordSet)
      /\ \A i \in 1..Len(todo) : i # 1 => w[i] = todo[i]
  <2>1. w \in [1..Len(todo) -> RecordSet]
    BY <1>1, <1>4, <1>5
  <2> QED BY <1>1, <1>5, <2>1
<1>7. next(todo) = Entry(h, Head(h.at))
  BY DEF next, h
<1>8. ASSUME NEW i \in 1..Len(todo)
      PROVE  \E q \in ToSet(todo) :
                 /\ q.name = w[i].name /\ q.sub = w[i].sub /\ q.port = w[i].port
                 /\ ToSet(w[i].at) \subseteq ToSet(q.at)
  <2>1. todo[i] \in ToSet(todo)
    BY <1>1 DEF ToSet
  <2> QED BY <1>1, <1>3, <1>4, <1>6, <2>1
<1>9. ASSUME NEW e \in published(ToSet(todo))
      PROVE  e = next(todo) \/ e \in published(ToSet(w))
  <2>0. PICK r \in ToSet(todo) : e \in {Entry(r, x) : x \in ToSet(r.at)}
    BY DEF published
  <2>1. PICK i \in 1..Len(todo) : \E x \in ToSet(todo[i].at) : e = Entry(todo[i], x)
    BY <1>1, <2>0 DEF ToSet
  <2> PICK x \in ToSet(todo[i].at) : e = Entry(todo[i], x)
    BY <2>1
  <2>2. w[i] \in ToSet(w)
    BY <1>6 DEF ToSet
  <2>3. CASE i # 1
    BY <1>6, <2>2, <2>3 DEF published
  <2>4. CASE i = 1 /\ x = Head(h.at)
    BY <1>1, <1>7, <2>4
  <2>5. CASE i = 1 /\ x \in ToSet(t)
    <3>1. e = Entry(w[i], x) /\ x \in ToSet(w[i].at)
      BY <1>1, <1>4, <1>6, <2>5 DEF Entry
    <3> QED BY <2>2, <3>1 DEF published
  <2> QED BY <1>1, <1>3, <2>3, <2>4, <2>5
<1>10. \E r \in ToSet(todo) : r = h /\ next(todo).tag \in ToSet(r.at)
          /\ next(todo) = Entry(r, next(todo).tag)
  BY <1>1, <1>3, <1>7 DEF ToSet, Entry
<1> QED
  <2>1. /\ next(todo).tag \in Tags /\ next(todo).sub \in Subdomains /\ next(todo).port \in Nat
    BY <1>2, <1>3, <1>7 DEF Entry
  <2>2. \A r \in ToSet(w) : \E i \in 1..Len(todo) : r = w[i]
    BY <1>6 DEF ToSet
  <2>3. \A r \in ToSet(w) : \E q \in ToSet(todo) :
           /\ q.name = r.name /\ q.sub = r.sub /\ q.port = r.port
           /\ ToSet(r.at) \subseteq ToSet(q.at)
    <3> SUFFICES ASSUME NEW r \in ToSet(w)
                 PROVE  \E q \in ToSet(todo) :
                           /\ q.name = r.name /\ q.sub = r.sub /\ q.port = r.port
                           /\ ToSet(r.at) \subseteq ToSet(q.at)
      OBVIOUS
    <3>1. PICK i \in 1..Len(todo) : r = w[i]
      BY <2>2
    <3>2. PICK q \in ToSet(todo) :
             /\ q.name = w[i].name /\ q.sub = w[i].sub /\ q.port = w[i].port
             /\ ToSet(w[i].at) \subseteq ToSet(q.at)
      BY <1>8
    <3> QED BY <3>1, <3>2
  <2>4. \A e \in published(ToSet(todo)) : e = next(todo) \/ e \in published(ToSet(w))
    BY <1>9
  <2> QED BY <1>6, <1>10, <2>1, <2>3, <2>4 DEF w, h

-----------------------------------------------------------------------------
(* The values the variables take. *)

ConfSet  == [label : Labels \cup {None}, pending : BOOLEAN,
             assign : [RouteNames -> Seq(Tags) \cup {None}]]
SavedSet == [conf : ConfSet, run : scene.manifests \cup {None}]
Standing == [port : Nat, owner : Owners]
Removals == {"unload", "rm", "purge"}

DiskTypes ==
    /\ conf \in [Apps -> ConfSet]
    /\ run \in [Apps -> scene.manifests \cup {None}]
    /\ compose \in [Apps -> (SUBSET (RouteNames \X Nat)) \cup {None}]
    /\ up \in [Apps -> (SUBSET Nat) \cup {None}]
    /\ saved \in [Apps -> SavedSet \cup {None}]

Steps  == {"idle", "takeDown", "default", "clear", "allocate", "write", "loaded", "preflight",
           "composeUp", "register", "started", "removeRun", "removeConf", "purgeDb",
           "replaceConf", "replaceRun"}
JobSet == [verb : Verbs \cup {"none"}, app : Apps \cup {None}, pc : Steps,
           todo : Seq(RecordSet) \cup Seq(RouteSpecs), loads : BOOLEAN]

\* What a verb has when it comes to a step, and what it has left to do there.
JobTypes ==
    /\ job \in JobSet
    /\ job.pc # "idle" => job.app \in Apps
    /\ job.pc \in {"takeDown", "register"} => job.todo \in Seq(RecordSet)
    /\ job.pc = "allocate" =>
          job.todo \in Seq(RouteSpecs) /\ ToSet(job.todo) \subseteq ToSet(run[job.app])
    /\ \/ job.pc \in {"default", "clear", "allocate", "write"}
       \/ job.pc = "takeDown" /\ job.verb \notin Removals
       => run[job.app] # None
    /\ job.pc = "composeUp" => compose[job.app] # None
    /\ job.pc \in {"replaceConf", "replaceRun"} => saved[job.app] # None

RouteTypes ==
    /\ scene \in Scenes
    /\ DiskTypes
    /\ db \in [Apps -> Seq(RecordSet)]
    /\ at \in [Tags -> [Subdomains -> Standing]]
    /\ JobTypes

\* What the assumptions say of the scene.
LEMMA OfScene ==
    ASSUME scene \in Scenes
    PROVE  /\ scene.kind \in [Tags -> Kinds] /\ scene.apps \subseteq Apps
           /\ scene.manifests \subseteq Seq(RouteSpecs) /\ None \notin scene.manifests
BY ConstantsAssumption

\* Moving a verb on, and beginning and ending one.
LEMMA JobAt ==
    ASSUME job \in JobSet, NEW l \in Steps, NEW w \in Seq(RecordSet) \cup Seq(RouteSpecs)
    PROVE  /\ Go(l) => /\ job'.pc = l /\ job'.todo = <<>> /\ job'.app = job.app
                       /\ job'.verb = job.verb /\ job'.loads = job.loads /\ job' \in JobSet
           /\ GoDo(l, w) => /\ job'.pc = l /\ job'.todo = w /\ job'.app = job.app
                            /\ job'.verb = job.verb /\ job'.loads = job.loads
                            /\ job' \in JobSet
           /\ job' = [job EXCEPT !.todo = w] =>
                 /\ job'.pc = job.pc /\ job'.todo = w /\ job'.app = job.app
                 /\ job'.verb = job.verb /\ job'.loads = job.loads /\ job' \in JobSet
           /\ Done => /\ job'.pc = "idle" /\ job'.app = None /\ job'.verb = "none"
                      /\ job' \in JobSet
<1>1. <<>> \in Seq(RecordSet)
  OBVIOUS
<1>2. ASSUME NEW u \in Seq(RecordSet) \cup Seq(RouteSpecs)
      PROVE  LET j == [job EXCEPT !.pc = l, !.todo = u] IN
             /\ j.pc = l /\ j.todo = u /\ j.app = job.app /\ j.verb = job.verb
             /\ j.loads = job.loads /\ j \in JobSet
  BY DEF JobSet
<1>3. Go(l) => /\ job'.pc = l /\ job'.todo = <<>> /\ job'.app = job.app
               /\ job'.verb = job.verb /\ job'.loads = job.loads /\ job' \in JobSet
  <2> DEFINE j == [job EXCEPT !.pc = l, !.todo = <<>>]
  <2>1. /\ j.pc = l /\ j.todo = <<>> /\ j.app = job.app /\ j.verb = job.verb
        /\ j.loads = job.loads /\ j \in JobSet
    BY <1>1, <1>2, Zenon
  <2>2. Go(l) => job' = j
    BY DEF Go
  <2> HIDE DEF j
  <2> QED BY <2>1, <2>2
<1>4. GoDo(l, w) => /\ job'.pc = l /\ job'.todo = w /\ job'.app = job.app
                    /\ job'.verb = job.verb /\ job'.loads = job.loads /\ job' \in JobSet
  <2> DEFINE j == [job EXCEPT !.pc = l, !.todo = w]
  <2>1. /\ j.pc = l /\ j.todo = w /\ j.app = job.app /\ j.verb = job.verb
        /\ j.loads = job.loads /\ j \in JobSet
    BY <1>2, Zenon
  <2>2. GoDo(l, w) => job' = j
    BY DEF GoDo
  <2> HIDE DEF j
  <2> QED BY <2>1, <2>2
<1>5. job' = [job EXCEPT !.todo = w] =>
         /\ job'.pc = job.pc /\ job'.todo = w /\ job'.app = job.app
         /\ job'.verb = job.verb /\ job'.loads = job.loads /\ job' \in JobSet
  BY DEF JobSet
<1>6. Done => /\ job'.pc = "idle" /\ job'.app = None /\ job'.verb = "none" /\ job' \in JobSet
  BY <1>1 DEF Done, Idle, JobSet, Steps
<1> QED BY <1>3, <1>4, <1>5, <1>6

LEMMA Begun ==
    ASSUME NEW v \in Verbs, NEW a \in Apps, NEW l \in Steps,
           NEW w \in Seq(RecordSet) \cup Seq(RouteSpecs), NEW b \in BOOLEAN,
           Begin(v, a, l, w, b)
    PROVE  /\ job'.verb = v /\ job'.app = a /\ job'.pc = l /\ job'.todo = w /\ job'.loads = b
           /\ job' \in JobSet
BY DEF Begin, JobSet

\* What stands at a provider changes in one place.
LEMMA PutAt ==
    ASSUME at \in [Tags -> [Subdomains -> Standing]], NEW t \in Tags, NEW s \in Subdomains,
           NEW e \in Standing, Put(t, s, e)
    PROVE  /\ at' \in [Tags -> [Subdomains -> Standing]]
           /\ at'[t][s] = e
           /\ \A u \in Tags, x \in Subdomains : u # t \/ x # s => at'[u][x] = at[u][x]
BY DEF Put

\* What the provider has after a call, or half a call, is a standing.
LEMMA Provided ==
    ASSUME NEW e \in Standing, NEW t, NEW a \in Apps \cup {Manual}, NEW p \in Nat
    PROVE  /\ Absent \in Standing
           /\ Registered(t, e, a, p) \in Standing /\ HalfRegistered(t, e, a, p) \subseteq Standing
           /\ Unregistered(t, e) \in Standing /\ HalfUnregistered(t, e) \subseteq Standing
BY DEF Registered, HalfRegistered, Unregistered, HalfUnregistered, Standing, Absent, Owners, NoPort

\* Nothing but the verb under way moves on, or its end.
LEMMA Idles ==
    ASSUME RouteTypes, Done, UNCHANGED <<scene, disk, db>>,
           at' \in [Tags -> [Subdomains -> Standing]]
    PROVE  RouteTypes'
<1>1. job' \in JobSet /\ job'.pc = "idle"
  <2>1. "idle" \in Steps /\ <<>> \in Seq(RecordSet)
    BY DEF Steps
  <2> QED BY <2>1, JobAt DEF RouteTypes, JobTypes
<1> QED BY <1>1 DEF RouteTypes, DiskTypes, JobTypes, disk, SavedSet

\* Asking for a verb.
LEMMA AskTypes ==
    ASSUME RouteTypes, AskLoad \/ AskStart \/ AskStop \/ AskRemove \/ AskRestore
    PROVE  RouteTypes'
<1>0. /\ scene \in Scenes /\ DiskTypes /\ job \in JobSet /\ scene.apps \subseteq Apps
      /\ \A a \in Apps : db[a] \in Seq(RecordSet)
      /\ None \notin scene.manifests /\ <<>> \in Seq(RecordSet)
  BY OfScene DEF RouteTypes, JobTypes
<1> USE DEF RouteTypes, DiskTypes, JobTypes, SavedSet, disk
<1>1. ASSUME NEW a \in scene.apps, NEW m \in scene.manifests, NEW verb \in {"load", "start"},
             Load(verb, a, m)
      PROVE  RouteTypes'
  <2>1. \/ Begin(verb, a, "takeDown", db[a], TRUE)
        \/ Begin(verb, a, "default", <<>>, TRUE)
    BY <1>1 DEF Load
  <2>2. /\ job' \in JobSet /\ job'.app = a /\ job'.pc \in {"takeDown", "default"}
        /\ job'.pc = "takeDown" => job'.todo = db[a]
    <3>1. /\ a \in Apps /\ verb \in Verbs /\ TRUE \in BOOLEAN
          /\ "takeDown" \in Steps /\ "default" \in Steps
          /\ db[a] \in Seq(RecordSet) \cup Seq(RouteSpecs)
          /\ <<>> \in Seq(RecordSet) \cup Seq(RouteSpecs)
      BY <1>0 DEF Steps, Verbs
    <3>2. CASE Begin(verb, a, "takeDown", db[a], TRUE)
      BY <3>1, <3>2, Begun
    <3>3. CASE Begin(verb, a, "default", <<>>, TRUE)
      BY <3>1, <3>3, Begun
    <3> QED BY <2>1, <3>2, <3>3
  <2>3. run' = [run EXCEPT ![a] = m]
    BY <1>1 DEF Load
  <2> QED BY <1>0, <1>1, <2>2, <2>3 DEF Load
<1>2. CASE AskLoad
  BY <1>1, <1>2 DEF AskLoad
<1>3. CASE AskStart
  <2> PICK a \in scene.apps :
         \/ \E m \in scene.manifests : Load("start", a, m)
         \/ /\ run[a] # None
            /\ \/ Begin("start", a, "takeDown", db[a], FALSE)
               \/ Begin("start", a, "preflight", <<>>, FALSE)
            /\ UNCHANGED <<scene, disk, db, at, torn, missed, left>>
    BY <1>3 DEF AskStart
  <2>1. CASE \E m \in scene.manifests : Load("start", a, m)
    BY <1>1, <2>1
  <2>2. ASSUME run[a] # None, UNCHANGED <<scene, disk, db, at>>,
               \/ Begin("start", a, "takeDown", db[a], FALSE)
               \/ Begin("start", a, "preflight", <<>>, FALSE)
        PROVE  RouteTypes'
    <3>1. /\ job' \in JobSet /\ job'.app = a /\ job'.pc \in {"takeDown", "preflight"}
          /\ job'.pc = "takeDown" => job'.todo = db[a]
      BY <1>0, <2>2, Begun DEF Steps, Verbs
    <3> QED BY <1>0, <2>2, <3>1
  <2> QED BY <2>1, <2>2
<1>4. CASE AskStop
  <2> PICK a \in Apps : /\ up' = [up EXCEPT ![a] = None]
                        /\ UNCHANGED <<scene, conf, run, compose, saved, db, at, job>>
    BY <1>0, <1>4 DEF AskStop
  <2>1. up' \in [Apps -> (SUBSET Nat) \cup {None}]
    OBVIOUS
  <2> QED BY <2>1
<1>5. CASE AskRemove
  <2> PICK a \in scene.apps, verb \in Removals :
         /\ up' = [up EXCEPT ![a] = None]
         /\ Begin(verb, a, "takeDown", db[a], FALSE)
         /\ UNCHANGED <<scene, conf, run, compose, saved, carried, db, at, torn, missed, left>>
    BY <1>5 DEF AskRemove, Removals
  <2>1. /\ a \in Apps /\ verb \in Verbs /\ FALSE \in BOOLEAN /\ "takeDown" \in Steps
        /\ db[a] \in Seq(RecordSet) \cup Seq(RouteSpecs)
    BY <1>0 DEF Steps, Verbs, Removals
  <2>2. /\ job' \in JobSet /\ job'.app = a /\ job'.pc = "takeDown" /\ job'.todo = db[a]
        /\ job'.verb \in Removals
    BY <2>1, Begun
  <2>3. up' \in [Apps -> (SUBSET Nat) \cup {None}]
    BY <2>1
  <2> QED BY <1>0, <2>1, <2>2, <2>3
<1>6. CASE AskRestore
  <2> PICK a \in scene.apps :
         /\ saved[a] # None /\ Begin("restore", a, "replaceConf", <<>>, FALSE)
         /\ UNCHANGED <<scene, disk, db, at, torn, missed, left>>
    BY <1>6 DEF AskRestore
  <2>1. job' \in JobSet /\ job'.app = a /\ job'.pc = "replaceConf"
    BY <1>0, Begun DEF Steps, Verbs
  <2> QED BY <1>0, <2>1
<1> QED BY <1>2, <1>3, <1>4, <1>5, <1>6

\* The walks through an app's records, taking routes down and putting them up.
LEMMA WalkTypes ==
    ASSUME RouteTypes, Pass \/ TakeDown \/ TakenDown \/ Register
    PROVE  RouteTypes'
<1>0. /\ scene \in Scenes /\ job \in JobSet /\ <<>> \in Seq(RecordSet)
      /\ at \in [Tags -> [Subdomains -> Standing]]
      /\ job.pc # "idle" => job.app \in Apps
      /\ job.pc \in {"takeDown", "register"} => job.todo \in Seq(RecordSet)
  BY DEF RouteTypes, JobTypes
<1>1. ASSUME job.pc \in {"takeDown", "register"}, NEW w \in Seq(RecordSet),
             job' = [job EXCEPT !.todo = w], UNCHANGED <<scene, disk, db>>,
             at' \in [Tags -> [Subdomains -> Standing]]
      PROVE  RouteTypes'
  <2>1. /\ job' \in JobSet /\ job'.pc = job.pc /\ job'.todo = w /\ job'.app = job.app
        /\ job'.verb = job.verb
    BY <1>0, <1>1, JobAt DEF Steps
  <2> QED BY <1>1, <2>1 DEF RouteTypes, DiskTypes, JobTypes, SavedSet, disk
<1>2. CASE Pass
  <2>1. job.pc \in {"takeDown", "register"} /\ job.todo # <<>>
        /\ job' = [job EXCEPT !.todo = Tail(job.todo)] /\ UNCHANGED <<scene, disk, db, at>>
    BY <1>2 DEF Pass, At
  <2>2. Tail(job.todo) \in Seq(RecordSet)
    BY <1>0, <2>1, TailWalk
  <2> QED BY <1>0, <1>1, <2>1, <2>2
<1>3. CASE TakeDown
  <2> DEFINE x == next(job.todo)
  <2>1. /\ job.pc = "takeDown" /\ job.todo # <<>> /\ Head(job.todo).at # <<>>
        /\ UNCHANGED <<scene, disk, db>>
        /\ \/ job' = [job EXCEPT !.todo = rest(job.todo)]
           \/ job' = [job EXCEPT !.todo = <<>>]
        /\ \/ at' = at
           \/ \E e \in {Unregistered(x.tag, at[x.tag][x.sub])}
                    \cup HalfUnregistered(x.tag, at[x.tag][x.sub]) : Put(x.tag, x.sub, e)
    BY <1>3 DEF TakeDown, At, passed
  <2>2. /\ rest(job.todo) \in Seq(RecordSet) /\ x.tag \in Tags /\ x.sub \in Subdomains
    BY <1>0, <2>1, RestWalk
  <2> HIDE DEF x
  <2>3. at' \in [Tags -> [Subdomains -> Standing]]
    <3>1. at[x.tag][x.sub] \in Standing
      BY <1>0, <2>2
    <3>2. \A a \in Apps \cup {Manual} :
             /\ Unregistered(x.tag, at[x.tag][x.sub]) \in Standing
             /\ HalfUnregistered(x.tag, at[x.tag][x.sub]) \subseteq Standing
      BY <3>1, Provided DEF NoPort
    <3>3. /\ Unregistered(x.tag, at[x.tag][x.sub]) \in Standing
          /\ HalfUnregistered(x.tag, at[x.tag][x.sub]) \subseteq Standing
      BY <3>2
    <3> QED BY <1>0, <2>1, <2>2, <3>3, PutAt
  <2> QED BY <1>0, <1>1, <2>1, <2>2, <2>3
<1>4. CASE TakenDown
  <2>1. /\ job.pc = "takeDown" /\ UNCHANGED <<scene, disk, db, at>>
        /\ IF job.verb \in Removals THEN Go("removeRun")
           ELSE Go("default") \/ Go("clear")
    BY <1>4 DEF TakenDown, At, Removals
  <2>2. /\ job' \in JobSet /\ job'.app = job.app
        /\ IF job.verb \in Removals THEN job'.pc = "removeRun"
           ELSE job'.pc \in {"default", "clear"}
    BY <1>0, <2>1, JobAt DEF Steps
  <2> QED BY <2>1, <2>2 DEF RouteTypes, DiskTypes, JobTypes, SavedSet, disk
<1>5. CASE Register
  <2> DEFINE x == next(job.todo)
             e == at[x.tag][x.sub]
  <2>1. /\ job.pc = "register" /\ UNCHANGED <<scene, disk, db>>
        /\ \/ Go("started") /\ at' = at
           \/ Done /\ at' = at
           \/ /\ job.todo # <<>> /\ Head(job.todo).at # <<>>
              /\ \/ /\ Put(x.tag, x.sub, Registered(x.tag, e, job.app, x.port))
                    /\ job' = [job EXCEPT !.todo = rest(job.todo)]
                 \/ /\ Done
                    /\ \E h \in HalfRegistered(x.tag, e, job.app, x.port) : Put(x.tag, x.sub, h)
    BY <1>5 DEF Register, At, passed
  <2>2. CASE Go("started") /\ at' = at
    <3>1. job' \in JobSet /\ job'.app = job.app /\ job'.pc = "started"
      BY <1>0, <2>2, JobAt DEF Steps
    <3> QED BY <2>1, <2>2, <3>1 DEF RouteTypes, DiskTypes, JobTypes, SavedSet, disk
  <2>3. CASE Done /\ at' = at
    BY <2>1, <2>3, Idles DEF RouteTypes
  <2>4. ASSUME job.todo # <<>>, Head(job.todo).at # <<>>,
               \/ /\ Put(x.tag, x.sub, Registered(x.tag, e, job.app, x.port))
                  /\ job' = [job EXCEPT !.todo = rest(job.todo)]
               \/ /\ Done
                  /\ \E h \in HalfRegistered(x.tag, e, job.app, x.port) : Put(x.tag, x.sub, h)
        PROVE  RouteTypes'
    <3>1. /\ rest(job.todo) \in Seq(RecordSet) /\ x.tag \in Tags /\ x.sub \in Subdomains
          /\ x.port \in Nat /\ job.app \in Apps
      BY <1>0, <2>1, <2>4, RestWalk
    <3> HIDE DEF x
    <3>2. /\ e \in Standing /\ Registered(x.tag, e, job.app, x.port) \in Standing
          /\ HalfRegistered(x.tag, e, job.app, x.port) \subseteq Standing
      BY <1>0, <3>1, Provided
    <3> HIDE DEF e
    <3>3. at' \in [Tags -> [Subdomains -> Standing]]
      BY <1>0, <2>4, <3>1, <3>2, PutAt
    <3> QED BY <1>0, <1>1, <2>1, <2>4, <3>1, <3>3, Idles
  <2> QED BY <2>1, <2>2, <2>3, <2>4
<1> QED BY <1>2, <1>3, <1>4, <1>5

\* What a load makes an app's config, and a record of it, are of their kinds.
LEMMA DerivedTypes ==
    ASSUME NEW c \in ConfSet, NEW a \in Apps, NEW m
    PROVE  /\ Defaulted(c, a, m) \in ConfSet
           /\ \A r \in RouteSpecs, l \in Labels, p \in Nat : Derived(r, l, c, p) \in RecordSet
<1>1. Default \in Seq(Tags) /\ DefaultLabel[a] \in Labels
  BY ConstantsAssumption
<1>2. Defaulted(c, a, m) \in ConfSet
  <2> DEFINE unset == {r \in ToSet(m) : c.assign[r.name] = None /\ ~r.private}
             named == {x.name : x \in unset}
             f == [r \in RouteNames |-> IF r \in named THEN Default ELSE c.assign[r]]
             l == IF c.label = None THEN DefaultLabel[a] ELSE c.label
             b == c.pending \/ c.label = None \/ unset # {}
  <2>1. Defaulted(c, a, m) = [label |-> l, assign |-> f, pending |-> b]
    BY DEF Defaulted
  <2>2. /\ c.label \in Labels \cup {None} /\ c.pending \in BOOLEAN
        /\ c.assign \in [RouteNames -> Seq(Tags) \cup {None}]
    BY DEF ConfSet
  <2>3. b \in BOOLEAN
    BY <2>2
  <2> HIDE DEF unset, named, b
  <2>4. f \in [RouteNames -> Seq(Tags) \cup {None}] /\ l \in Labels \cup {None}
    BY <1>1, <2>2
  <2> HIDE DEF f, l
  <2> QED BY <2>1, <2>3, <2>4 DEF ConfSet
<1>3. ASSUME NEW r \in RouteSpecs, NEW l \in Labels, NEW p \in Nat
      PROVE  Derived(r, l, c, p) \in RecordSet
  <2>1. r.name \in RouteNames
    BY DEF RouteSpecs
  <2>2. subdomain(r.name, l) \in Subdomains
    BY <2>1 DEF subdomain, Subdomains
  <2>3. (IF c.assign[r.name] = None THEN <<>> ELSE c.assign[r.name]) \in Seq(Tags)
    BY <2>1 DEF ConfSet
  <2> QED BY <2>1, <2>2, <2>3 DEF Derived, RecordSet
<1> QED BY <1>2, <1>3

\* Moving a verb on while config, copy and compose.yml keep their kinds.
LEMMA GoTypes ==
    ASSUME RouteTypes, DiskTypes', scene' = scene, job.app \in Apps,
           db' \in [Apps -> Seq(RecordSet)], at' \in [Tags -> [Subdomains -> Standing]],
           NEW l \in Steps, Go(l) \/ GoDo(l, job'.todo), job'.todo \in Seq(RecordSet) \cup Seq(RouteSpecs),
           l \in {"takeDown", "register"} => job'.todo \in Seq(RecordSet),
           l = "allocate" => /\ job'.todo \in Seq(RouteSpecs)
                             /\ ToSet(job'.todo) \subseteq ToSet(run'[job.app]),
           l \in {"default", "clear", "allocate", "write", "takeDown"} => run'[job.app] # None,
           l = "composeUp" => compose'[job.app] # None,
           l \in {"replaceConf", "replaceRun"} => saved'[job.app] # None
    PROVE  RouteTypes'
<1>1. /\ job' \in JobSet /\ job'.app = job.app /\ job'.pc = l
  BY JobAt DEF RouteTypes, JobTypes
<1> QED BY <1>1 DEF RouteTypes, JobTypes

\* The steps of a verb that derive an app's records and write its compose.yml.
LEMMA DeriveTypes ==
    ASSUME RouteTypes, ApplyDefaults \/ Clear \/ Allocate \/ Write
    PROVE  RouteTypes'
<1>0. /\ scene \in Scenes /\ job \in JobSet /\ <<>> \in Seq(RecordSet) /\ <<>> \in Seq(RouteSpecs)
      /\ db \in [Apps -> Seq(RecordSet)] /\ at \in [Tags -> [Subdomains -> Standing]]
      /\ scene.manifests \subseteq Seq(RouteSpecs) /\ None \notin scene.manifests
      /\ \A a \in Apps : run[a] \in scene.manifests \cup {None} /\ conf[a] \in ConfSet
  BY OfScene DEF RouteTypes, JobTypes, DiskTypes
<1>a. job.pc # "idle" => job.app \in Apps
  BY DEF RouteTypes, JobTypes
<1>b. job.pc \in {"default", "clear", "allocate", "write"} => run[job.app] # None
  BY DEF RouteTypes, JobTypes
<1>c. {"clear", "allocate", "write", "loaded", "preflight"} \subseteq Steps
  BY DEF Steps
<1>1. CASE ApplyDefaults
  <2>1. /\ job.pc = "default" /\ Go("clear") /\ UNCHANGED <<scene, run, compose, up, saved, db, at>>
        /\ conf' = [conf EXCEPT ![job.app] = Defaulted(@, job.app, run[job.app])]
    BY <1>1 DEF ApplyDefaults, At
  <2>2. job.app \in Apps /\ Defaulted(conf[job.app], job.app, run[job.app]) \in ConfSet
    BY <1>0, <1>a, <2>1, DerivedTypes
  <2>3. DiskTypes'
    BY <2>1, <2>2 DEF RouteTypes, DiskTypes, SavedSet
  <2>4. job'.todo = <<>>
    BY <1>0, <1>c, <2>1, JobAt
  <2> QED BY <1>0, <1>b, <1>c, <2>1, <2>2, <2>3, <2>4, GoTypes
<1>2. CASE Clear
  <2>1. /\ job.pc = "clear" /\ UNCHANGED <<scene, disk, at>>
        /\ \/ Go("write") /\ UNCHANGED db
           \/ db' = [db EXCEPT ![job.app] = <<>>] /\ GoDo("allocate", run[job.app])
    BY <1>2 DEF Clear, At
  <2>2. job.app \in Apps /\ run[job.app] \in Seq(RouteSpecs) /\ run[job.app] # None
    BY <1>0, <1>a, <1>b, <2>1
  <2>3. DiskTypes' /\ run'[job.app] = run[job.app]
    BY <2>1 DEF RouteTypes, DiskTypes, SavedSet, disk
  <2>4. CASE Go("write") /\ UNCHANGED db
    <3>1. job'.todo = <<>>
      BY <1>0, <1>c, <2>4, JobAt
    <3> QED BY <1>0, <1>c, <2>1, <2>2, <2>3, <2>4, <3>1, GoTypes
  <2>5. CASE db' = [db EXCEPT ![job.app] = <<>>] /\ GoDo("allocate", run[job.app])
    <3>1. job'.todo = run[job.app]
      BY <1>0, <1>c, <2>2, <2>5, JobAt
    <3>2. db' \in [Apps -> Seq(RecordSet)]
      BY <1>0, <2>2, <2>5
    <3> QED BY <1>0, <1>c, <2>1, <2>2, <2>3, <2>5, <3>1, <3>2, GoTypes
  <2> QED BY <2>1, <2>4, <2>5
<1>3. CASE Allocate
  <2> DEFINE r == Head(job.todo)
             a == job.app
             l == IF conf[a].label = None THEN DefaultLabel[a] ELSE conf[a].label
  <2>0. job.pc = "allocate" /\ a \in Apps /\ run[a] # None /\ UNCHANGED <<scene, disk, at>>
    BY <1>3, <1>a, <1>b DEF Allocate, At
  <2>1. job.todo \in Seq(RouteSpecs) /\ ToSet(job.todo) \subseteq ToSet(run[a])
    BY <2>0 DEF RouteTypes, JobTypes
  <2>2. \/ job.todo = <<>> /\ Go("write") /\ UNCHANGED db
        \/ Done /\ UNCHANGED db
        \/ /\ job.todo # <<>>
           /\ \E p \in {r.port} \cup free_ports :
                 /\ db' = [db EXCEPT ![a] = Append(@, Derived(r, l, conf[a], p))]
                 /\ job' = [job EXCEPT !.todo = Tail(@)]
    BY <1>3 DEF Allocate
  <2>3. DiskTypes' /\ run'[a] = run[a]
    BY <2>0 DEF RouteTypes, DiskTypes, SavedSet, disk
  <2>4. CASE Go("write") /\ UNCHANGED db
    <3>1. job'.todo = <<>>
      BY <1>0, <1>c, <2>4, JobAt
    <3> QED BY <1>0, <1>c, <2>0, <2>3, <2>4, <3>1, GoTypes
  <2>5. CASE Done /\ UNCHANGED db
    BY <1>0, <2>0, <2>5, Idles
  <2>6. ASSUME job.todo # <<>>, NEW p \in {r.port} \cup free_ports,
               db' = [db EXCEPT ![a] = Append(@, Derived(r, l, conf[a], p))],
               job' = [job EXCEPT !.todo = Tail(@)]
        PROVE  RouteTypes'
    <3>1. /\ r \in RouteSpecs /\ Tail(job.todo) \in Seq(RouteSpecs)
          /\ ToSet(Tail(job.todo)) \subseteq ToSet(job.todo)
      BY <2>1, <2>6, TailWalk
    <3>2. p \in Nat /\ l \in Labels
      <4>1. /\ DefaultLabel \in [Apps -> Labels] /\ PortBase \in Nat /\ PortRangeSize \in Nat
            /\ conf[a].label \in Labels \cup {None} /\ r.port \in Nat
        BY <1>0, <2>0, <3>1, ConstantsAssumption DEF RouteSpecs, ConfSet
      <4>2. free_ports \subseteq Nat
        BY <4>1 DEF free_ports
      <4> QED BY <2>0, <2>6, <4>1, <4>2
    <3>3. Derived(r, l, conf[a], p) \in RecordSet
      BY <1>0, <2>0, <3>1, <3>2, DerivedTypes
    <3> HIDE DEF r, l
    <3>4. db' \in [Apps -> Seq(RecordSet)]
      BY <1>0, <2>0, <2>6, <3>3
    <3>5. /\ job' \in JobSet /\ job'.pc = "allocate" /\ job'.app = a
          /\ job'.todo = Tail(job.todo)
      BY <1>0, <1>c, <2>0, <2>6, <3>1, JobAt
    <3> QED BY <1>0, <2>0, <2>1, <2>3, <3>1, <3>4, <3>5 DEF RouteTypes, JobTypes
  <2> QED BY <2>2, <2>4, <2>5, <2>6
<1>4. CASE Write
  <2> DEFINE a == job.app
  <2>0. /\ job.pc = "write" /\ a \in Apps /\ run[a] # None
        /\ UNCHANGED <<scene, conf, run, up, saved, carried, db, at>>
    BY <1>4, <1>a, <1>b DEF Write, At
  <2>1. \/ /\ compose' = [compose EXCEPT ![a] = Ports(a)]
           /\ Go("loaded") \/ Go("preflight") \/ Done
        \/ Done /\ UNCHANGED compose
    BY <1>4 DEF Write
  <2>2. Ports(a) \in SUBSET (RouteNames \X Nat)
    <3>1. \A r \in run_routes(a) : r \in RecordSet
      BY <1>0, <2>0 DEF run_routes, ToSet
    <3> QED BY <3>1 DEF Ports, RecordSet
  <2>3. DiskTypes' /\ run'[a] # None
    BY <2>0, <2>1, <2>2 DEF RouteTypes, DiskTypes, SavedSet
  <2>4. CASE Done
    <3>1. job' \in JobSet /\ job'.pc = "idle"
      BY <1>0, <1>c, <2>4, JobAt
    <3> QED BY <1>0, <2>0, <2>3, <3>1 DEF RouteTypes, JobTypes
  <2>5. ASSUME NEW l \in {"loaded", "preflight"}, Go(l)
        PROVE  RouteTypes'
    <3>1. job'.todo = <<>>
      BY <1>0, <1>c, <2>5, JobAt
    <3> QED BY <1>0, <1>c, <2>0, <2>3, <2>5, <3>1, GoTypes
  <2> QED BY <2>1, <2>4, <2>5
<1> QED BY <1>1, <1>2, <1>3, <1>4

\* Starting, removing and restoring.
LEMMA PlaceTypes ==
    ASSUME RouteTypes,
           \/ Loaded \/ Started \/ Preflight \/ ComposeUp
           \/ RemoveRun \/ RemoveConf \/ PurgeDb \/ ReplaceConf \/ ReplaceRun
    PROVE  RouteTypes'
<1> DEFINE a == job.app
<1>0. /\ scene \in Scenes /\ job \in JobSet /\ <<>> \in Seq(RecordSet)
      /\ db \in [Apps -> Seq(RecordSet)] /\ at \in [Tags -> [Subdomains -> Standing]]
      /\ {"preflight", "composeUp", "register", "removeConf", "purgeDb", "replaceRun", "clear"}
            \subseteq Steps
      /\ job.pc # "idle" => a \in Apps
      /\ DiskTypes
      /\ \A b \in Apps : saved[b] # None => saved[b].conf \in ConfSet
                                            /\ saved[b].run \in scene.manifests \cup {None}
  BY DEF RouteTypes, JobTypes, DiskTypes, SavedSet, Steps
<1>a. ASSUME NEW l \in Steps, Go(l)
      PROVE  job'.todo = <<>>
  BY <1>0, <1>a, JobAt
<1>b. ASSUME Done, DiskTypes', scene' = scene, db' \in [Apps -> Seq(RecordSet)], at' = at
      PROVE  RouteTypes'
  <2>1. job' \in JobSet /\ job'.pc = "idle"
    BY <1>0, <1>b, JobAt
  <2> QED BY <1>0, <1>b, <2>1 DEF RouteTypes, JobTypes
<1>1. CASE Loaded \/ Started
  <2>1. /\ job.pc # "idle" /\ conf' = [conf EXCEPT ![a].pending = FALSE]
        /\ Go("preflight") \/ Done
        /\ UNCHANGED <<scene, run, compose, up, saved, carried, db, at>>
    BY <1>1 DEF Loaded, Started, Applied, At
  <2>2. \A c \in ConfSet : [c EXCEPT !.pending = FALSE] \in ConfSet
    BY DEF ConfSet
  <2>3. conf' \in [Apps -> ConfSet]
    BY <1>0, <2>1, <2>2 DEF DiskTypes
  <2>4. DiskTypes'
    BY <1>0, <2>1, <2>3 DEF DiskTypes, SavedSet
  <2>5. CASE Done
    BY <1>0, <1>b, <2>1, <2>4, <2>5
  <2>6. CASE Go("preflight")
    BY <1>0, <1>a, <2>1, <2>4, <2>6, GoTypes
  <2> QED BY <2>1, <2>5, <2>6
<1>2. CASE Preflight
  <2>1. /\ job.pc # "idle" /\ UNCHANGED <<scene, disk, db, at>>
        /\ Done \/ (compose[a] # None /\ Go("composeUp"))
    BY <1>2 DEF Preflight, At
  <2>2. DiskTypes' /\ compose'[a] = compose[a]
    BY <1>0, <2>1 DEF DiskTypes, SavedSet, disk
  <2>3. CASE Done
    BY <1>0, <1>b, <2>1, <2>2, <2>3
  <2>4. CASE compose[a] # None /\ Go("composeUp")
    BY <1>0, <1>a, <2>1, <2>2, <2>4, GoTypes
  <2> QED BY <2>1, <2>3, <2>4
<1>3. CASE ComposeUp
  <2> DEFINE ports == {x[2] : x \in compose[a]}
  <2>1. /\ job.pc = "composeUp" /\ UNCHANGED <<scene, conf, run, compose, saved, carried, db, at>>
        /\ UNCHANGED up \/ up' = [up EXCEPT ![a] = ports]
        /\ Done \/ GoDo("register", db[a])
    BY <1>3 DEF ComposeUp, At
  <2>2. a \in Apps /\ compose[a] # None
    BY <1>0, <2>1 DEF RouteTypes, JobTypes
  <2>3. ports \subseteq Nat
    BY <1>0, <2>2 DEF DiskTypes
  <2> HIDE DEF ports
  <2>4. DiskTypes'
    BY <1>0, <2>1, <2>2, <2>3 DEF DiskTypes, SavedSet
  <2>5. CASE Done
    BY <1>0, <1>b, <2>1, <2>4, <2>5
  <2>6. CASE GoDo("register", db[a])
    <3>1. job'.todo = db[a] /\ db[a] \in Seq(RecordSet)
      BY <1>0, <2>2, <2>6, JobAt
    <3> QED BY <1>0, <2>1, <2>2, <2>4, <2>6, <3>1, GoTypes
  <2> QED BY <2>1, <2>5, <2>6
<1>4. CASE RemoveRun
  <2>1. /\ job.pc # "idle" /\ UNCHANGED <<scene, conf, up, saved, carried, db, at>>
        /\ run' = [run EXCEPT ![a] = None] /\ compose' = [compose EXCEPT ![a] = None]
        /\ Go("removeConf") \/ Done
    BY <1>4 DEF RemoveRun, At
  <2>2. DiskTypes'
    BY <1>0, <2>1 DEF DiskTypes, SavedSet
  <2>3. CASE Done
    BY <1>0, <1>b, <2>1, <2>2, <2>3
  <2>4. CASE Go("removeConf")
    BY <1>0, <1>a, <2>1, <2>2, <2>4, GoTypes
  <2> QED BY <2>1, <2>3, <2>4
<1>5. CASE RemoveConf
  <2>1. /\ job.pc # "idle" /\ UNCHANGED <<scene, run, compose, up, saved, carried, db, at>>
        /\ conf' = [conf EXCEPT ![a] = NoConf] /\ Go("purgeDb")
    BY <1>5 DEF RemoveConf, At
  <2>2. NoConf \in ConfSet
    BY DEF NoConf, ConfSet
  <2>3. DiskTypes'
    BY <1>0, <2>1, <2>2 DEF DiskTypes, SavedSet
  <2> QED BY <1>0, <1>a, <2>1, <2>3, GoTypes
<1>6. CASE PurgeDb
  <2>1. /\ job.pc # "idle" /\ UNCHANGED <<scene, disk, at>> /\ Done
        /\ db' = [db EXCEPT ![a] = <<>>]
    BY <1>6 DEF PurgeDb, At
  <2>2. DiskTypes' /\ db' \in [Apps -> Seq(RecordSet)]
    BY <1>0, <2>1 DEF DiskTypes, SavedSet, disk
  <2> QED BY <1>b, <2>1, <2>2
<1>7. CASE ReplaceConf
  <2>1. /\ job.pc = "replaceConf" /\ UNCHANGED <<scene, run, compose, up, saved, carried, db, at>>
        /\ conf' = [conf EXCEPT ![a] = saved[a].conf] /\ Go("replaceRun")
    BY <1>7 DEF ReplaceConf, At
  <2>2. saved[a] # None
    BY <2>1 DEF RouteTypes, JobTypes
  <2>3. DiskTypes'
    BY <1>0, <2>1, <2>2 DEF DiskTypes, SavedSet
  <2> QED BY <1>0, <1>a, <2>1, <2>2, <2>3, GoTypes
<1>8. CASE ReplaceRun
  <2>1. /\ job.pc = "replaceRun" /\ UNCHANGED <<scene, conf, up, saved, carried, db, at>>
        /\ run' = [run EXCEPT ![a] = saved[a].run] /\ compose' = [compose EXCEPT ![a] = None]
        /\ Done \/ (saved[a].run # None /\ Go("clear"))
    BY <1>8 DEF ReplaceRun, At
  <2>2. saved[a] # None
    BY <2>1 DEF RouteTypes, JobTypes
  <2>3. DiskTypes' /\ run'[a] = saved[a].run
    BY <1>0, <2>1, <2>2 DEF DiskTypes, SavedSet
  <2>4. CASE Done
    BY <1>0, <1>b, <2>1, <2>3, <2>4
  <2>5. CASE saved[a].run # None /\ Go("clear")
    BY <1>0, <1>a, <2>1, <2>3, <2>5, GoTypes
  <2> QED BY <2>1, <2>4, <2>5
<1> QED BY <1>1, <1>2, <1>3, <1>4, <1>5, <1>6, <1>7, <1>8

\* Verbs of one step, and what happens between verbs.
LEMMA BetweenTypes ==
    ASSUME RouteTypes, Configure \/ Backup \/ Cleanup \/ Dropped \/ Hands \/ Crash
    PROVE  RouteTypes'
<1>0. /\ scene \in Scenes /\ scene.apps \subseteq Apps /\ DiskTypes
      /\ db \in [Apps -> Seq(RecordSet)] /\ at \in [Tags -> [Subdomains -> Standing]]
      /\ JobTypes /\ <<>> \in Seq(RecordSet)
  BY OfScene DEF RouteTypes
<1>1. CASE Configure
  <2>0. PICK a \in scene.apps :
           /\ Ask("config", a) /\ left.configs > 0 /\ (run[a] # None \/ carried[a])
           /\ left' = [left EXCEPT !.configs = @ - 1]
           /\ \/ \E l \in Labels \ {conf[a].label} :
                    /\ conf' = [conf EXCEPT ![a].label = l, ![a].pending = TRUE]
                    /\ UNCHANGED compose
              \/ \E m \in IF run[a] = None THEN scene.manifests ELSE {run[a]} :
                 \E r \in names(m), g \in Assignments :
                    /\ conf' = [conf EXCEPT ![a].assign[r] = g, ![a].pending = TRUE]
                    /\ compose' = IF run[a] = None THEN compose
                                  ELSE [compose EXCEPT ![a] = Ports(a)]
           /\ UNCHANGED <<scene, run, up, saved, carried, db, at, job, torn, missed>>
    BY <1>1, Zenon DEF Configure
  <2>b. job.pc = "idle"
    BY <2>0 DEF Ask, At
  <2>a. \A m \in IF run[a] = None THEN scene.manifests ELSE {run[a]} : names(m) \subseteq RouteNames
    <3>1. \A m \in scene.manifests : names(m) \subseteq RouteNames
      <4> SUFFICES ASSUME NEW m \in scene.manifests, NEW i \in DOMAIN m
                   PROVE  m[i].name \in RouteNames
        BY DEF names
      <4>1. m[i] \in RouteSpecs
        BY <1>0, OfScene
      <4> QED BY <4>1 DEF RouteSpecs
    <3> QED BY <1>0, <2>0, <3>1 DEF DiskTypes
  <2>1. /\ \/ \E l \in Labels : conf' = [conf EXCEPT ![a].label = l, ![a].pending = TRUE]
           \/ \E r \in RouteNames, g \in Assignments :
                 conf' = [conf EXCEPT ![a].assign[r] = g, ![a].pending = TRUE]
        /\ compose' = compose \/ compose' = [compose EXCEPT ![a] = Ports(a)]
    BY <2>0, <2>a
  <2>2. a \in Apps /\ conf[a] \in ConfSet
    BY <1>0, <2>0 DEF DiskTypes
  <2>3. ASSUME NEW l \in Labels
        PROVE  [conf EXCEPT ![a].label = l, ![a].pending = TRUE] \in [Apps -> ConfSet]
    <3> DEFINE c == [conf[a] EXCEPT !.label = l, !.pending = TRUE]
    <3>1. c \in ConfSet
      BY <2>2 DEF ConfSet
    <3>2. [conf EXCEPT ![a].label = l, ![a].pending = TRUE] = [conf EXCEPT ![a] = c]
      BY <1>0, <2>2 DEF DiskTypes
    <3> HIDE DEF c
    <3> QED BY <1>0, <2>2, <3>1, <3>2 DEF DiskTypes
  <2>4. ASSUME NEW r \in RouteNames, NEW g \in Assignments
        PROVE  [conf EXCEPT ![a].assign[r] = g, ![a].pending = TRUE] \in [Apps -> ConfSet]
    <3> DEFINE f == [conf[a].assign EXCEPT ![r] = g]
               c == [conf[a] EXCEPT !.assign = f, !.pending = TRUE]
    <3>1. g \in Seq(Tags) /\ conf[a].assign \in [RouteNames -> Seq(Tags) \cup {None}]
      BY <2>2, ConstantsAssumption DEF ConfSet
    <3>2. f \in [RouteNames -> Seq(Tags) \cup {None}]
      BY <3>1
    <3>3. [conf EXCEPT ![a].assign[r] = g, ![a].pending = TRUE] = [conf EXCEPT ![a] = c]
      BY <1>0, <2>2 DEF DiskTypes
    <3> HIDE DEF f
    <3>4. c \in ConfSet
      BY <2>2, <3>2 DEF ConfSet
    <3> HIDE DEF c
    <3> QED BY <1>0, <2>2, <3>3, <3>4 DEF DiskTypes
  <2>5. conf' \in [Apps -> ConfSet]
    <3>1. CASE \E l \in Labels : conf' = [conf EXCEPT ![a].label = l, ![a].pending = TRUE]
      BY <2>3, <3>1, Zenon
    <3>2. CASE \E r \in RouteNames, g \in Assignments :
                 conf' = [conf EXCEPT ![a].assign[r] = g, ![a].pending = TRUE]
      <4> PICK r \in RouteNames, g \in Assignments :
               conf' = [conf EXCEPT ![a].assign[r] = g, ![a].pending = TRUE]
        BY <3>2
      <4> DEFINE x == [conf EXCEPT ![a].assign[r] = g, ![a].pending = TRUE]
      <4>1. x \in [Apps -> ConfSet] /\ conf' = x
        BY <2>4
      <4> QED BY <4>1
    <3> QED BY <2>1, <3>1, <3>2
  <2>6. Ports(a) \in SUBSET (RouteNames \X Nat)
    <3>1. \A r \in run_routes(a) : r \in RecordSet
      BY <1>0, <2>2 DEF run_routes, ToSet
    <3> QED BY <3>1 DEF Ports, RecordSet
  <2>7. compose' \in [Apps -> (SUBSET (RouteNames \X Nat)) \cup {None}]
    BY <1>0, <2>1, <2>2, <2>6 DEF DiskTypes
  <2>8. DiskTypes'
    BY <1>0, <2>0, <2>5, <2>7 DEF DiskTypes, SavedSet
  <2> QED BY <1>0, <2>0, <2>b, <2>8 DEF RouteTypes, JobTypes
<1>2. CASE Backup
  <2>1. PICK a \in scene.apps :
           /\ saved' = [saved EXCEPT ![a] = [conf |-> conf[a], run |-> run[a]]]
           /\ UNCHANGED <<scene, conf, run, compose, up, carried, db, at, job>>
           /\ job.pc = "idle"
    BY <1>2 DEF Backup, Ask, At
  <2>2. a \in Apps /\ [conf |-> conf[a], run |-> run[a]] \in SavedSet
    BY <1>0, <2>1 DEF DiskTypes, SavedSet
  <2>3. saved' \in [Apps -> SavedSet \cup {None}]
    BY <1>0, <2>1, <2>2 DEF DiskTypes
  <2>4. DiskTypes'
    BY <1>0, <2>1, <2>3 DEF DiskTypes, SavedSet
  <2> QED BY <1>0, <2>1, <2>4 DEF RouteTypes, JobTypes
<1>3. CASE Cleanup
  <2>1. PICK a \in scene.apps :
           db' = [db EXCEPT ![a] = <<>>] /\ UNCHANGED <<scene, disk, at, job>>
    BY <1>3 DEF Cleanup
  <2> QED BY <1>0, <2>1 DEF RouteTypes, DiskTypes, JobTypes, SavedSet, disk
<1>4. CASE Dropped
  <2>1. UNCHANGED <<scene, conf, run, compose, up, saved, db, at, job>>
    BY <1>4 DEF Dropped
  <2> QED BY <1>0, <2>1 DEF RouteTypes, DiskTypes, JobTypes, SavedSet
<1>5. CASE Hands
  <2>1. PICK t \in Tags, s \in Subdomains :
           /\ UNCHANGED <<scene, disk, db, job>>
           /\ ByHand(t, s) \/ RouteAdd(t, s) \/ RouteRemove(t, s) \/ remove_published_route(t, s)
    BY <1>5 DEF Hands
  <2>2. at[t][s] \in Standing
    BY <1>0
  <2>3. \A p \in Nat :
           /\ Absent \in Standing /\ Registered(t, at[t][s], Manual, p) \in Standing
           /\ Unregistered(t, at[t][s]) \in Standing
    BY <2>2, Provided
  <2>4. Elsewhere \in Nat /\ [port |-> Elsewhere, owner |-> Outsider] \in Standing
    BY DEF Elsewhere, Standing, Owners
  <2>5. \E e \in Standing : Put(t, s, e)
    BY <2>1, <2>3, <2>4 DEF ByHand, RouteAdd, RouteRemove, remove_published_route
  <2>6. at' \in [Tags -> [Subdomains -> Standing]]
    BY <1>0, <2>5, PutAt
  <2> QED BY <1>0, <2>1, <2>6 DEF RouteTypes, DiskTypes, JobTypes, SavedSet, disk
<1>6. CASE Crash
  BY <1>0, <1>6, Idles DEF Crash
<1> QED BY <1>1, <1>2, <1>3, <1>4, <1>5, <1>6

\* The types are kept by every step, and a behaviour starts with them.
LEMMA RouteTypesKept ==
    ASSUME RouteTypes, [Next]_vars
    PROVE  RouteTypes'
<1>1. CASE UNCHANGED vars
  BY <1>1 DEF vars, RouteTypes, DiskTypes, JobTypes, SavedSet
<1> QED BY <1>1, AskTypes, WalkTypes, DeriveTypes, PlaceTypes, BetweenTypes DEF Next

LEMMA RouteTypesInit ==
    ASSUME Init
    PROVE  RouteTypes
<1>1. NoConf \in ConfSet /\ Absent \in Standing
  BY DEF NoConf, ConfSet, Absent, Standing, NoPort, Owners
<1>2. /\ job.pc = "idle" /\ job \in JobSet
  BY DEF Init, Idle, JobSet, Steps
<1>3. DiskTypes
  BY <1>1 DEF Init, DiskTypes
<1> QED BY <1>1, <1>2, <1>3 DEF Init, RouteTypes, JobTypes

-----------------------------------------------------------------------------
(***************************************************************************)
(* Host ports.  Only a load writes records, one after the other, and the   *)
(* port it looks for is on none of those that are there.                   *)
(***************************************************************************)
\* What a step does to the records.
LEMMA RecordsChange ==
    ASSUME RouteTypes, [Next]_vars
    PROVE  /\ scene' = scene
           /\ \/ db' = db
              \/ \E a \in Apps : db' = [db EXCEPT ![a] = <<>>]
              \/ \E a \in Apps, q \in RecordSet :
                    /\ db' = [db EXCEPT ![a] = Append(db[a], q)]
                    /\ q.port \in Pins \/ q.port \in free_ports
<1>0. scene.apps \subseteq Apps /\ (job.pc # "idle" => job.app \in Apps)
  BY OfScene DEF RouteTypes, JobTypes
<1>1. CASE Clear
  BY <1>0, <1>1 DEF Clear, At
<1>2. CASE PurgeDb
  BY <1>0, <1>2 DEF PurgeDb, At
<1>3. CASE Cleanup
  BY <1>0, <1>3 DEF Cleanup
<1>4. CASE Allocate
  <2> DEFINE r == Head(job.todo)
             a == job.app
             l == IF conf[a].label = None THEN DefaultLabel[a] ELSE conf[a].label
  <2>0. job.pc = "allocate" /\ a \in Apps /\ scene' = scene
    BY <1>0, <1>4 DEF Allocate, At
  <2>1. \/ UNCHANGED db
        \/ /\ job.todo # <<>>
           /\ \/ /\ r.port # 0
                 /\ db' = [db EXCEPT ![a] = Append(@, Derived(r, l, conf[a], r.port))]
              \/ \E p \in free_ports :
                    db' = [db EXCEPT ![a] = Append(@, Derived(r, l, conf[a], p))]
    BY <1>4 DEF Allocate
  <2>2. ASSUME job.todo # <<>>
        PROVE  /\ r \in RouteSpecs /\ (r.port # 0 => r.port \in Pins)
               /\ l \in Labels /\ conf[a] \in ConfSet /\ r.port \in Nat /\ free_ports \subseteq Nat
    <3>1. /\ job.todo \in Seq(RouteSpecs) /\ ToSet(job.todo) \subseteq ToSet(run[a])
          /\ run[a] \in scene.manifests \cup {None} /\ run[a] # None /\ conf[a] \in ConfSet
      BY <2>0 DEF RouteTypes, JobTypes, DiskTypes
    <3>2. r \in RouteSpecs /\ r \in ToSet(run[a]) /\ r.port \in Nat
      <4>1. r \in RouteSpecs /\ r \in ToSet(job.todo)
        BY <2>2, <3>1, TailWalk
      <4> QED BY <3>1, <4>1 DEF RouteSpecs
    <3>3. r.port # 0 => r.port \in Pins
      BY <3>1, <3>2 DEF Pins
    <3>4. DefaultLabel \in [Apps -> Labels] /\ PortBase \in Nat /\ PortRangeSize \in Nat
      BY ConstantsAssumption
    <3>5. l \in Labels
      BY <2>0, <3>1, <3>4 DEF ConfSet
    <3> QED BY <3>1, <3>2, <3>3, <3>4, <3>5 DEF free_ports
  <2> HIDE DEF r, l
  <2>3. ASSUME job.todo # <<>>, NEW p \in Nat, p \in Pins \/ p \in free_ports,
               db' = [db EXCEPT ![a] = Append(@, Derived(r, l, conf[a], p))]
        PROVE  \E q \in RecordSet : /\ db' = [db EXCEPT ![a] = Append(db[a], q)]
                                    /\ q.port \in Pins \/ q.port \in free_ports
    <3>1. Derived(r, l, conf[a], p) \in RecordSet
      BY <2>0, <2>2, <2>3, DerivedTypes
    <3>2. Derived(r, l, conf[a], p).port = p
      BY DEF Derived
    <3> QED BY <2>3, <3>1, <3>2
  <2> QED BY <2>0, <2>1, <2>2, <2>3
<1>5. ASSUME Next, ~Clear, ~PurgeDb, ~Cleanup, ~Allocate
      PROVE  scene' = scene /\ db' = db
  <2>1. CASE AskLoad \/ AskStart
    BY <2>1 DEF AskLoad, AskStart, Load
  <2>2. CASE AskStop \/ AskRemove \/ AskRestore \/ Pass \/ TakenDown \/ ApplyDefaults
    BY <2>2 DEF AskStop, AskRemove, AskRestore, Pass, TakenDown, ApplyDefaults
  <2>3. CASE TakeDown \/ Register \/ Hands \/ Crash
    BY <2>3 DEF TakeDown, Register, Hands, Crash
  <2>4. CASE Write \/ Loaded \/ Started \/ Preflight \/ ComposeUp
    BY <2>4 DEF Write, Loaded, Started, Applied, Preflight, ComposeUp
  <2>5. CASE RemoveRun \/ RemoveConf \/ ReplaceConf \/ ReplaceRun
    BY <2>5 DEF RemoveRun, RemoveConf, ReplaceConf, ReplaceRun
  <2>6. CASE Configure \/ Backup \/ Dropped
    BY <2>6 DEF Configure, Backup, Dropped
  <2> QED BY <1>5, <2>1, <2>2, <2>3, <2>4, <2>5, <2>6 DEF Next
<1>6. CASE UNCHANGED vars
  BY <1>6 DEF vars
<1> QED BY <1>1, <1>2, <1>3, <1>4, <1>5, <1>6 DEF Clear, PurgeDb, Cleanup

LEMMA PortsApartKept ==
    ASSUME RouteTypes, PortsApart, [Next]_vars
    PROVE  PortsApart'
<1>0. db \in [Apps -> Seq(RecordSet)]
  BY DEF RouteTypes
<1>1. scene' = scene /\ Pins' = Pins
  BY RecordsChange DEF Pins
<1>2. CASE db' = db
  BY <1>1, <1>2 DEF PortsApart
<1>3. ASSUME NEW a \in Apps, db' = [db EXCEPT ![a] = <<>>]
      PROVE  PortsApart'
  <2>1. /\ DOMAIN db'[a] = {}
        /\ \A b \in Apps : b # a => db'[b] = db[b]
    BY <1>0, <1>3
  <2> QED BY <1>1, <2>1 DEF PortsApart
<1>4. ASSUME NEW a \in Apps, NEW q \in RecordSet, db' = [db EXCEPT ![a] = Append(db[a], q)],
             q.port \in Pins \/ q.port \in free_ports
      PROVE  PortsApart'
  <2> DEFINE n == Len(db[a]) + 1
  <2>1. /\ \A b \in Apps : b # a => db'[b] = db[b]
        /\ db'[a] = Append(db[a], q) /\ db[a] \in Seq(RecordSet)
    BY <1>0, <1>4
  <2>2. /\ DOMAIN db'[a] = DOMAIN db[a] \cup {n} /\ db'[a][n] = q
        /\ \A i \in DOMAIN db[a] : db'[a][i] = db[a][i]
    BY <2>1
  <2>3. q.port \in free_ports => \A b \in Apps : \A j \in DOMAIN db[b] : db[b][j].port # q.port
    BY DEF free_ports, occupied, ToSet
  <2> HIDE DEF n
  <2> SUFFICES ASSUME NEW b \in Apps, NEW c \in Apps, NEW i \in DOMAIN db'[b],
                      NEW j \in DOMAIN db'[c], <<b, i>> # <<c, j>>,
                      db'[b][i].port = db'[c][j].port
               PROVE  db'[b][i].port \in Pins
    BY <1>1 DEF PortsApart
  <2>4. CASE b = a /\ i = n
    BY <1>4, <2>1, <2>2, <2>3, <2>4
  <2>5. CASE c = a /\ j = n
    BY <1>4, <2>1, <2>2, <2>3, <2>5
  <2>6. CASE ~(b = a /\ i = n) /\ ~(c = a /\ j = n)
    <3>1. /\ i \in DOMAIN db[b] /\ db'[b][i] = db[b][i]
          /\ j \in DOMAIN db[c] /\ db'[c][j] = db[c][j]
      BY <2>1, <2>2, <2>6
    <3> QED BY <3>1 DEF PortsApart
  <2> QED BY <2>4, <2>5, <2>6
<1> QED BY <1>2, <1>3, <1>4, RecordsChange

\* No host port is on record for two routes unless a manifest pins it, in any scene,
\* restores included (_clear_and_reallocate_ports, KelsoStore.next_free_port).
THEOREM PortsStayApart == Spec => []PortsApart
<1>1. Init => RouteTypes /\ PortsApart
  BY RouteTypesInit DEF Init, PortsApart
<1>2. RouteTypes /\ PortsApart /\ [Next]_vars => RouteTypes' /\ PortsApart'
  BY RouteTypesKept, PortsApartKept
<1> QED BY <1>1, <1>2, PTL DEF Spec

-----------------------------------------------------------------------------
(***************************************************************************)
(* Owners.  register_route takes a name that nobody is known to own, and a *)
(* rule of Cloudflare whose record is gone is one: that none such is there *)
(* when routes are put up is what preflight_app_routes found, and nobody   *)
(* comes between the two.                                                  *)
(***************************************************************************)
\* The noop provider has nothing.
Noops == \A t \in Tags, s \in Subdomains : scene.kind[t] = "noop" => at[t][s] = Absent

\* What preflight_app_routes found is so when docker starts the app, and still when
\* each of its routes is put up.
Preflighted == job.pc = "composeUp" => ~refused(job.app)
Unowned ==
    job.pc = "register" => \A r \in ToSet(job.todo) :
        r.name \in names(run[job.app]) => \A t \in ToSet(r.at) :
            at[t][r.sub].owner = None => at[t][r.sub] = Absent

OwnersInv == Noops /\ Preflighted /\ Unowned

\* Most steps leave the providers alone and come before docker starts the app.
LEMMA Calm ==
    ASSUME RouteTypes,
           \/ AskLoad \/ AskStart \/ AskStop \/ AskRemove \/ AskRestore \/ TakenDown
           \/ ApplyDefaults \/ Clear \/ Allocate \/ Write \/ Loaded \/ Started
           \/ RemoveRun \/ RemoveConf \/ PurgeDb \/ ReplaceConf \/ ReplaceRun
           \/ Configure \/ Backup \/ Cleanup \/ Dropped \/ Crash
    PROVE  at' = at /\ job'.pc \notin {"composeUp", "register"}
<1>0. /\ job \in JobSet /\ <<>> \in Seq(RecordSet)
      /\ job.pc = "allocate" => job.todo \in Seq(RouteSpecs)
      /\ job.pc \in {"default", "clear", "allocate", "write"} => run[job.app] \in Seq(RouteSpecs)
      /\ job.pc # "idle" => job.app \in Apps
  BY OfScene DEF RouteTypes, JobTypes, DiskTypes
<1>1. ASSUME NEW l \in {"removeRun", "default", "clear", "write", "loaded", "preflight",
                        "removeConf", "purgeDb", "replaceRun"},
             Go(l)
      PROVE  job'.pc = l
  <2>1. l \in Steps
    BY DEF Steps
  <2> QED BY <1>0, <1>1, <2>1, JobAt
<1>2. Done => job'.pc = "idle"
  BY DEF Done, Idle
<1>3. CASE AskLoad \/ AskStart \/ AskRemove \/ AskRestore
  BY <1>3 DEF AskLoad, AskStart, AskRemove, AskRestore, Load, Begin
<1>4. CASE AskStop \/ Configure \/ Backup \/ Cleanup \/ Dropped
  BY <1>4 DEF AskStop, Configure, Backup, Cleanup, Dropped, Ask, At
<1>5. CASE TakenDown \/ ApplyDefaults \/ RemoveConf \/ ReplaceConf
  BY <1>1, <1>5 DEF TakenDown, ApplyDefaults, RemoveConf, ReplaceConf
<1>6. CASE Clear
  <2>1. CASE Go("write")
    BY <1>1, <1>6, <2>1 DEF Clear
  <2>2. CASE GoDo("allocate", run[job.app])
    <3>1. job'.pc = "allocate"
      BY <1>0, <1>6, <2>2, JobAt DEF Clear, At, Steps
    <3> QED BY <1>6, <3>1 DEF Clear
  <2> QED BY <1>6, <2>1, <2>2 DEF Clear
<1>7. CASE Allocate
  <2>1. at' = at /\ job.pc = "allocate"
        /\ (Go("write") \/ Done \/ job' = [job EXCEPT !.todo = Tail(job.todo)])
    BY <1>7 DEF Allocate, At
  <2>2. job' = [job EXCEPT !.todo = Tail(job.todo)] => job'.pc = job.pc
    BY <1>0 DEF JobSet
  <2> QED BY <1>1, <1>2, <2>1, <2>2
<1>8. CASE Write
  BY <1>1, <1>2, <1>8 DEF Write
<1>9. CASE Loaded \/ Started \/ RemoveRun \/ PurgeDb \/ ReplaceRun \/ Crash
  BY <1>1, <1>2, <1>9 DEF Loaded, Started, Applied, RemoveRun, PurgeDb, ReplaceRun, Crash
<1> QED BY <1>3, <1>4, <1>5, <1>6, <1>7, <1>8, <1>9

LEMMA OwnersKeptInv ==
    ASSUME RouteTypes, OwnersInv, [Next]_vars
    PROVE  OwnersInv'
<1>0. /\ job \in JobSet /\ at \in [Tags -> [Subdomains -> Standing]] /\ scene' = scene
      /\ scene.kind \in [Tags -> Kinds] /\ db \in [Apps -> Seq(RecordSet)]
      /\ None \notin Apps /\ <<>> \in Seq(RecordSet)
      /\ job.pc # "idle" => job.app \in Apps
      /\ job.pc \in {"takeDown", "register"} => job.todo \in Seq(RecordSet)
  BY RecordsChange, OfScene, ConstantsAssumption DEF RouteTypes, JobTypes
<1>1. ASSUME at' = at, job'.pc \notin {"composeUp", "register"}
      PROVE  OwnersInv'
  BY <1>0, <1>1 DEF OwnersInv, Noops, Preflighted, Unowned
<1>2. CASE Pass
  <2>1. /\ job.pc \in {"takeDown", "register"} /\ job.todo # <<>> /\ UNCHANGED <<run, at>>
        /\ job' = [job EXCEPT !.todo = Tail(job.todo)]
    BY <1>2 DEF Pass, At, disk
  <2>2. /\ Tail(job.todo) \in Seq(RecordSet) /\ ToSet(Tail(job.todo)) \subseteq ToSet(job.todo)
    BY <1>0, <2>1, TailWalk
  <2>3. job'.pc = job.pc /\ job'.app = job.app /\ job'.todo = Tail(job.todo)
    BY <1>0, <2>1, <2>2, JobAt DEF Steps
  <2> QED BY <1>0, <2>1, <2>2, <2>3 DEF OwnersInv, Noops, Preflighted, Unowned
<1>3. CASE TakeDown
  <2> DEFINE x == next(job.todo)
             e == at[x.tag][x.sub]
  <2>1. /\ job.pc = "takeDown" /\ job.todo # <<>> /\ Head(job.todo).at # <<>>
        /\ \/ job' = [job EXCEPT !.todo = rest(job.todo)]
           \/ job' = [job EXCEPT !.todo = <<>>]
        /\ \/ at' = at
           \/ /\ listed(x.tag, x.sub)
              /\ \E h \in {Unregistered(x.tag, e)} \cup HalfUnregistered(x.tag, e) :
                    Put(x.tag, x.sub, h)
    BY <1>3 DEF TakeDown, At, passed, mine
  <2>2. /\ rest(job.todo) \in Seq(RecordSet) /\ x.tag \in Tags /\ x.sub \in Subdomains
    BY <1>0, <2>1, RestWalk
  <2>3. job'.pc = "takeDown"
    BY <1>0, <2>1, <2>2, JobAt DEF Steps
  <2> HIDE DEF x
  <2>4. CASE at' = at
    BY <1>1, <2>3, <2>4
  <2>5. CASE listed(x.tag, x.sub)
    <3>1. scene.kind[x.tag] # "noop"
      BY <2>5 DEF listed
    <3>2. e \in Standing
      BY <1>0, <2>2
    <3>3. \A h \in {Unregistered(x.tag, e)} \cup HalfUnregistered(x.tag, e) : h \in Standing
      <4>1. job.app \in Apps /\ NoPort \in Nat
        BY <1>0, <2>1 DEF NoPort
      <4> QED BY <3>2, <4>1, Provided
    <3>4. at' = at \/ \E h \in Standing : Put(x.tag, x.sub, h)
      BY <2>1, <3>3
    <3>5. \A t \in Tags, s \in Subdomains : t # x.tag => at'[t][s] = at[t][s]
      BY <1>0, <2>2, <3>4, PutAt
    <3> QED BY <1>0, <2>3, <3>1, <3>5 DEF OwnersInv, Noops, Preflighted, Unowned
  <2> QED BY <2>1, <2>4, <2>5
<1>4. CASE Preflight
  <2>1. /\ UNCHANGED <<scene, disk, db, at>>
        /\ Done \/ (Go("composeUp") /\ ~refused(job.app))
    BY <1>4 DEF Preflight
  <2>2. CASE Done
    BY <1>1, <2>1, <2>2 DEF Done, Idle
  <2>3. CASE Go("composeUp") /\ ~refused(job.app)
    <3>1. job'.pc = "composeUp" /\ job'.app = job.app
      BY <1>0, <2>3, JobAt DEF Steps
    <3>2. ~refused(job.app)'
      BY <1>0, <2>1, <2>3, <3>1 DEF disk, refused, listed, published, run_routes
    <3> QED BY <1>0, <2>1, <3>1, <3>2 DEF OwnersInv, Noops, Preflighted, Unowned
  <2> QED BY <2>1, <2>2, <2>3
<1>5. CASE ComposeUp
  <2>1. /\ job.pc = "composeUp" /\ UNCHANGED <<run, at>>
        /\ Done \/ GoDo("register", db[job.app])
    BY <1>5 DEF ComposeUp, At
  <2>2. CASE Done
    BY <1>1, <2>1, <2>2 DEF Done, Idle
  <2>3. CASE GoDo("register", db[job.app])
    <3>1. db[job.app] \in Seq(RecordSet) /\ job.app \in Apps
      BY <1>0, <2>1
    <3>2. job'.pc = "register" /\ job'.app = job.app /\ job'.todo = db[job.app]
      BY <1>0, <2>3, <3>1, JobAt DEF Steps
    <3>3. ~refused(job.app)
      BY <2>1 DEF OwnersInv, Preflighted
    <3>4. ASSUME NEW r \in ToSet(db[job.app]), r.name \in names(run[job.app]),
                 NEW t \in ToSet(r.at), at[t][r.sub].owner = None
          PROVE  at[t][r.sub] = Absent
      <4>1. Entry(r, t) \in published(run_routes(job.app))
        BY <3>4 DEF run_routes, published
      <4>2. ~listed(t, r.sub)
        BY <1>0, <3>1, <3>3, <3>4, <4>1 DEF refused, Entry
      <4>3. r \in RecordSet
        BY <3>1 DEF ToSet
      <4>4. t \in Tags /\ r.sub \in Subdomains
        BY <4>3 DEF RecordSet, ToSet
      <4>5. at[t][r.sub] \in Standing
        BY <1>0, <4>4
      <4>6. CASE scene.kind[t] = "cloudflare"
        BY <3>4, <4>2, <4>5, <4>6 DEF listed, Standing, Absent
      <4>7. CASE scene.kind[t] = "noop"
        BY <4>4, <4>7 DEF OwnersInv, Noops
      <4> QED BY <4>2, <4>6, <4>7 DEF listed
    <3> QED BY <1>0, <2>1, <3>2, <3>4 DEF OwnersInv, Noops, Preflighted, Unowned
  <2> QED BY <2>1, <2>2, <2>3
<1>6. CASE Register
  <2> DEFINE x == next(job.todo)
             e == at[x.tag][x.sub]
  <2>1. /\ job.pc = "register" /\ run' = run
        /\ \/ Go("started") /\ at' = at
           \/ Done /\ at' = at
           \/ /\ job.todo # <<>> /\ Head(job.todo).at # <<>>
              /\ \/ /\ Put(x.tag, x.sub, Registered(x.tag, e, job.app, x.port))
                    /\ job' = [job EXCEPT !.todo = rest(job.todo)]
                 \/ /\ Done
                    /\ \E h \in HalfRegistered(x.tag, e, job.app, x.port) : Put(x.tag, x.sub, h)
    BY <1>6 DEF Register, At, passed, disk
  <2>2. CASE (Go("started") \/ Done) /\ at' = at
    <3>1. Go("started") => job'.pc = "started"
      BY <1>0, JobAt DEF Steps
    <3>2. Done => job'.pc = "idle"
      BY DEF Done, Idle
    <3> QED BY <1>1, <2>2, <3>1, <3>2
  <2>3. ASSUME job.todo # <<>>, Head(job.todo).at # <<>>,
               \/ /\ Put(x.tag, x.sub, Registered(x.tag, e, job.app, x.port))
                  /\ job' = [job EXCEPT !.todo = rest(job.todo)]
               \/ /\ Done
                  /\ \E h \in HalfRegistered(x.tag, e, job.app, x.port) : Put(x.tag, x.sub, h)
        PROVE  OwnersInv'
    <3>1. /\ rest(job.todo) \in Seq(RecordSet) /\ x.tag \in Tags /\ x.sub \in Subdomains
          /\ x.port \in Nat /\ job.app \in Apps
          /\ \A r \in ToSet(rest(job.todo)) : \E q \in ToSet(job.todo) :
                q.name = r.name /\ q.sub = r.sub /\ q.port = r.port
                /\ ToSet(r.at) \subseteq ToSet(q.at)
      BY <1>0, <2>1, <2>3, RestWalk
    <3> HIDE DEF x
    <3>2. /\ e \in Standing /\ Registered(x.tag, e, job.app, x.port) \in Standing
          /\ HalfRegistered(x.tag, e, job.app, x.port) \subseteq Standing
      <4>1. e \in Standing /\ job.app \in Apps \cup {Manual}
        BY <1>0, <3>1
      <4> HIDE DEF e
      <4> QED BY <3>1, <4>1, Provided
    <3>3. /\ Registered(x.tag, e, job.app, x.port) = e
                \/ Registered(x.tag, e, job.app, x.port).owner = job.app
          /\ scene.kind[x.tag] = "noop" =>
                /\ Registered(x.tag, e, job.app, x.port) = e
                /\ \A h \in HalfRegistered(x.tag, e, job.app, x.port) : h = e
      BY DEF Registered, HalfRegistered
    <3> HIDE DEF e
    <3>4. \E h \in Standing : Put(x.tag, x.sub, h) /\ (scene.kind[x.tag] = "noop" => h = e)
             /\ (job' # Idle => h = e \/ h.owner = job.app)
      BY <2>3, <3>2, <3>3 DEF Done
    <3>5. /\ \A t \in Tags, s \in Subdomains : t # x.tag \/ s # x.sub => at'[t][s] = at[t][s]
          /\ scene.kind[x.tag] = "noop" => at'[x.tag][x.sub] = e
          /\ job' # Idle => at'[x.tag][x.sub] = e \/ at'[x.tag][x.sub].owner = job.app
      BY <1>0, <3>1, <3>4, PutAt
    <3>6. Noops'
      BY <1>0, <3>1, <3>5 DEF OwnersInv, Noops, e
    <3>7. CASE Done
      BY <3>6, <3>7 DEF OwnersInv, Preflighted, Unowned, Done, Idle
    <3>8. CASE job' = [job EXCEPT !.todo = rest(job.todo)]
      <4>1. job'.pc = "register" /\ job'.app = job.app /\ job'.todo = rest(job.todo)
        BY <1>0, <2>1, <3>1, <3>8, JobAt DEF Steps
      <4>2. job' # Idle
        BY <4>1 DEF Idle
      <4>3. ASSUME NEW r \in ToSet(rest(job.todo)), r.name \in names(run[job.app]),
                   NEW t \in ToSet(r.at), at'[t][r.sub].owner = None
            PROVE  at'[t][r.sub] = Absent
        <5>1. PICK q \in ToSet(job.todo) : q.name = r.name /\ q.sub = r.sub /\ t \in ToSet(q.at)
          BY <3>1, <4>3
        <5>2. q \in RecordSet
          BY <1>0, <2>1 DEF ToSet
        <5>3. t \in Tags /\ r.sub \in Subdomains
          BY <5>1, <5>2 DEF RecordSet, ToSet
        <5>4. at[t][r.sub].owner = None => at[t][r.sub] = Absent
          BY <2>1, <4>3, <5>1 DEF OwnersInv, Unowned
        <5>5. at'[t][r.sub] = at[t][r.sub]
          BY <1>0, <3>1, <3>5, <4>2, <4>3, <5>3 DEF e
        <5> QED BY <4>3, <5>4, <5>5
      <4> QED BY <2>1, <3>6, <4>1, <4>3 DEF OwnersInv, Preflighted, Unowned
    <3> QED BY <2>3, <3>7, <3>8
  <2> QED BY <2>1, <2>2, <2>3
<1>7. CASE Hands
  <2>1. PICK t \in Tags, s \in Subdomains :
           /\ job' = job /\ job.pc = "idle" /\ scene.kind[t] # "noop"
           /\ ByHand(t, s) \/ RouteAdd(t, s) \/ RouteRemove(t, s) \/ remove_published_route(t, s)
    BY <1>7 DEF Hands, At
  <2>2. \E e : Put(t, s, e)
    BY <2>1 DEF ByHand, RouteAdd, RouteRemove, remove_published_route
  <2>3. \A u \in Tags, x \in Subdomains : u # t => at'[u][x] = at[u][x]
    BY <1>0, <2>2 DEF Put
  <2> QED BY <1>0, <2>1, <2>3 DEF OwnersInv, Noops, Preflighted, Unowned
<1>8. CASE UNCHANGED vars
  BY <1>8 DEF vars, OwnersInv, Noops, Preflighted, Unowned, refused, listed, published, run_routes
<1> QED BY <1>1, <1>2, <1>3, <1>4, <1>5, <1>6, <1>7, <1>8, Calm DEF Next

LEMMA OwnersStep ==
    ASSUME RouteTypes, OwnersInv, [Next]_vars
    PROVE  \A t \in Tags, s \in Subdomains :
              (~At("idle") /\ at'[t][s] # at[t][s])
                 => at[t][s].owner = job.app \/ at[t][s] = Absent
<1>0. /\ at \in [Tags -> [Subdomains -> Standing]] /\ db \in [Apps -> Seq(RecordSet)]
      /\ job.pc \in {"takeDown", "register"} => job.todo \in Seq(RecordSet)
  BY DEF RouteTypes, JobTypes
<1> SUFFICES ASSUME NEW t \in Tags, NEW s \in Subdomains, ~At("idle"), at'[t][s] # at[t][s]
             PROVE  at[t][s].owner = job.app \/ at[t][s] = Absent
  OBVIOUS
<1>1. ASSUME NEW x, x = next(job.todo), job.todo # <<>>, Head(job.todo).at # <<>>,
             job.pc \in {"takeDown", "register"}, \E h : Put(x.tag, x.sub, h)
      PROVE  t = x.tag /\ s = x.sub
  <2>1. x.tag \in Tags /\ x.sub \in Subdomains
    BY <1>0, <1>1, RestWalk
  <2> QED BY <1>0, <1>1, <2>1 DEF Put
<1>2. CASE TakeDown
  <2>1. /\ job.pc = "takeDown" /\ job.todo # <<>> /\ Head(job.todo).at # <<>>
        /\ mine(next(job.todo).tag, next(job.todo).sub)
        /\ \E h : Put(next(job.todo).tag, next(job.todo).sub, h)
    BY <1>2 DEF TakeDown, At, passed
  <2> QED BY <1>1, <2>1 DEF mine
<1>3. CASE Register
  <2> DEFINE x == next(job.todo)
  <2>1. /\ job.pc = "register" /\ job.todo # <<>> /\ Head(job.todo).at # <<>>
        /\ Head(job.todo).name \in names(run[job.app])
        /\ ~foreign(x.tag, x.sub, job.app)
        /\ \E h : Put(x.tag, x.sub, h)
    BY <1>3 DEF Register, At, passed
  <2>2. t = x.tag /\ s = x.sub
    BY <1>1, <2>1
  <2>3. \E r \in ToSet(job.todo) : r = Head(job.todo) /\ x.tag \in ToSet(r.at)
           /\ x = Entry(r, x.tag)
    BY <1>0, <2>1, RestWalk
  <2>4. Head(job.todo) \in ToSet(job.todo) /\ x.tag \in ToSet(Head(job.todo).at)
        /\ x.sub = Head(job.todo).sub
    BY <2>3 DEF Entry
  <2> HIDE DEF x
  <2>5. at[x.tag][x.sub].owner = None => at[x.tag][x.sub] = Absent
    BY <2>1, <2>4 DEF OwnersInv, Unowned
  <2> QED BY <2>1, <2>2, <2>5 DEF foreign
<1>4. ~Pass /\ ~Preflight /\ ~ComposeUp /\ ~Hands /\ ~UNCHANGED vars
  BY DEF Pass, Preflight, ComposeUp, Hands, vars
<1> QED BY <1>2, <1>3, <1>4, Calm DEF Next

\* A verb changes nothing at a provider but what is its app's or nobody's, in any scene,
\* restores included (preflight_app_routes, register_route, unregister_app_routes).
THEOREM OwnersAlwaysKept == Spec => OwnersKept
<1>1. Init => RouteTypes /\ OwnersInv
  <2>1. Init => OwnersInv
    BY DEF Init, Idle, OwnersInv, Noops, Preflighted, Unowned
  <2> QED BY <2>1, RouteTypesInit
<1>2. RouteTypes /\ OwnersInv /\ [Next]_vars => RouteTypes' /\ OwnersInv'
  BY RouteTypesKept, OwnersKeptInv
<1>3. RouteTypes /\ OwnersInv /\ [Next]_vars =>
         [\A t \in Tags, s \in Subdomains :
             (~At("idle") /\ at'[t][s] # at[t][s])
                => at[t][s].owner = job.app \/ at[t][s] = Absent]_vars
  BY OwnersStep
<1> QED BY <1>1, <1>2, <1>3, PTL DEF Spec, OwnersKept

-----------------------------------------------------------------------------
(***************************************************************************)
(* Routes on record, and routes that lead somewhere, in the scenes where   *)
(* nobody asks for a restore.  A verb takes an app's routes down before    *)
(* it touches the records, the copy or compose.yml, so that these change   *)
(* only while nothing of the app stands; while a verb may be cut short     *)
(* anywhere, that is true of each app at each step.                        *)
(***************************************************************************)
Quiet(a) == \A t \in Tags, s \in Subdomains : ~live(t, s, a)

\* r is the record of what stands there.
Names(r, t, s) == r.sub = s /\ t \in ToSet(r.at) /\ r.port = at[t][s].port

\* What stands for an app is on record; nothing does of one that is not loaded; and if no
\* derivation was cut short, compose.yml publishes what is on record, and its containers
\* hold it.
OnRecord(a) == \A t \in Tags, s \in Subdomains :
    live(t, s, a) => \E r \in ToSet(db[a]) : Names(r, t, s)
Unloaded(a) == run[a] = None => compose[a] = None /\ Quiet(a)
Whole(a) == a \notin torn =>
    /\ compose[a] # None => compose[a] = Ports(a)
    /\ \A t \in Tags, s \in Subdomains : live(t, s, a) =>
          \E r \in run_routes(a) : Names(r, t, s) /\ (up[a] # None => r.port \in up[a])
AppInv(a) == OnRecord(a) /\ Unloaded(a) /\ Whole(a)

\* What the steps of a verb rely on: that nothing of the app stands, that all of it that
\* does is still to be taken down, or that what is put up is on record and in compose.yml.
Cleared ==
    /\ job.pc \in {"default", "clear", "allocate", "write", "removeRun", "removeConf", "purgeDb"}
          => Quiet(job.app)
    /\ job.pc \in {"removeConf", "purgeDb"} => run[job.app] = None
    /\ job.pc = "allocate" => job.app \in torn
Walked ==
    job.pc = "takeDown" => \A t \in Tags, s \in Subdomains :
        live(t, s, job.app) => \E x \in published(ToSet(job.todo)) : x.tag = t /\ x.sub = s
Raised ==
    job.pc = "register" =>
        /\ Within(job.todo, db[job.app])
        /\ compose[job.app] # None /\ up[job.app] = {x[2] : x \in compose[job.app]}
JobInv == Cleared /\ Walked /\ Raised /\ job.pc \notin {"replaceConf", "replaceRun"}

RoutesInv == (\A a \in Apps : AppInv(a)) /\ JobInv

\* A step that puts nothing up for an app.
LessLive(b) == \A t \in Tags, s \in Subdomains :
    live(t, s, b)' => live(t, s, b) /\ at'[t][s] = at[t][s]

\* An app whose files and records a step leaves, and for which it puts nothing up.
LEMMA AppSame ==
    ASSUME NEW b \in Apps, AppInv(b), LessLive(b), db'[b] = db[b], run'[b] = run[b],
           compose'[b] = compose[b], up'[b] \in {up[b], None}, b \in torn => b \in torn'
    PROVE  AppInv(b)'
<1>1. ASSUME NEW t \in Tags, NEW s \in Subdomains, live(t, s, b)'
      PROVE  live(t, s, b) /\ \A r : Names(r, t, s)' <=> Names(r, t, s)
  BY <1>1 DEF LessLive, Names
<1>2. OnRecord(b)'
  BY <1>1 DEF AppInv, OnRecord
<1>3. Unloaded(b)'
  BY <1>1 DEF AppInv, Unloaded, Quiet
<1>4. run_routes(b)' = run_routes(b) /\ Ports(b)' = Ports(b)
  BY DEF Ports, run_routes
<1>5. Whole(b)'
  BY <1>1, <1>4 DEF AppInv, Whole
<1> QED BY <1>2, <1>3, <1>5 DEF AppInv

\* An app of which nothing stands after a step.
LEMMA AppQuiet ==
    ASSUME NEW b \in Apps, Quiet(b)', run'[b] = None => compose'[b] = None,
           (b \notin torn' /\ compose'[b] # None) => compose'[b] = Ports(b)'
    PROVE  AppInv(b)'
BY DEF AppInv, OnRecord, Unloaded, Whole, Quiet

\* Where the providers, and what kelso could not unpublish, stay as they are.
LEMMA LiveSame ==
    ASSUME at' = at, missed' = missed
    PROVE  \A b \in Apps : LessLive(b) /\ (Quiet(b) => Quiet(b)')
BY DEF LessLive, Quiet, live

LEMMA SameStanding ==
    ASSUME at' = at, missed' = missed, NEW a
    PROVE  /\ \A t \in Tags, s \in Subdomains : live(t, s, a)' <=> live(t, s, a)
           /\ \A r, t, s : Names(r, t, s)' <=> Names(r, t, s)
           /\ db'[a] = db[a] => (OnRecord(a)' <=> OnRecord(a))
           /\ run'[a] = run[a] /\ compose'[a] = compose[a] => (Unloaded(a)' <=> Unloaded(a))
<1>1. \A t \in Tags, s \in Subdomains : live(t, s, a)' <=> live(t, s, a)
  BY DEF live
<1>2. \A r, t, s : Names(r, t, s)' <=> Names(r, t, s)
  BY DEF Names
<1>3. db'[a] = db[a] => (OnRecord(a)' <=> OnRecord(a))
  BY <1>1, <1>2 DEF OnRecord
<1>4. run'[a] = run[a] /\ compose'[a] = compose[a] => (Unloaded(a)' <=> Unloaded(a))
  BY <1>1 DEF Unloaded, Quiet
<1> QED BY <1>1, <1>2, <1>3, <1>4

\* A step that nothing has to be known of.
LEMMA JobEasy ==
    ASSUME job'.pc \in {"idle", "loaded", "preflight", "composeUp", "started"}
    PROVE  JobInv'
BY DEF JobInv, Cleared, Walked, Raised

\* Asking for a verb: a load puts the copy in place and has the routes to take down.
LEMMA AskKeeps ==
    ASSUME RouteTypes, RoutesInv, "restore" \notin scene.verbs,
           AskLoad \/ AskStart \/ AskStop \/ AskRemove \/ AskRestore
    PROVE  RoutesInv'
<1>0. /\ scene.apps \subseteq Apps /\ run \in [Apps -> scene.manifests \cup {None}]
      /\ None \notin scene.manifests /\ up \in [Apps -> (SUBSET Nat) \cup {None}]
      /\ db \in [Apps -> Seq(RecordSet)]
      /\ \A a \in Apps : AppInv(a)
  BY OfScene DEF RouteTypes, DiskTypes, RoutesInv
\* The walk begins with all that stands, as it is on record.
<1>1. ASSUME NEW a \in Apps, job'.pc = "takeDown", job'.app = a, job'.todo = db[a],
             at' = at, missed' = missed
      PROVE  JobInv'
  <2>1. ASSUME NEW t \in Tags, NEW s \in Subdomains, live(t, s, a)
        PROVE  \E x \in published(ToSet(db[a])) : x.tag = t /\ x.sub = s
    <3>1. PICK r \in ToSet(db[a]) : Names(r, t, s)
      BY <1>0, <2>1 DEF AppInv, OnRecord
    <3>2. Entry(r, t) \in published(ToSet(db[a])) /\ Entry(r, t).tag = t /\ Entry(r, t).sub = s
      BY <3>1 DEF Names, published, Entry
    <3> QED BY <3>2
  <2>2. \A t \in Tags, s \in Subdomains : live(t, s, a)' <=> live(t, s, a)
    BY <1>1 DEF live
  <2>3. Walked'
    BY <1>1, <2>1, <2>2 DEF Walked
  <2> QED BY <1>1, <2>3 DEF JobInv, Cleared, Raised
<1>2. ASSUME NEW a \in scene.apps, NEW m \in scene.manifests, NEW verb, Load(verb, a, m)
      PROVE  RoutesInv'
  <2>1. /\ run' = [run EXCEPT ![a] = m] /\ torn' = torn \cup {a}
        /\ UNCHANGED <<compose, up, db, at, missed>>
        /\ IF run[a] # None THEN Begin(verb, a, "takeDown", db[a], TRUE)
           ELSE Begin(verb, a, "default", <<>>, TRUE)
    BY <1>2 DEF Load
  <2>2. \A b \in Apps : LessLive(b) /\ (Quiet(b) => Quiet(b)')
    BY <2>1, LiveSame
  <2>3. ASSUME NEW b \in Apps, b # a
        PROVE  AppInv(b)'
    BY <1>0, <2>1, <2>2, <2>3, AppSame
  <2>4. AppInv(a)'
    <3>1. OnRecord(a)'
      <4>1. \A t \in Tags, s \in Subdomains : live(t, s, a)' <=> live(t, s, a)
        BY <2>1 DEF live
      <4>2. \A r, t, s : Names(r, t, s)' <=> Names(r, t, s)
        BY <2>1 DEF Names
      <4> QED BY <1>0, <2>1, <4>1, <4>2 DEF AppInv, OnRecord
    <3> QED BY <1>0, <2>1, <3>1 DEF AppInv, Unloaded, Whole
  <2>5. JobInv'
    <3>1. CASE Begin(verb, a, "takeDown", db[a], TRUE)
      BY <1>0, <1>1, <2>1, <3>1 DEF Begin
    <3>2. CASE run[a] = None /\ Begin(verb, a, "default", <<>>, TRUE)
      <4>1. Quiet(a)'
        BY <1>0, <2>2, <3>2 DEF AppInv, Unloaded
      <4> QED BY <3>2, <4>1 DEF Begin, JobInv, Cleared, Walked, Raised
    <3> QED BY <2>1, <3>1, <3>2
  <2> QED BY <2>3, <2>4, <2>5 DEF RoutesInv
<1>3. CASE AskLoad
  BY <1>2, <1>3 DEF AskLoad
<1>4. CASE AskStart
  <2> PICK a \in scene.apps :
         \/ \E m \in scene.manifests : Load("start", a, m)
         \/ /\ run[a] # None
            /\ IF conf[a].pending THEN Begin("start", a, "takeDown", db[a], FALSE)
               ELSE Begin("start", a, "preflight", <<>>, FALSE)
            /\ UNCHANGED <<scene, disk, db, at, torn, missed, left>>
    BY <1>4 DEF AskStart
  <2>1. CASE \E m \in scene.manifests : Load("start", a, m)
    BY <1>2, <2>1
  <2>2. ASSUME UNCHANGED <<scene, disk, db, at, torn, missed, left>>,
               \/ Begin("start", a, "takeDown", db[a], FALSE)
               \/ Begin("start", a, "preflight", <<>>, FALSE)
        PROVE  RoutesInv'
    <3>1. \A b \in Apps : AppInv(b)'
      BY <1>0, <2>2, LiveSame, AppSame DEF disk
    <3>2. JobInv'
      BY <1>0, <1>1, <2>2, JobEasy DEF Begin
    <3> QED BY <3>1, <3>2 DEF RoutesInv
  <2> QED BY <2>1, <2>2
<1>5. CASE AskStop
  <2> PICK a \in scene.apps :
         /\ Ask("stop", a) /\ up' = [up EXCEPT ![a] = None]
         /\ UNCHANGED <<scene, conf, run, compose, saved, carried, db, at, job, torn, missed, left>>
    BY <1>5 DEF AskStop
  <2>1. \A b \in Apps : up'[b] \in {up[b], None}
    BY <1>0
  <2>2. \A b \in Apps : AppInv(b)'
    BY <1>0, <2>1, LiveSame, AppSame
  <2>3. JobInv'
    BY JobEasy DEF Ask, At
  <2> QED BY <2>2, <2>3 DEF RoutesInv
<1>6. CASE AskRemove
  <2> PICK a \in scene.apps, verb \in Removals :
         /\ up' = [up EXCEPT ![a] = None]
         /\ Begin(verb, a, "takeDown", db[a], FALSE)
         /\ UNCHANGED <<scene, conf, run, compose, saved, carried, db, at, torn, missed, left>>
    BY <1>6 DEF AskRemove, Removals
  <2>1. \A b \in Apps : up'[b] \in {up[b], None}
    BY <1>0
  <2>2. \A b \in Apps : AppInv(b)'
    BY <1>0, <2>1, LiveSame, AppSame
  <2>3. JobInv'
    BY <1>0, <1>1 DEF Begin
  <2> QED BY <2>2, <2>3 DEF RoutesInv
<1>7. ~AskRestore
  BY DEF AskRestore, Ask
<1> QED BY <1>3, <1>4, <1>5, <1>6, <1>7

\* Taking routes down: what is passed over is nothing, or does not lead anywhere.
LEMMA TakeDownKeeps ==
    ASSUME RouteTypes, OwnersInv, RoutesInv, TakeDown
    PROVE  RoutesInv'
<1> PICK a : a = job.app
  OBVIOUS
<1> DEFINE x == next(job.todo)
           e == at[x.tag][x.sub]
           here == <<x.tag, x.sub>>
<1>1. /\ job.pc = "takeDown" /\ job.todo # <<>> /\ Head(job.todo).at # <<>>
      /\ UNCHANGED <<scene, conf, run, compose, up, saved, carried, db, torn>>
      /\ \/ /\ job' = [job EXCEPT !.todo = rest(job.todo)]
            /\ \/ mine(x.tag, x.sub) /\ Put(x.tag, x.sub, Unregistered(x.tag, e))
                  /\ missed' = missed \ {here}
               \/ ~mine(x.tag, x.sub) /\ UNCHANGED <<at, missed>>
               \/ /\ mine(x.tag, x.sub) /\ missed' = missed \cup {here}
                  /\ \E h \in HalfUnregistered(x.tag, e) : Put(x.tag, x.sub, h)
         \/ /\ job' = [job EXCEPT !.todo = <<>>] /\ at' = at
            /\ missed' = missed \cup {<<y.tag, y.sub>> : y \in published(ToSet(job.todo))}
  BY DEF TakeDown, At, passed, disk
<1>2. /\ job \in JobSet /\ a \in Apps /\ at \in [Tags -> [Subdomains -> Standing]]
      /\ job.todo \in Seq(RecordSet) /\ <<>> \in Seq(RecordSet)
      /\ Outsider \notin Apps /\ None \notin Apps
  BY <1>1, ConstantsAssumption DEF RouteTypes, JobTypes
<1>3. /\ rest(job.todo) \in Seq(RecordSet) /\ x.tag \in Tags /\ x.sub \in Subdomains
      /\ \A y \in published(ToSet(job.todo)) : y = x \/ y \in published(ToSet(rest(job.todo)))
  BY <1>1, <1>2, RestWalk
<1>4. /\ job'.pc = "takeDown" /\ job'.app = a
      /\ job'.todo = rest(job.todo) \/ job'.todo = <<>>
      /\ job' = [job EXCEPT !.todo = rest(job.todo)] => job'.todo = rest(job.todo)
      /\ job' = [job EXCEPT !.todo = <<>>] => job'.todo = <<>>
  BY <1>1, <1>2, <1>3, JobAt DEF Steps
<1> HIDE DEF x
<1>5. e \in Standing
  BY <1>2, <1>3
\* What is left of a route of the app's is nothing that leads anywhere, or was missed.
<1>6. mine(x.tag, x.sub) =>
         /\ e.owner = a /\ Unregistered(x.tag, e) = Absent /\ Absent.port = NoPort
         /\ \A h \in HalfUnregistered(x.tag, e) : h \in Standing /\ h.owner \in {a, None}
  <2>1. mine(x.tag, x.sub) => e.owner = a /\ Unregistered(x.tag, e) = Absent
    BY <1>2 DEF mine, Unregistered
  <2>2. Absent \in Standing /\ Absent.owner = None /\ Absent.port = NoPort
    BY DEF Absent, Standing, Owners, NoPort
  <2>3. [e EXCEPT !.port = NoPort] \in Standing /\ [e EXCEPT !.port = NoPort].owner = e.owner
    BY <1>5 DEF Standing, NoPort
  <2> QED BY <1>5, <2>1, <2>2, <2>3 DEF HalfUnregistered
<1> HIDE DEF e
\* A live route of the app is one it may take down.
<1>7. ASSUME live(x.tag, x.sub, a)
      PROVE  mine(x.tag, x.sub)
  <2>1. e.owner = a /\ e.port # NoPort
    BY <1>7 DEF live, e
  <2>2. scene.kind[x.tag] # "noop"
    BY <1>3, <2>1 DEF OwnersInv, Noops, Absent, e
  <2>3. e # Absent
    BY <2>1 DEF Absent
  <2> QED BY <2>1, <2>2, <2>3 DEF mine, listed, e
<1> DEFINE Kept == \A b \in Apps, u \in Tags, y \in Subdomains :
              live(u, y, b)' => live(u, y, b) /\ at'[u][y] = at[u][y]
           Gone == \A u \in Tags, y \in Subdomains :
              live(u, y, a)' => ~(u = x.tag /\ y = x.sub)
<1>8. ASSUME mine(x.tag, x.sub), Put(x.tag, x.sub, Unregistered(x.tag, e)),
             missed' = missed \ {here}
      PROVE  Kept /\ Gone
  <2>1. /\ at'[x.tag][x.sub] = Absent /\ Absent.port = NoPort
        /\ \A u \in Tags, y \in Subdomains : u # x.tag \/ y # x.sub => at'[u][y] = at[u][y]
    BY <1>2, <1>3, <1>6, <1>8 DEF Put
  <2>2. \A u \in Tags, y \in Subdomains : u # x.tag \/ y # x.sub =>
           (<<u, y>> \in missed <=> <<u, y>> \in missed')
    BY <1>8
  <2>3. \A b \in Apps, u \in Tags, y \in Subdomains :
           live(u, y, b)' => ~(u = x.tag /\ y = x.sub)
    BY <2>1 DEF live
  <2> QED BY <2>1, <2>2, <2>3 DEF live
<1>9. ASSUME ~mine(x.tag, x.sub), UNCHANGED <<at, missed>>
      PROVE  Kept /\ Gone
  <2>1. \A b \in Apps, u \in Tags, y \in Subdomains : live(u, y, b)' <=> live(u, y, b)
    BY <1>9 DEF live
  <2>2. Gone
    BY <1>2, <1>7, <1>9, <2>1
  <2> QED BY <1>9, <2>1, <2>2
<1>10. ASSUME NEW h \in Standing, mine(x.tag, x.sub), missed' = missed \cup {here},
              h.owner \in {a, None}, Put(x.tag, x.sub, h)
       PROVE  Kept /\ Gone
  <2>1. \A u \in Tags, y \in Subdomains : u # x.tag \/ y # x.sub => at'[u][y] = at[u][y]
    BY <1>2, <1>3, <1>10 DEF Put
  <2>2. here \in missed' /\ missed \subseteq missed'
    BY <1>10
  <2>3. \A b, u, y : live(u, y, b)' => ~(u = x.tag /\ y = x.sub) /\ <<u, y>> \notin missed
    BY <2>2 DEF live
  <2> QED BY <2>1, <2>3 DEF live
<1>11. ASSUME at' = at,
              missed' = missed \cup {<<y.tag, y.sub>> : y \in published(ToSet(job.todo))}
       PROVE  Kept /\ Quiet(a)'
  <2>1. \A b, u, y : live(u, y, b)' =>
           live(u, y, b) /\ ~(\E z \in published(ToSet(job.todo)) : z.tag = u /\ z.sub = y)
    BY <1>11 DEF live
  <2>2. Quiet(a)'
    BY <1>1, <1>4, <2>1 DEF RoutesInv, JobInv, Walked, Quiet
  <2> QED BY <1>11, <2>1, <2>2
\* So nothing else stands of the app than what is left to do, if anything is.
<1>12. Kept /\ ((Gone /\ job'.todo = rest(job.todo)) \/ Quiet(a)')
  <2>1. CASE job' = [job EXCEPT !.todo = <<>>] /\ at' = at
                /\ missed' = missed \cup {<<y.tag, y.sub>> : y \in published(ToSet(job.todo))}
    BY <1>11, <2>1
  <2>2. CASE \/ /\ mine(x.tag, x.sub) /\ Put(x.tag, x.sub, Unregistered(x.tag, e))
                /\ missed' = missed \ {here}
             \/ ~mine(x.tag, x.sub) /\ UNCHANGED <<at, missed>>
             \/ /\ mine(x.tag, x.sub) /\ missed' = missed \cup {here}
                /\ \E h \in HalfUnregistered(x.tag, e) : Put(x.tag, x.sub, h)
    <3>1. Kept /\ Gone
      BY <1>6, <1>8, <1>9, <1>10, <2>2
    <3> QED BY <1>1, <1>4, <3>1, <2>1
  <2> QED BY <1>1, <1>4, <2>1, <2>2
<1>13. Walked'
  <2>1. CASE Quiet(a)'
    BY <1>4, <2>1 DEF Walked, Quiet
  <2>2. CASE Kept /\ Gone /\ job'.todo = rest(job.todo)
    <3>1. ASSUME NEW u \in Tags, NEW y \in Subdomains, live(u, y, a)'
          PROVE  \E z \in published(ToSet(rest(job.todo))) : z.tag = u /\ z.sub = y
      <4>1. live(u, y, a) /\ ~(u = x.tag /\ y = x.sub)
        BY <1>2, <2>2, <3>1
      <4>2. PICK z \in published(ToSet(job.todo)) : z.tag = u /\ z.sub = y
        BY <1>1, <4>1 DEF RoutesInv, JobInv, Walked
      <4> QED BY <1>3, <4>1, <4>2
    <3> QED BY <1>4, <2>2, <3>1 DEF Walked
  <2> QED BY <1>12, <2>1, <2>2
<1>14. \A b \in Apps : AppInv(b)'
  <2>1. \A b \in Apps : LessLive(b)
    BY <1>12 DEF LessLive
  <2> QED BY <1>1, <2>1, AppSame DEF RoutesInv
<1>15. JobInv'
  BY <1>4, <1>13 DEF JobInv, Cleared, Raised
<1> QED BY <1>14, <1>15 DEF RoutesInv

\* Deriving an app's records and compose.yml, of which nothing stands meanwhile.
LEMMA DeriveKeeps ==
    ASSUME RouteTypes, RoutesInv, TakenDown \/ ApplyDefaults \/ Clear \/ Allocate \/ Write
    PROVE  RoutesInv'
<1> PICK a : a = job.app
  OBVIOUS
<1>0. /\ job \in JobSet /\ db \in [Apps -> Seq(RecordSet)] /\ <<>> \in Seq(RecordSet)
      /\ compose \in [Apps -> (SUBSET (RouteNames \X Nat)) \cup {None}]
      /\ job.pc # "idle" => a \in Apps
      /\ job.pc = "allocate" => job.todo \in Seq(RouteSpecs)
      /\ job.pc \in {"clear", "write", "allocate"} =>
            run[a] # None /\ run[a] \in Seq(RouteSpecs)
      /\ \A b \in Apps : AppInv(b)
      /\ job.pc \in {"default", "clear", "allocate", "write"} => Quiet(a)
      /\ job.pc = "allocate" => a \in torn
  BY OfScene DEF RouteTypes, JobTypes, DiskTypes, RoutesInv, JobInv, Cleared
<1>1. ASSUME NEW l \in {"default", "clear", "write", "removeRun", "loaded", "preflight"}, Go(l)
      PROVE  job'.pc = l /\ job'.app = a
  <2>1. l \in Steps
    BY DEF Steps
  <2> QED BY <1>0, <1>1, <2>1, JobAt
<1>2. Done => job'.pc = "idle"
  BY DEF Done, Idle
\* Where nothing stands of the app, the next step finds that too.
<1>3. ASSUME Quiet(a)', job'.pc \in {"default", "clear", "write", "removeRun", "allocate"},
             job'.app = a, job'.pc = "allocate" => a \in torn'
      PROVE  JobInv'
  BY <1>3 DEF JobInv, Cleared, Walked, Raised
<1>4. CASE TakenDown
  <2>1. /\ job.pc = "takeDown" /\ job.todo = <<>>
        /\ UNCHANGED <<scene, disk, db, at, torn, missed, left>>
        /\ Go("removeRun") \/ Go("default") \/ Go("clear")
    BY <1>4 DEF TakenDown, At
  <2>2. \A b \in Apps : LessLive(b) /\ (Quiet(b) => Quiet(b)')
    BY <2>1, LiveSame
  <2>3. \A b \in Apps : AppInv(b)'
    BY <1>0, <2>1, <2>2, AppSame DEF disk
  <2>4. Quiet(a)
    <3>1. published(ToSet(<<>>)) = {}
      BY DEF ToSet, published
    <3> QED BY <2>1, <3>1 DEF RoutesInv, JobInv, Walked, Quiet
  <2>5. JobInv'
    BY <1>0, <1>1, <1>3, <2>1, <2>2, <2>4
  <2> QED BY <2>3, <2>5 DEF RoutesInv
<1>5. CASE ApplyDefaults
  <2>1. /\ job.pc = "default" /\ Go("clear")
        /\ UNCHANGED <<scene, run, compose, up, saved, carried, db, at, torn, missed, left>>
    BY <1>5 DEF ApplyDefaults, At
  <2>2. \A b \in Apps : LessLive(b) /\ (Quiet(b) => Quiet(b)')
    BY <2>1, LiveSame
  <2>3. \A b \in Apps : AppInv(b)'
    BY <1>0, <2>1, <2>2, AppSame
  <2>4. JobInv'
    BY <1>0, <1>1, <1>3, <2>1, <2>2
  <2> QED BY <2>3, <2>4 DEF RoutesInv
<1>6. CASE Clear
  <2>1. /\ job.pc = "clear" /\ UNCHANGED <<scene, disk, at, missed, left>>
        /\ \/ Go("write") /\ UNCHANGED <<db, torn>>
           \/ /\ db' = [db EXCEPT ![a] = <<>>] /\ torn' = torn \cup {a}
              /\ GoDo("allocate", run[a])
    BY <1>6 DEF Clear, At
  <2>2. \A b \in Apps : LessLive(b) /\ (Quiet(b) => Quiet(b)')
    BY <2>1, LiveSame
  <2>3. CASE Go("write") /\ UNCHANGED <<db, torn>>
    <3>1. \A b \in Apps : AppInv(b)'
      BY <1>0, <2>1, <2>2, <2>3, AppSame DEF disk
    <3>2. JobInv'
      BY <1>0, <1>1, <1>3, <2>1, <2>2, <2>3
    <3> QED BY <3>1, <3>2 DEF RoutesInv
  <2>4. CASE /\ db' = [db EXCEPT ![a] = <<>>] /\ torn' = torn \cup {a}
             /\ GoDo("allocate", run[a])
    <3>1. \A b \in Apps : b # a => AppInv(b)'
      BY <1>0, <2>1, <2>2, <2>4, AppSame DEF disk
    <3>2. AppInv(a)'
      BY <1>0, <2>1, <2>2, <2>4, AppQuiet DEF disk
    <3>3. job'.pc = "allocate" /\ job'.app = a
      BY <1>0, <2>1, <2>4, JobAt DEF Steps
    <3>4. JobInv'
      BY <1>0, <1>3, <2>1, <2>2, <2>4, <3>3
    <3> QED BY <3>1, <3>2, <3>4 DEF RoutesInv
  <2> QED BY <2>1, <2>3, <2>4
<1>7. CASE Allocate
  <2>1. /\ job.pc = "allocate" /\ UNCHANGED <<scene, disk, at, torn, missed, left>>
        /\ \/ job.todo = <<>> /\ Go("write") /\ UNCHANGED db
           \/ Done /\ UNCHANGED db
           \/ job.todo # <<>> /\ job' = [job EXCEPT !.todo = Tail(job.todo)]
              /\ \E q : db' = [db EXCEPT ![a] = Append(@, q)]
    BY <1>7 DEF Allocate, At
  <2>2. \A b \in Apps : LessLive(b) /\ (Quiet(b) => Quiet(b)')
    BY <2>1, LiveSame
  <2>3. \A b \in Apps : b # a => AppInv(b)'
    BY <1>0, <2>1, <2>2, AppSame DEF disk
  <2>4. AppInv(a)'
    BY <1>0, <2>1, <2>2, AppQuiet DEF disk
  <2>5. JobInv'
    <3>1. CASE Go("write")
      BY <1>0, <1>1, <1>3, <2>1, <2>2, <3>1
    <3>2. CASE Done
      BY <1>2, <3>2, JobEasy
    <3>3. CASE job.todo # <<>> /\ job' = [job EXCEPT !.todo = Tail(job.todo)]
      <4>1. Tail(job.todo) \in Seq(RouteSpecs)
        BY <1>0, <2>1, <3>3, TailWalk
      <4>2. job'.pc = "allocate" /\ job'.app = a
        BY <1>0, <2>1, <3>3, <4>1, JobAt DEF Steps
      <4> QED BY <1>0, <1>3, <2>1, <2>2, <4>2
    <3> QED BY <2>1, <3>1, <3>2, <3>3
  <2> QED BY <2>3, <2>4, <2>5 DEF RoutesInv
<1>8. CASE Write
  <2>1. /\ job.pc = "write" /\ UNCHANGED <<scene, conf, run, up, saved, carried, db, at, missed>>
        /\ \/ /\ compose' = [compose EXCEPT ![a] = Ports(a)] /\ torn' = torn \ {a}
              /\ Go("loaded") \/ Go("preflight") \/ Done
           \/ Done /\ UNCHANGED <<compose, torn>>
    BY <1>8 DEF Write, At
  <2>2. \A b \in Apps : LessLive(b) /\ (Quiet(b) => Quiet(b)')
    BY <2>1, LiveSame
  <2>3. \A b \in Apps : b # a => AppInv(b)'
    BY <1>0, <2>1, <2>2, AppSame
  <2>4. AppInv(a)'
    <3>1. CASE compose' = [compose EXCEPT ![a] = Ports(a)]
      <4>1. Ports(a)' = Ports(a) /\ compose'[a] = Ports(a)
        BY <1>0, <2>1, <3>1 DEF Ports, run_routes
      <4> QED BY <1>0, <2>1, <2>2, <4>1, AppQuiet
    <3>2. CASE UNCHANGED <<compose, torn>>
      BY <1>0, <2>1, <2>2, <3>2, AppSame
    <3> QED BY <2>1, <3>1, <3>2
  <2>5. JobInv'
    BY <1>1, <1>2, <2>1, JobEasy
  <2> QED BY <2>3, <2>4, <2>5 DEF RoutesInv
<1> QED BY <1>4, <1>5, <1>6, <1>7, <1>8

\* Starting and removing an app, and passing over what is not to be put up or taken down.
LEMMA PlaceKeeps ==
    ASSUME RouteTypes, RoutesInv,
           \/ Pass \/ Loaded \/ Started \/ Preflight \/ ComposeUp
           \/ RemoveRun \/ RemoveConf \/ PurgeDb \/ ReplaceConf \/ ReplaceRun
    PROVE  RoutesInv'
<1> PICK a : a = job.app
  OBVIOUS
<1>0. /\ job \in JobSet /\ db \in [Apps -> Seq(RecordSet)] /\ <<>> \in Seq(RecordSet)
      /\ compose \in [Apps -> (SUBSET (RouteNames \X Nat)) \cup {None}]
      /\ run \in [Apps -> scene.manifests \cup {None}] /\ up \in [Apps -> (SUBSET Nat) \cup {None}]
      /\ job.pc # "idle" => a \in Apps
      /\ job.pc \in {"takeDown", "register"} => job.todo \in Seq(RecordSet)
      /\ job.pc = "composeUp" => compose[a] # None
      /\ \A b \in Apps : AppInv(b)
      /\ job.pc \in {"removeRun", "removeConf", "purgeDb"} => Quiet(a)
      /\ job.pc \in {"removeConf", "purgeDb"} => run[a] = None
  BY DEF RouteTypes, JobTypes, DiskTypes, RoutesInv, JobInv, Cleared
<1>1. ASSUME NEW l \in {"preflight", "composeUp", "started", "removeConf", "purgeDb"}, Go(l)
      PROVE  job'.pc = l /\ job'.app = a
  <2>1. l \in Steps
    BY DEF Steps
  <2> QED BY <1>0, <1>1, <2>1, JobAt
<1>2. Done => job'.pc = "idle"
  BY DEF Done, Idle
<1>3. CASE Pass
  <2>1. /\ job.pc \in {"takeDown", "register"} /\ job.todo # <<>> /\ passed(job)
        /\ job' = [job EXCEPT !.todo = Tail(job.todo)]
        /\ UNCHANGED <<scene, disk, db, at, torn, missed, left>>
    BY <1>3 DEF Pass, At
  <2>2. /\ Tail(job.todo) \in Seq(RecordSet) /\ ToSet(Tail(job.todo)) \subseteq ToSet(job.todo)
        /\ \A r \in ToSet(job.todo) : r = Head(job.todo) \/ r \in ToSet(Tail(job.todo))
    BY <1>0, <2>1, TailWalk
  <2>3. job'.pc = job.pc /\ job'.app = a /\ job'.todo = Tail(job.todo)
    BY <1>0, <2>1, <2>2, JobAt
  <2>4. \A b \in Apps : AppInv(b)'
    BY <1>0, <2>1, LiveSame, AppSame DEF disk
  <2>5. ASSUME job.pc = "takeDown"
        PROVE  Walked'
    <3>1. Head(job.todo).at = <<>>
      BY <2>1, <2>5 DEF passed
    <3>2. \A y \in published(ToSet(job.todo)) : y \in published(ToSet(Tail(job.todo)))
      <4>1. ToSet(<<>>) = {}
        BY DEF ToSet
      <4> QED BY <2>2, <3>1, <4>1 DEF published
    <3>3. \A t \in Tags, s \in Subdomains : live(t, s, a)' <=> live(t, s, a)
      BY <2>1 DEF live
    <3>4. \A t \in Tags, s \in Subdomains : live(t, s, a) =>
             \E x \in published(ToSet(job.todo)) : x.tag = t /\ x.sub = s
      BY <2>5 DEF RoutesInv, JobInv, Walked
    <3> QED BY <2>3, <3>2, <3>3, <3>4 DEF Walked
  <2>6. ASSUME job.pc = "register"
        PROVE  Raised'
    <3>1. Within(Tail(job.todo), db[a])
      BY <2>2, <2>6 DEF RoutesInv, JobInv, Raised, Within
    <3> QED BY <2>1, <2>3, <2>6, <3>1 DEF RoutesInv, JobInv, Raised, disk
  <2>7. JobInv'
    BY <2>1, <2>3, <2>5, <2>6 DEF JobInv, Cleared, Walked, Raised
  <2> QED BY <2>4, <2>7 DEF RoutesInv
<1>4. CASE Loaded \/ Started
  <2>1. /\ UNCHANGED <<scene, run, compose, up, saved, carried, db, at, torn, missed, left>>
        /\ Go("preflight") \/ Done
    BY <1>4 DEF Loaded, Started, Applied
  <2>2. \A b \in Apps : AppInv(b)'
    BY <1>0, <2>1, LiveSame, AppSame
  <2>3. JobInv'
    BY <1>1, <1>2, <2>1, JobEasy
  <2> QED BY <2>2, <2>3 DEF RoutesInv
<1>5. CASE Preflight
  <2>1. /\ UNCHANGED <<scene, disk, db, at, torn, missed>>
        /\ Go("composeUp") \/ Done
    BY <1>5 DEF Preflight
  <2>2. \A b \in Apps : AppInv(b)'
    BY <1>0, <2>1, LiveSame, AppSame DEF disk
  <2>3. JobInv'
    BY <1>1, <1>2, <2>1, JobEasy
  <2> QED BY <2>2, <2>3 DEF RoutesInv
<1>6. CASE ComposeUp
  <2> DEFINE ports == {x[2] : x \in compose[a]}
  <2>1. /\ job.pc = "composeUp"
        /\ UNCHANGED <<scene, conf, run, compose, saved, carried, db, at, torn, missed>>
        /\ \/ Done /\ UNCHANGED up
           \/ up' = [up EXCEPT ![a] = ports] /\ (Done \/ GoDo("register", db[a]))
    BY <1>6 DEF ComposeUp, At
  <2>2. CASE Done /\ UNCHANGED up
    <3>1. \A b \in Apps : AppInv(b)'
      BY <1>0, <2>1, <2>2, LiveSame, AppSame
    <3>2. JobInv'
      BY <1>2, <2>2, JobEasy
    <3> QED BY <3>1, <3>2 DEF RoutesInv
  <2>3. CASE up' = [up EXCEPT ![a] = ports] /\ (Done \/ GoDo("register", db[a]))
    <3>1. \A b \in Apps : b # a => AppInv(b)'
      BY <1>0, <2>1, <2>3, LiveSame, AppSame
    <3>2. AppInv(a) /\ run'[a] = run[a] /\ db'[a] = db[a] /\ compose'[a] = compose[a]
      BY <1>0, <2>1
    <3>3. run_routes(a)' = run_routes(a) /\ Ports(a)' = Ports(a)
      BY <2>1 DEF Ports, run_routes
    <3>4. \A r \in run_routes(a) : a \notin torn => r.port \in ports
      <4>1. ASSUME NEW r \in run_routes(a), a \notin torn
            PROVE  r.port \in ports
        <5>1. compose[a] = Ports(a)
          BY <1>0, <2>1, <4>1 DEF AppInv, Whole
        <5>2. <<r.name, r.port>> \in compose[a] /\ <<r.name, r.port>>[2] = r.port
          BY <5>1 DEF Ports
        <5> QED BY <5>2
      <4> QED BY <4>1
    <3> HIDE DEF ports
    <3>5. up'[a] = ports
      BY <1>0, <2>1, <2>3
    <3>6. AppInv(a)'
      <4>1. OnRecord(a)' /\ Unloaded(a)'
        BY <2>1, <3>2, SameStanding DEF AppInv
      <4>2. Whole(a)'
        <5>1. /\ \A t \in Tags, s \in Subdomains : live(t, s, a)' <=> live(t, s, a)
              /\ \A r, t, s : Names(r, t, s)' <=> Names(r, t, s)
          BY <2>1, SameStanding
        <5> QED BY <2>1, <3>2, <3>3, <3>4, <3>5, <5>1 DEF AppInv, Whole
      <4> QED BY <4>1, <4>2 DEF AppInv
    <3>7. CASE Done
      <4>1. JobInv'
        BY <1>2, <3>7, JobEasy
      <4> QED BY <3>1, <3>6, <4>1 DEF RoutesInv
    <3>8. CASE GoDo("register", db[a])
      <4>1. db[a] \in Seq(RecordSet)
        BY <1>0, <2>1
      <4>2. job'.pc = "register" /\ job'.app = a /\ job'.todo = db[a]
        BY <1>0, <3>8, <4>1, JobAt DEF Steps
      <4>3. Within(db[a], db[a])
        BY DEF Within
      <4>4. JobInv'
        BY <1>0, <2>1, <3>5, <4>2, <4>3 DEF JobInv, Cleared, Walked, Raised, ports
      <4> QED BY <3>1, <3>6, <4>4 DEF RoutesInv
    <3> QED BY <2>3, <3>7, <3>8
  <2> QED BY <2>1, <2>2, <2>3
<1>7. CASE RemoveRun \/ RemoveConf \/ PurgeDb
  <2>1. /\ job.pc \in {"removeRun", "removeConf", "purgeDb"}
        /\ UNCHANGED <<scene, up, saved, carried, at, torn, missed, left>>
        /\ \/ /\ run' = [run EXCEPT ![a] = None] /\ compose' = [compose EXCEPT ![a] = None]
              /\ UNCHANGED db /\ (Go("removeConf") \/ Done)
           \/ /\ job.pc = "removeConf" /\ UNCHANGED <<run, compose, db>> /\ Go("purgeDb")
           \/ /\ job.pc = "purgeDb" /\ UNCHANGED <<run, compose>> /\ Done
              /\ db' = [db EXCEPT ![a] = <<>>]
    BY <1>7 DEF RemoveRun, RemoveConf, PurgeDb, At, disk
  <2>2. \A b \in Apps : LessLive(b) /\ (Quiet(b) => Quiet(b)')
    BY <2>1, LiveSame
  <2>3. \A b \in Apps : b # a => AppInv(b)'
    BY <1>0, <2>1, <2>2, AppSame
  <2>4. run'[a] = None /\ compose'[a] = None /\ Quiet(a)'
    BY <1>0, <2>1, <2>2 DEF AppInv, Unloaded
  <2>5. AppInv(a)'
    BY <1>0, <2>1, <2>4, AppQuiet
  <2>6. \/ job'.pc = "idle"
        \/ job'.pc \in {"removeConf", "purgeDb"} /\ job'.app = a
    BY <1>1, <1>2, <2>1
  <2>7. JobInv'
    BY <2>4, <2>6, JobEasy DEF JobInv, Cleared, Walked, Raised
  <2> QED BY <2>3, <2>5, <2>7 DEF RoutesInv
<1>8. ~ReplaceConf /\ ~ReplaceRun
  BY DEF RoutesInv, JobInv, ReplaceConf, ReplaceRun, At
<1> QED BY <1>3, <1>4, <1>5, <1>6, <1>7, <1>8

\* Verbs of one step, and what happens between verbs.
LEMMA BetweenKeeps ==
    ASSUME RouteTypes, RoutesInv, Configure \/ Backup \/ Cleanup \/ Dropped \/ Hands \/ Crash
    PROVE  RoutesInv'
<1>0. /\ scene.apps \subseteq Apps /\ at \in [Tags -> [Subdomains -> Standing]]
      /\ compose \in [Apps -> (SUBSET (RouteNames \X Nat)) \cup {None}]
      /\ db \in [Apps -> Seq(RecordSet)] /\ Manual \notin Apps /\ Outsider \notin Apps
      /\ None \notin Apps
      /\ \A b \in Apps : AppInv(b)
  BY OfScene, ConstantsAssumption DEF RouteTypes, DiskTypes, RoutesInv
<1>1. CASE Configure
  <2>1. PICK a \in scene.apps :
           /\ Ask("config", a)
           /\ UNCHANGED <<scene, run, up, saved, carried, db, at, job, torn, missed>>
           /\ \/ UNCHANGED compose
              \/ run[a] # None /\ compose' = [compose EXCEPT ![a] = Ports(a)]
    BY <1>1 DEF Configure
  <2>2. \A b \in Apps : b # a \/ UNCHANGED compose => AppInv(b)'
    BY <1>0, <2>1, LiveSame, AppSame
  <2>3. ASSUME compose' = [compose EXCEPT ![a] = Ports(a)], run[a] # None
        PROVE  AppInv(a)'
    <3>1. Ports(a)' = Ports(a) /\ run_routes(a)' = run_routes(a) /\ compose'[a] = Ports(a)
      BY <1>0, <2>1, <2>3 DEF Ports, run_routes
    <3>2. AppInv(a) /\ OnRecord(a)'
      BY <1>0, <2>1, SameStanding DEF AppInv
    <3>3. /\ \A t \in Tags, s \in Subdomains : live(t, s, a)' <=> live(t, s, a)
          /\ \A r, t, s : Names(r, t, s)' <=> Names(r, t, s)
      BY <2>1, SameStanding
    <3>4. Whole(a)'
      BY <2>1, <3>1, <3>2, <3>3 DEF AppInv, Whole
    <3> QED BY <2>1, <2>3, <3>2, <3>4 DEF AppInv, Unloaded
  <2>4. JobInv'
    BY <2>1, JobEasy DEF Ask, At
  <2> QED BY <2>1, <2>2, <2>3, <2>4 DEF RoutesInv
<1>2. CASE Backup \/ Dropped
  <2>1. /\ job.pc = "idle" /\ UNCHANGED <<scene, run, compose, up, db, at, job, torn, missed>>
    BY <1>2 DEF Backup, Dropped, Ask, At
  <2>2. \A b \in Apps : AppInv(b)'
    BY <1>0, <2>1, LiveSame, AppSame
  <2>3. JobInv'
    BY <2>1, JobEasy
  <2> QED BY <2>2, <2>3 DEF RoutesInv
<1>3. CASE Cleanup
  <2>1. PICK a \in scene.apps :
           /\ job.pc = "idle" /\ run[a] = None /\ db' = [db EXCEPT ![a] = <<>>]
           /\ UNCHANGED <<scene, disk, at, job, torn, missed, left>>
    BY <1>3 DEF Cleanup, orphaned_routes, Ask, At
  <2>2. \A b \in Apps : b # a => AppInv(b)'
    BY <1>0, <2>1, LiveSame, AppSame DEF disk
  <2>3. AppInv(a)'
    <3>1. compose[a] = None /\ Quiet(a)'
      BY <1>0, <2>1, LiveSame DEF AppInv, Unloaded
    <3> QED BY <1>0, <2>1, <3>1, AppQuiet DEF disk
  <2>4. JobInv'
    BY <2>1, JobEasy
  <2> QED BY <2>2, <2>3, <2>4 DEF RoutesInv
<1>4. CASE Hands
  <2>1. PICK t \in Tags, s \in Subdomains :
           /\ job.pc = "idle" /\ scene.kind[t] # "noop"
           /\ ByHand(t, s) \/ RouteAdd(t, s) \/ RouteRemove(t, s) \/ remove_published_route(t, s)
           /\ UNCHANGED <<scene, disk, db, job, torn, missed>>
    BY <1>4 DEF Hands, At
  <2>2. at[t][s] \in Standing
    BY <1>0
  <2>3. /\ Absent.port = NoPort /\ [port |-> Elsewhere, owner |-> Outsider].owner = Outsider
        /\ Registered(t, at[t][s], Manual, Elsewhere).owner = Manual
        /\ Unregistered(t, at[t][s]).port = NoPort
    BY <2>1, <2>2 DEF Absent, Registered, Unregistered, Standing
  <2>4. \E e : Put(t, s, e) /\ (e.port = NoPort \/ e.owner \notin Apps)
    BY <1>0, <2>1, <2>3 DEF ByHand, RouteAdd, RouteRemove, remove_published_route
  <2>5. /\ at'[t][s].port = NoPort \/ at'[t][s].owner \notin Apps
        /\ \A u \in Tags, x \in Subdomains : u # t \/ x # s => at'[u][x] = at[u][x]
    BY <1>0, <2>4 DEF Put
  <2>6. \A b \in Apps : LessLive(b)
    BY <2>1, <2>5 DEF LessLive, live
  <2>7. \A b \in Apps : AppInv(b)'
    BY <1>0, <2>1, <2>6, AppSame DEF disk
  <2>8. JobInv'
    BY <2>1, JobEasy
  <2> QED BY <2>7, <2>8 DEF RoutesInv
<1>5. CASE Crash
  <2>1. job'.pc = "idle" /\ UNCHANGED <<scene, disk, db, at, torn, missed>>
    BY <1>5 DEF Crash, Done, Idle
  <2>2. \A b \in Apps : AppInv(b)'
    BY <1>0, <2>1, LiveSame, AppSame DEF disk
  <2>3. JobInv'
    BY <2>1, JobEasy
  <2> QED BY <2>2, <2>3 DEF RoutesInv
<1> QED BY <1>1, <1>2, <1>3, <1>4, <1>5

\* Putting a route up: it is on record, in compose.yml and held by the containers.
LEMMA RegisterKeeps ==
    ASSUME RouteTypes, OwnersInv, RoutesInv, Register
    PROVE  RoutesInv'
<1> PICK a : a = job.app
  OBVIOUS
<1> DEFINE x == next(job.todo)
           e == at[x.tag][x.sub]
           here == <<x.tag, x.sub>>
<1>1. /\ job.pc = "register" /\ UNCHANGED <<scene, conf, run, compose, up, saved, carried, db, torn>>
      /\ \/ Go("started") /\ UNCHANGED <<at, missed>>
         \/ Done /\ UNCHANGED <<at, missed>>
         \/ /\ job.todo # <<>> /\ Head(job.todo).at # <<>>
            /\ Head(job.todo).name \in names(run[a]) /\ ~foreign(x.tag, x.sub, a)
            /\ \/ /\ Put(x.tag, x.sub, Registered(x.tag, e, a, x.port))
                  /\ job' = [job EXCEPT !.todo = rest(job.todo)] /\ missed' = missed \ {here}
               \/ /\ Done /\ missed' = missed
                  /\ \E h \in HalfRegistered(x.tag, e, a, x.port) : Put(x.tag, x.sub, h)
  BY DEF Register, At, passed, disk
<1>2. /\ job \in JobSet /\ a \in Apps /\ at \in [Tags -> [Subdomains -> Standing]]
      /\ db \in [Apps -> Seq(RecordSet)]
      /\ job.todo \in Seq(RecordSet) /\ <<>> \in Seq(RecordSet)
      /\ None \notin Apps /\ \A b \in Apps : AppInv(b)
      /\ Within(job.todo, db[a]) /\ compose[a] # None /\ up[a] = {y[2] : y \in compose[a]}
  BY <1>1, ConstantsAssumption DEF RouteTypes, JobTypes, RoutesInv, JobInv, Raised
<1>3. CASE (Go("started") \/ Done) /\ UNCHANGED <<at, missed>>
  <2>1. job'.pc \in {"started", "idle"}
    BY <1>2, <1>3, JobAt DEF Steps, Done, Idle
  <2>2. \A b \in Apps : AppInv(b)'
    BY <1>1, <1>2, <1>3, LiveSame, AppSame
  <2> QED BY <2>1, <2>2, JobEasy DEF RoutesInv
<1>4. ASSUME job.todo # <<>>, Head(job.todo).at # <<>>, Head(job.todo).name \in names(run[a]),
             ~foreign(x.tag, x.sub, a),
             \/ /\ Put(x.tag, x.sub, Registered(x.tag, e, a, x.port))
                /\ job' = [job EXCEPT !.todo = rest(job.todo)] /\ missed' = missed \ {here}
             \/ /\ Done /\ missed' = missed
                /\ \E h \in HalfRegistered(x.tag, e, a, x.port) : Put(x.tag, x.sub, h)
      PROVE  RoutesInv'
  <2>1. /\ rest(job.todo) \in Seq(RecordSet) /\ x.tag \in Tags /\ x.sub \in Subdomains
        /\ x.port \in Nat
        /\ \E r \in ToSet(job.todo) : r = Head(job.todo) /\ x.tag \in ToSet(r.at)
              /\ x = Entry(r, x.tag)
        /\ \A r \in ToSet(rest(job.todo)) : \E q \in ToSet(job.todo) :
              q.name = r.name /\ q.sub = r.sub /\ q.port = r.port
              /\ ToSet(r.at) \subseteq ToSet(q.at)
    BY <1>2, <1>4, RestWalk
  <2>2. Within(rest(job.todo), db[a])
    <3>1. ASSUME NEW r \in ToSet(rest(job.todo))
          PROVE  \E q \in ToSet(db[a]) :
                    /\ q.name = r.name /\ q.sub = r.sub /\ q.port = r.port
                    /\ ToSet(r.at) \subseteq ToSet(q.at)
      <4>1. PICK p \in ToSet(job.todo) :
               /\ p.name = r.name /\ p.sub = r.sub /\ p.port = r.port
               /\ ToSet(r.at) \subseteq ToSet(p.at)
        BY <2>1, <3>1
      <4>2. PICK q \in ToSet(db[a]) :
               /\ q.name = p.name /\ q.sub = p.sub /\ q.port = p.port
               /\ ToSet(p.at) \subseteq ToSet(q.at)
        BY <1>2, <4>1 DEF Within
      <4> QED BY <4>1, <4>2
    <3> QED BY <3>1 DEF Within
  \* The record that it is put up from.
  <2>3. PICK q \in ToSet(db[a]) :
           /\ q.name \in names(run[a]) /\ q.sub = x.sub /\ q.port = x.port
           /\ x.tag \in ToSet(q.at)
    <3>1. PICK r \in ToSet(job.todo) : r = Head(job.todo) /\ x.tag \in ToSet(r.at)
                                       /\ x = Entry(r, x.tag)
      BY <2>1
    <3>2. r.name \in names(run[a]) /\ r.sub = x.sub /\ r.port = x.port
      BY <1>4, <3>1 DEF Entry
    <3> HIDE DEF x
    <3>3. PICK q \in ToSet(db[a]) :
             /\ q.name = r.name /\ q.sub = r.sub /\ q.port = r.port
             /\ ToSet(r.at) \subseteq ToSet(q.at)
      BY <1>2, <3>1 DEF Within
    <3> QED BY <3>1, <3>2, <3>3
  <2>4. q \in run_routes(a)
    BY <2>3 DEF run_routes
  <2>5. a \notin torn => x.port \in up[a]
    <3>1. ASSUME a \notin torn
          PROVE  x.port \in up[a]
      <4>1. <<q.name, q.port>> \in compose[a]
        BY <1>2, <2>4, <3>1 DEF AppInv, Whole, Ports
      <4>2. <<q.name, q.port>>[2] = x.port
        BY <2>3
      <4> QED BY <1>2, <4>1, <4>2
    <3> QED BY <3>1
  <2> HIDE DEF x
  <2>6. e \in Standing /\ e.owner \in {a, None}
    BY <1>2, <1>4, <2>1 DEF foreign
  <2>a. scene.kind[x.tag] = "noop" => e = Absent /\ e.port = NoPort
    BY <2>1 DEF OwnersInv, Noops, Absent
  <2> HIDE DEF e
  \* What stands there then is what stood there, or leads nowhere or to that port.
  <2>7. LET h == Registered(x.tag, e, a, x.port) IN
        h.owner \in {a, None} /\ h.port \in {NoPort, x.port}
    BY <2>6, <2>a DEF Registered
  <2>8. ASSUME NEW h \in HalfRegistered(x.tag, e, a, x.port)
        PROVE  h.owner \in {a, None} /\ (h = e \/ h.port \in {NoPort, x.port})
    <3>1. [e EXCEPT !.port = x.port].owner = e.owner /\ [e EXCEPT !.port = x.port].port = x.port
      BY <2>6 DEF Standing
    <3>2. \/ h = e \/ h = Registered(x.tag, e, a, x.port)
          \/ h = [port |-> NoPort, owner |-> a] \/ h = [e EXCEPT !.port = x.port]
      BY <2>8 DEF HalfRegistered
    <3>3. [port |-> NoPort, owner |-> a].owner = a /\ [port |-> NoPort, owner |-> a].port = NoPort
      OBVIOUS
    <3>4. CASE h = e \/ h = [e EXCEPT !.port = x.port]
      BY <2>6, <3>1, <3>4
    <3>5. CASE h = Registered(x.tag, e, a, x.port) \/ h = [port |-> NoPort, owner |-> a]
      BY <2>7, <3>3, <3>5, Zenon
    <3> QED BY <3>2, <3>4, <3>5
  <2>9. \E h : /\ Put(x.tag, x.sub, h) /\ h.owner \in {a, None}
               /\ (h = e /\ missed' = missed) \/ h.port \in {NoPort, x.port}
    BY <1>4, <2>7, <2>8
  <2>10. PICK h : /\ Put(x.tag, x.sub, h) /\ h.owner \in {a, None}
                  /\ (h = e /\ missed' = missed) \/ h.port \in {NoPort, x.port}
    BY <2>9
  <2>11. /\ at'[x.tag][x.sub] = h
         /\ \A u \in Tags, y \in Subdomains : u # x.tag \/ y # x.sub =>
               /\ at'[u][y] = at[u][y]
               /\ <<u, y>> \in missed' <=> <<u, y>> \in missed
    BY <1>2, <1>4, <2>1, <2>10 DEF Put
  <2>12. \A b \in Apps : b # a => AppInv(b)'
    <3>1. \A b \in Apps : b # a => LessLive(b)
      BY <1>2, <2>10, <2>11 DEF LessLive, live
    <3> QED BY <1>1, <1>2, <3>1, AppSame
  <2>13. ASSUME NEW u \in Tags, NEW y \in Subdomains, live(u, y, a)'
         PROVE  \/ live(u, y, a) /\ at'[u][y] = at[u][y]
                \/ u = x.tag /\ y = x.sub /\ at'[u][y].port = x.port
    <3>1. CASE u # x.tag \/ y # x.sub
      BY <2>11, <2>13, <3>1 DEF live
    <3>2. CASE u = x.tag /\ y = x.sub
      BY <2>10, <2>11, <2>13, <3>2 DEF live, e
    <3> QED BY <3>1, <3>2
  <2>14. AppInv(a)'
    <3>0. AppInv(a) /\ UNCHANGED <<db, run, compose, up, torn>>
      BY <1>1, <1>2
    <3>1. run_routes(a)' = run_routes(a) /\ Ports(a)' = Ports(a)
      BY <3>0 DEF Ports, run_routes
    <3>2. ASSUME NEW u \in Tags, NEW y \in Subdomains, live(u, y, a)'
          PROVE  /\ \E r \in ToSet(db[a]) : Names(r, u, y)'
                 /\ a \notin torn => \E r \in run_routes(a) :
                        Names(r, u, y)' /\ (up[a] # None => r.port \in up[a])
      <4>1. CASE live(u, y, a) /\ at'[u][y] = at[u][y]
        <5>1. \A r : Names(r, u, y)' <=> Names(r, u, y)
          BY <4>1 DEF Names
        <5> QED BY <3>0, <4>1, <5>1 DEF AppInv, OnRecord, Whole
      <4>2. CASE u = x.tag /\ y = x.sub /\ at'[u][y].port = x.port
        BY <2>3, <2>4, <2>5, <4>2 DEF Names
      <4> QED BY <2>13, <3>2, <4>1, <4>2
    <3>3. OnRecord(a)'
      BY <3>0, <3>2 DEF OnRecord
    <3>4. Unloaded(a)'
      BY <1>2, <3>0 DEF AppInv, Unloaded
    <3>5. Whole(a)'
      BY <3>0, <3>1, <3>2 DEF AppInv, Whole
    <3> QED BY <3>3, <3>4, <3>5 DEF AppInv
  <2>15. JobInv'
    <3>1. CASE Done
      BY <3>1, JobEasy DEF Done, Idle
    <3>2. CASE job' = [job EXCEPT !.todo = rest(job.todo)]
      <4>1. job'.pc = "register" /\ job'.app = a /\ job'.todo = rest(job.todo)
        BY <1>1, <1>2, <2>1, <3>2, JobAt DEF Steps
      <4> QED BY <1>1, <1>2, <2>2, <4>1 DEF JobInv, Cleared, Walked, Raised
    <3> QED BY <1>4, <3>1, <3>2
  <2> QED BY <2>12, <2>14, <2>15 DEF RoutesInv
<1> QED BY <1>1, <1>3, <1>4

\* Every step keeps it.
LEMMA RoutesInvKept ==
    ASSUME RouteTypes, OwnersInv, "restore" \notin scene.verbs, RoutesInv, [Next]_vars
    PROVE  RoutesInv'
<1>1. CASE UNCHANGED vars
  <2>1. \A b \in Apps : AppInv(b)'
    BY <1>1, LiveSame, AppSame DEF vars, RoutesInv
  <2>2. Cleared'
    BY <1>1, LiveSame DEF vars, RoutesInv, JobInv, Cleared, Quiet, live
  <2>3. Walked'
    BY <1>1 DEF vars, RoutesInv, JobInv, Walked, live
  <2> QED BY <1>1, <2>1, <2>2, <2>3 DEF vars, RoutesInv, JobInv, Raised
<1> QED BY <1>1, AskKeeps, TakeDownKeeps, DeriveKeeps, PlaceKeeps, RegisterKeeps, BetweenKeeps
        DEF Next

LEMMA RoutesInvInit ==
    ASSUME Init
    PROVE  OwnersInv /\ RoutesInv
<1>1. OwnersInv
  BY DEF Init, Idle, OwnersInv, Noops, Preflighted, Unowned
<1>2. \A a \in Apps : Quiet(a)
  BY DEF Init, Absent, NoPort, Quiet, live
<1>3. \A a \in Apps : AppInv(a)
  BY <1>2 DEF Init, AppInv, OnRecord, Unloaded, Whole, Quiet
<1>4. JobInv
  BY DEF Init, Idle, JobInv, Cleared, Walked, Raised
<1> QED BY <1>1, <1>3, <1>4 DEF RoutesInv

\* What the two properties take from it.
LEMMA RoutesInvGives ==
    ASSUME RoutesInv
    PROVE  LiveTracked /\ RoutesReach
<1>1. LiveTracked
  BY DEF RoutesInv, AppInv, OnRecord, Names, LiveTracked
<1>2. RoutesReach
  BY DEF RoutesInv, AppInv, Whole, Names, RoutesReach
<1> QED BY <1>1, <1>2

LEMMA RoutesInvAlways == Spec => []("restore" \notin scene.verbs => RoutesInv)
<1> DEFINE Inv == /\ RouteTypes /\ OwnersInv
                  /\ "restore" \notin scene.verbs => RoutesInv
<1>1. Init => Inv
  BY RouteTypesInit, RoutesInvInit
<1>2. Inv /\ [Next]_vars => Inv'
  <2>1. ASSUME Inv, [Next]_vars
        PROVE  RouteTypes' /\ OwnersInv' /\ scene' = scene
    BY <2>1, RouteTypesKept, OwnersKeptInv, RecordsChange
  <2> QED BY <2>1, RoutesInvKept
<1> QED BY <1>1, <1>2, PTL DEF Spec

\* Whoever asks for what, wherever a verb is cut short, as long as nobody asks for a
\* restore: every route that stands for an app is on record with its provider and port
\* (load, start and rm take routes down before they touch the records).
THEOREM RoutesTracked == Spec => []("restore" \notin scene.verbs => LiveTracked)
BY RoutesInvAlways, RoutesInvGives, PTL

\* And the routes of a running app whose derivation was not cut short lead to its own
\* containers (start, materialize, register_app_routes).
THEOREM RoutesReachApps == Spec => []("restore" \notin scene.verbs => RoutesReach)
BY RoutesInvAlways, RoutesInvGives, PTL

-----------------------------------------------------------------------------
(***************************************************************************)
(* Sources.  An app that nothing mixed has one place, the one its recorded *)
(* source is at: its copy, secrets, data and links are of that place, or   *)
(* not there.  The check of a verb compares what was recorded when it was  *)
(* resolved; one whose record is no longer that mixes.                     *)
(***************************************************************************)
SomePlace == S!Places \cup {Nowhere}
Bounds == {<<>>} \cup ({"repo", "path"} \X S!Places)

\* What kelso holds of an id: only a config records anything, and unless it was mixed it
\* is all of the recorded place.
HeldSet == [copy : SomePlace, ready : BOOLEAN, links : SomePlace, config : BOOLEAN,
            origin : SomePlace, bound : Bounds, made : SomePlace, data : SomePlace,
            up : BOOLEAN, mixed : BOOLEAN]
Recorded(h) == ~h.config => h.bound = <<>> /\ h.origin = Nowhere /\ h.made = Nowhere
Own(h) ==
    /\ h.bound = <<>> => /\ h.made = Nowhere /\ h.links = Nowhere /\ ~h.ready /\ ~h.up
                         /\ h.config => h.data = Nowhere
    /\ h.bound # <<>> => /\ h.origin = h.bound[2]
                         /\ {h.copy, h.made, h.data, h.links} \subseteq {Nowhere, h.bound[2]}
    /\ h.ready => h.copy # Nowhere /\ h.made # Nowhere
    /\ h.up => h.ready /\ h.data # Nowhere
    /\ h.copy # Nowhere /\ ~h.config => h.data = Nowhere
GoodSet == {h \in HeldSet : Recorded(h) /\ (h.mixed \/ Own(h))}

\* What a process resolved: the place its target's source is at, checked against what was
\* recorded then; or, to record none, where the app was loaded from.
TargetSet == [app : Ids, place : SomePlace, bound : Bounds]
AskedSet == [verb : {"load", "start", "update", "dev"}, target : TargetSet, force : BOOLEAN,
             was : Bounds \X SomePlace]
Checked(q) ==
    LET t == q.target IN
    /\ t.bound # <<>> => t.place = t.bound[2]
    /\ t.bound # <<>> /\ ~q.force /\ q.verb # "dev" => q.was[1] \in {<<>>, t.bound}
    /\ t.bound = <<>> => t.place \in {Nowhere, q.was[2]} /\ q.verb # "dev"
SentSet == {q \in AskedSet : Checked(q)}

SourcesInv == held \in [Ids -> GoodSet] /\ proc \in [Procs -> {S!Idle} \cup SentSet]

\* A load may be of place and record bound.
Fits(h, place, bound) ==
    \/ h.mixed
    \/ bound # <<>> /\ place = bound[2] /\ h.bound \in {<<>>, bound}
    \/ bound = <<>> /\ h.bound # <<>> /\ place = h.bound[2]

\* Each durable part of a load, and what runs after it, is of one place.
LEMMA LoadGood ==
    ASSUME NEW h \in GoodSet, NEW place \in S!Places, NEW bound \in Bounds,
           S!Loadable(h), Fits(h, place, bound)
    PROVE  /\ S!load(h, place, bound) \in Seq(GoodSet)
           /\ Len(S!load(h, place, bound)) = 5
           /\ LET last == S!load(h, place, bound)[5] IN
              /\ last \in GoodSet /\ last.copy = place /\ last.ready /\ ~last.up
              /\ ~last.mixed => last.bound # <<>> /\ last.bound[2] = place
<1> DEFINE c == [h EXCEPT !.copy = place, !.up = FALSE]
           o == [c EXCEPT !.origin = place, !.config = TRUE]
           r == IF bound = <<>> THEN o ELSE [o EXCEPT !.bound = bound]
           g == IF r.made = Nowhere THEN [r EXCEPT !.made = place] ELSE r
           l == [g EXCEPT !.ready = TRUE, !.links = Nowhere]
           src == IF bound = <<>> THEN h.bound ELSE bound
<1>0. /\ h \in HeldSet /\ Recorded(h) /\ (h.mixed \/ Own(h)) /\ place \in SomePlace
      /\ place # Nowhere /\ Nowhere \in SomePlace /\ (h.config \/ h.data = Nowhere)
  BY SourcesAssumption DEF GoodSet, SomePlace, S!Loadable, S!has_volume_data
<1>1. h.mixed \/ (src # <<>> /\ src[2] = place /\ h.bound \in {<<>>, src} /\ src \in Bounds)
  BY <1>0 DEF Fits, HeldSet
<1> HIDE DEF src
<1>2. /\ c \in HeldSet /\ c.copy = place /\ c.up = FALSE /\ c.ready = h.ready /\ c.links = h.links
      /\ c.config = h.config /\ c.origin = h.origin /\ c.bound = h.bound /\ c.made = h.made
      /\ c.data = h.data /\ c.mixed = h.mixed
  BY <1>0 DEF HeldSet
<1> HIDE DEF c
<1>3. c \in GoodSet
  <2>1. h.mixed \/ Own(c)
    BY <1>0, <1>1, <1>2 DEF Own
  <2> QED BY <1>0, <1>2, <2>1 DEF GoodSet, Recorded
<1>4. /\ o \in HeldSet /\ o.copy = place /\ o.up = FALSE /\ o.ready = h.ready /\ o.links = h.links
      /\ o.config = TRUE /\ o.origin = place /\ o.bound = h.bound /\ o.made = h.made
      /\ o.data = h.data /\ o.mixed = h.mixed
  BY <1>0, <1>2 DEF HeldSet
<1> HIDE DEF o
<1>5. o \in GoodSet
  <2>1. h.mixed \/ Own(o)
    BY <1>0, <1>1, <1>4 DEF Own
  <2> QED BY <1>0, <1>4, <2>1 DEF GoodSet, Recorded
<1>6. /\ r \in HeldSet /\ r.copy = place /\ r.up = FALSE /\ r.ready = h.ready /\ r.links = h.links
      /\ r.config = TRUE /\ r.origin = place /\ r.made = h.made
      /\ r.data = h.data /\ r.mixed = h.mixed
      /\ h.mixed \/ r.bound = src
  <2>1. CASE bound = <<>>
    BY <1>4, <2>1 DEF src
  <2>2. CASE bound # <<>>
    BY <1>4, <2>2 DEF HeldSet, src
  <2> QED BY <2>1, <2>2
<1> HIDE DEF r
<1>7. r \in GoodSet
  <2>1. h.mixed \/ Own(r)
    BY <1>0, <1>1, <1>6 DEF Own
  <2> QED BY <1>0, <1>6, <2>1 DEF GoodSet, Recorded
<1>8. /\ g \in HeldSet /\ g.copy = place /\ g.up = FALSE /\ g.ready = h.ready /\ g.links = h.links
      /\ g.config = TRUE /\ g.origin = place /\ g.made # Nowhere
      /\ g.data = h.data /\ g.mixed = h.mixed /\ g.bound = r.bound
      /\ h.mixed \/ g.made = place
  <2>1. CASE r.made = Nowhere
    <3>1. g = [r EXCEPT !.made = place]
      BY <2>1
    <3> HIDE DEF g
    <3>2. g \in HeldSet /\ g.made = place
      BY <1>0, <1>6, <3>1 DEF HeldSet
    <3>3. /\ g.copy = r.copy /\ g.up = r.up /\ g.ready = r.ready /\ g.links = r.links
          /\ g.config = r.config /\ g.origin = r.origin /\ g.bound = r.bound
          /\ g.data = r.data /\ g.mixed = r.mixed
      BY <1>6, <3>1 DEF HeldSet
    <3> QED BY <1>0, <1>6, <3>2, <3>3
  <2>2. CASE r.made # Nowhere
    BY <1>0, <1>1, <1>6, <2>2 DEF Own
  <2> QED BY <2>1, <2>2
<1> HIDE DEF g
<1>9. g \in GoodSet
  <2>1. h.mixed \/ Own(g)
    BY <1>0, <1>1, <1>6, <1>8 DEF Own
  <2> QED BY <1>0, <1>8, <2>1 DEF GoodSet, Recorded
<1>10. /\ l \in HeldSet /\ l.copy = place /\ l.up = FALSE /\ l.ready = TRUE /\ l.links = Nowhere
       /\ l.config = TRUE /\ l.origin = place /\ l.made = g.made
       /\ l.data = h.data /\ l.mixed = h.mixed /\ l.bound = r.bound
  BY <1>0, <1>8 DEF HeldSet
<1> HIDE DEF l
<1>11. l \in GoodSet
  <2>1. h.mixed \/ Own(l)
    BY <1>0, <1>1, <1>6, <1>8, <1>10 DEF Own
  <2> QED BY <1>0, <1>10, <2>1 DEF GoodSet, Recorded
<1>12. S!load(h, place, bound) = <<c, o, r, g, l>>
  BY DEF S!load, c, o, r, g, l
<1> QED
  <2>1. h.mixed \/ (l.bound # <<>> /\ l.bound[2] = place)
    BY <1>1, <1>6, <1>10
  <2> QED BY <1>3, <1>5, <1>7, <1>9, <1>10, <1>11, <1>12, <2>1

\* What runs of a derivation that is there is of its place.
LEMMA RunsGood ==
    ASSUME NEW h \in GoodSet, h.ready
    PROVE  S!Runs(h) \in GoodSet
<1> DEFINE u == [h EXCEPT !.up = TRUE, !.data = IF h.data = Nowhere THEN h.copy ELSE h.data]
<1>1. h \in HeldSet /\ Recorded(h) /\ (h.mixed \/ Own(h))
  BY DEF GoodSet
<1>2. /\ u \in HeldSet /\ u.copy = h.copy /\ u.up = TRUE /\ u.ready = h.ready /\ u.links = h.links
      /\ u.config = h.config /\ u.origin = h.origin /\ u.bound = h.bound /\ u.made = h.made
      /\ u.mixed = h.mixed /\ u.data = IF h.data = Nowhere THEN h.copy ELSE h.data
  BY <1>1 DEF HeldSet
<1>3. u = S!Runs(h)
  BY DEF S!Runs
<1> HIDE DEF u
<1>4. h.mixed \/ Own(u)
  BY <1>1, <1>2 DEF Own, Recorded
<1> QED BY <1>1, <1>2, <1>3, <1>4 DEF GoodSet, Recorded

\* Wherever a verb is cut short, what is held is one of the steps it takes.
LEMMA ComesGood ==
    ASSUME held \in [Ids -> GoodSet], NEW a \in Ids, NEW steps \in Seq(GoodSet), Len(steps) >= 1,
           S!Comes(a, steps)
    PROVE  held' \in [Ids -> GoodSet]
<1>1. PICK i \in 1..Len(steps) : held' = [held EXCEPT ![a] = steps[i]]
  BY DEF S!Comes
<1>2. steps[i] \in GoodSet
  OBVIOUS
<1> QED BY <1>1, <1>2

LEMMA ThereIsPlace ==
    ASSUME NEW a, NEW place, S!There(a, place) PROVE place \in S!Places
BY DEF S!There, S!Places

\* The binding that is compared is the recorded one.
LEMMA BoundTo ==
    ASSUME held \in [Ids -> GoodSet], NEW a \in Ids
    PROVE  S!bound_to(a) = held[a].bound
<1>1. held[a] \in GoodSet
  OBVIOUS
<1> QED BY <1>1 DEF S!bound_to, GoodSet, Recorded

\* A load under the lock: what makes it unchecked or forced mixes the app.
LEMMA LoadsGood ==
    ASSUME SourcesInv, NEW p \in Procs, proc[p] \in SentSet, proc[p].verb # "dev",
           NEW places, NEW starts, S!LoadsFrom(p, places, starts)
    PROVE  held' \in [Ids -> GoodSet]
<1>1. PICK q : q = proc[p]
  OBVIOUS
<1>2. PICK t : t = q.target
  OBVIOUS
<1>3. PICK k : k = held[t.app]
  OBVIOUS
<1>4. /\ q \in AskedSet /\ Checked(q) /\ q.verb # "dev" /\ t \in TargetSet /\ t.app \in Ids
      /\ held \in [Ids -> GoodSet] /\ k \in GoodSet /\ q.force \in BOOLEAN
  BY <1>1, <1>2, <1>3 DEF SourcesInv, SentSet, AskedSet, TargetSet
<1>5. PICK m \in BOOLEAN : m = (k.mixed \/ q.force \/ S!Unchecked(p))
  OBVIOUS
<1> DEFINE h == [k EXCEPT !.mixed = m]
<1>6. PICK place : /\ t.place # Nowhere => place = t.place
                   /\ S!There(t.app, place) /\ S!Loadable(h)
                   /\ S!Comes(t.app, <<k>> \o S!load(h, place, t.bound)
                        \o (IF starts
                            THEN <<S!Runs(S!load(h, place, t.bound)[Len(S!load(h, place, t.bound))])>>
                            ELSE <<>>))
  BY <1>1, <1>2, <1>3, <1>5 DEF S!LoadsFrom
<1>7. h \in GoodSet /\ h.mixed = m /\ h.bound = k.bound
  <2>1. k \in HeldSet /\ Recorded(k) /\ (k.mixed \/ Own(k))
    BY <1>4 DEF GoodSet
  <2>2. CASE m
    <3>1. h \in HeldSet /\ h.mixed = m /\ h.bound = k.bound /\ h.config = k.config
          /\ h.origin = k.origin /\ h.made = k.made
      BY <2>1 DEF HeldSet
    <3> HIDE DEF h
    <3> QED BY <2>1, <2>2, <3>1 DEF GoodSet, Recorded
  <2>3. CASE ~m
    <3>1. k.mixed = m
      BY <1>5, <2>1, <2>3 DEF HeldSet
    <3>2. h = k
      BY <2>1, <3>1 DEF HeldSet
    <3> QED BY <1>4, <3>1, <3>2
  <2> QED BY <2>2, <2>3
<1> HIDE DEF h
<1>8. place \in S!Places /\ t.bound \in Bounds
  BY <1>4, <1>6, ThereIsPlace DEF TargetSet
<1>9. Fits(h, place, t.bound)
  <2> SUFFICES ASSUME ~m PROVE Fits(h, place, t.bound)
    BY <1>7 DEF Fits
  <2>1. ~q.force /\ ~S!Unchecked(p) /\ ~k.mixed
    BY <1>5
  <2>2. t.place # Nowhere /\ q.was = <<k.bound, k.origin>> /\ (t.bound # <<>> \/ k.bound # <<>>)
    BY <1>1, <1>2, <1>3, <2>1 DEF S!Unchecked
  <2>3. place = t.place
    BY <1>6, <2>2
  <2>4. k.bound # <<>> => k.origin = k.bound[2]
    BY <1>4, <2>1 DEF GoodSet, Own
  <2>5. CASE t.bound # <<>>
    BY <1>2, <1>4, <1>7, <2>1, <2>2, <2>3, <2>5 DEF Fits, Checked
  <2>6. CASE t.bound = <<>>
    BY <1>2, <1>4, <1>7, <2>2, <2>3, <2>4, <2>6 DEF Fits, Checked
  <2> QED BY <2>5, <2>6
<1>10. PICK steps : steps = S!load(h, place, t.bound)
  OBVIOUS
<1>11. steps \in Seq(GoodSet) /\ Len(steps) = 5 /\ steps[5] \in GoodSet /\ steps[5].ready
  BY <1>6, <1>7, <1>8, <1>9, <1>10, LoadGood
<1>12. S!Runs(steps[5]) \in GoodSet
  BY <1>11, RunsGood
<1>13. PICK ran : ran = IF starts THEN <<S!Runs(steps[Len(steps)])>> ELSE <<>>
  OBVIOUS
<1>14. ran \in Seq(GoodSet)
  BY <1>11, <1>12, <1>13
<1>15. S!Comes(t.app, <<k>> \o steps \o ran)
  BY <1>6, <1>10, <1>13
<1>16. <<k>> \o steps \in Seq(GoodSet) /\ Len(<<k>> \o steps) >= 1
  BY <1>4, <1>11
<1>17. (<<k>> \o steps) \o ran \in Seq(GoodSet) /\ Len((<<k>> \o steps) \o ran) >= 1
  BY <1>14, <1>16
<1> QED BY <1>4, <1>15, <1>17, ComesGood

\* What load and start resolve their argument to was checked against the record.
LEMMA ResolveSent ==
    ASSUME SourcesInv, NEW p \in Procs, NEW verb \in {"load", "start"},
           NEW force \in BOOLEAN, S!Resolve(p, verb, force)
    PROVE  /\ held' = held
           /\ \E q \in SentSet : proc' = [proc EXCEPT ![p] = q]
<1>1. PICK arg, t : /\ t \in S!load_target(p, arg, force)
                    /\ S!Resolves(p, verb, t, force)
  BY DEF S!Resolve
<1>2. PICK q : q = [verb |-> verb, target |-> t, force |-> force,
                    was |-> <<held[t.app].bound, held[t.app].origin>>]
  OBVIOUS
<1>3. proc' = [proc EXCEPT ![p] = q] /\ held' = held
  BY <1>1, <1>2 DEF S!Resolves
<1>4. S!check_binding(t, force)
  BY <1>1 DEF S!load_target
<1>5. t \in TargetSet /\ (t.bound # <<>> => t.place = t.bound[2])
      /\ (t.bound = <<>> => t.place = Nowhere)
  <2>1. CASE \E l : t \in S!path_target(l)
    <3>0. PICK l : t \in S!path_target(l)
      BY <2>1
    <3>1. PICK a \in Ids : S!There(a, l) /\ t = S!Target(a, l, <<"path", l>>)
      BY <3>0 DEF S!path_target
    <3>2. l \in S!Places
      BY <3>1, ThereIsPlace
    <3> QED BY <3>1, <3>2 DEF TargetSet, SomePlace, Bounds, S!Target
  <2>2. CASE \E name, repo : t \in S!catalog_target(name, repo)
    <3>1. PICK name, repo : t \in S!catalog_target(name, repo)
      BY <2>2
    <3>2. \A b \in S!resolve_app(name) : b \in Ids
      BY DEF S!resolve_app, S!known_apps
    <3>3. \A b : S!app_catalog(b) \subseteq Repos /\ S!bound_entry(b) \subseteq Repos
      BY DEF S!app_catalog, S!bound_entry
    <3>4. PICK a \in Ids : \/ \E r \in Repos : t = S!OfRepo(a, r)
                           \/ t = S!Target(a, Nowhere, <<>>)
      BY <3>1, <3>2, <3>3 DEF S!catalog_target
    <3>5. CASE t = S!Target(a, Nowhere, <<>>)
      BY <3>5 DEF TargetSet, SomePlace, Bounds, S!Target
    <3>6. CASE \E r \in Repos : t = S!OfRepo(a, r)
      <4>1. PICK r \in Repos : t = S!OfRepo(a, r)
        BY <3>6
      <4>2. r \in S!Places
        BY DEF S!Places
      <4> QED BY <4>1, <4>2 DEF TargetSet, SomePlace, Bounds, S!Target, S!OfRepo
    <3> QED BY <3>4, <3>5, <3>6
  <2> QED BY <1>1, <2>1, <2>2 DEF S!load_target
<1>6. t.app \in Ids /\ t.bound \in Bounds /\ held \in [Ids -> GoodSet]
  BY <1>5 DEF TargetSet, SourcesInv
<1>7. PICK k \in GoodSet : k = held[t.app]
  BY <1>6
<1>8. k.bound \in Bounds /\ k.origin \in SomePlace
  BY DEF GoodSet, HeldSet
<1>9. S!bound_to(t.app) = k.bound
  BY <1>6, <1>7, BoundTo
<1>10. t.bound # <<>> /\ ~force => k.bound \in {<<>>, t.bound}
  BY <1>4, <1>9 DEF S!check_binding
<1>11. /\ q.verb = verb /\ q.target = t /\ q.force = force /\ q.was[1] = k.bound /\ q.was[2] = k.origin
       /\ q \in AskedSet
  BY <1>2, <1>5, <1>7, <1>8 DEF AskedSet
<1>12. Checked(q)
  BY <1>5, <1>10, <1>11 DEF Checked
<1> QED BY <1>3, <1>11, <1>12 DEF SentSet

\* An update takes the place the app was loaded from.
LEMMA UpdateSent ==
    ASSUME SourcesInv, NEW p \in Procs, NEW a \in Ids, S!update_source(p, a)
    PROVE  /\ held' = held
           /\ \E q \in SentSet : proc' = [proc EXCEPT ![p] = q]
<1>1. PICK k \in GoodSet : k = held[a]
  BY DEF SourcesInv
<1>2. k.bound \in Bounds /\ k.origin \in SomePlace /\ k.origin # Nowhere
  BY <1>1 DEF GoodSet, HeldSet, S!update_source
<1>3. PICK t : t = [app |-> a, place |-> k.origin, bound |-> <<>>]
  OBVIOUS
<1>4. t \in TargetSet /\ t.bound = <<>> /\ t.place = k.origin /\ t.app = a
  BY <1>2, <1>3 DEF TargetSet, Bounds
<1>5. S!Resolves(p, "update", t, FALSE)
  BY <1>1, <1>3 DEF S!update_source, S!Target
<1>6. PICK q : q = [verb |-> "update", target |-> t, force |-> FALSE, was |-> <<k.bound, k.origin>>]
  OBVIOUS
<1>7. proc' = [proc EXCEPT ![p] = q] /\ held' = held
  BY <1>1, <1>4, <1>5, <1>6 DEF S!Resolves
<1>8. /\ q.verb = "update" /\ q.target = t /\ q.was[2] = k.origin /\ q \in AskedSet
  BY <1>2, <1>4, <1>6 DEF AskedSet
<1>9. Checked(q)
  BY <1>4, <1>8 DEF Checked
<1> QED BY <1>7, <1>8, <1>9 DEF SentSet

LEMMA DevSent ==
    ASSUME SourcesInv, NEW p \in Procs, NEW a \in Ids, NEW place, S!AsksDev(p, a, place)
    PROVE  /\ held' = held
           /\ \E q \in SentSet : proc' = [proc EXCEPT ![p] = q]
<1>1. PICK k \in GoodSet : k = held[a]
  BY DEF SourcesInv
<1>2. k.bound \in Bounds /\ k.origin \in SomePlace
  BY DEF GoodSet, HeldSet
<1>3. place \in S!Places
  BY ThereIsPlace DEF S!AsksDev
<1>4. PICK t : t = [app |-> a, place |-> place, bound |-> <<"path", place>>]
  OBVIOUS
<1>5. t \in TargetSet /\ t.bound = <<"path", place>> /\ t.place = place /\ t.app = a
  BY <1>3, <1>4 DEF TargetSet, Bounds, SomePlace
<1>6. S!Resolves(p, "dev", t, FALSE)
  BY <1>4 DEF S!AsksDev, S!Target
<1>7. PICK q : q = [verb |-> "dev", target |-> t, force |-> FALSE, was |-> <<k.bound, k.origin>>]
  OBVIOUS
<1>8. proc' = [proc EXCEPT ![p] = q] /\ held' = held
  BY <1>1, <1>5, <1>6, <1>7 DEF S!Resolves
<1>9. /\ q.verb = "dev" /\ q.target = t /\ q \in AskedSet
  BY <1>2, <1>5, <1>7 DEF AskedSet
<1>10. Checked(q)
  BY <1>5, <1>9 DEF Checked
<1> QED BY <1>8, <1>9, <1>10 DEF SentSet

\* A removal keeps data only where it keeps the place, or forgets whose it is.
LEMMA RemovalGood ==
    ASSUME SourcesInv, NEW p \in Procs, NEW a \in Ids, NEW mode \in {"unload", "data", "purge"},
           S!rm(p, a, mode)
    PROVE  held' \in [Ids -> GoodSet] /\ proc' = proc
<1>1. PICK h \in GoodSet : h = held[a]
  BY DEF SourcesInv
<1>2. h \in HeldSet /\ Recorded(h) /\ (h.mixed \/ Own(h)) /\ Nowhere \in SomePlace /\ <<>> \in Bounds
  BY DEF GoodSet, SomePlace, Bounds
<1>3. PICK steps : steps = S!Removal(h, mode)
  OBVIOUS
<1>4. S!Comes(a, steps) /\ (mode # "unload" => ~h.up) /\ proc' = proc
  BY <1>1, <1>3 DEF S!rm
<1> DEFINE u == [h EXCEPT !.copy = Nowhere, !.ready = FALSE, !.links = Nowhere, !.up = FALSE]
           d == [h EXCEPT !.data = Nowhere]
           w == [S!Fresh EXCEPT !.data = h.data, !.mixed = h.mixed]
<1>5. u \in GoodSet
  <2>1. /\ u \in HeldSet /\ u.copy = Nowhere /\ u.ready = FALSE /\ u.links = Nowhere /\ u.up = FALSE
        /\ u.config = h.config /\ u.origin = h.origin /\ u.bound = h.bound /\ u.made = h.made
        /\ u.data = h.data /\ u.mixed = h.mixed
    BY <1>2 DEF HeldSet
  <2> HIDE DEF u
  <2>2. h.mixed \/ Own(u)
    BY <1>2, <2>1 DEF Own
  <2> QED BY <1>2, <2>1, <2>2 DEF GoodSet, Recorded
<1>6. ASSUME mode = "data" PROVE d \in GoodSet
  <2>1. /\ d \in HeldSet /\ d.data = Nowhere /\ d.up = FALSE /\ d.copy = h.copy /\ d.ready = h.ready
        /\ d.links = h.links /\ d.config = h.config /\ d.origin = h.origin /\ d.bound = h.bound
        /\ d.made = h.made /\ d.mixed = h.mixed
    BY <1>2, <1>4, <1>6 DEF HeldSet
  <2> HIDE DEF d
  <2>2. h.mixed \/ Own(d)
    BY <1>2, <2>1 DEF Own
  <2> QED BY <1>2, <2>1, <2>2 DEF GoodSet, Recorded
<1>7. w \in GoodSet
  <2>1. /\ w \in HeldSet /\ w.copy = Nowhere /\ w.ready = FALSE /\ w.links = Nowhere /\ w.up = FALSE
        /\ w.config = FALSE /\ w.origin = Nowhere /\ w.bound = <<>> /\ w.made = Nowhere
    BY <1>2 DEF HeldSet, S!Fresh
  <2> HIDE DEF w
  <2> QED BY <2>1 DEF GoodSet, Recorded, Own
<1>8. S!Fresh \in GoodSet
  BY <1>2 DEF S!Fresh, GoodSet, HeldSet, Recorded, Own
<1>9. steps \in Seq(GoodSet) /\ Len(steps) >= 1
  <2>1. CASE mode = "unload"
    <3>1. steps = <<h, u>>
      BY <1>3, <2>1 DEF S!Removal
    <3> HIDE DEF u
    <3> QED BY <1>5, <3>1
  <2>2. CASE mode = "data"
    <3>1. steps = <<h, d>>
      BY <1>3, <2>2 DEF S!Removal
    <3> HIDE DEF d
    <3> QED BY <1>6, <2>2, <3>1
  <2>3. CASE mode = "purge"
    <3>1. steps = <<h, u, w, S!Fresh>>
      BY <1>3, <2>3 DEF S!Removal
    <3> HIDE DEF u, w
    <3> QED BY <1>5, <1>7, <1>8, <3>1
  <2> QED BY <2>1, <2>2, <2>3
<1> QED BY <1>4, <1>9, ComesGood DEF SourcesInv

\* Loaded or not, what a start leaves is of the app's place.
LEMMA StartGood ==
    ASSUME SourcesInv, NEW p \in Procs, S!Start(p)
    PROVE  held' \in [Ids -> GoodSet]
<1>1. proc[p] \in SentSet /\ proc[p].verb = "start" /\ proc[p].target.app \in Ids
  BY DEF S!Start, SourcesInv, S!Idle, SentSet, AskedSet, TargetSet
<1>2. PICK a \in Ids : a = proc[p].target.app
  BY <1>1
<1>3. held \in [Ids -> GoodSet] /\ held[a] \in GoodSet
  BY DEF SourcesInv
<1>4. CASE S!is_loaded(a)
  <2>1. held[a].ready /\ S!Comes(a, <<S!Runs(held[a])>>)
    BY <1>2, <1>4 DEF S!Start
  <2>2. S!Runs(held[a]) \in GoodSet
    BY <1>3, <2>1, RunsGood
  <2>3. PICK steps : steps = <<S!Runs(held[a])>>
    OBVIOUS
  <2>4. steps \in Seq(GoodSet) /\ Len(steps) >= 1
    BY <2>2, <2>3
  <2> QED BY <1>3, <2>1, <2>3, <2>4, ComesGood
<1>5. CASE ~S!is_loaded(a)
  <2>1. S!LoadsFrom(p, IF p = Kelsod THEN S!bundle_path(a) ELSE {}, TRUE)
    BY <1>2, <1>5 DEF S!Start
  <2>2. proc[p].verb # "dev"
    BY <1>1
  <2> QED BY <1>1, <2>1, <2>2, LoadsGood
<1> QED BY <1>4, <1>5

LEMMA ReloadGood ==
    ASSUME SourcesInv, NEW p \in Procs, S!Reload(p)
    PROVE  held' \in [Ids -> GoodSet]
<1>1. proc[p] \in SentSet /\ proc[p].verb # "dev"
  BY DEF S!Reload, SourcesInv, S!Idle
<1>2. PICK places, starts : S!LoadsFrom(p, places, starts)
  BY DEF S!Reload
<1> QED BY <1>1, <1>2, LoadsGood

\* A dev run refuses the config of another origin, shows its own bundle while it runs,
\* and gives the links back.
LEMMA DevGood ==
    ASSUME SourcesInv, NEW p \in Procs, S!dev(p)
    PROVE  held' \in [Ids -> GoodSet]
<1>1. PICK q \in SentSet : q = proc[p] /\ q.verb = "dev"
  BY DEF S!dev, SourcesInv, S!Idle
<1>2. PICK t \in TargetSet : t = q.target
  BY <1>1 DEF SentSet, AskedSet
<1>3. PICK a \in Ids : a = t.app
  BY DEF TargetSet
<1>4. PICK place : place = t.place
  OBVIOUS
<1>5. held \in [Ids -> GoodSet]
  BY DEF SourcesInv
<1>6. PICK h \in GoodSet : h = held[a]
  BY <1>5
<1>7. PICK bound : bound = IF S!bound_to(a) = <<>> THEN t.bound ELSE <<>>
  OBVIOUS
<1>8. PICK steps : steps = S!load(h, place, bound)
  OBVIOUS
<1>9. PICK last : last = steps[Len(steps)]
  OBVIOUS
<1>10. PICK linked : linked = [last EXCEPT !.links = place]
  OBVIOUS
<1>11. /\ S!There(a, place) /\ S!Loadable(h) /\ S!refuse_other_origin(h, place)
       /\ \E plan \in S!dev_plan(last, place) :
            IF plan.up
            THEN \E end \in S!compose_down(plan) : S!Comes(a, <<h>> \o steps \o <<linked, plan, end>>)
            ELSE S!Comes(a, <<h>> \o steps)
  BY <1>1, <1>2, <1>3, <1>4, <1>6, <1>7, <1>8, <1>9, <1>10 DEF S!dev, S!source_volume_links
<1>12. h \in HeldSet /\ Recorded(h) /\ (h.mixed \/ Own(h)) /\ Checked(q) /\ S!bound_to(a) = h.bound
  BY <1>5, <1>6, BoundTo DEF GoodSet, SentSet
<1>13. place \in S!Places /\ place # Nowhere
  BY <1>11, ThereIsPlace, SourcesAssumption
<1>14. t.bound # <<>> /\ place = t.bound[2] /\ t.bound \in Bounds
  BY <1>1, <1>2, <1>4, <1>12 DEF Checked, TargetSet
<1>15. bound \in Bounds /\ Fits(h, place, bound)
  <2>1. CASE h.bound = <<>>
    BY <1>7, <1>12, <1>14, <2>1 DEF Fits
  <2>2. CASE h.bound # <<>>
    <3>1. bound = <<>> /\ h.config /\ h.origin \in {Nowhere, place}
      BY <1>7, <1>11, <1>12, <2>2 DEF Recorded, S!refuse_other_origin, HeldSet
    <3>2. h.bound[2] \in S!Places
      BY <1>12, <2>2 DEF HeldSet, Bounds
    <3>3. h.mixed \/ place = h.bound[2]
      BY <1>12, <2>2, <3>1, <3>2, SourcesAssumption DEF Own
    <3> QED BY <2>2, <3>1, <3>3 DEF Fits, Bounds
  <2> QED BY <2>1, <2>2
<1>16. /\ steps \in Seq(GoodSet) /\ Len(steps) = 5 /\ last \in GoodSet
       /\ last.copy = place /\ last.ready /\ ~last.up
       /\ ~last.mixed => last.bound # <<>> /\ last.bound[2] = place
  BY <1>8, <1>9, <1>11, <1>13, <1>15, LoadGood
<1>17. linked \in GoodSet /\ linked.ready /\ linked.mixed = last.mixed
  <2>1. last \in HeldSet /\ Recorded(last) /\ (last.mixed \/ Own(last)) /\ place \in SomePlace
    BY <1>13, <1>16 DEF GoodSet, SomePlace
  <2>2. /\ linked \in HeldSet /\ linked.links = place /\ linked.copy = last.copy
        /\ linked.ready = last.ready /\ linked.up = last.up /\ linked.config = last.config
        /\ linked.origin = last.origin /\ linked.bound = last.bound /\ linked.made = last.made
        /\ linked.data = last.data /\ linked.mixed = last.mixed
    BY <1>10, <2>1 DEF HeldSet
  <2>3. last.mixed \/ Own(linked)
    BY <1>16, <2>1, <2>2 DEF Own
  <2> QED BY <1>16, <2>1, <2>2, <2>3 DEF GoodSet, Recorded
<1>18. PICK plan \in {last, S!Runs(linked)} :
          IF plan.up
          THEN \E end \in S!compose_down(plan) : S!Comes(a, <<h>> \o steps \o <<linked, plan, end>>)
          ELSE S!Comes(a, <<h>> \o steps)
  BY <1>10, <1>11 DEF S!dev_plan, S!source_volume_links
<1>19. plan \in GoodSet
  BY <1>16, <1>17, <1>18, RunsGood
<1>20. <<h>> \o steps \in Seq(GoodSet) /\ Len(<<h>> \o steps) >= 1
  BY <1>16
<1>21. CASE plan.up
  <2>1. PICK end \in S!compose_down(plan) : S!Comes(a, <<h>> \o steps \o <<linked, plan, end>>)
    BY <1>18, <1>21
  <2>2. end \in GoodSet
    <3>1. plan \in HeldSet /\ Recorded(plan) /\ (plan.mixed \/ Own(plan)) /\ Nowhere \in SomePlace
      BY <1>19 DEF GoodSet, SomePlace
    <3>2. end \in HeldSet /\ end.links = Nowhere /\ end.copy = plan.copy /\ end.ready = plan.ready
          /\ (end.up => plan.up) /\ end.config = plan.config /\ end.origin = plan.origin
          /\ end.bound = plan.bound /\ end.made = plan.made /\ end.data = plan.data
          /\ end.mixed = plan.mixed
      <4>1. CASE end = [plan EXCEPT !.up = FALSE, !.links = Nowhere]
        BY <3>1, <4>1 DEF HeldSet
      <4>2. CASE end = [plan EXCEPT !.links = Nowhere]
        BY <3>1, <4>2 DEF HeldSet
      <4> QED BY <2>1, <4>1, <4>2 DEF S!compose_down
    <3>3. plan.mixed \/ Own(end)
      BY <3>1, <3>2, <1>21 DEF Own
    <3> QED BY <3>1, <3>2, <3>3 DEF GoodSet, Recorded
  <2>3. PICK ran : ran = <<linked, plan, end>>
    OBVIOUS
  <2>4. ran \in Seq(GoodSet)
    BY <1>17, <1>19, <2>2, <2>3
  <2>5. (<<h>> \o steps) \o ran \in Seq(GoodSet) /\ Len((<<h>> \o steps) \o ran) >= 1
    BY <1>20, <2>4
  <2> QED BY <1>5, <2>1, <2>3, <2>5, ComesGood
<1>22. CASE ~plan.up
  BY <1>5, <1>18, <1>20, <1>22, ComesGood
<1> QED BY <1>21, <1>22

-----------------------------------------------------------------------------

LEMMA SourcesInit == S!Init => SourcesInv
<1> SUFFICES ASSUME S!Init PROVE SourcesInv
  OBVIOUS
<1>1. S!Fresh \in GoodSet
  BY DEF S!Fresh, GoodSet, HeldSet, Recorded, Own, SomePlace, Bounds
<1> QED BY <1>1 DEF S!Init, SourcesInv

\* One step for each verb; what resolves only sends, what ends only leaves.
LEMMA SourcesStep == SourcesInv /\ [S!Next]_sourcesVars => SourcesInv'
<1> SUFFICES ASSUME SourcesInv, [S!Next]_sourcesVars PROVE SourcesInv'
  OBVIOUS
<1>1. held \in [Ids -> GoodSet] /\ proc \in [Procs -> {S!Idle} \cup SentSet]
  BY DEF SourcesInv
<1>2. ASSUME NEW p \in Procs, held' = held, \E q \in SentSet : proc' = [proc EXCEPT ![p] = q]
      PROVE  SourcesInv'
  BY <1>1, <1>2 DEF SourcesInv
<1>3. ASSUME NEW p \in Procs, held' \in [Ids -> GoodSet], S!Ends(p)
      PROVE  SourcesInv'
  BY <1>1, <1>3 DEF SourcesInv, S!Ends
<1>4. CASE UNCHANGED sourcesVars
  BY <1>1, <1>4 DEF SourcesInv, sourcesVars
<1>5. CASE S!ReposIgnored
  BY <1>1, <1>5 DEF SourcesInv, S!ReposIgnored
<1>6. CASE \E r \in Repos, ids \in {Nowhere} \cup SUBSET Ids : S!RepoChanges(r, ids)
  BY <1>1, <1>6 DEF SourcesInv, S!RepoChanges
<1>7. ASSUME NEW p \in Procs, NEW verb \in {"load", "start"}, NEW force \in BOOLEAN,
             S!Resolve(p, verb, force)
      PROVE  SourcesInv'
  BY <1>2, <1>7, ResolveSent
<1>8. ASSUME NEW p \in Procs, NEW a \in Ids, S!update_source(p, a)
      PROVE  SourcesInv'
  BY <1>2, <1>8, UpdateSent
<1>9. ASSUME NEW p \in Procs, NEW a \in Ids, NEW place \in S!Places, S!AsksDev(p, a, place)
      PROVE  SourcesInv'
  BY <1>2, <1>9, DevSent
<1>10. ASSUME NEW p \in Procs, NEW a \in Ids, NEW mode \in {"unload", "data", "purge"},
              S!rm(p, a, mode)
       PROVE  SourcesInv'
  BY <1>1, <1>10, RemovalGood DEF SourcesInv
<1>11. ASSUME NEW p \in Procs, S!Reload(p) PROVE SourcesInv'
  <2>1. held' \in [Ids -> GoodSet] /\ S!Ends(p)
    BY <1>11, ReloadGood DEF S!Reload
  <2> QED BY <1>3, <2>1
<1>12. ASSUME NEW p \in Procs, S!Start(p) PROVE SourcesInv'
  <2>1. held' \in [Ids -> GoodSet] /\ S!Ends(p)
    BY <1>12, StartGood DEF S!Start
  <2> QED BY <1>3, <2>1
<1>13. ASSUME NEW p \in Procs, S!dev(p) PROVE SourcesInv'
  <2>1. held' \in [Ids -> GoodSet] /\ S!Ends(p)
    BY <1>13, DevGood DEF S!dev
  <2> QED BY <1>3, <2>1
<1>14. ASSUME NEW p \in Procs, S!Refused(p) PROVE SourcesInv'
  BY <1>1, <1>3, <1>14 DEF S!Refused
<1> QED
  BY <1>4, <1>5, <1>6, <1>7, <1>8, <1>9, <1>10, <1>11, <1>12, <1>13, <1>14 DEF S!Next

\* An app that runs and was not mixed has secrets, data and files of its copy's source
\* only, whatever repos come and go and wherever a verb is cut short (load._check_binding).
THEOREM SourcesAlwaysKept == AppSpec => []SourceKept
<1>1. AppInit => SourcesInv
  BY SourcesInit DEF AppInit
<1>2. SourcesInv /\ [AppNext]_<<part, vars, layoutVars, sourcesVars>> => SourcesInv'
  BY SourcesStep DEF AppNext
<1>3. SourcesInv => SourceKept
  <2> SUFFICES ASSUME SourcesInv, NEW a \in Ids, held[a].up, ~held[a].mixed
               PROVE  /\ held[a].made = held[a].copy /\ held[a].data = held[a].copy
                      /\ held[a].links \in {Nowhere, held[a].copy}
    BY DEF SourceKept, S!SourceKept
  <2>1. held[a] \in GoodSet
    BY DEF SourcesInv
  <2>2. Own(held[a])
    BY <2>1 DEF GoodSet
  <2> QED BY <2>2 DEF Own
<1> QED BY <1>1, <1>2, <1>3, PTL DEF AppSpec

-----------------------------------------------------------------------------
(***************************************************************************)
(* What docker is handed, for any bundles, edits, host volumes and verbs.  *)
(* What a load or a start derives stays right until something is marked as *)
(* changed (pending) or a bundle is committed over it (behind), and of the *)
(* machine a start looks at all it rests on (`Fitting`).                   *)
(***************************************************************************)

AppFields == {"bundle", "compose", "links", "dirs", "config", "binds", "assigned", "db",
              "pending", "behind"}

\* What an app store is, and what its run dir was committed from.
Shape(s) == /\ DOMAIN s = AppFields /\ s.pending \in BOOLEAN /\ s.behind \in BOOLEAN
            /\ s.bundle = Unset \/ s.bundle \in L!Bundles

\* What a derivation leaves where no connection is missing.
Linkable(m, v) == /\ m.volumes[v].kind # "host"
                  /\ m.volumes[v].kind = "app" => L!AppVolume(m, v).src \in m.files
Fitting(m, s) ==
    /\ s.compose = L!make_compose_dict(m, s, DOMAIN m.connections)
    /\ L!RouteNames(m) \subseteq DOMAIN s.db
    /\ s.dirs = {u \in L!Units(m) : L!unit_commands(m, u) # {}}
    /\ \A v \in DOMAIN m.volumes : Linkable(m, v) => <<m.volumes[v].kind, v>> \in s.links

Settled(s) == s.bundle \in L!Bundles /\ ~s.pending /\ ~s.behind
DerivedInv == Shape(app) /\ (Settled(app) => Fitting(manifest[app.bundle], app))

\* compose.yml depends on the app store by its routes and its subdomain alone.
LEMMA ComposeSame ==
    ASSUME NEW m, NEW s, NEW t, NEW c, s.db = t.db,
           L!resolved_subdomain(m, s) = L!resolved_subdomain(m, t)
    PROVE  L!make_compose_dict(m, s, c) = L!make_compose_dict(m, t, c)
<1>1. L!load_routes(m, s) = L!load_routes(m, t)
  BY DEF L!load_routes, L!Restrict
<1>2. L!route_urls(m, s) = L!route_urls(m, t)
  BY <1>1 DEF L!route_urls
<1>3. L!app_domain(m, s) = L!app_domain(m, t)
  BY <1>1 DEF L!app_domain
<1>4. \A u : L!env_substitutions(m, s, c, u) = L!env_substitutions(m, t, c, u)
  BY <1>2, <1>3 DEF L!env_substitutions
<1> DEFINE f == L!make_compose_dict(m, s, c)
           g == L!make_compose_dict(m, t, c)
<1>5. ASSUME NEW u \in L!Units(m) PROVE f[u] = g[u]
  <2>1. {s.db[n].port : n \in DOMAIN m.run[u].routes} = {t.db[n].port : n \in DOMAIN m.run[u].routes}
    OBVIOUS
  <2>2. L!env_substitutions(m, s, c, u) = L!env_substitutions(m, t, c, u)
    BY <1>4
  <2> QED BY <2>1, <2>2, Zenon DEF L!make_compose_dict
<1>6. f = [u \in L!Units(m) |-> f[u]] /\ g = [u \in L!Units(m) |-> g[u]]
  BY DEF L!make_compose_dict
<1> HIDE DEF f, g
<1>7. f = g
  BY <1>5, <1>6
<1> QED BY <1>7 DEF f, g

LEMMA FittingSame ==
    ASSUME NEW m, NEW s, NEW t, Fitting(m, s), s.db = t.db, s.compose = t.compose, s.dirs = t.dirs,
           L!resolved_subdomain(m, s) = L!resolved_subdomain(m, t),
           \A l \in s.links : l[1] # "host" => l \in t.links
    PROVE  Fitting(m, t)
<1>1. t.compose = L!make_compose_dict(m, t, DOMAIN m.connections)
  BY ComposeSame DEF Fitting
<1>2. ASSUME NEW v \in DOMAIN m.volumes, Linkable(m, v) PROVE <<m.volumes[v].kind, v>> \in t.links
  BY <1>2 DEF Fitting, Linkable
<1> QED BY <1>1, <1>2 DEF Fitting

\* Where nothing stops a load every connection is there, and so is what a link goes to,
\* but for host volumes and files the bundle does not have.
LEMMA NothingMissing ==
    ASSUME NEW m, NEW s, L!load_blockers(m, s) = {}
    PROVE  /\ L!load_connections(m) = DOMAIN m.connections
           /\ \A v \in DOMAIN m.volumes : Linkable(m, v) => v \in L!load_volume_links(m, s)
<1>1. \A i \in L!issues(m, s) : ~i.load_blocking
  BY DEF L!load_blockers
<1>2. ASSUME NEW n \in DOMAIN m.connections, n \notin L!load_connections(m) PROVE FALSE
  <2>1. L!Issue(n, TRUE, FALSE) \in L!issues(m, s)
    BY <1>2 DEF L!issues
  <2> QED BY <1>1, <2>1 DEF L!Issue
<1>3. ASSUME NEW v \in DOMAIN m.volumes, Linkable(m, v), v \notin L!load_volume_links(m, s)
      PROVE  FALSE
  <2>1. L!Issue(v, L!volume_problem(m, s, v) = "load", FALSE) \in L!issues(m, s)
    BY <1>3 DEF L!issues
  <2>2. L!volume_problem(m, s, v) # "load" /\ L!volume_problem(m, s, v) # "none"
    BY <1>1, <1>3, <2>1 DEF L!Issue, L!load_volume_links
  <2> QED BY <1>3, <2>2 DEF L!volume_problem, L!AppVolume, Linkable
<1>4. L!load_connections(m) \subseteq DOMAIN m.connections
  BY DEF L!load_connections
<1> QED BY <1>2, <1>3, <1>4

\* Where nothing stops a start all is there.
LEMMA NothingWanting ==
    ASSUME NEW m, NEW s, L!start_blockers(m, s) = {}
    PROVE  /\ L!load_connections(m) = DOMAIN m.connections
           /\ \A v \in DOMAIN m.volumes : L!volume_problem(m, s, v) = "none"
           /\ \A n \in DOMAIN L!Config(m) : L!config_value(m, s, n) # Unset
<1>1. \A i \in L!issues(m, s) : i.self_healing
  BY DEF L!start_blockers
<1>2. ASSUME NEW n \in DOMAIN m.connections, n \notin L!load_connections(m) PROVE FALSE
  <2>1. L!Issue(n, TRUE, FALSE) \in L!issues(m, s)
    BY <1>2 DEF L!issues
  <2> QED BY <1>1, <2>1 DEF L!Issue
<1>3. ASSUME NEW v \in DOMAIN m.volumes, L!volume_problem(m, s, v) # "none" PROVE FALSE
  <2>1. L!Issue(v, L!volume_problem(m, s, v) = "load", FALSE) \in L!issues(m, s)
    BY <1>3 DEF L!issues, L!load_volume_links
  <2> QED BY <1>1, <2>1 DEF L!Issue
<1>4. ASSUME NEW n \in DOMAIN L!Config(m), L!config_value(m, s, n) = Unset PROVE FALSE
  <2>1. L!Issue(n, FALSE, FALSE) \in L!issues(m, s)
    BY <1>4 DEF L!issues
  <2> QED BY <1>1, <2>1 DEF L!Issue
<1>5. L!load_connections(m) \subseteq DOMAIN m.connections
  BY DEF L!load_connections
<1> QED BY <1>2, <1>3, <1>4, <1>5

\* A step of a derivation from s: of the same bundle, and either no nearer to being right or right.
Step(s, t) == /\ Shape(t) /\ t.bundle = s.bundle /\ t.pending = s.pending
              /\ t.behind = s.behind \/ Fitting(manifest[s.bundle], t)

\* What goes through a list of steps that ends well or not.
Walk(s, r) ==
    /\ r.steps \in Seq(L!Range(r.steps)) /\ Len(r.steps) \in Nat \ {0}
    /\ \A t \in L!Range(r.steps) : Step(s, t)
    /\ r.done => ~L!Last(r).behind /\ Fitting(manifest[s.bundle], L!Last(r))

LEMMA LastStep ==
    ASSUME NEW r, r.steps \in Seq(L!Range(r.steps)), Len(r.steps) \in Nat \ {0}
    PROVE  L!Last(r) \in L!Range(r.steps)
<1>1. Len(r.steps) \in DOMAIN r.steps
  OBVIOUS
<1> QED BY <1>1 DEF L!Last, L!Range

\* A bundle that parses and has no routes has none to record.
LEMMA NoneToRecord ==
    ASSUME NEW m, L!parse_manifest(m), L!NoRoutes(m) PROVE L!RouteNames(m) = {}
BY DEF L!parse_manifest, L!validate_manifest, L!validate_routes, L!NoRoutes, L!RouteNames, L!Units

LEMMA Materialized ==
    ASSUME NEW s, Shape(s), s.bundle \in L!Bundles PROVE Walk(s, L!materialize(s))
<1> DEFINE m == manifest[s.bundle]
           cleared == L!clear_routes(m, s)
           ported == L!clear_and_reallocate_ports(m, s)
           bare == [ported EXCEPT !.links = {}]
           linked == L!rebuild_volume_links(m, ported)
           foldered == L!rebuild_kelso_dirs(m, linked)
           broken == [foldered EXCEPT !.compose = L!Torn]
           composed == [foldered EXCEPT !.compose = L!make_compose_dict(m, foldered, L!load_connections(m)),
                                        !.behind = FALSE]
           r == L!materialize(s)
           Early(x) == Shape(x) /\ x.bundle = s.bundle /\ x.pending = s.pending /\ x.behind = s.behind
<1>1. L!parse_manifest(m)
  BY DEF L!Bundles
<1>2. r = IF ~L!HasSubdomain(m, s) THEN [steps |-> <<s>>, done |-> FALSE]
          ELSE IF L!load_blockers(m, ported) # {} \/ ~L!KindsKept(m, ported)
          THEN [steps |-> <<s, cleared, ported>>, done |-> FALSE]
          ELSE [steps |-> <<s, cleared, ported, bare, linked, foldered, broken, composed>>,
                done |-> TRUE]
  BY DEF L!materialize
<1> HIDE DEF r
<1>3. /\ Early(s) /\ Early(cleared) /\ Early(ported)
      /\ L!RouteNames(m) \subseteq DOMAIN ported.db
  <2>1. Early(s)
    BY DEF Shape
  <2>2. Early(cleared)
    BY <2>1 DEF L!clear_routes, Shape, AppFields
  <2>3. Early(ported)
    BY <2>1 DEF L!clear_and_reallocate_ports, Shape, AppFields
  <2>4. CASE L!NoRoutes(m)
    BY <1>1, <2>1, <2>2, <2>3, <2>4, NoneToRecord
  <2>5. CASE ~L!NoRoutes(m)
    <3>1. DOMAIN ported.db = L!RouteNames(m)
      BY <2>5 DEF L!clear_and_reallocate_ports, Shape, AppFields
    <3> QED BY <2>1, <2>2, <2>3, <3>1
  <2> QED BY <2>4, <2>5
<1> HIDE DEF ported, cleared
<1>4. Early(bare)
  BY <1>3 DEF Shape, AppFields
<1>5. /\ Early(linked) /\ linked.db = ported.db
      /\ linked.links = {<<m.volumes[v].kind, v>> :
                           v \in {w \in L!load_volume_links(m, ported) : m.volumes[w].kind # "host"}}
  BY <1>3 DEF L!rebuild_volume_links, Shape, AppFields
<1> HIDE DEF linked
<1>6. /\ Early(foldered) /\ foldered.db = ported.db /\ foldered.links = linked.links
      /\ foldered.dirs = {u \in L!Units(m) : L!unit_commands(m, u) # {}}
  BY <1>5 DEF L!rebuild_kelso_dirs, Shape, AppFields
<1> HIDE DEF foldered
<1>7. Early(broken)
  BY <1>6 DEF Shape, AppFields
<1>8. ASSUME L!load_blockers(m, ported) = {} PROVE Step(s, composed) /\ ~composed.behind /\ Fitting(m, composed)
  <2>1. /\ L!load_connections(m) = DOMAIN m.connections
        /\ \A v \in DOMAIN m.volumes : Linkable(m, v) => v \in L!load_volume_links(m, ported)
    BY <1>8, NothingMissing
  <2>2. /\ DOMAIN composed = AppFields /\ composed.behind = FALSE /\ composed.bundle = s.bundle
        /\ composed.pending = s.pending /\ composed.db = ported.db /\ composed.db = foldered.db
        /\ composed.links = linked.links /\ composed.config = foldered.config
        /\ composed.dirs = foldered.dirs
        /\ composed.compose = L!make_compose_dict(m, foldered, DOMAIN m.connections)
    BY <1>6, <2>1 DEF Shape, AppFields
  <2> HIDE DEF composed
  <2>3. L!resolved_subdomain(m, foldered) = L!resolved_subdomain(m, composed)
    BY <2>2 DEF L!resolved_subdomain
  <2>4. composed.compose = L!make_compose_dict(m, composed, DOMAIN m.connections)
    BY <2>2, <2>3, ComposeSame
  <2>5. \A v \in DOMAIN m.volumes : Linkable(m, v) => <<m.volumes[v].kind, v>> \in composed.links
    BY <1>5, <2>1, <2>2 DEF Linkable
  <2>6. Fitting(m, composed)
    BY <1>3, <1>6, <2>2, <2>4, <2>5 DEF Fitting
  <2> QED BY <1>3, <2>2, <2>6 DEF Step, Shape
<1>9. \A x : Early(x) => Step(s, x)
  BY DEF Step
<1> HIDE DEF bare, broken, composed, Early
<1>10. CASE ~L!HasSubdomain(m, s)
  <2>1. r.steps = <<s>> /\ r.done = FALSE
    BY <1>2, <1>10
  <2> QED BY <1>3, <1>9, <2>1 DEF Walk, L!Range, r
<1>11. CASE L!HasSubdomain(m, s) /\ (L!load_blockers(m, ported) # {} \/ ~L!KindsKept(m, ported))
  <2>1. r.steps = <<s, cleared, ported>> /\ r.done = FALSE
    BY <1>2, <1>11
  <2> QED BY <1>3, <1>9, <2>1 DEF Walk, L!Range, r
<1>12. CASE L!HasSubdomain(m, s) /\ L!load_blockers(m, ported) = {} /\ L!KindsKept(m, ported)
  <2>1. r.steps = <<s, cleared, ported, bare, linked, foldered, broken, composed>>
    BY <1>2, <1>12
  <2>2. /\ DOMAIN r.steps = 1..8 /\ Len(r.steps) = 8 /\ r.steps[8] = composed
        /\ \A i \in 1..8 : Step(s, r.steps[i])
    BY <1>3, <1>4, <1>5, <1>6, <1>7, <1>8, <1>12, <1>9, <2>1
  <2>3. r.steps \in Seq(L!Range(r.steps))
    BY <2>1, <2>2 DEF L!Range
  <2>4. ~L!Last(r).behind /\ Fitting(m, L!Last(r))
    BY <1>8, <1>12, <2>2 DEF L!Last
  <2>5. \A t \in L!Range(r.steps) : Step(s, t)
    BY <2>2 DEF L!Range
  <2> QED BY <2>2, <2>3, <2>4, <2>5 DEF Walk, r
<1> QED BY <1>10, <1>11, <1>12

\* An edit changes what it is about, and marks it when compose.yml is about that too.
LEMMA EditedKeeps ==
    ASSUME NEW s, Shape(s), NEW m, NEW e
    PROVE  LET t == L!Edited(m, s, e) IN
           /\ Shape(t) /\ t.bundle = s.bundle /\ t.behind = s.behind
           /\ t.db = s.db /\ t.compose = s.compose /\ t.dirs = s.dirs /\ t.links = s.links
           /\ ~t.pending => /\ ~s.pending
                            /\ \A o : L!resolved_subdomain(o, t) = L!resolved_subdomain(o, s)
<1> DEFINE t == L!Edited(m, s, e)
<1>1. CASE t = s
  BY <1>1
<1>2. CASE e.verb = "bind"
  <2>1. t = [s EXCEPT !.binds = L!With(s.binds, e.name, e.value)]
    BY <1>2 DEF L!Edited, L!bind, L!set_bind
  <2> HIDE DEF t
  <2>2. /\ Shape(t) /\ t.bundle = s.bundle /\ t.behind = s.behind /\ t.db = s.db
        /\ t.compose = s.compose /\ t.dirs = s.dirs /\ t.links = s.links
        /\ t.pending = s.pending /\ t.config = s.config
    BY <2>1 DEF Shape, AppFields
  <2>3. \A o : L!resolved_subdomain(o, t) = L!resolved_subdomain(o, s)
    BY <2>2 DEF L!resolved_subdomain
  <2> QED BY <2>2, <2>3 DEF t
<1>3. CASE e.verb = "set" /\ t # s
  <2> DEFINE entry == [secret |-> L!Config(m)[e.name].secret, value |-> e.value]
  <2>1. t = [s EXCEPT !.config = L!With(s.config, e.name, entry),
                      !.pending = s.pending \/ e.name = "subdomain"]
    BY <1>3 DEF L!Edited, L!apply_config_sets, L!set_config
  <2> HIDE DEF t, entry
  <2>2. /\ Shape(t) /\ t.bundle = s.bundle /\ t.behind = s.behind /\ t.db = s.db
        /\ t.compose = s.compose /\ t.dirs = s.dirs /\ t.links = s.links
        /\ t.pending = (s.pending \/ e.name = "subdomain")
        /\ t.config = L!With(s.config, e.name, entry)
    BY <2>1 DEF Shape, AppFields
  <2>3. ASSUME e.name # "subdomain", NEW o
        PROVE  L!resolved_subdomain(o, t) = L!resolved_subdomain(o, s)
    BY <2>2, <2>3 DEF L!resolved_subdomain, L!With
  <2> QED BY <2>2, <2>3 DEF t
<1>4. e.verb # "bind" /\ e.verb # "set" => t = s
  BY DEF L!Edited
<1> QED BY <1>1, <1>2, <1>3, <1>4

\* What goes through a list of steps that derive from bundle b.
WalkOf(b, r) ==
    /\ r.steps \in Seq(L!Range(r.steps)) /\ Len(r.steps) \in Nat \ {0}
    /\ \A t \in L!Range(r.steps) : Shape(t) /\ t.bundle = b /\ (~t.behind => Fitting(manifest[b], t))
    /\ r.done => ~L!Last(r).behind

LEMMA JoinedSteps ==
    ASSUME NEW X, NEW s \in Seq(X), NEW t \in Seq(X)
    PROVE  /\ s \o t \in Seq(X) /\ Len(s \o t) = Len(s) + Len(t)
           /\ L!Range(s \o t) \subseteq X /\ s \o t \in Seq(L!Range(s \o t))
<1> DEFINE u == s \o t
<1>1. u \in Seq(X) /\ Len(u) = Len(s) + Len(t)
  BY ConcatProperties
<1> HIDE DEF u
<1>2. L!Range(u) \subseteq X
  BY <1>1 DEF L!Range
<1>3. u \in Seq(L!Range(u))
  BY <1>1 DEF L!Range
<1> QED BY <1>1, <1>2, <1>3 DEF u

LEMMA LoadWalks ==
    ASSUME NEW b \in L!Bundles, NEW s, Shape(s), NEW e PROVE WalkOf(b, L!load(b, s, e))
<1> DEFINE m == manifest[b]
           committed == [s EXCEPT !.bundle = b, !.behind = TRUE]
           edited == L!Edited(m, committed, e)
           generated == L!generate_missing_config(m, edited)
           assigned == L!apply_default_route_assignments(m, generated)
           made == L!materialize(assigned)
           end == L!Last(made)
           loaded == [end EXCEPT !.pending = FALSE]
           first == <<committed, edited, generated>>
           tail == IF made.done THEN <<loaded>> ELSE <<>>
           r == L!load(b, s, e)
           Early(x) == Shape(x) /\ x.bundle = b /\ x.behind
<1>1. r = IF ~L!Accepts(m, e) THEN [steps |-> <<committed>>, done |-> FALSE]
          ELSE [steps |-> (first \o made.steps) \o tail, done |-> made.done]
  BY DEF L!load, L!Last
<1>2. Early(committed)
  BY DEF Shape, AppFields
<1> HIDE DEF r, committed
<1>3. Early(edited)
  BY <1>2, EditedKeeps
<1> HIDE DEF edited
<1>4. Early(generated)
  BY <1>3 DEF L!generate_missing_config, Shape, AppFields
<1> HIDE DEF generated
<1>5. Early(assigned)
  BY <1>4 DEF L!apply_default_route_assignments, Shape, AppFields
<1> HIDE DEF assigned
<1>6. Walk(assigned, made)
  BY <1>5, Materialized
<1> HIDE DEF made
<1> DEFINE Fine(x) == Shape(x) /\ x.bundle = b /\ (~x.behind => Fitting(m, x))
<1>7. \A x : Early(x) => Fine(x)
  OBVIOUS
<1>8. \A x \in L!Range(made.steps) : Fine(x)
  BY <1>5, <1>6 DEF Walk, Step
<1>9. end \in L!Range(made.steps)
  BY <1>6, LastStep DEF Walk
<1>10. ASSUME made.done PROVE Fine(loaded) /\ ~loaded.behind
  <2>1. Shape(end) /\ end.bundle = b /\ ~end.behind /\ Fitting(m, end)
    BY <1>5, <1>6, <1>8, <1>9, <1>10 DEF Walk
  <2>2. /\ Shape(loaded) /\ loaded.bundle = b /\ loaded.behind = end.behind /\ loaded.db = end.db
        /\ loaded.compose = end.compose /\ loaded.dirs = end.dirs /\ loaded.links = end.links
        /\ loaded.config = end.config
    BY <2>1 DEF Shape, AppFields
  <2> HIDE DEF loaded
  <2>3. L!resolved_subdomain(m, end) = L!resolved_subdomain(m, loaded)
    BY <2>2 DEF L!resolved_subdomain
  <2>4. Fitting(m, loaded)
    BY <2>1, <2>2, <2>3, FittingSame
  <2> QED BY <2>1, <2>2, <2>4
<1> HIDE DEF end, loaded, Fine, Early
<1>11. CASE ~L!Accepts(m, e)
  <2>1. r.steps = <<committed>> /\ r.done = FALSE
    BY <1>1, <1>11
  <2> QED BY <1>2, <1>7, <2>1 DEF WalkOf, L!Range, r, Fine
<1>12. CASE L!Accepts(m, e)
  <2> DEFINE X == {x \in {committed, edited, generated, loaded} \cup L!Range(made.steps) : Fine(x)}
             head == first \o made.steps
  <2>1. r.steps = head \o tail /\ r.done = made.done
    BY <1>1, <1>12
  <2>2. first \in Seq(X) /\ Len(first) = 3
    BY <1>2, <1>3, <1>4, <1>7
  <2>3. made.steps \in Seq(X) /\ Len(made.steps) \in Nat
    BY <1>6, <1>8 DEF Walk
  <2>4. tail \in Seq(X) /\ Len(tail) \in Nat /\ (made.done => Len(tail) = 1 /\ tail[1] = loaded)
    <3>1. CASE made.done
      <4>1. loaded \in X
        BY <1>10, <3>1
      <4>2. tail = <<loaded>>
        BY <3>1
      <4> HIDE DEF X, tail
      <4> QED BY <4>1, <4>2
    <3>2. CASE ~made.done
      <4>1. tail = <<>>
        BY <3>2
      <4> HIDE DEF X, tail
      <4> QED BY <3>2, <4>1
    <3> QED BY <3>1, <3>2
  <2> HIDE DEF X, first, tail
  <2>5. head \in Seq(X) /\ Len(head) = 3 + Len(made.steps)
    BY <2>2, <2>3, JoinedSteps
  <2> HIDE DEF head
  <2>6. /\ r.steps \in Seq(X) /\ Len(r.steps) = 3 + Len(made.steps) + Len(tail)
        /\ L!Range(r.steps) \subseteq X /\ r.steps \in Seq(L!Range(r.steps))
    <3> DEFINE whole == head \o tail
    <3>1. /\ whole \in Seq(X) /\ Len(whole) = Len(head) + Len(tail)
          /\ L!Range(whole) \subseteq X /\ whole \in Seq(L!Range(whole))
      BY <2>4, <2>5, JoinedSteps
    <3> HIDE DEF whole
    <3>2. r.steps = whole
      BY <2>1 DEF whole
    <3> QED BY <2>5, <3>1, <3>2, Zenon
  <2>7. ASSUME made.done PROVE L!Last(r) = loaded
    <3>1. (head \o tail)[Len(head) + 1] = tail[1]
      BY <2>4, <2>5, <2>7, ConcatProperties
    <3> QED BY <2>1, <2>3, <2>4, <2>5, <2>6, <2>7, <3>1 DEF L!Last
  <2>8. r.done => ~L!Last(r).behind
    BY <1>10, <2>1, <2>7
  <2>9. \A x \in L!Range(r.steps) : Shape(x) /\ x.bundle = b /\ (~x.behind => Fitting(m, x))
    BY <2>6 DEF X, Fine
  <2> QED BY <2>3, <2>4, <2>6, <2>8, <2>9 DEF WalkOf, r
<1> QED BY <1>11, <1>12

\* What a start finds of a mount, in the app store s.
StandsIn(m, s, mount) ==
    CASE mount[1] = "kelso" -> mount[2] \in s.dirs
      [] mount[1] = "conn"  -> mount[2] \in host.there
      [] mount[1] = "app"   -> mount \in s.links /\ L!AppVolume(m, mount[2]).src \in m.files
      [] mount[1] = "host"  -> mount \in s.links /\ L!MayBind(m, mount[2], s.binds[mount[2]])
      [] OTHER -> mount \in s.links /\ mount[1] \in host.there

\* Where nothing stops a start, every mount of compose.yml has its source once the host
\* volumes are linked.
LEMMA MountsStand ==
    ASSUME NEW m, L!parse_manifest(m), NEW s, Fitting(m, s), L!start_blockers(m, s) = {},
           NEW t, t.binds = s.binds, t.dirs = s.dirs, t.compose = s.compose,
           t.links = {l \in s.links : l[1] # "host"}
                     \cup {<<"host", v>> : v \in {w \in L!load_volume_links(m, s) :
                                                    m.volumes[w].kind = "host"}},
           NEW u \in DOMAIN t.compose, NEW mount \in t.compose[u].mounts
    PROVE  StandsIn(m, t, mount)
<1>1. /\ L!load_connections(m) = DOMAIN m.connections
      /\ \A v \in DOMAIN m.volumes : L!volume_problem(m, s, v) = "none"
  BY NothingWanting
<1>2. /\ u \in L!Units(m)
      /\ t.compose[u].mounts = {<<m.volumes[v].kind, v>> : v \in DOMAIN m.run[u].volumes}
                   \cup (IF L!unit_commands(m, u) = {} THEN {} ELSE {<<"kelso", u>>})
                   \cup {<<"conn", m.connections[n]>> :
                           n \in m.run[u].connections \cap DOMAIN m.connections}
  BY DEF Fitting, L!make_compose_dict
<1>3. ASSUME NEW v \in DOMAIN m.run[u].volumes, mount = <<m.volumes[v].kind, v>> PROVE StandsIn(m, t, mount)
  <2>1. v \in DOMAIN m.volumes /\ m.volumes[v].kind \in L!VolumeKind
    BY <1>2 DEF L!parse_manifest, L!validate_manifest, L!validate_run_volumes, L!VolumeEntry
  <2>2. L!volume_problem(m, s, v) = "none" /\ mount[1] = m.volumes[v].kind /\ mount[2] = v
    BY <1>1, <1>3, <2>1
  <2>3. mount[1] # "kelso" /\ mount[1] # "conn"
    BY <2>1, <2>2 DEF L!VolumeKind
  <2>4. CASE m.volumes[v].kind = "host"
    <3>1. v \in L!load_volume_links(m, s)
      BY <2>1, <2>2 DEF L!load_volume_links
    <3>2. mount \in t.links
      BY <1>3, <2>4, <3>1
    <3>3. L!MayBind(m, v, s.binds[v])
      BY <2>1, <2>2, <2>4 DEF L!MayBind, L!volume_problem, L!AppVolume
    <3> QED BY <2>2, <2>3, <2>4, <3>2, <3>3 DEF StandsIn
  <2>5. CASE m.volumes[v].kind = "app"
    <3>1. L!AppVolume(m, v).src \in m.files
      BY <2>2, <2>5 DEF L!volume_problem, L!AppVolume
    <3>2. mount \in s.links
      BY <1>3, <2>1, <2>5, <3>1 DEF Fitting, Linkable
    <3> QED BY <2>2, <2>3, <2>5, <3>1, <3>2 DEF StandsIn
  <2>6. CASE m.volumes[v].kind \notin {"host", "app"}
    <3>1. mount[1] \in host.there
      BY <2>2, <2>6 DEF L!volume_problem, L!AppVolume
    <3>2. mount \in s.links
      BY <1>3, <2>1, <2>6 DEF Fitting, Linkable
    <3> QED BY <2>2, <2>3, <2>6, <3>1, <3>2 DEF StandsIn
  <2> QED BY <2>4, <2>5, <2>6
<1>4. ASSUME L!unit_commands(m, u) # {}, mount = <<"kelso", u>> PROVE StandsIn(m, t, mount)
  <2>1. u \in t.dirs
    BY <1>2, <1>4 DEF Fitting
  <2> QED BY <1>4, <2>1 DEF StandsIn
<1>5. ASSUME NEW n \in DOMAIN m.connections, mount = <<"conn", m.connections[n]>>
      PROVE  StandsIn(m, t, mount)
  <2>1. m.connections[n] \in host.there
    BY <1>1 DEF L!load_connections
  <2> QED BY <1>5, <2>1 DEF StandsIn
<1> QED BY <1>2, <1>3, <1>4, <1>5

\* No dotted reference of a bundle that parses is left as it is written.
LEMMA NoReferenceLeft ==
    ASSUME NEW m, L!parse_manifest(m), NEW s, Fitting(m, s),
           NEW u \in DOMAIN s.compose, NEW ref \in DOMAIN s.compose[u].env, L!Dotted(ref)
    PROVE  s.compose[u].env[ref] # ref
<1> DEFINE there == DOMAIN m.connections
           conn == [x \in {<<"conn", n, p>> : n \in m.run[u].connections \cap there,
                                             p \in {"socket", "host"}} |-> <<"at", x[2], x[3]>>]
           config == [x \in {<<n>> : n \in DOMAIN L!Config(m)} |-> <<"config", x[1]>>]
           urls == [x \in {<<"routes", n>> : n \in DOMAIN L!route_urls(m, s)} |->
                      L!route_urls(m, s)[x[2]]]
           klso == [x \in {<<"klso", k>> : k \in {"domain", "volumes", "cmd", "routes"}} |->
                      IF x[2] = "domain" THEN L!app_domain(m, s) ELSE <<"the", x[2]>>]
           subs == L!env_substitutions(m, s, there, u)
<1>1. /\ u \in L!Units(m) /\ DOMAIN s.compose[u].env = m.run[u].env
      /\ s.compose[u].env[ref] = IF ref \in DOMAIN subs THEN subs[ref] ELSE ref
  <2>1. s.compose = L!make_compose_dict(m, s, there)
    BY DEF Fitting
  <2>2. u \in L!Units(m) /\ s.compose[u].env = [x \in m.run[u].env |-> IF x \in DOMAIN subs THEN subs[x] ELSE x]
    BY <2>1 DEF L!make_compose_dict
  <2> HIDE DEF subs
  <2>3. DOMAIN s.compose[u].env = m.run[u].env
    BY <2>2
  <2> QED BY <2>2, <2>3
<1>2. subs = L!Over(conn, L!Over(config, L!Over(urls, klso)))
  BY DEF L!env_substitutions
<1> HIDE DEF subs
<1>3. /\ DOMAIN subs = DOMAIN conn \cup DOMAIN config \cup DOMAIN urls \cup DOMAIN klso
      /\ \A x \in DOMAIN conn : subs[x] = conn[x]
      /\ \A x \in DOMAIN urls : x \notin DOMAIN conn /\ x \notin DOMAIN config => subs[x] = urls[x]
      /\ \A x \in DOMAIN klso : x \notin DOMAIN conn /\ x \notin DOMAIN config /\ x \notin DOMAIN urls
                                => subs[x] = klso[x]
  <2> HIDE DEF conn, config, urls, klso
  <2> QED BY <1>2 DEF L!Over
<1>4. \/ \E n \in L!RouteNames(m) : ref = <<"routes", n>>
      \/ \E k \in {"domain", "volumes", "cmd", "routes"} : ref = <<"klso", k>>
      \/ \E n \in m.run[u].connections \cap there : \E p \in L!properties[m.connections[n]] :
            ref = <<"conn", n, p>>
  <2> DEFINE known == {<<"routes", n>> : n \in L!RouteNames(m)}
                      \cup {<<"klso", k>> : k \in {"domain", "volumes", "cmd", "routes"}}
             attached == UNION {{<<"conn", n, p>> : p \in L!properties[m.connections[n]]} :
                                n \in m.run[u].connections \cap there}
  <2>1. L!validate_env_refs(m)
    BY DEF L!parse_manifest, L!validate_manifest
  <2>2. ref \in known \cup attached
    BY <1>1, <2>1, Zenon DEF L!validate_env_refs, L!RouteNames
  <2>3. ref \in attached =>
          \E n \in m.run[u].connections \cap there : \E p \in L!properties[m.connections[n]] :
            ref = <<"conn", n, p>>
    OBVIOUS
  <2>4. ref \in known => \/ \E n \in L!RouteNames(m) : ref = <<"routes", n>>
                         \/ \E k \in {"domain", "volumes", "cmd", "routes"} : ref = <<"klso", k>>
    OBVIOUS
  <2> HIDE DEF known, attached
  <2> QED BY <2>2, <2>3, <2>4
<1>5. ASSUME NEW n \in m.run[u].connections \cap there, NEW p \in L!properties[m.connections[n]],
             ref = <<"conn", n, p>>
      PROVE  ref \in DOMAIN subs /\ subs[ref] # ref
  <2>1. m.connections[n] \in DOMAIN L!properties
    BY DEF L!parse_manifest, L!ConnectionEntry, L!Range
  <2>2. p \in {"socket", "host"}
    BY <2>1 DEF L!properties
  <2>3. ref \in DOMAIN conn /\ conn[ref] = <<"at", n, p>>
    BY <1>5, <2>2
  <2>4. ref[1] = "conn" /\ conn[ref][1] = "at"
    BY <1>5, <2>3
  <2> HIDE DEF conn
  <2> QED BY <1>3, <2>3, <2>4
<1>6. \A x \in DOMAIN conn : Len(x) = 3
  OBVIOUS
<1>7. \A x \in DOMAIN config : Len(x) = 1
  OBVIOUS
<1>8. ASSUME NEW n \in L!RouteNames(m), ref = <<"routes", n>>
      PROVE  ref \in DOMAIN subs /\ subs[ref] # ref
  <2>1. Len(ref) = 2 /\ ref \notin DOMAIN conn /\ ref \notin DOMAIN config
    BY <1>6, <1>7, <1>8
  <2>2. n \in DOMAIN L!route_urls(m, s) /\ L!route_urls(m, s)[n] = <<s.db[n].subdomain, n, L!primary_provider(s.db[n])>>
    BY DEF L!route_urls, L!load_routes, L!Restrict, Fitting
  <2>3. ref \in DOMAIN urls /\ urls[ref] = L!route_urls(m, s)[n]
    BY <1>8, <2>2
  <2>4. Len(urls[ref]) = 3
    BY <2>2, <2>3
  <2> HIDE DEF conn, config, urls, klso
  <2>5. subs[ref] = urls[ref] /\ ref \in DOMAIN subs
    BY <1>3, <2>1, <2>3
  <2> QED BY <2>1, <2>4, <2>5
<1>9. ASSUME NEW k \in {"domain", "volumes", "cmd", "routes"}, ref = <<"klso", k>>
      PROVE  ref \in DOMAIN subs /\ subs[ref] # ref
  <2>1. Len(ref) = 2 /\ ref \notin DOMAIN conn /\ ref \notin DOMAIN config /\ ref[1] = "klso" /\ ref[2] = k
    BY <1>6, <1>7, <1>9
  <2>2. ref \notin DOMAIN urls
    BY <2>1
  <2>3. ref \in DOMAIN klso /\ klso[ref] = IF k = "domain" THEN L!app_domain(m, s) ELSE <<"the", k>>
    BY <1>9, <2>1
  <2>4. klso[ref] # ref
    <3>1. CASE k = "domain"
      <4>1. Len(L!app_domain(m, s)) = 3
        BY DEF L!app_domain
      <4> QED BY <2>1, <2>3, <3>1, <4>1
    <3>2. CASE k # "domain"
      BY <2>1, <2>3, <3>2
    <3> QED BY <3>1, <3>2
  <2> HIDE DEF conn, config, urls, klso
  <2>5. subs[ref] = klso[ref] /\ ref \in DOMAIN subs
    BY <1>3, <2>1, <2>2, <2>3
  <2> QED BY <2>4, <2>5
<1> QED BY <1>1, <1>4, <1>5, <1>8, <1>9

\* What is right is what a start hands docker of the app store it derived from.
DerivedWhole(s) ==
    /\ s.bundle \in L!Bundles /\ Shape(s)
    /\ ~s.behind => Fitting(manifest[s.bundle], s)

LEMMA RedoneWhole ==
    ASSUME DerivedInv, app.bundle # Unset,
           L!Rederived(app).done
    PROVE  DerivedWhole(L!Last(L!Rederived(app)))
<1> DEFINE r == L!Rederived(app)
<1>1. Shape(app) /\ app.bundle \in L!Bundles
  BY DEF DerivedInv, Shape
<1>2. CASE app.pending
  <2>1. r = L!materialize(app)
    BY <1>2 DEF L!Rederived
  <2> HIDE DEF r
  <2>2. Walk(app, r) /\ r.done
    BY <1>1, <2>1, Materialized DEF r
  <2>3. L!Last(r) \in L!Range(r.steps)
    BY <2>2, LastStep DEF Walk
  <2>4. Step(app, L!Last(r)) /\ Fitting(manifest[app.bundle], L!Last(r))
    BY <2>2, <2>3 DEF Walk
  <2> QED BY <1>1, <2>4 DEF DerivedWhole, Step, r
<1>3. CASE ~app.pending
  <2>1. r = [steps |-> <<app>>, done |-> TRUE]
    BY <1>3 DEF L!Rederived
  <2>2. L!Last(r) = app
    BY <2>1 DEF L!Last
  <2> QED BY <1>1, <1>3, <2>2 DEF DerivedWhole, DerivedInv, Settled
<1> QED BY <1>1, <1>2, <1>3 DEF Shape

LEMMA LoadedWhole ==
    ASSUME DerivedInv, NEW b \in L!Bundles, NEW e, L!load(b, app, e).done
    PROVE  DerivedWhole(L!Last(L!load(b, app, e)))
<1> DEFINE r == L!load(b, app, e)
<1>1. WalkOf(b, r) /\ r.done
  BY LoadWalks DEF DerivedInv
<1> HIDE DEF r
<1>2. L!Last(r) \in L!Range(r.steps)
  BY <1>1, LastStep DEF WalkOf
<1> QED BY <1>1, <1>2 DEF WalkOf, DerivedWhole, r

\* Docker is handed what is whole, and what is derived stays so.
LEMMA HandsKeep ==
    ASSUME NEW way, L!Hands(way), DerivedWhole(L!Last(way))
    PROVE  DerivedInv' /\ StartsWhole'
<1> DEFINE s == L!Last(way)
           m == manifest[s.bundle]
           linked == L!link_host_volumes(m, s)
<1>1. /\ Shape(s) /\ s.bundle \in L!Bundles /\ L!start_blockers(m, s) = {} /\ host' = host
      /\ ~s.behind => Fitting(m, s)
      /\ app' = linked \/ app' = [linked EXCEPT !.pending = FALSE]
  BY DEF L!Hands, DerivedWhole
<1> HIDE DEF s
<1>2. /\ Shape(linked) /\ linked.bundle = s.bundle /\ linked.behind = s.behind /\ linked.db = s.db
      /\ linked.compose = s.compose /\ linked.dirs = s.dirs /\ linked.config = s.config
      /\ linked.binds = s.binds
      /\ linked.links = {l \in s.links : l[1] # "host"}
                        \cup {<<"host", v>> : v \in {w \in L!load_volume_links(m, s) :
                                                       m.volumes[w].kind = "host"}}
  BY <1>1 DEF L!link_host_volumes, Shape, AppFields
<1> HIDE DEF linked
<1>3. /\ Shape(app') /\ app'.bundle = s.bundle /\ app'.behind = s.behind /\ app'.db = s.db
      /\ app'.compose = s.compose /\ app'.dirs = s.dirs /\ app'.config = s.config
      /\ app'.binds = s.binds
      /\ app'.links = {l \in s.links : l[1] # "host"}
                      \cup {<<"host", v>> : v \in {w \in L!load_volume_links(m, s) :
                                                     m.volumes[w].kind = "host"}}
  BY <1>1, <1>2 DEF Shape, AppFields
<1>4. /\ L!load_connections(m) = DOMAIN m.connections
      /\ \A n \in DOMAIN L!Config(m) : L!config_value(m, s, n) # Unset
  BY <1>1, NothingWanting
<1>5. L!parse_manifest(m)
  BY <1>1 DEF L!Bundles
<1> HIDE DEF m
<1>6. manifest[app'.bundle] = m
  BY <1>3 DEF m
<1>7. ASSUME ~app'.behind PROVE Fitting(m, app')
  <2>1. L!resolved_subdomain(m, app') = L!resolved_subdomain(m, s)
    BY <1>3 DEF L!resolved_subdomain
  <2>2. \A l \in s.links : l[1] # "host" => l \in app'.links
    BY <1>3
  <2>3. Fitting(m, s)
    BY <1>1, <1>3, <1>7 
  <2> QED BY <1>3, <2>1, <2>2, <2>3, FittingSame
<1>8. DerivedInv'
  BY <1>3, <1>6, <1>7 DEF DerivedInv, Settled
<1>9. ASSUME ~app'.behind PROVE StartsWhole'
  <2>1. Fitting(m, app') /\ Fitting(m, s)
    BY <1>1, <1>3, <1>7, <1>9
  <2>2. L!Loaded' = m
    BY <1>6 DEF L!Loaded
  <2>3. L!load_connections(m)' = DOMAIN m.connections
    BY <1>1, <1>4 DEF L!load_connections, m
  <2>4. (app.compose = L!make_compose_dict(L!Loaded, app, L!load_connections(L!Loaded)))'
    BY <2>1, <2>2, <2>3 DEF Fitting
  <2>5. ASSUME NEW u \in DOMAIN app'.compose, NEW mount \in app'.compose[u].mounts
        PROVE  L!Stands(mount)'
    <3>1. StandsIn(m, app', mount)
      BY <1>1, <1>3, <1>5, <2>1, MountsStand
    <3> QED BY <1>1, <2>2, <3>1 DEF StandsIn, L!Stands, L!MayBind
  <2>6. ASSUME NEW u \in DOMAIN app'.compose, NEW ref \in DOMAIN app'.compose[u].env, L!Dotted(ref)
        PROVE  app'.compose[u].env[ref] # ref
    BY <1>5, <2>1, <2>6, NoReferenceLeft
  <2>7. (Unset \notin L!Range(L!load_config_values(L!Loaded, app)))'
    <3>1. ASSUME NEW n \in DOMAIN L!Config(m) PROVE L!config_value(m, app', n) # Unset
      BY <1>3, <1>4 DEF L!config_value
    <3> QED BY <2>2, <3>1 DEF L!Range, L!load_config_values
  <2> QED BY <2>4, <2>5, <2>6, <2>7 DEF StartsWhole, L!StartsWhole
<1>10. app'.behind => StartsWhole'
  BY DEF StartsWhole, L!StartsWhole
<1> QED BY <1>8, <1>9, <1>10

\* Of a step that does not hand docker anything.
LEMMA LoadStopsKeep ==
    ASSUME NEW b \in L!Bundles, NEW way, WalkOf(b, way), L!Loads(way)
    PROVE  DerivedInv' /\ handed' = FALSE
<1>1. Shape(app') /\ app'.bundle = b /\ (~app'.behind => Fitting(manifest[b], app')) /\ handed' = FALSE
  BY DEF WalkOf, L!Loads
<1> QED BY <1>1 DEF DerivedInv, Settled

LEMMA StartStopsKeep ==
    ASSUME DerivedInv, L!StartStops PROVE DerivedInv' /\ handed' = FALSE
<1>1. Shape(app) /\ app.bundle \in L!Bundles
  BY DEF DerivedInv, Shape, L!StartStops
<1>2. app' \in L!Range(L!Rederived(app).steps) /\ handed' = FALSE
  BY DEF L!StartStops, L!Loads
<1>3. CASE app.pending
  <2>1. Walk(app, L!materialize(app)) /\ app' \in L!Range(L!materialize(app).steps)
    BY <1>1, <1>2, <1>3, Materialized DEF L!Rederived
  <2>2. Shape(app') /\ app'.pending
    BY <1>3, <2>1 DEF Walk, Step
  <2> QED BY <1>2, <2>2 DEF DerivedInv, Settled
<1>4. CASE ~app.pending
  <2>1. app' = app
    BY <1>2, <1>4 DEF L!Rederived, L!Range
  <2> QED BY <1>2, <2>1 DEF DerivedInv
<1> QED BY <1>1, <1>3, <1>4 DEF Shape

LEMMA ConfigureKeeps ==
    ASSUME DerivedInv, NEW b, NEW e, L!Configure(b, e) PROVE DerivedInv' /\ handed' = FALSE
<1> DEFINE o == L!config_spec(b)
           t == L!Edited(o, app, e)
<1>1. app' = t /\ handed' = FALSE
  BY DEF L!Configure
<1>2. Shape(app)
  BY DEF DerivedInv
<1>3. /\ Shape(t) /\ t.bundle = app.bundle /\ t.behind = app.behind
      /\ t.db = app.db /\ t.compose = app.compose /\ t.dirs = app.dirs /\ t.links = app.links
      /\ ~t.pending => /\ ~app.pending
                       /\ \A x : L!resolved_subdomain(x, t) = L!resolved_subdomain(x, app)
  BY <1>2, EditedKeeps
<1> HIDE DEF t
<1>4. ASSUME Settled(t) PROVE Fitting(manifest[t.bundle], t)
  <2>1. Fitting(manifest[app.bundle], app)
    BY <1>3, <1>4 DEF DerivedInv, Settled
  <2>2. L!resolved_subdomain(manifest[app.bundle], app) = L!resolved_subdomain(manifest[app.bundle], t)
    BY <1>3, <1>4 DEF Settled
  <2> QED BY <1>3, <2>1, <2>2, FittingSame
<1> QED BY <1>1, <1>3, <1>4 DEF DerivedInv

LEMMA AssignKeeps ==
    ASSUME BundlesAssumption, DerivedInv, NEW b, NEW n, NEW tags, L!assign_route(b, n, tags)
    PROVE  DerivedInv' /\ handed' = FALSE
<1> DEFINE m == L!config_spec(b)
           s == L!set_route_assignment(app, n, tags)
           compose_ == IF L!Composes(m, s) THEN L!make_compose_dict(m, s, L!load_connections(m))
                       ELSE L!Torn
           behind_ == s.behind \/ L!load_blockers(m, s) # {}
<1>1. /\ handed' = FALSE
      /\ app' = IF app.bundle = Unset THEN s ELSE [s EXCEPT !.compose = compose_, !.behind = behind_]
  BY DEF L!assign_route
<1>2. Shape(app)
  BY DEF DerivedInv
<1>3. /\ Shape(s) /\ s.bundle = app.bundle /\ s.behind = app.behind
      /\ s = app \/ s.pending
  BY <1>2 DEF L!set_route_assignment, Shape, AppFields
<1> HIDE DEF s
<1>4. CASE app.bundle = Unset
  <2>1. ~Settled(app')
    BY <1>1, <1>3, <1>4 DEF Settled, L!Bundles, BundlesAssumption, L!LayoutAssumption
  <2> QED BY <1>1, <1>3, <1>4, <2>1 DEF DerivedInv
<1>5. CASE app.bundle # Unset
  <2>1. behind_ \in BOOLEAN
    BY <1>3 DEF Shape
  <2> HIDE DEF compose_, behind_
  <2>2. /\ Shape(app') /\ app'.bundle = app.bundle /\ app'.behind = behind_ /\ app'.pending = s.pending
        /\ app'.compose = compose_ /\ app'.db = s.db /\ app'.dirs = s.dirs /\ app'.links = s.links
        /\ app'.config = s.config
    BY <1>1, <1>3, <1>5, <2>1 DEF Shape, AppFields
  <2>3. ASSUME Settled(app') PROVE Fitting(manifest[app'.bundle], app')
    <3>1. s = app /\ ~app.behind /\ L!load_blockers(m, s) = {} /\ app.bundle \in L!Bundles
      BY <1>3, <2>2, <2>3 DEF Settled, behind_
    <3>2. m = manifest[app.bundle] /\ Fitting(m, app)
      BY <1>5, <2>2, <2>3, <3>1 DEF DerivedInv, Settled, L!config_spec, L!Loaded
    <3> HIDE DEF m
    <3>3. compose_ = L!make_compose_dict(m, app, DOMAIN m.connections)
      BY <3>1, <3>2, NothingMissing DEF compose_, Fitting, L!Composes
    <3>4. app'.compose = app.compose
      BY <2>2, <3>2, <3>3 DEF Fitting
    <3>5. L!resolved_subdomain(m, app) = L!resolved_subdomain(m, app')
      BY <2>2, <3>1 DEF L!resolved_subdomain
    <3> QED BY <2>2, <3>1, <3>2, <3>4, <3>5, FittingSame
  <2> QED BY <1>1, <2>2, <2>3 DEF DerivedInv
<1> QED BY <1>4, <1>5

LEMMA StopKeeps ==
    ASSUME DerivedInv, L!Stop PROVE DerivedInv' /\ handed' = FALSE
<1>1. /\ Shape(app') /\ app'.bundle = app.bundle /\ app'.behind = app.behind
      /\ app'.pending = app.pending /\ app'.compose = app.compose /\ app'.db = app.db
      /\ app'.dirs = app.dirs /\ app'.config = app.config
      /\ app'.links = {l \in app.links : l[1] # "host"} /\ handed' = FALSE
  BY DEF L!Stop, DerivedInv, Shape, AppFields
<1>2. ASSUME Settled(app') PROVE Fitting(manifest[app'.bundle], app')
  <2>1. Fitting(manifest[app.bundle], app)
    BY <1>1, <1>2 DEF DerivedInv, Settled
  <2>2. L!resolved_subdomain(manifest[app.bundle], app) = L!resolved_subdomain(manifest[app.bundle], app')
    BY <1>1 DEF L!resolved_subdomain
  <2> QED BY <1>1, <2>1, <2>2, FittingSame
<1> QED BY <1>1, <1>2 DEF DerivedInv

LEMMA RemoveKeeps ==
    ASSUME BundlesAssumption, DerivedInv, NEW purge, L!Remove(purge)
    PROVE  DerivedInv' /\ handed' = FALSE
<1>1. Shape(app') /\ app'.bundle = Unset /\ handed' = FALSE
  BY DEF L!Remove, L!Fresh, DerivedInv, Shape, AppFields
<1>2. Unset \notin L!Bundles
  BY DEF L!Bundles, BundlesAssumption, L!LayoutAssumption
<1> QED BY <1>1, <1>2 DEF DerivedInv, Settled

LEMMA LayoutInit == BundlesAssumption /\ L!Init => DerivedInv /\ StartsWhole
<1> SUFFICES ASSUME BundlesAssumption, L!Init PROVE DerivedInv /\ StartsWhole
  OBVIOUS
<1>1. Shape(app) /\ app.bundle = Unset /\ handed = FALSE
  BY DEF L!Init, L!Fresh, Shape, AppFields
<1>2. Unset \notin L!Bundles
  BY DEF L!Bundles, BundlesAssumption, L!LayoutAssumption
<1> QED BY <1>1, <1>2 DEF DerivedInv, Settled, StartsWhole, L!StartsWhole

LEMMA LayoutStep ==
    BundlesAssumption /\ DerivedInv /\ StartsWhole /\ [L!Next]_layoutVars => DerivedInv' /\ StartsWhole'
<1> SUFFICES ASSUME BundlesAssumption, DerivedInv, StartsWhole, [L!Next]_layoutVars
             PROVE  DerivedInv' /\ StartsWhole'
  OBVIOUS
<1>1. handed' = FALSE => StartsWhole'
  BY DEF StartsWhole, L!StartsWhole
<1>2. CASE UNCHANGED layoutVars
  <2>1. DerivedInv'
    BY <1>2 DEF layoutVars, DerivedInv
  <2>2. StartsWhole'
    BY <1>2 DEF layoutVars, StartsWhole, L!StartsWhole, L!Loaded, L!load_connections, L!Stands,
                L!MayBind
  <2> QED BY <2>1, <2>2
<1>3. CASE L!Machine
  BY <1>1, <1>3 DEF L!Machine, DerivedInv
<1>4. CASE L!Verb
  <2>1. ASSUME NEW b \in L!Bundles, L!Update(b) PROVE DerivedInv' /\ StartsWhole'
    BY <1>1, <2>1, LoadWalks, LoadStopsKeep DEF L!Update, DerivedInv
  <2>2. ASSUME NEW b \in L!Bundles, NEW e, L!Load(b, L!load(b, app, e))
        PROVE  DerivedInv' /\ StartsWhole'
    BY <1>1, <2>2, LoadWalks, LoadStopsKeep DEF L!Load, DerivedInv
  <2>3. ASSUME NEW b \in L!Bundles, NEW e, L!StartLoading(b, e, L!load(b, app, e))
        PROVE  DerivedInv' /\ StartsWhole'
    <3>1. L!Hands(L!load(b, app, e)) /\ L!load(b, app, e).done
      BY <2>3 DEF L!StartLoading, L!Hands
    <3> QED BY <3>1, LoadedWhole, HandsKeep
  <2>4. ASSUME NEW b, NEW e, L!Configure(b, e) PROVE DerivedInv' /\ StartsWhole'
    BY <1>1, <2>4, ConfigureKeeps
  <2>5. ASSUME NEW b, NEW n, NEW tags, L!assign_route(b, n, tags) PROVE DerivedInv' /\ StartsWhole'
    BY <1>1, <2>5, AssignKeeps
  <2>6. CASE L!StartStops
    BY <1>1, <2>6, StartStopsKeep
  <2>7. CASE L!Start
    <3>1. app.bundle # Unset /\ L!Hands(L!Rederived(app)) /\ L!Rederived(app).done
      BY <2>7 DEF L!Start, L!Hands
    <3> QED BY <3>1, RedoneWhole, HandsKeep
  <2>8. CASE L!Stop
    BY <1>1, <2>8, StopKeeps
  <2>9. ASSUME NEW purge, L!Remove(purge) PROVE DerivedInv' /\ StartsWhole'
    BY <1>1, <2>9, RemoveKeeps
  <2> QED BY <1>4, <2>1, <2>2, <2>3, <2>4, <2>5, <2>6, <2>7, <2>8, <2>9 DEF L!Verb
<1> QED BY <1>2, <1>3, <1>4 DEF L!Next

\* Whatever is edited, comes or goes, and wherever a load or a start is cut short, docker
\* is handed what the loaded manifest, the app store and the machine then make, with every
\* mount there and no reference left, unless compose.yml was left behind (run.start,
\* load.materialize, compose.make_compose_dict).
THEOREM StartsAlwaysWhole == AppSpec => []StartsWhole
<1>1. AppInit => DerivedInv /\ StartsWhole
  BY BundlesAssumption, LayoutInit DEF AppInit
<1>2. DerivedInv /\ StartsWhole /\ [AppNext]_<<part, vars, layoutVars, sourcesVars>>
        => (DerivedInv /\ StartsWhole)'
  BY BundlesAssumption, LayoutStep DEF AppNext
<1> QED BY <1>1, <1>2, PTL DEF AppSpec
=============================================================================
