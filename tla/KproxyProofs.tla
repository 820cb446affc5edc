---------------------------- MODULE KproxyProofs ----------------------------
(***************************************************************************)
(* Proofs about Kproxy, for any connections, names, rules and limits: no   *)
(* held connection misses a change of the rules, every host somebody is    *)
(* held for is listed, and the rules file says what the engine decides by. *)
(***************************************************************************)
EXTENDS Kproxy, FiniteSetTheorems, TLAPS

-----------------------------------------------------------------------------
(* Waiting connections. *)

ConnFields == {"pc", "scheme", "host", "key", "seen", "held", "marked", "missed", "target",
               "out", "back", "stalled"}

\* What is known of a connection under rules r, the e-th snapshot, and with ps
\* pending.  One that waits on the current snapshot has seen that it decides
\* nothing.  A host that was listed is on the list while the snapshot is the one
\* seen; a change takes it off only by deciding it, which the connection finds
\* when it looks, unless another change comes first.
ConnOK(k, r, e, ps) ==
    /\ DOMAIN k = ConnFields
    /\ k.seen \in Nat /\ k.seen <= e
    /\ k.marked \in BOOLEAN /\ k.missed \in BOOLEAN
    /\ k.pc \in {"closed", "backlog", "accepted", "head"} => ~k.marked
    /\ k.marked \/ k.pc = "mark" => r # None
    /\ k.pc \in {"mark", "wait"} /\ k.seen = e => r = None \/ ~Decided(r, k.host)
    /\ k.pc \in {"wait", "check"} /\ k.marked /\ ~k.missed =>
          /\ k.seen = e => k.host \in ps
          /\ e = k.seen + 1 => k.host \in ps \/ Decided(r, k.host)

WaitInv ==
    /\ epoch \in Nat
    /\ DOMAIN conn = Conns
    /\ \A c \in Conns : ConnOK(conn[c], rules, epoch, pending)
    /\ ~up => \A c \in Conns : conn[c] = Closed

LEMMA ClosedOK ==
    ASSUME NEW r, NEW e \in Nat, NEW ps
    PROVE  ConnOK(Closed, r, e, ps)
BY DEF ConnOK, Closed, ConnFields

LEMMA WaitInit == ASSUME Init PROVE WaitInv
BY ClosedOK DEF Init, WaitInv

\* A step of one connection that takes no host off the list.
LEMMA ConnMoves ==
    ASSUME WaitInv, NEW c \in Conns, NEW new, up,
           conn' = [conn EXCEPT ![c] = new], UNCHANGED <<up, rules, epoch>>,
           pending \subseteq pending', ConnOK(new, rules, epoch, pending')
    PROVE  WaitInv'
<1>1. \A o \in Conns : conn'[o] = IF o = c THEN new ELSE conn[o]
  BY DEF WaitInv
<1>2. ASSUME NEW o \in Conns PROVE ConnOK(conn'[o], rules, epoch, pending')
  <2>1. CASE o = c
    BY <1>1, <2>1
  <2>2. CASE o # c
    <3>1. conn'[o] = conn[o] /\ ConnOK(conn[o], rules, epoch, pending)
      BY <1>1, <2>2 DEF WaitInv
    <3> QED
      BY <3>1 DEF ConnOK
  <2> QED
    BY <2>1, <2>2
<1> QED
  BY <1>2 DEF WaitInv

\* A connection that does anything is one of a process that runs.
LEMMA Running ==
    ASSUME WaitInv, NEW c \in Conns, conn[c].pc # "closed"
    PROVE  up /\ ConnOK(conn[c], rules, epoch, pending)
BY DEF WaitInv, Closed

\* Steps to where nothing is held: dialling, copying, closing.
Later == {"accepted", "head", "dial", "close", "pipe"}
LEMMA ConnLater ==
    ASSUME WaitInv, NEW c \in Conns, NEW new, conn[c].pc # "closed",
           conn' = [conn EXCEPT ![c] = new], UNCHANGED <<up, rules, epoch, pending>>,
           DOMAIN new = ConnFields, new.seen = conn[c].seen,
           new.marked = conn[c].marked, new.missed = conn[c].missed,
           \/ new.pc \in {"dial", "close", "pipe"}
           \/ new.pc \in Later /\ conn[c].pc \in {"backlog", "accepted"}
    PROVE  WaitInv'
<1>1. up /\ ConnOK(conn[c], rules, epoch, pending)
  BY Running
<1>2. ConnOK(new, rules, epoch, pending)
  BY <1>1 DEF ConnOK, Later
<1> QED
  BY <1>1, <1>2, ConnMoves

LEMMA WaitAccepts ==
    ASSUME WaitInv, NEW c \in Conns, Accept(c) \/ TakeSlot(c) PROVE WaitInv'
<1>1. PICK s \in {"accepted", "head"} : Go(c, s)
  BY DEF Accept, TakeSlot
<1> DEFINE new == [conn[c] EXCEPT !.pc = s]
<1>2. /\ conn' = [conn EXCEPT ![c] = new] /\ UNCHANGED <<up, rules, epoch, pending>>
      /\ conn[c].pc \in {"backlog", "accepted"}
  BY <1>1 DEF Accept, TakeSlot, Go, Set, Rest
<1>3. /\ DOMAIN new = ConnFields /\ new.pc = s /\ new.seen = conn[c].seen
      /\ new.marked = conn[c].marked /\ new.missed = conn[c].missed
  BY <1>2, Running DEF ConnOK, ConnFields
<1> HIDE DEF new
<1> QED
  BY <1>2, <1>3, ConnLater DEF Later

\* An outcome: the connection waits no more.
LEMMA WaitAnswer ==
    ASSUME WaitInv, NEW c \in Conns, conn[c].pc # "closed", NEW outcome, NEW held, NEW target,
           Answer(c, outcome, held, target), UNCHANGED <<up, rules, epoch, pending>>
    PROVE  WaitInv'
<1> DEFINE new == [conn[c] EXCEPT !.pc = After(outcome), !.held = held, !.target = target]
<1>1. conn' = [conn EXCEPT ![c] = new]
  BY DEF Answer, Set
<1>2. /\ DOMAIN new = ConnFields /\ new.pc = After(outcome) /\ new.seen = conn[c].seen
      /\ new.marked = conn[c].marked /\ new.missed = conn[c].missed
  BY Running DEF ConnOK, ConnFields
<1> HIDE DEF new
<1> QED
  BY <1>1, <1>2, ConnLater DEF After

LEMMA WaitRoute ==
    ASSUME WaitInv, NEW c \in Conns, NEW raw \in Heads, Route(c, raw) PROVE WaitInv'
<1>1. conn[c].pc = "head" /\ UNCHANGED <<up, rules, epoch, pending>>
  BY DEF Route, Refused, Rest
<1>2. \/ \E o, h, t : Answer(c, o, h, t)
      \/ \E key : Set(c, [conn[c] EXCEPT !.pc = "check", !.host = normHost(raw), !.key = key,
                                         !.seen = epoch])
  BY Zenon DEF Route, Refused
<1>3. CASE \E o, h, t : Answer(c, o, h, t)
  BY <1>1, <1>3, WaitAnswer
<1>4. CASE \E key : Set(c, [conn[c] EXCEPT !.pc = "check", !.host = normHost(raw), !.key = key,
                                           !.seen = epoch])
  <2>1. PICK key : Set(c, [conn[c] EXCEPT !.pc = "check", !.host = normHost(raw), !.key = key,
                                           !.seen = epoch])
    BY <1>4
  <2> DEFINE new == [conn[c] EXCEPT !.pc = "check", !.host = normHost(raw), !.key = key,
                                    !.seen = epoch]
  <2>2. conn' = [conn EXCEPT ![c] = new]
    BY <2>1 DEF Set
  <2>3. up /\ ConnOK(conn[c], rules, epoch, pending) /\ epoch \in Nat
    BY <1>1, Running DEF WaitInv
  <2>4. /\ DOMAIN new = ConnFields /\ new.pc = "check" /\ new.seen = epoch
        /\ new.marked = conn[c].marked /\ new.missed = conn[c].missed
    BY <2>3 DEF ConnOK, ConnFields
  <2> HIDE DEF new
  <2>5. ConnOK(new, rules, epoch, pending)
    BY <1>1, <2>3, <2>4 DEF ConnOK
  <2> QED
    BY <1>1, <2>2, <2>3, <2>5, ConnMoves
<1> QED
  BY <1>2, <1>3, <1>4

\* A look at the snapshot that decides nothing.  If it is the one seen before or
\* the next, whose change did not decide the host, the host is still listed.
LEMMA WaitCheck ==
    ASSUME WaitInv, NEW c \in Conns, Check(c) PROVE WaitInv'
<1>1. conn[c].pc = "check" /\ UNCHANGED <<up, rules, epoch, pending>>
  BY DEF Check, Conclude, Rest
<1>2. \/ \E o, h, t : Answer(c, o, h, t)
      \/ (rules = None \/ ~Decided(rules, conn[c].host)) /\ Set(c, Load(c))
  BY Zenon DEF Check, Conclude
<1>3. CASE \E o, h, t : Answer(c, o, h, t)
  BY <1>1, <1>3, WaitAnswer
<1>4. CASE (rules = None \/ ~Decided(rules, conn[c].host)) /\ Set(c, Load(c))
  <2> DEFINE new == Load(c)
  <2>1. conn' = [conn EXCEPT ![c] = new]
    BY <1>4 DEF Set
  <2>2. up /\ ConnOK(conn[c], rules, epoch, pending) /\ epoch \in Nat
    BY <1>1, Running DEF WaitInv
  <2>3. /\ DOMAIN new = ConnFields /\ new.seen = epoch /\ new.host = conn[c].host
        /\ new.pc = IF rules = None \/ conn[c].marked THEN "wait" ELSE "mark"
        /\ new.marked = conn[c].marked
        /\ new.missed = (conn[c].missed \/ epoch > conn[c].seen + 1)
    BY <2>2 DEF Load, ConnOK, ConnFields
  <2> HIDE DEF new
  <2>4. new.missed \in BOOLEAN /\ new.marked \in BOOLEAN
    BY <2>2, <2>3 DEF ConnOK
  <2>5. new.marked /\ ~new.missed => new.host \in pending
    <3>1. SUFFICES ASSUME new.marked, ~new.missed PROVE new.host \in pending
      OBVIOUS
    <3>2. conn[c].marked /\ ~conn[c].missed /\ rules # None /\ ~Decided(rules, conn[c].host)
      BY <1>4, <2>2, <2>3, <3>1 DEF ConnOK
    <3>3. conn[c].seen = epoch \/ epoch = conn[c].seen + 1
      <4>1. ~(epoch > conn[c].seen + 1)
        BY <2>3, <3>1
      <4>2. conn[c].seen \in Nat /\ conn[c].seen <= epoch
        BY <2>2 DEF ConnOK
      <4> QED
        BY <2>2, <4>1, <4>2
    <3> QED
      BY <1>1, <2>2, <2>3, <3>2, <3>3 DEF ConnOK
  <2>6. ConnOK(new, rules, epoch, pending)
    BY <1>4, <2>2, <2>3, <2>4, <2>5 DEF ConnOK
  <2> QED
    BY <1>1, <2>1, <2>2, <2>6, ConnMoves
<1> QED
  BY <1>2, <1>3, <1>4

LEMMA WaitMark ==
    ASSUME WaitInv, NEW c \in Conns, markPending(c) PROVE WaitInv'
<1> DEFINE full == conn[c].host \notin pending /\ Cardinality(pending) >= MaxPending
           new == [conn[c] EXCEPT !.pc = "wait", !.marked = TRUE, !.missed = @ \/ full]
<1>1. /\ conn[c].pc = "mark" /\ UNCHANGED <<up, rules, epoch>>
      /\ pending' = IF full THEN pending ELSE pending \cup {conn[c].host}
      /\ conn' = [conn EXCEPT ![c] = new]
  BY Zenon DEF markPending, Set, Rest
<1>2. up /\ ConnOK(conn[c], rules, epoch, pending)
  BY <1>1, Running
<1>3. full \in BOOLEAN
  OBVIOUS
<1> HIDE DEF full
<1>4. /\ DOMAIN new = ConnFields /\ new.pc = "wait" /\ new.seen = conn[c].seen
      /\ new.marked = TRUE /\ new.missed = (conn[c].missed \/ full) /\ new.host = conn[c].host
  BY <1>2 DEF ConnOK, ConnFields
<1> HIDE DEF new
<1>5. new.missed \in BOOLEAN
  BY <1>2, <1>3, <1>4 DEF ConnOK
<1>6. ConnOK(new, rules, epoch, pending')
  BY <1>1, <1>2, <1>4, <1>5 DEF ConnOK
<1> QED
  BY <1>1, <1>2, <1>6, ConnMoves

LEMMA WaitWake ==
    ASSUME WaitInv, NEW c \in Conns, Wake(c) PROVE WaitInv'
<1> DEFINE new == [conn[c] EXCEPT !.pc = "check", !.held = TRUE]
<1>1. /\ conn[c].pc = "wait" /\ UNCHANGED <<up, rules, epoch, pending>>
      /\ conn' = [conn EXCEPT ![c] = new]
  BY DEF Wake, Set, Rest
<1>2. up /\ ConnOK(conn[c], rules, epoch, pending)
  BY <1>1, Running
<1>3. /\ DOMAIN new = ConnFields /\ new.pc = "check" /\ new.seen = conn[c].seen
      /\ new.marked = conn[c].marked /\ new.missed = conn[c].missed /\ new.host = conn[c].host
  BY <1>2 DEF ConnOK, ConnFields
<1> HIDE DEF new
<1>4. ConnOK(new, rules, epoch, pending)
  BY <1>1, <1>2, <1>3 DEF ConnOK
<1> QED
  BY <1>1, <1>2, <1>4, ConnMoves

LEMMA WaitTimeOut ==
    ASSUME WaitInv, NEW c \in Conns, TimeOut(c) PROVE WaitInv'
<1>1. conn[c].pc # "closed" /\ UNCHANGED <<up, rules, epoch, pending>> /\ Answer(c, "timedOut", TRUE, None)
  BY DEF TimeOut, Rest
<1> QED
  BY <1>1, WaitAnswer

\* Copying between the two peers.
LEMMA WaitCopies ==
    ASSUME WaitInv, NEW c \in Conns,
           \/ Dial(c)
           \/ \E dir \in {"out", "back"} : \/ SourceEnds(c, dir) \/ CopyFails(c, dir)
                                           \/ Stall(c, dir) \/ Resume(c, dir)
    PROVE  WaitInv'
<1>1. conn[c].pc \in {"dial", "pipe"} /\ UNCHANGED <<up, rules, epoch, pending>>
  BY DEF Dial, SourceEnds, CopyFails, Stall, Resume, Copying, Rest
<1>2. ConnOK(conn[c], rules, epoch, pending)
  BY <1>1, Running
<1> DEFINE Copied(new) == /\ conn' = [conn EXCEPT ![c] = new]
                          /\ DOMAIN new = ConnFields /\ new.seen = conn[c].seen
                          /\ new.marked = conn[c].marked /\ new.missed = conn[c].missed
                          /\ new.pc \in {"close", "pipe"}
<1>3. CASE Dial(c)
  <2>1. ASSUME conn' = [conn EXCEPT ![c] = [conn[c] EXCEPT !.pc = "pipe", !.out = "copy", !.back = "copy"]]
        PROVE  Copied([conn[c] EXCEPT !.pc = "pipe", !.out = "copy", !.back = "copy"])
    BY <1>2, <2>1 DEF ConnOK, ConnFields
  <2>2. ASSUME conn' = [conn EXCEPT ![c] = [conn[c] EXCEPT !.pc = "close"]]
        PROVE  Copied([conn[c] EXCEPT !.pc = "close"])
    BY <1>2, <2>2 DEF ConnOK, ConnFields
  <2>3. \/ conn' = [conn EXCEPT ![c] = [conn[c] EXCEPT !.pc = "pipe", !.out = "copy", !.back = "copy"]]
        \/ conn' = [conn EXCEPT ![c] = [conn[c] EXCEPT !.pc = "close"]]
    BY <1>3 DEF Dial, Set, Go
  <2>4. \E new : Copied(new)
    BY <2>1, <2>2, <2>3
  <2> QED
    BY <1>1, <2>4, ConnLater
<1>4. ASSUME NEW dir \in {"out", "back"}, SourceEnds(c, dir) PROVE WaitInv'
  <2> DEFINE new == HalfClose(conn[c], dir)
  <2>1. conn' = [conn EXCEPT ![c] = new] /\ conn[c].pc = "pipe"
    BY <1>4 DEF SourceEnds, Copying, Set
  <2>2. /\ DOMAIN new = ConnFields /\ new.seen = conn[c].seen
        /\ new.marked = conn[c].marked /\ new.missed = conn[c].missed /\ new.pc = conn[c].pc
    <3>1. CASE dir = "out"
      BY <1>2, <3>1 DEF HalfClose, Other, ConnOK, ConnFields
    <3>2. CASE dir = "back"
      BY <1>2, <3>2 DEF HalfClose, Other, ConnOK, ConnFields
    <3> QED
      BY <3>1, <3>2
  <2> HIDE DEF new
  <2> QED
    BY <1>1, <2>1, <2>2, ConnLater
<1>5. ASSUME NEW dir \in {"out", "back"}, CopyFails(c, dir) PROVE WaitInv'
  <2> DEFINE new == [conn[c] EXCEPT !.out = "done", !.back = "done", !.stalled = {}]
  <2>1. conn' = [conn EXCEPT ![c] = new] /\ conn[c].pc = "pipe"
    BY <1>5 DEF CopyFails, Copying, Set
  <2>2. /\ DOMAIN new = ConnFields /\ new.seen = conn[c].seen
        /\ new.marked = conn[c].marked /\ new.missed = conn[c].missed /\ new.pc = conn[c].pc
    BY <1>2 DEF ConnOK, ConnFields
  <2> HIDE DEF new
  <2> QED
    BY <1>1, <2>1, <2>2, ConnLater
<1>6. ASSUME NEW dir \in {"out", "back"}, Stall(c, dir) \/ Resume(c, dir) PROVE WaitInv'
  <2>1. PICK st : conn' = [conn EXCEPT ![c] = [conn[c] EXCEPT !.stalled = st]] /\ conn[c].pc = "pipe"
    BY <1>6 DEF Stall, Resume, Copying, Set
  <2> DEFINE new == [conn[c] EXCEPT !.stalled = st]
  <2>2. /\ DOMAIN new = ConnFields /\ new.seen = conn[c].seen
        /\ new.marked = conn[c].marked /\ new.missed = conn[c].missed /\ new.pc = conn[c].pc
    BY <1>2 DEF ConnOK, ConnFields
  <2> HIDE DEF new
  <2> QED
    BY <1>1, <2>1, <2>2, ConnLater DEF new
<1> QED
  BY <1>3, <1>4, <1>5, <1>6

LEMMA WaitOpens ==
    ASSUME WaitInv, NEW c \in Conns, Close(c) \/ \E s \in Schemes : serveDNS(c, s)
    PROVE  WaitInv'
<1>1. up /\ UNCHANGED <<up, rules, epoch, pending>> /\ epoch \in Nat
  <2>1. CASE Close(c)
    BY <2>1, Running DEF Close, Rest, WaitInv
  <2>2. CASE \E s \in Schemes : serveDNS(c, s)
    BY <2>2 DEF serveDNS, WaitInv
  <2> QED
    BY <2>1, <2>2
<1>2. CASE Close(c)
  BY <1>1, <1>2, ClosedOK, ConnMoves DEF Close, Set
<1>3. ASSUME NEW s \in Schemes, serveDNS(c, s) PROVE WaitInv'
  <2> DEFINE new == [Closed EXCEPT !.pc = "backlog", !.scheme = s]
  <2>1. conn' = [conn EXCEPT ![c] = new]
    BY <1>3 DEF serveDNS, Set
  <2>2. ConnOK(new, rules, epoch, pending)
    BY <1>1 DEF ConnOK, Closed, ConnFields
  <2> HIDE DEF new
  <2> QED
    BY <1>1, <2>1, <2>2, ConnMoves
<1> QED
  BY <1>2, <1>3

\* New rules: the snapshot counts up, and only hosts they decide leave the list.
LEMMA WaitPublish ==
    ASSUME WaitInv, publish PROVE WaitInv'
<1>1. /\ epoch' = epoch + 1 /\ rules' # None /\ UNCHANGED <<up, conn>> /\ up
      /\ \A h \in pending : h \in pending' \/ Decided(rules', h)
  BY DEF publish
<1>2. ASSUME NEW c \in Conns PROVE ConnOK(conn[c], rules', epoch', pending')
  <2>1. ConnOK(conn[c], rules, epoch, pending) /\ epoch \in Nat
    BY DEF WaitInv
  <2>2. conn[c].seen < epoch'
    BY <1>1, <2>1 DEF ConnOK
  <2>3. epoch' = conn[c].seen + 1 => conn[c].seen = epoch
    BY <1>1, <2>1 DEF ConnOK
  <2> QED
    BY <1>1, <2>1, <2>2, <2>3 DEF ConnOK
<1> QED
  BY <1>1, <1>2 DEF WaitInv

LEMMA WaitStep ==
    ASSUME WaitInv, [Next]_vars PROVE WaitInv'
<1>1. CASE UNCHANGED vars
  BY <1>1 DEF vars, WaitInv
<1>2. CASE main \/ Crash
  <2>1. /\ epoch' = epoch /\ epoch \in Nat /\ DOMAIN conn' = Conns
        /\ \A c \in Conns : conn'[c] = Closed
    BY <1>2 DEF main, Crash, WaitInv
  <2> QED
    BY <2>1, ClosedOK DEF WaitInv
<1>3. CASE \/ \E f \in Files : Edit(f)
           \/ \E p \in Puts : Replace(p)
           \/ \E d \in Decisions : Decide(d)
           \/ \E n \in Removals : Remove(n)
  <2>1. UNCHANGED <<up, rules, epoch, pending, conn>>
    BY <1>3 DEF Edit, Replace, Decide, Remove, Change
  <2> QED
    BY <2>1 DEF WaitInv
<1>4. CASE publish
  BY <1>4, WaitPublish
<1>5. ASSUME NEW c \in Conns, Handler(c) PROVE WaitInv'
  BY <1>5, WaitAccepts, WaitRoute, WaitCheck, WaitMark, WaitWake, WaitCopies, WaitOpens DEF Handler
<1>6. ASSUME NEW s \in Schemes, AcceptFails(s) PROVE WaitInv'
  BY <1>6 DEF AcceptFails, WaitInv
<1> QED
  BY <1>1, <1>2, <1>3, <1>4, <1>5, <1>6, WaitTimeOut, WaitCopies, WaitOpens DEF Next

\* A connection that waits although the rules decide its host waits on a
\* snapshot that has been replaced, whose channel is closed.
THEOREM Woken == Spec => []NoLostWakeup
<1>1. Init => WaitInv
  BY WaitInit
<1>2. WaitInv /\ [Next]_vars => WaitInv'
  BY WaitStep
<1>3. WaitInv => NoLostWakeup
  BY DEF WaitInv, ConnOK, NoLostWakeup
<1> QED
  BY <1>1, <1>2, <1>3, PTL DEF Spec

\* The host of a connection that waits on the current snapshot is listed as
\* pending, unless the list was full or two changes went by between two looks.
THEOREM Listed == Spec => []HeldListed
<1>1. Init => WaitInv
  BY WaitInit
<1>2. WaitInv /\ [Next]_vars => WaitInv'
  BY WaitStep
<1>3. WaitInv => HeldListed
  BY DEF WaitInv, ConnOK, HeldListed
<1> QED
  BY <1>1, <1>2, <1>3, PTL DEF Spec
-----------------------------------------------------------------------------
(* The rules file. *)

Policies == {"allow", "deny", "ask"}

\* A rule that newRule makes.
RuleOK(q) == q = newRule(q.verdict, q.target) /\ q # NoRule

\* Finitely many rules, of names that are names.
DomainsOK(d) ==
    /\ d = [n \in DOMAIN d |-> d[n]] /\ IsFiniteSet(DOMAIN d)
    /\ \A n \in DOMAIN d : n # <<>> /\ n \notin IPs /\ n # None /\ RuleOK(d[n])
RulesOK(r) ==
    /\ r = [default |-> r.default, domains |-> r.domains]
    /\ r.default \in Policies /\ DomainsOK(r.domains)

\* What stands for there being no file or no rules is neither text nor rules.
NoneApart ==
    /\ \A r : format(r) # None
    /\ \A default, domains : [default |-> default, domains |-> domains] # None
    /\ \A S, f : [n \in S |-> f[n]] # None

IsList(es) == Len(es) \in Nat /\ DOMAIN es = 1..Len(es)

LEMMA NewRuleOK ==
    ASSUME NEW v, NEW t, newRule(v, t) # NoRule
    PROVE  RuleOK(newRule(v, t)) /\ newRule(v, t) = [verdict |-> v, target |-> t]
<1>1. newRule(v, t) = [verdict |-> v, target |-> t]
  BY DEF newRule
<1>2. newRule(v, t).verdict = v /\ newRule(v, t).target = t
  BY <1>1
<1> QED
  BY <1>1, <1>2 DEF RuleOK

LEMMA ImageFinite ==
    ASSUME NEW S, IsFiniteSet(S), NEW f
    PROVE  IsFiniteSet({f[x] : x \in S})
<1> DEFINE T == {f[x] : x \in S}
           g == [x \in S |-> f[x]]
<1>1. g \in Surjection(S, T)
  BY DEF Surjection
<1> QED
  BY <1>1, FS_Surjection

\* A set of naturals with a member has a least one, and one with a bound a last.
LEMMA LeastNatural ==
    ASSUME NEW T \in SUBSET Nat, T # {}
    PROVE  \E x \in T : \A y \in T : x <= y
<1>1. PICK x \in T : \A y \in T : ~(<<y, x>> \in OpToRel(<, Nat))
  BY NatLessThanWellFounded, WFMin
<1>2. \A y \in T : ~(y < x)
  BY <1>1 DEF OpToRel
<1> QED
  BY <1>2

LEMMA LastExists ==
    ASSUME NEW n \in Nat, NEW at \in SUBSET (1..n), at # {}
    PROVE  \E i \in at : \A j \in at : j <= i
<1> DEFINE T == {n - i : i \in at}
<1>1. T \in SUBSET Nat /\ T # {}
  <2>1. \A i \in at : n - i \in Nat
    OBVIOUS
  <2> QED
    BY <2>1
<1>2. PICK x \in T : \A y \in T : x <= y
  <2> HIDE DEF T
  <2> QED BY <1>1, LeastNatural
<1>3. PICK i \in at : x = n - i
  BY <1>2
<1>4. ASSUME NEW j \in at PROVE j <= i
  <2>1. n - i <= n - j
    BY <1>2, <1>3
  <2> QED
    BY <2>1
<1> QED
  BY <1>4

\* Entries that make rules make good ones.
LEMMA EntriesOK ==
    ASSUME NEW es, IsList(es), NEW at \in SUBSET (DOMAIN es), Entries(es, at) # None
    PROVE  DomainsOK(Entries(es, at))
<1> DEFINE Name(i) == ruleName(es[i].name)
           Rule(i) == newRule(es[i].verdict, es[i].target)
           Last(n) == CHOOSE i \in at : Name(i) = n /\ \A j \in at : j > i => Name(j) # n
           names == {Name(i) : i \in at}
<1>1. \A i \in at : Name(i) # None /\ Rule(i) # NoRule
  BY DEF Entries
<1>2. Entries(es, at) = [n \in names |-> Rule(Last(n))]
  BY <1>1 DEF Entries
<1>3. at \in SUBSET (1..Len(es)) /\ Len(es) \in Nat
  BY DEF IsList
<1>4. ASSUME NEW n \in names PROVE Last(n) \in at
  <2> DEFINE those == {i \in at : Name(i) = n}
  <2>1. those \in SUBSET (1..Len(es)) /\ those # {}
    BY <1>3
  <2>2. PICK i \in those : \A j \in those : j <= i
    BY <1>3, <2>1, LastExists
  <2>3. \A j \in at : j > i => Name(j) # n
    <3> SUFFICES ASSUME NEW j \in at, j > i, Name(j) = n PROVE FALSE
      OBVIOUS
    <3>1. j <= i /\ i \in Nat /\ j \in Nat
      BY <1>3, <2>2
    <3> QED
      BY <3>1
  <2>4. i \in at /\ Name(i) = n
    BY <2>2
  <2> HIDE DEF Name
  <2> QED
    BY <2>3, <2>4
<1>5. IsFiniteSet(at)
  BY <1>3, FS_Interval, FS_Subset
<1>6. IsFiniteSet(names)
  <2> DEFINE f == [i \in at |-> Name(i)]
  <2>1. names = {f[i] : i \in at}
    OBVIOUS
  <2> HIDE DEF f, names
  <2> QED
    BY <1>5, <2>1, ImageFinite
<1>7. \A n \in names : n # <<>> /\ n \notin IPs /\ n # None
  BY <1>1 DEF ruleName
<1>8. \A i \in at : RuleOK(Rule(i))
  BY <1>1, NewRuleOK
<1> DEFINE d == [n \in names |-> Rule(Last(n))]
<1>9. /\ DOMAIN d = names /\ d = [n \in DOMAIN d |-> d[n]]
      /\ \A n \in names : d[n] = Rule(Last(n))
  <2> HIDE DEF Rule, Last, names
  <2> QED OBVIOUS
<1>10. \A n \in names : RuleOK(d[n])
  <2> HIDE DEF Rule, Last, names, d
  <2> QED BY <1>4, <1>8, <1>9
<1> HIDE DEF d, names
<1>11. DomainsOK(d)
  BY <1>6, <1>7, <1>9, <1>10 DEF DomainsOK
<1> QED
  BY <1>2, <1>11 DEF d

LEMMA RulesAre ==
    ASSUME NEW default, NEW d, Rules(default, d) # None
    PROVE  /\ Rules(default, d) = [default |-> default, domains |-> d]
           /\ default \in Policies /\ d # None
BY DEF Rules, Policies

\* Lines and bodies that make rules make good ones.
LEMMA ParseOK ==
    ASSUME NEW lines, IsList(lines), NEW policy, parseRules(lines, policy) # None
    PROVE  RulesOK(parseRules(lines, policy))
<1> DEFINE default == PolicyOf(lines, policy)
           at == OfKind(lines, "rule")
<1>1. parseRules(lines, policy) = Rules(default, Entries(lines, at)) /\ at \in SUBSET (DOMAIN lines)
  BY DEF parseRules, OfKind
<1> HIDE DEF default, at
<1>2. /\ parseRules(lines, policy) = [default |-> default, domains |-> Entries(lines, at)]
      /\ default \in Policies /\ Entries(lines, at) # None
  BY <1>1, RulesAre
<1>3. DomainsOK(Entries(lines, at))
  BY <1>1, <1>2, EntriesOK
<1> QED
  BY <1>2, <1>3 DEF RulesOK

LEMMA BodyOK ==
    ASSUME NEW put, IsList(put.rules), toRules(put) # None
    PROVE  RulesOK(toRules(put))
<1>1. /\ toRules(put) = [default |-> put.default, domains |-> Entries(put.rules, DOMAIN put.rules)]
      /\ put.default \in Policies /\ Entries(put.rules, DOMAIN put.rules) # None
  BY RulesAre DEF toRules
<1>2. DomainsOK(Entries(put.rules, DOMAIN put.rules))
  BY <1>1, EntriesOK
<1> QED
  BY <1>1, <1>2 DEF RulesOK
-----------------------------------------------------------------------------
(* Through the text of the file and back. *)

\* The lines written: the policy first, then one for each name.
LEMMA FormatIs ==
    ASSUME NEW r, IsFiniteSet(DOMAIN r.domains)
    PROVE  LET N == Cardinality(DOMAIN r.domains)
           IN  /\ N \in Nat /\ sorted(r) \in Bijection(1..N, DOMAIN r.domains)
               /\ IsList(format(r)) /\ Len(format(r)) = N + 1
               /\ format(r)[1] = [kind |-> "default", policy |-> r.default]
               /\ \A i \in 2..(N + 1) : format(r)[i] = Line(r, sorted(r)[i - 1])
<1> DEFINE N == Cardinality(DOMAIN r.domains)
           head == [kind |-> "default", policy |-> r.default]
           L == {head} \cup {Line(r, n) : n \in DOMAIN r.domains}
           entry == [i \in 1..N |-> Line(r, sorted(r)[i])]
<1>1. N \in Nat /\ Bijection(1..N, DOMAIN r.domains) # {}
  BY FS_CardinalityType DEF ExistsBijection
<1>2. sorted(r) \in Bijection(1..N, DOMAIN r.domains)
  BY <1>1 DEF sorted
<1>3. \A i \in 1..N : sorted(r)[i] \in DOMAIN r.domains
  BY <1>2 DEF Bijection, Injection
<1>4. entry \in Seq(L) /\ Len(entry) = N /\ \A i \in 1..N : entry[i] = Line(r, sorted(r)[i])
  <2>1. entry \in [1..N -> L]
    BY <1>3
  <2> HIDE DEF L
  <2> QED
    BY <1>1, <2>1
<1>5. <<head>> \in Seq(L) /\ Len(<<head>>) = 1 /\ <<head>>[1] = head
  <2>1. head \in L
    OBVIOUS
  <2> HIDE DEF head, L
  <2> QED
    BY <2>1
<1>6. format(r) = <<head>> \o entry
  BY DEF format
<1> HIDE DEF N, L, head, entry
<1>7. /\ format(r) \in Seq(L) /\ Len(format(r)) = N + 1 /\ format(r)[1] = head
      /\ \A i \in 2..(N + 1) : format(r)[i] = entry[i - 1]
  BY <1>1, <1>4, <1>5, <1>6
<1>8. \A i \in 2..(N + 1) : format(r)[i] = Line(r, sorted(r)[i - 1])
  BY <1>1, <1>4, <1>7
<1>9. IsList(format(r))
  BY <1>7 DEF IsList
<1> QED
  BY <1>1, <1>2, <1>7, <1>8, <1>9 DEF N, head

\* What is written and read back is what was written.
LEMMA ReadBack ==
    ASSUME NoneApart, NEW r, RulesOK(r)
    PROVE  loadRulesFile(format(r)) = r
<1> DEFINE d == r.domains
           N == Cardinality(DOMAIN d)
           es == format(r)
           at == 2..(N + 1)
           Name(i) == ruleName(es[i].name)
           Rule(i) == newRule(es[i].verdict, es[i].target)
           Last(n) == CHOOSE i \in at : Name(i) = n /\ \A j \in at : j > i => Name(j) # n
<1>1. /\ N \in Nat /\ sorted(r) \in Bijection(1..N, DOMAIN d)
      /\ IsList(es) /\ Len(es) = N + 1
      /\ es[1] = [kind |-> "default", policy |-> r.default]
      /\ \A i \in at : es[i] = Line(r, sorted(r)[i - 1])
  BY FormatIs DEF RulesOK, DomainsOK
<1> DEFINE s == sorted(r)
<1>2. /\ \A i \in 1..N : s[i] \in DOMAIN d
      /\ \A i, j \in 1..N : s[i] = s[j] => i = j
      /\ \A n \in DOMAIN d : \E i \in 1..N : s[i] = n
  BY <1>1 DEF Bijection, Injection, Surjection, IsInjective
<1>3. ASSUME NEW i \in at
      PROVE  Name(i) = s[i - 1] /\ Rule(i) = d[s[i - 1]] /\ es[i].kind = "rule"
  <2>1. i - 1 \in 1..N
    BY <1>1
  <2> DEFINE n == s[i - 1]
  <2>2. n \in DOMAIN d /\ n # <<>> /\ n \notin IPs /\ RuleOK(d[n])
    BY <1>2, <2>1 DEF RulesOK, DomainsOK
  <2>3. es[i] = Line(r, n)
    BY <1>1
  <2>4. /\ es[i].kind = "rule" /\ es[i].name.labels = n
        /\ es[i].verdict = d[n].verdict /\ es[i].target = d[n].target
    BY <2>3 DEF Line
  <2> QED
    BY <2>2, <2>4 DEF ruleName, normHost, RuleOK
<1>4. DOMAIN es = 1..(N + 1) /\ 1 \notin at /\ \A i \in 1..(N + 1) : i = 1 \/ i \in at
  BY <1>1 DEF IsList
<1>5. OfKind(es, "rule") = at /\ OfKind(es, "default") = {1}
  BY <1>1, <1>3, <1>4 DEF OfKind
<1>6. PolicyOf(es, Flag) = r.default
  <2> DEFINE A == OfKind(es, "default")
             last == CHOOSE i \in A : \A j \in A : j <= i
  <2>1. PolicyOf(es, Flag) = IF A = {} THEN Flag ELSE es[last].policy
    BY Zenon DEF PolicyOf
  <2>2. A = {1}
    BY <1>5
  <2> HIDE DEF A
  <2>3. last = 1
    BY <2>2
  <2> QED
    BY <1>1, <2>1, <2>2, <2>3
<1>7. {Name(i) : i \in at} = DOMAIN d
  <2>1. ASSUME NEW n \in DOMAIN d PROVE \E i \in at : Name(i) = n
    <3>1. PICK i \in 1..N : s[i] = n
      BY <1>2
    <3>2. i + 1 \in at /\ (i + 1) - 1 = i
      BY <1>1
    <3> QED
      BY <1>3, <3>1, <3>2
  <2>2. ASSUME NEW i \in at PROVE Name(i) \in DOMAIN d
    <3>1. i - 1 \in 1..N
      BY <1>1
    <3> QED
      BY <1>2, <1>3, <3>1
  <2> HIDE DEF Name, d, at
  <2> QED
    BY <2>1, <2>2
<1>8. ASSUME NEW n \in DOMAIN d PROVE Rule(Last(n)) = d[n]
  <2>1. PICK i \in at : Name(i) = n
    <3> HIDE DEF Name, at
    <3> QED BY <1>7
  <2>2. \A j \in at : Name(j) = n => j = i
    <3>1. ASSUME NEW j \in at, Name(j) = n PROVE j = i
      <4>1. s[j - 1] = s[i - 1] /\ j - 1 \in 1..N /\ i - 1 \in 1..N
        BY <1>1, <1>3, <2>1, <3>1
      <4>2. j - 1 = i - 1
        BY <1>2, <4>1
      <4> QED
        BY <1>1, <4>2
    <3> QED
      BY <3>1
  <2>3. ~(i > i)
    BY <1>1
  <2>4. Last(n) = i
    <3> HIDE DEF Name, at
    <3> QED BY <2>1, <2>2, <2>3
  <2> QED
    BY <1>3, <2>1, <2>4
<1>9. Entries(es, at) = d
  <2>1. \A i \in at : Name(i) # None /\ Rule(i) # NoRule
    <3>1. ASSUME NEW i \in at PROVE s[i - 1] \in DOMAIN d
      BY <1>1, <1>2
    <3> QED
      BY <1>3, <3>1 DEF RulesOK, DomainsOK, RuleOK
  <2>2. Entries(es, at) = [n \in {Name(i) : i \in at} |-> Rule(Last(n))]
    <3> HIDE DEF at, es
    <3> QED BY <2>1 DEF Entries
  <2>3. [n \in DOMAIN d |-> Rule(Last(n))] = [n \in DOMAIN d |-> d[n]]
    <3> HIDE DEF Rule, Last, d
    <3> QED BY <1>8
  <2>4. d = [n \in DOMAIN d |-> d[n]]
    BY DEF RulesOK, DomainsOK
  <2> HIDE DEF Name, Rule, Last, at, d
  <2> QED
    BY <1>7, <2>2, <2>3, <2>4
<1>10. d # None
  <2>1. d = [n \in DOMAIN d |-> d[n]]
    BY DEF RulesOK, DomainsOK
  <2>2. \A S, f : [n \in S |-> f[n]] # None
    BY DEF NoneApart
  <2> HIDE DEF d
  <2>3. [n \in DOMAIN d |-> d[n]] # None
    BY <2>2, Zenon
  <2> QED
    BY <2>1, <2>3
<1>11. parseRules(es, Flag) = [default |-> r.default, domains |-> d]
  BY <1>5, <1>6, <1>9, <1>10 DEF parseRules, Rules, RulesOK, Policies
<1>12. es # None
  BY DEF NoneApart
<1> QED
  BY <1>11, <1>12 DEF loadRulesFile, RulesOK
-----------------------------------------------------------------------------
(* The rules file and the rules in force. *)

\* The file is a list of lines that read as the rules that are to be installed,
\* if a change is under way, and as those in force if not.
FileInv ==
    /\ file # None => IsList(file)
    /\ rules # None => RulesOK(rules)
    /\ admin # None => RulesOK(admin)
    /\ ~up => admin = None
    /\ up /\ HasFile => loadRulesFile(file) = IF admin # None THEN admin ELSE rules

LEMMA FileInit == ASSUME NoneApart, Init PROVE FileInv
<1>1. file # None => IsList(file)
  BY ConfigAssumption DEF Init, ConfigAssumption, IsList
<1> QED
  BY <1>1 DEF Init, FileInv

\* Rules that are written, and are what the change installs.
LEMMA FileChange ==
    ASSUME NoneApart, FileInv, NEW next, RulesOK(next), Change(next)
    PROVE  FileInv'
<1>1. next # None /\ up /\ admin = None /\ UNCHANGED <<up, rules>>
  BY DEF NoneApart, RulesOK, Change
<1>2. CASE file' = (IF HasFile THEN format(next) ELSE None) /\ admin' = next
  <2>1. IsList(format(next))
    BY FormatIs DEF RulesOK, DomainsOK
  <2>2. loadRulesFile(format(next)) = next
    BY ReadBack
  <2> QED
    BY <1>1, <1>2, <2>1, <2>2 DEF FileInv
<1>3. CASE UNCHANGED <<file, admin>>
  BY <1>1, <1>3 DEF FileInv
<1> QED
  BY <1>2, <1>3 DEF Change, persist

LEMMA FileDecides ==
    ASSUME NoneApart, FileInv, NEW b, Decide(b)
    PROVE  FileInv'
<1> DEFINE n == ruleName(b.name)
           r == newRule(b.verdict, None)
           d == rules.domains
           nd == [m \in DOMAIN d \cup {n} |-> IF m = n THEN r ELSE d[m]]
           next == [rules EXCEPT !.domains = nd]
<1>1. rules # None /\ n # None /\ r # NoRule /\ Change(next)
  BY Zenon DEF Decide
<1>2. RulesOK(rules) /\ RuleOK(r) /\ n # <<>> /\ n \notin IPs
  BY <1>1, NewRuleOK DEF FileInv, ruleName
<1>3. IsFiniteSet(DOMAIN d \cup {n})
  BY <1>2, FS_AddElement DEF RulesOK, DomainsOK
<1>4. /\ DOMAIN nd = DOMAIN d \cup {n} /\ nd = [m \in DOMAIN nd |-> nd[m]]
      /\ \A m \in DOMAIN nd : nd[m] = IF m = n THEN r ELSE d[m]
  <2> HIDE DEF n, r, d
  <2> QED OBVIOUS
<1> HIDE DEF n, r, nd
<1>5. DomainsOK(nd)
  BY <1>1, <1>2, <1>3, <1>4 DEF RulesOK, DomainsOK
<1>6. next = [default |-> rules.default, domains |-> nd]
  BY <1>2 DEF RulesOK
<1> HIDE DEF next
<1>7. RulesOK(next)
  BY <1>2, <1>5, <1>6 DEF RulesOK
<1> QED
  BY <1>1, <1>7, FileChange

LEMMA FileRemoves ==
    ASSUME NoneApart, FileInv, NEW raw, Remove(raw)
    PROVE  FileInv'
<1> DEFINE d == rules.domains
           nd == Restrict(d, DOMAIN d \ {ruleName(raw)})
           next == [rules EXCEPT !.domains = nd]
<1>1. rules # None /\ Change(next)
  BY Zenon DEF Remove
<1>2. RulesOK(rules)
  BY <1>1 DEF FileInv
<1>3. IsFiniteSet(DOMAIN d \ {ruleName(raw)})
  BY <1>2, FS_RemoveElement DEF RulesOK, DomainsOK
<1>4. /\ DOMAIN nd = DOMAIN d \ {ruleName(raw)} /\ nd = [m \in DOMAIN nd |-> nd[m]]
      /\ \A m \in DOMAIN nd : nd[m] = d[m]
  <2> HIDE DEF d
  <2> QED BY DEF Restrict
<1> HIDE DEF nd
<1>5. DomainsOK(nd)
  BY <1>2, <1>3, <1>4 DEF RulesOK, DomainsOK
<1>6. next = [default |-> rules.default, domains |-> nd]
  BY <1>2 DEF RulesOK
<1> HIDE DEF next
<1>7. RulesOK(next)
  BY <1>2, <1>5, <1>6 DEF RulesOK
<1> QED
  BY <1>1, <1>7, FileChange

LEMMA FileStarts ==
    ASSUME NoneApart, FileInv, main
    PROVE  FileInv'
<1>1. /\ admin = None /\ UNCHANGED <<file, admin>> /\ up'
      /\ rules' = IF HasFile THEN loadRulesFile(file) ELSE None
      /\ HasFile => loadRulesFile(file) # None
  BY DEF main, FileInv
<1>2. HasFile => RulesOK(loadRulesFile(file))
  <2>1. CASE file = None
    <3> DEFINE d == <<>>
               r == [default |-> Flag, domains |-> d]
    <3>1. DOMAIN d = {} /\ d = [n \in DOMAIN d |-> d[n]]
      OBVIOUS
    <3>2. DomainsOK(d)
      <4> HIDE DEF d
      <4> QED BY <3>1, FS_EmptySet DEF DomainsOK
    <3> HIDE DEF d
    <3>3. RulesOK(r)
      BY <3>2, ConfigAssumption DEF RulesOK, Policies, ConfigAssumption
    <3> QED
      BY <2>1, <3>3 DEF loadRulesFile, d
  <2>2. CASE file # None
    BY <1>1, <2>2, ParseOK DEF FileInv, loadRulesFile
  <2> QED
    BY <2>1, <2>2
<1> QED
  BY <1>1, <1>2 DEF FileInv

LEMMA FileStep ==
    ASSUME NoneApart, FileInv, [Next]_vars PROVE FileInv'
<1>1. CASE UNCHANGED <<up, file, rules, admin>>
  BY <1>1 DEF FileInv
<1>2. CASE main
  BY <1>2, FileStarts
<1>3. CASE Crash
  BY <1>3 DEF Crash, FileInv
<1>4. ASSUME NEW f \in Files, Edit(f) PROVE FileInv'
  <2>1. IsList(f)
    BY ConfigAssumption DEF ConfigAssumption, IsList
  <2> QED
    BY <1>4, <2>1 DEF Edit, FileInv
<1>5. ASSUME NEW b \in Puts, Replace(b) PROVE FileInv'
  <2>1. RulesOK(toRules(b)) /\ Change(toRules(b))
    BY <1>5, BodyOK, ConfigAssumption DEF Replace, ConfigAssumption, IsList
  <2> QED
    BY <2>1, FileChange
<1>6. CASE publish
  BY <1>6 DEF publish, FileInv
<1>7. ASSUME NEW c \in Conns,
             \/ Handler(c) \/ TimeOut(c) \/ \E s \in Schemes : serveDNS(c, s)
             \/ \E dir \in {"out", "back"} : \/ SourceEnds(c, dir) \/ CopyFails(c, dir)
                                             \/ Stall(c, dir) \/ Resume(c, dir)
      PROVE  UNCHANGED <<up, file, rules, admin>>
  <2>1. CASE Handler(c)
    BY <2>1, Zenon DEF Handler, Accept, TakeSlot, Route, Refused, Check, Conclude, markPending,
       Wake, Dial, Close, Rest
  <2>2. CASE TimeOut(c) \/ \E s \in Schemes : serveDNS(c, s)
    BY <2>2 DEF TimeOut, serveDNS, Rest
  <2>3. CASE \E dir \in {"out", "back"} : \/ SourceEnds(c, dir) \/ CopyFails(c, dir)
                                          \/ Stall(c, dir) \/ Resume(c, dir)
    BY <2>3 DEF SourceEnds, CopyFails, Stall, Resume, Rest
  <2> QED
    BY <1>7, <2>1, <2>2, <2>3
<1>8. ASSUME NEW s \in Schemes, AcceptFails(s) PROVE UNCHANGED <<up, file, rules, admin>>
  BY <1>8 DEF AcceptFails
<1> QED
  BY <1>1, <1>2, <1>3, <1>4, <1>5, <1>6, <1>7, <1>8, FileDecides, FileRemoves DEF Next, vars

\* What the file holds is what the engine decides by whenever no change is under
\* way: through its text and back, after failed writes, crashes and restarts.
THEOREM FileTrue == ASSUME NoneApart PROVE Spec => []FileAgrees
<1>1. Init => FileInv
  BY FileInit
<1>2. FileInv /\ [Next]_vars => FileInv'
  BY FileStep
<1>3. FileInv => FileAgrees
  BY DEF FileInv, FileAgrees
<1> QED
  BY <1>1, <1>2, <1>3, PTL DEF Spec
=============================================================================
