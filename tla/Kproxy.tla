------------------------------- MODULE Kproxy -------------------------------
(***************************************************************************)
(* kproxy: the DNS server and transparent HTTP/HTTPS proxy that decides    *)
(* outbound connections by domain (kproxy/*.go).                           *)
(*                                                                         *)
(* One goroutine per connection reads a host, decides it against an        *)
(* immutable snapshot of the rules and, while no rule decides it, waits    *)
(* for the snapshot's channel to be closed or for its hold to run out.     *)
(* Admin requests change the rules one at a time under the engine's mutex, *)
(* which also guards the list of pending hosts; the snapshot is read       *)
(* without it.  A name is the sequence of its labels, outermost last.      *)
(*                                                                         *)
(* A definition introduced as a mutant is a wrong variant of the one after *)
(* it, used by nothing: put in its place, it makes a property fail.        *)
(***************************************************************************)
EXTENDS Integers, Sequences, FiniteSets, Functions

CONSTANTS
    Conns,       \* client connections, each used again when it is closed
    Heads,       \* hosts as clients write them, [labels, odd]
    Schemes,     \* http, https: one listener each
    ICANN,       \* public suffixes of the list's ICANN section
    Private,     \* and of its private section
    IPs,         \* names that are IP literals
    Puts,        \* bodies of PUT /rules, [default, rules]
    Decisions,   \* bodies of POST /decide, [name, verdict]
    Removals,    \* names of DELETE /rules/{name}
    Files,       \* rules files somebody may have written by hand
    HasFile,     \* --rules-file is given
    Flag,        \* --default
    GoodTargets, \* HOST:PORT strings that are targets
    None,        \* no target, no rules, no file
    MaxConns,    \* --max-conns
    MaxPending,  \* hosts listed as pending at once
    MaxStatsKeys, \* keys of the stats table
    MaxChanges,  \* bound: rule changes
    MaxArrivals, \* bound: connections ever opened
    MaxFaults    \* bound: crashes, failed writes and dials, stalled peers, dead listeners

\* The flag is parsed as a policy; files and bodies are lists.
ConfigAssumption ==
    /\ Flag \in {"allow", "deny", "ask"}
    /\ \A f \in Files : f # None /\ Len(f) \in Nat /\ DOMAIN f = 1..Len(f)
    /\ \A p \in Puts : Len(p.rules) \in Nat /\ DOMAIN p.rules = 1..Len(p.rules)
ASSUME ConfigAssumption

VARIABLES
    up,       \* the process runs
    file,     \* the rules file, a sequence of lines, or None
    rules,    \* the current snapshot's rules, None until the first load
    epoch,    \* how often the snapshot was replaced
    pending,  \* hosts listed as undecided
    admin,    \* the rules the request that holds the mutex is about to install, or None
    conn,     \* per connection, its goroutine
    deaf,     \* schemes whose listener accepts no more
    stats,    \* per key, the counters
    arrivals, \* connections opened so far
    faults    \* faults so far

vars == <<up, file, rules, epoch, pending, admin, conn, deaf, stats, arrivals, faults>>

-----------------------------------------------------------------------------
(* Names, rules and the rules file. *)

\* A name as somebody writes it: in odd case or with a trailing dot, or plain.
normHost(raw) == raw.labels

Suffixes(n) == {SubSeq(n, i, Len(n)) : i \in 1..Len(n)}
Longest(ns) == CHOOSE n \in ns : \A o \in ns : Len(o) <= Len(n)
Specific(ns) == IF ns = {} THEN <<>> ELSE Longest(ns)

\* The ICANN suffix of a name and the private suffixes above it; a name under
\* no known suffix has its last label as a private one.
suffixes(n) ==
    LET icann == Specific(Suffixes(n) \cap ICANN)
        known == {s \in Suffixes(n) \cap Private : Len(s) > Len(icann)}
    IN  [icann   |-> icann,
         private |-> IF icann = <<>> THEN known \cup {<<n[Len(n)]>>} ELSE known]

rootDomain(n) ==
    IF n = <<>> \/ n \in IPs THEN <<>>
    ELSE LET s == suffixes(n).icann
         IN  IF s \in {<<>>, n} THEN <<>> ELSE SubSeq(n, Len(n) - Len(s), Len(n))

ruleName(raw) == LET n == normHost(raw) IN IF n = <<>> \/ n \in IPs THEN None ELSE n

NoRule == [verdict |-> "none", target |-> None]
\* The rule of a verdict and a target, or NoRule where they make none.
newRule(verdict, target) ==
    IF /\ verdict \in {"allow", "deny"}
       /\ target = None \/ (verdict = "allow" /\ target \in GoodTargets)
    THEN [verdict |-> verdict, target |-> target]
    ELSE NoRule

\* The most specific rule that matches.
lookup(r, n) ==
    LET ms == Suffixes(n) \cap DOMAIN r.domains
    IN  IF ms = {} THEN NoRule ELSE r.domains[Longest(ms)]

Decided(r, n) == r.default # "ask" \/ lookup(r, n) # NoRule

\* Entries in order, the last one for a name standing; None if one is bad.
Entries(es, at) ==
    LET Name(i) == ruleName(es[i].name)
        Rule(i) == newRule(es[i].verdict, es[i].target)
        Last(n) == CHOOSE i \in at : Name(i) = n /\ \A j \in at : j > i => Name(j) # n
    IN  IF \E i \in at : Name(i) = None \/ Rule(i) = NoRule THEN None
        ELSE [n \in {Name(i) : i \in at} |-> Rule(Last(n))]

Rules(default, domains) ==
    IF domains = None \/ default \notin {"allow", "deny", "ask"} THEN None
    ELSE [default |-> default, domains |-> domains]

\* The lines of a file: a policy, of which the last one stands, or an entry.
OfKind(lines, kind) == {i \in DOMAIN lines : lines[i].kind = kind}
PolicyOf(lines, policy) ==
    LET at == OfKind(lines, "default")
    IN  IF at = {} THEN policy ELSE lines[CHOOSE i \in at : \A j \in at : j <= i].policy
parseRules(lines, policy) ==
    Rules(PolicyOf(lines, policy), Entries(lines, OfKind(lines, "rule")))

toRules(put) == Rules(put.default, Entries(put.rules, DOMAIN put.rules))

Line(r, n) == [kind |-> "rule", name |-> [labels |-> n, odd |-> FALSE],
               verdict |-> r.domains[n].verdict, target |-> r.domains[n].target]
\* Any one order stands for the sorted one: a name has one line.
sorted(r) == CHOOSE s \in Bijection(1..Cardinality(DOMAIN r.domains), DOMAIN r.domains) : TRUE

\* Mutant: targets are not written.
FormatNoTarget(r) ==
    <<[kind |-> "default", policy |-> r.default]>>
    \o [i \in 1..Cardinality(DOMAIN r.domains) |-> [Line(r, sorted(r)[i]) EXCEPT !.target = None]]
\* The policy, then the rules.
format(r) ==
    <<[kind |-> "default", policy |-> r.default]>>
    \o [i \in 1..Cardinality(DOMAIN r.domains) |-> Line(r, sorted(r)[i])]

\* A missing file is an empty set of rules with the policy of the flag.
loadRulesFile(f) == IF f = None THEN [default |-> Flag, domains |-> <<>>] ELSE parseRules(f, Flag)

-----------------------------------------------------------------------------
(* Counters. *)

NoCount == [conns |-> 0, allowed |-> 0, denied |-> 0, timedOut |-> 0, held |-> 0]

\* The key a new connection is counted under: another one's when the table is full.
statsKey(domain, scheme) ==
    IF <<domain, scheme>> \in DOMAIN stats \/ Cardinality(DOMAIN stats) < MaxStatsKeys
    THEN <<domain, scheme>> ELSE <<<<"other">>, scheme>>

Counted(st, key) ==
    [k \in DOMAIN st \cup {key} |->
        LET c == IF k \in DOMAIN st THEN st[k] ELSE NoCount
        IN  IF k = key THEN [c EXCEPT !.conns = @ + 1] ELSE c]

record(st, key, outcome, held) ==
    [st EXCEPT ![key] = [@ EXCEPT ![outcome] = @ + 1, !.held = IF held THEN @ + 1 ELSE @]]

-----------------------------------------------------------------------------
(* The process. *)

Closed == [pc |-> "closed", scheme |-> "none", host |-> <<>>, key |-> <<>>, seen |-> 0,
           held |-> FALSE, marked |-> FALSE, missed |-> FALSE, target |-> None,
           out |-> "none", back |-> "none", stalled |-> {}]

Init ==
    /\ up = FALSE
    /\ file \in (IF HasFile THEN {None} \cup Files ELSE {None})
    /\ rules = None /\ epoch = 0 /\ pending = {} /\ admin = None
    /\ conn = [c \in Conns |-> Closed] /\ deaf = {}
    /\ stats = <<>> /\ arrivals = 0 /\ faults = 0

Fault == faults < MaxFaults /\ faults' = faults + 1

\* main: a rules file that does not parse ends the process; without a file
\* there are no rules until the first PUT.
main ==
    /\ ~up
    /\ LET initial == IF HasFile THEN loadRulesFile(file) ELSE None
       IN  /\ HasFile => initial # None
           /\ rules' = initial
    /\ up' = TRUE
    /\ UNCHANGED <<file, epoch, pending, admin, conn, deaf, stats, arrivals, faults>>

\* The process dies; everything but the file is gone.
Crash ==
    /\ up /\ Fault
    /\ up' = FALSE /\ rules' = None /\ pending' = {} /\ admin' = None /\ stats' = <<>>
    /\ conn' = [c \in Conns |-> Closed] /\ deaf' = {}
    /\ UNCHANGED <<file, epoch, arrivals>>

\* Somebody writes the file while the process is down.
Edit(f) ==
    /\ HasFile /\ ~up /\ Fault
    /\ file' = f
    /\ UNCHANGED <<up, rules, epoch, pending, admin, conn, deaf, stats, arrivals>>

-----------------------------------------------------------------------------
(* Rule changes: the request takes the mutex, saves the rules, and installs  *)
(* them.  Between the two the snapshot still has the old ones.               *)

\* writeRulesFile: the file has the new rules, or the change is off.
persist(next) ==
    \/ /\ file' = IF HasFile THEN format(next) ELSE None
       /\ admin' = next
       /\ UNCHANGED faults
    \/ HasFile /\ Fault /\ UNCHANGED <<file, admin>>

Change(next) ==
    /\ up /\ admin = None /\ epoch < MaxChanges
    /\ persist(next)
    /\ UNCHANGED <<up, rules, epoch, pending, conn, deaf, stats, arrivals>>

\* A body that makes no rules changes nothing.
Replace(put) == toRules(put) # None /\ Change(toRules(put))
\* Sets a verdict only: the rule loses its target.
Decide(d) ==
    /\ rules # None /\ ruleName(d.name) # None
    /\ LET n == ruleName(d.name)
           r == newRule(d.verdict, None)
       IN  /\ r # NoRule
           /\ Change([rules EXCEPT !.domains =
                  [m \in DOMAIN @ \cup {n} |-> IF m = n THEN r ELSE @[m]]])
Remove(raw) ==
    /\ rules # None /\ ruleName(raw) \in DOMAIN rules.domains
    /\ Change([rules EXCEPT !.domains = Restrict(@, DOMAIN @ \ {ruleName(raw)})])

\* Mutants: every host leaves the list; waiters are not woken.
InstallDropAll ==
    /\ up /\ admin # None
    /\ pending' = {}
    /\ rules' = admin /\ epoch' = epoch + 1 /\ admin' = None
    /\ UNCHANGED <<up, file, conn, deaf, stats, arrivals, faults>>
InstallQuiet ==
    /\ up /\ admin # None
    /\ pending' = {h \in pending : ~Decided(admin, h)}
    /\ rules' = admin /\ admin' = None
    /\ UNCHANGED <<up, file, epoch, conn, deaf, stats, arrivals, faults>>
\* publish: hosts the new rules decide leave the list, and whoever waits on
\* the old snapshot is woken.
publish ==
    /\ up /\ admin # None
    /\ pending' = {h \in pending : ~Decided(admin, h)}
    /\ rules' = admin /\ epoch' = epoch + 1 /\ admin' = None
    /\ UNCHANGED <<up, file, conn, deaf, stats, arrivals, faults>>

-----------------------------------------------------------------------------
(* A connection. *)

Set(c, new) == conn' = [conn EXCEPT ![c] = new]
Go(c, pc)   == Set(c, [conn[c] EXCEPT !.pc = pc])
Rest == <<up, file, rules, epoch, admin, deaf, arrivals>>

\* Every A question is answered with the address it arrived on, the proxy's
\* own on the asker's network, and every other one with nothing.
dnsAnswer(type, self) == IF type = "A" THEN {self} ELSE {}

\* The client resolves the name it wants, over UDP or TCP, and comes to what
\* it was told; its connection waits in the listener's backlog.
serveDNS(c, scheme) ==
    /\ up /\ conn[c].pc = "closed" /\ arrivals < MaxArrivals
    /\ \E type \in {"A", "AAAA"} : dnsAnswer(type, "proxy") = {"proxy"}
    /\ arrivals' = arrivals + 1
    /\ Set(c, [Closed EXCEPT !.pc = "backlog", !.scheme = scheme])
    /\ UNCHANGED <<up, file, rules, epoch, pending, admin, deaf, stats, faults>>

Handled == {c \in Conns : conn[c].pc \notin {"closed", "backlog", "accepted"}}
Accepting(s) == s \notin deaf /\ \A o \in Conns : conn[o].pc = "accepted" => conn[o].scheme # s
\* The listener accepts, then waits for a slot with what it accepted.
Accept(c) ==
    /\ conn[c].pc = "backlog" /\ Accepting(conn[c].scheme)
    /\ Go(c, "accepted")
    /\ UNCHANGED <<Rest, pending, stats, faults>>
\* An error from the listener ends its loop, and the process goes on without it.
AcceptFails(s) ==
    /\ up /\ Accepting(s) /\ Fault
    /\ deaf' = deaf \cup {s}
    /\ UNCHANGED <<up, file, rules, epoch, pending, admin, conn, stats, arrivals>>
TakeSlot(c) ==
    /\ conn[c].pc = "accepted" /\ Cardinality(Handled) < MaxConns
    /\ Go(c, "head")
    /\ UNCHANGED <<Rest, pending, stats, faults>>

\* handleHTTPS, handleHTTP: what an outcome leads to.  A denied client is told.
After(outcome) == IF outcome = "allowed" THEN "dial" ELSE "close"
Answer(c, outcome, held, target) ==
    Set(c, [conn[c] EXCEPT !.pc = After(outcome), !.held = held, !.target = target])

\* refuse: no host, or one only a rule with a target could allow.
Refused(c) ==
    LET key == statsKey(<<"unknown">>, conn[c].scheme)
    IN  /\ stats' = record(Counted(stats, key), key, "denied", FALSE)
        /\ Answer(c, "denied", FALSE, None)
        /\ UNCHANGED <<Rest, pending, faults>>

\* The head is read, or its time is up and there is no host.  A name without a
\* root domain is decided by the rules of the moment; any other goes to Check.
Route(c, raw) ==
    LET n    == normHost(raw)
        root == rootDomain(n)
        rule == IF rules = None THEN NoRule ELSE lookup(rules, n)
    IN  /\ conn[c].pc = "head"
        /\ \/ (n = <<>> \/ n \in IPs) /\ Refused(c)
           \/ /\ n # <<>> /\ n \notin IPs /\ root = <<>>
              /\ rule.verdict # "allow" \/ rule.target = None
              /\ Refused(c)
           \/ /\ n # <<>> /\ n \notin IPs /\ root = <<>>
              /\ rule.verdict = "allow" /\ rule.target # None
              /\ LET key == statsKey(n, conn[c].scheme)
                 IN  stats' = record(Counted(stats, key), key, "allowed", FALSE)
              /\ Answer(c, "allowed", FALSE, rule.target)
              /\ UNCHANGED <<Rest, pending, faults>>
           \/ /\ root # <<>>
              /\ LET key == statsKey(root, conn[c].scheme)
                 IN  /\ stats' = Counted(stats, key)
                     /\ Set(c, [conn[c] EXCEPT !.pc = "check", !.host = n, !.key = key,
                                               !.seen = epoch])
              /\ UNCHANGED <<Rest, pending, faults>>

\* The rest of route: the connection is counted under its outcome.
Conclude(c, outcome, target) ==
    /\ stats' = record(stats, conn[c].key, outcome, conn[c].held)
    /\ Answer(c, outcome, conn[c].held, target)
    /\ UNCHANGED <<Rest, pending, faults>>

\* The snapshot is loaded and decides nothing: the host is listed, once per
\* connection, and the wait is on this snapshot's channel.
Load(c) == [conn[c] EXCEPT !.pc = IF rules = None \/ conn[c].marked THEN "wait" ELSE "mark",
                           !.missed = @ \/ epoch > conn[c].seen + 1,
                           !.seen = epoch]

\* One turn of Check's loop.
Check(c) ==
    /\ conn[c].pc = "check"
    /\ \/ /\ rules # None /\ lookup(rules, conn[c].host) # NoRule
          /\ LET rule == lookup(rules, conn[c].host)
             IN  Conclude(c, IF rule.verdict = "allow" THEN "allowed" ELSE "denied", rule.target)
       \/ /\ rules # None /\ lookup(rules, conn[c].host) = NoRule /\ rules.default # "ask"
          /\ Conclude(c, IF rules.default = "allow" THEN "allowed" ELSE "denied", None)
       \/ /\ rules = None \/ ~Decided(rules, conn[c].host)
          /\ Set(c, Load(c))
          /\ UNCHANGED <<Rest, pending, stats, faults>>

\* markPending takes the mutex, so it comes before or after a change and never
\* within one.  Over the limit the host is held and not listed.
markPending(c) ==
    /\ conn[c].pc = "mark" /\ admin = None
    /\ LET full == conn[c].host \notin pending /\ Cardinality(pending) >= MaxPending
       IN  /\ pending' = IF full THEN pending ELSE pending \cup {conn[c].host}
           /\ Set(c, [conn[c] EXCEPT !.pc = "wait", !.marked = TRUE, !.missed = @ \/ full])
    /\ UNCHANGED <<Rest, stats, faults>>

Wake(c) ==
    /\ conn[c].pc = "wait" /\ epoch > conn[c].seen
    /\ Set(c, [conn[c] EXCEPT !.pc = "check", !.held = TRUE])
    /\ UNCHANGED <<Rest, pending, stats, faults>>
\* The hold, counted from the first wait, is over.
TimeOut(c) ==
    /\ conn[c].pc = "wait"
    /\ stats' = record(stats, conn[c].key, "timedOut", TRUE)
    /\ Answer(c, "timedOut", TRUE, None)
    /\ UNCHANGED <<Rest, pending, faults>>

\* The upstream is dialled and the head replayed, or that fails.
Dial(c) ==
    /\ conn[c].pc = "dial"
    /\ \/ /\ Set(c, [conn[c] EXCEPT !.pc = "pipe", !.out = "copy", !.back = "copy"])
          /\ UNCHANGED faults
       \/ Fault /\ Go(c, "close")
    /\ UNCHANGED <<Rest, pending, stats>>

\* The direction copies, "out" from the client and "back" from upstream.
Copying(c, dir) == conn[c].pc = "pipe" /\ conn[c][dir] \in {"copy", "deadline"}
\* A peer reads no more, and the write to it blocks: there is no deadline for
\* writing.  It may read on, or never.  The head is the first thing written.
Stall(c, dir) ==
    /\ Copying(c, dir) /\ dir \notin conn[c].stalled /\ Fault
    /\ Set(c, [conn[c] EXCEPT !.stalled = @ \cup {dir}])
    /\ UNCHANGED <<Rest, pending, stats>>
Resume(c, dir) ==
    /\ Copying(c, dir) /\ dir \in conn[c].stalled
    /\ Set(c, [conn[c] EXCEPT !.stalled = @ \ {dir}])
    /\ UNCHANGED <<Rest, pending, stats, faults>>

Other(dir) == IF dir = "out" THEN "back" ELSE "out"
\* Mutant: the side that goes on is given no deadline.
HalfCloseOpen(k, dir) == [k EXCEPT ![dir] = "done"]
\* One direction's source is at its end: the other's reads have a deadline.
HalfClose(k, dir) == [k EXCEPT ![dir] = "done",
                               ![Other(dir)] = IF @ = "copy" THEN "deadline" ELSE @]
\* A peer finishes sending, and is read to its end.
SourceEnds(c, dir) ==
    /\ Copying(c, dir) /\ dir \notin conn[c].stalled
    /\ Set(c, HalfClose(conn[c], dir))
    /\ UNCHANGED <<Rest, pending, stats, faults>>
\* Copying fails, and both connections are closed: a read at the deadline, if
\* the copy reads at all, or anything at any time.
AtDeadline(c, dir) == conn[c][dir] = "deadline" /\ dir \notin conn[c].stalled
CopyFails(c, dir) ==
    /\ Copying(c, dir)
    /\ (AtDeadline(c, dir) /\ UNCHANGED faults) \/ Fault
    /\ Set(c, [conn[c] EXCEPT !.out = "done", !.back = "done", !.stalled = {}])
    /\ UNCHANGED <<Rest, pending, stats>>

\* The handler returns: the client's connection is closed and the slot free.
Close(c) ==
    /\ \/ conn[c].pc = "close"
       \/ conn[c].pc = "pipe" /\ conn[c].out = "done" /\ conn[c].back = "done"
    /\ Set(c, Closed)
    /\ UNCHANGED <<Rest, pending, stats, faults>>

Handler(c) ==
    \/ Accept(c) \/ TakeSlot(c) \/ \E h \in Heads : Route(c, h)
    \/ Check(c) \/ markPending(c) \/ Wake(c) \/ Dial(c) \/ Close(c)

Next ==
    \/ main \/ Crash \/ publish
    \/ \E f \in Files : Edit(f)
    \/ \E p \in Puts : Replace(p)
    \/ \E d \in Decisions : Decide(d)
    \/ \E n \in Removals : Remove(n)
    \/ \E c \in Conns : \/ Handler(c) \/ TimeOut(c)
                        \/ \E s \in Schemes : serveDNS(c, s)
                        \/ \E dir \in {"out", "back"} : \/ SourceEnds(c, dir) \/ CopyFails(c, dir)
                                                        \/ Stall(c, dir) \/ Resume(c, dir)
    \/ \E s \in Schemes : AcceptFails(s)

\* Goroutines run on; a hold and a deadline pass; a change that was saved is
\* installed.  Stalls are faults, of which there are finitely many: a copy that
\* reads again after its deadline fails at once.  Nothing makes a peer finish or
\* read, or the process start.
Fairness ==
    /\ WF_vars(publish)
    /\ \A c \in Conns :
        /\ WF_vars(Handler(c)) /\ SF_vars(markPending(c))
        /\ WF_vars(TimeOut(c))
        /\ WF_vars(\E dir \in {"out", "back"} : AtDeadline(c, dir) /\ CopyFails(c, dir))

Spec == Init /\ [][Next]_vars /\ Fairness

-----------------------------------------------------------------------------
(* Properties. *)

\* What the file holds is what the engine decides by, whenever no change is
\* under way: through the text of the file and back, after a write that failed
\* and after a crash between the write and the new snapshot.
FileAgrees == up /\ HasFile /\ admin = None => loadRulesFile(file) = rules

\* No wakeup is lost: a connection that waits although the rules decide its
\* host waits on a snapshot that has been replaced, whose channel is closed.
NoLostWakeup ==
    \A c \in Conns :
        conn[c].pc \in {"mark", "wait"} /\ rules # None /\ Decided(rules, conn[c].host)
            => conn[c].seen < epoch

\* A host somebody is held for is listed as pending, so that it can be decided:
\* unless the list was full when the connection came, or two changes went by
\* between two of its looks, the first of which may have taken the host off the
\* list (a connection lists its host only once).
HeldListed ==
    \A c \in Conns :
        /\ conn[c].pc = "wait" /\ conn[c].marked /\ ~conn[c].missed
        /\ conn[c].seen = epoch /\ rules # None
        => conn[c].host \in pending

\* A connection that has a slot ends and frees it, whatever the rules and the
\* admin do, unless its peers both go on sending or one of them never reads
\* again.  The comment of halfCloseTimeout promises that a peer that never
\* closes cannot hold the connection forever; one that stops reading can, for
\* the deadline is set for reading only, so the exception is the code's own.
EveryConnEnds ==
    \A c \in Conns :
        \/ []<>(c \notin Handled \/ (conn[c].out = "copy" /\ conn[c].back = "copy"))
        \/ <>[](conn[c].stalled # {})
=============================================================================
