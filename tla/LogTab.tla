------------------------------- MODULE LogTab -------------------------------
(***************************************************************************)
(* A LogTab (kelso/lib/logtab.py): a file of records, each setting a key,  *)
(* deleting one, or clearing all under a prefix.  A record is appended by  *)
(* opening the file, writing to its end, and closing it.  A table made to  *)
(* compact itself does so after a write that left it too large: it reads   *)
(* the file, writes what is still in effect and the newest records to a    *)
(* second file, and renames that over the first.  Nothing locks the file.  *)
(*                                                                         *)
(* metrics_log has one writer, kelsod's job thread.  activity_log has as   *)
(* many as there are kelso processes: every verb records there what it did *)
(* to an app, and every activity indexes itself.                           *)
(*                                                                         *)
(* A definition introduced as a mutant is a wrong variant of the one after *)
(* it, used by nothing: put in its place, it makes a property fail.        *)
(***************************************************************************)
EXTENDS Integers, FiniteSets, Sequences

CONSTANTS
    Writers,      \* processes that write
    Keys, Values, None, Under,   \* as in KeyTable
    CompactSize,  \* records a file may hold before a write compacts it
    History,      \* newest records a compaction keeps as they are
    MaxWrites,    \* bound: records written
    MaxCrashes    \* bound: writers killed

ASSUME ConstantsAssumption ==
    /\ None \notin Values
    /\ \A p \in DOMAIN Under : Under[p] \subseteq Keys /\ (p \in Keys => p \in Under[p])
    /\ CompactSize \in Nat /\ History \in Nat
    /\ MaxWrites \in Nat /\ MaxCrashes \in Nat

VARIABLES
    file,         \* the records of the file
    inode,        \* how often the file was replaced by another
    compacted,    \* the second file if it is there: {} or {its records}
    at,           \* per writer, what it does next
    rec,          \* per writer, the record it writes
    fd,           \* per writer, the file it has open
    snap,         \* per writer, the records it compacts
    log,          \* every record ever appended
    crashes       \* writers killed so far

vars == <<file, inode, compacted, at, rec, fd, snap, log, crashes>>

Records == [op : {"set"}, key : Keys, value : Values]
      \cup [op : {"del"}, key : Keys, value : {None}]
      \cup [op : {"clr"}, key : DOMAIN Under, value : {None}]
NoRecord == CHOOSE r \in Records : TRUE

Init ==
    /\ file = <<>> /\ log = <<>>
    /\ inode = 0
    /\ compacted = {}
    /\ at = [w \in Writers |-> "idle"]
    /\ rec = [w \in Writers |-> NoRecord]
    /\ fd = [w \in Writers |-> 0]
    /\ snap = [w \in Writers |-> <<>>]
    /\ crashes = 0

-----------------------------------------------------------------------------
(* Reading. *)

Entry(t, r) == [ts |-> t, value |-> r.value]
NoEntry == [ts |-> 0, value |-> None]

\* What a record does to the entries before it; load and compact both go through
\* the records in this way.
Apply(entries, r) ==
    CASE r.op = "set" -> [entries EXCEPT ![r.key] = Entry(r.ts, r)]
      [] r.op = "del" -> [entries EXCEPT ![r.key] = NoEntry]
      [] r.op = "clr" -> [k \in Keys |-> IF k \in Under[r.key] THEN NoEntry
                                                              ELSE entries[k]]
current(records) ==
    LET upTo[n \in 0..Len(records)] ==
            IF n = 0 THEN [k \in Keys |-> NoEntry] ELSE Apply(upTo[n - 1], records[n])
    IN  upTo[Len(records)]
load(records) == [k \in Keys |-> current(records)[k].value]

-----------------------------------------------------------------------------
(* Compaction. *)

last(n, s) == SubSeq(s, Len(s) - n + 1, Len(s))

\* A set of records in the order they were written; no two are of the same time.
oldestFirst(S) == [i \in 1..Cardinality(S) |->
                      CHOOSE r \in S : Cardinality({q \in S : q.ts < r.ts}) = i - 1]

\* Mutant: only the newest records are kept.
compactSuffix(records) == last(History, records)
\* Mutant: what is in effect goes after the newest records, keys they mention too.
compactAppend(records) ==
    LET now == current(records)
        kept == {k \in Keys : now[k] # NoEntry}
    IN  last(History, records)
        \o oldestFirst({[op |-> "set", key |-> k, value |-> now[k].value, ts |-> now[k].ts] :
                            k \in kept})
\* The newest records as they are, and before them, oldest first, the entries in
\* effect whose keys they do not mention.
compact(records) ==
    LET now      == current(records)
        suffix   == last(History, records)
        mentions == {suffix[i].key : i \in DOMAIN suffix}
        kept     == {k \in Keys : now[k] # NoEntry /\ k \notin mentions}
        backfill == {[op |-> "set", key |-> k, value |-> now[k].value, ts |-> now[k].ts] :
                         k \in kept}
    IN  oldestFirst(backfill) \o suffix

-----------------------------------------------------------------------------
(* Writing. *)

Goto(w, l) == at' = [at EXCEPT ![w] = l]

\* write, delete or clear opens the file that has the name now.
Open(w) ==
    /\ at[w] = "idle" /\ Len(log) < MaxWrites
    /\ \E r \in Records : rec' = [rec EXCEPT ![w] = r]
    /\ fd' = [fd EXCEPT ![w] = inode]
    /\ Goto(w, "append")
    /\ UNCHANGED <<file, inode, compacted, snap, log, crashes>>

\* The record goes to the end of the file that was opened.
Stamped(w) == [op |-> rec[w].op, key |-> rec[w].key, value |-> rec[w].value,
               ts |-> Len(log) + 1]
AppendRecord(w) ==
    /\ at[w] = "append"
    /\ log' = Append(log, Stamped(w))
    /\ file' = IF fd[w] = inode THEN Append(file, Stamped(w)) ELSE file
    /\ Goto(w, "stat")
    /\ UNCHANGED <<inode, compacted, rec, fd, snap, crashes>>

MaybeCompact(w) ==
    /\ at[w] = "stat"
    /\ Goto(w, IF Len(file) > CompactSize THEN "read" ELSE "idle")
    /\ UNCHANGED <<file, inode, compacted, rec, fd, snap, log, crashes>>

\* A file with fewer records than are to be kept is left alone.
Read(w) ==
    /\ at[w] = "read"
    /\ LET short == History > 0 /\ Len(file) < History IN
       /\ Goto(w, IF short THEN "idle" ELSE "rewrite")
       /\ snap' = [snap EXCEPT ![w] = IF short THEN <<>> ELSE file]
    /\ UNCHANGED <<file, inode, compacted, rec, fd, log, crashes>>

\* Every writer's second file has the same name.
Rewrite(w) ==
    /\ at[w] = "rewrite"
    /\ compacted' = {compact(snap[w])}
    /\ Goto(w, "replace")
    /\ snap' = [snap EXCEPT ![w] = <<>>]
    /\ UNCHANGED <<file, inode, rec, fd, log, crashes>>

\* The rename; it raises when another writer's took the second file away.
Replace(w) ==
    /\ at[w] = "replace"
    /\ IF compacted = {} THEN UNCHANGED <<file, inode>>
                         ELSE file' \in compacted /\ inode' = inode + 1
    /\ compacted' = {}
    /\ Goto(w, "idle")
    /\ UNCHANGED <<rec, fd, snap, log, crashes>>

\* A writer is killed.  A second file it leaves is truncated by the next.
Crash(w) ==
    /\ at[w] # "idle" /\ crashes < MaxCrashes
    /\ crashes' = crashes + 1
    /\ Goto(w, "idle") /\ snap' = [snap EXCEPT ![w] = <<>>]
    /\ UNCHANGED <<file, inode, compacted, rec, fd, log>>

Next == \E w \in Writers : \/ Open(w) \/ AppendRecord(w) \/ MaybeCompact(w)
                           \/ Read(w) \/ Rewrite(w) \/ Replace(w) \/ Crash(w)

Spec == Init /\ [][Next]_vars

-----------------------------------------------------------------------------
(* Properties. *)

\* The table is what KeyTable says it is: an operation takes effect when its
\* record is appended, and a compaction, a crash in one included, has no effect.
Table == INSTANCE KeyTable WITH table <- load(file)
IsKeyTable == Table!Spec

\* The newest records can always be listed, in the order they were written.
KeepsHistory ==
    LET n == IF Len(log) < History THEN Len(log) ELSE History
    IN  Len(file) >= n /\ last(n, file) = last(n, log)
=============================================================================
