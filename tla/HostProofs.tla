----------------------------- MODULE HostProofs -----------------------------
(***************************************************************************)
(* Proofs about parts of the host: the web console, config.toml and the    *)
(* mirrored repositories, the editing of manifests, the logs of runs, a    *)
(* table with one writer, the keys of secrets, and which backups are kept, *)
(* each by its own specification and for every value of its constants.     *)
(***************************************************************************)
EXTENDS MCHost, FiniteSetTheorems, SequenceTheorems, WellFoundedInduction, TLAPS

-----------------------------------------------------------------------------
(* The console. *)

\* Until kelsod is at its end the client runs, or has gone with its shell;
\* after, a session whose pid was read has left nothing, or killing it failed.
ConsoleInv ==
    /\ phase \in {"off", "relay", "finish", "end", "hangup", "close", "over"}
    /\ client = "exited" => shell # "runs"
    /\ phase \in {"relay", "finish", "end"} => client \in {"runs", "exited"}
    /\ phase \in {"hangup", "close", "over"} => client # "runs"
    /\ phase \in {"close", "over"} /\ shell = "runs" => marker # "read"

LEMMA ConsoleInit == ASSUME W!Init PROVE ConsoleInv
BY DEF W!Init, ConsoleInv

LEMMA ConsoleStep ==
    ASSUME ConsoleInv, [W!Next]_(W!vars) PROVE ConsoleInv'
<1> USE DEF ConsoleInv
<1>1. CASE W!connect
  BY <1>1 DEF W!connect
<1>2. CASE W!BrowserLeaves \/ W!BridgeEnds \/ UNCHANGED W!vars
  BY <1>2 DEF W!BrowserLeaves, W!BridgeEnds, W!vars
<1>3. CASE W!Announce \/ W!ShellExits
  BY <1>3 DEF W!Announce, W!ShellExits
<1>4. CASE W!Traffic \/ W!Quiet \/ W!RelayEnds
  BY <1>4 DEF W!Traffic, W!Quiet, W!RelayEnds
<1>5. CASE W!Finish \/ W!Cancelled
  BY <1>5 DEF W!Finish, W!Cancelled, W!Mishap
<1>6. CASE W!End
  BY <1>6 DEF W!End
<1>7. CASE W!HungUp
  BY <1>7 DEF W!HungUp, W!HangUp, W!Mishap
<1>8. CASE W!Close
  BY <1>8 DEF W!Close
<1> QED
  BY <1>1, <1>2, <1>3, <1>4, <1>5, <1>6, <1>7, <1>8 DEF W!Next

\* A console session that is over, however it ended, leaves no shell whose pid
\* was read in the container, unless killing it failed: nor if kelsod is stopped.
THEOREM SessionsEnd == W!Spec => []NoShellLeft
<1>1. W!Init => ConsoleInv
  BY ConsoleInit
<1>2. ConsoleInv /\ [W!Next]_(W!vars) => ConsoleInv'
  BY ConsoleStep
<1>3. ConsoleInv => NoShellLeft
  BY DEF ConsoleInv, NoShellLeft, W!NoShellLeft
<1> QED
  BY <1>1, <1>2, <1>3, PTL DEF W!Spec
-----------------------------------------------------------------------------
(* Editing manifests. *)

LockSteps == {"check", "replace", "commit"}
EditFields == {"step", "opened", "text", "overtaken"}

\* An edit past the wait has the lock to itself.  Unless the owner came between,
\* the manifest is what was opened until it is replaced, and then the text
\* handed in over a commit of what was opened.
EditInv ==
    /\ DOMAIN editor = Editors
    /\ \A e \in Editors :
        /\ editor[e] = E!Idle \/ DOMAIN editor[e] = EditFields
        /\ editor[e].step \in LockSteps => alock = {e}
        /\ editor[e].step = "replace" /\ ~editor[e].overtaken =>
              work = editor[e].opened /\ committed = editor[e].opened
        /\ editor[e].step = "commit" /\ ~editor[e].overtaken =>
              work = editor[e].text /\ committed = editor[e].opened

LEMMA EditsInit == ASSUME E!Init PROVE EditInv
BY DEF E!Init, EditInv, E!Idle, LockSteps

\* A step of one editor that leaves the repository: the others are where they
\* were, and the one is not past the check.
LEMMA EditorMoves ==
    ASSUME EditInv, NEW e \in Editors, NEW new,
           editor' = [editor EXCEPT ![e] = new],
           new = E!Idle \/ (DOMAIN new = EditFields /\ new.step \in {"drafting", "wait"}),
           alock' = alock \/ (alock' = alock \ {e}) \/ (editor[e].step \in LockSteps /\ alock' = {}),
           UNCHANGED <<work, committed>>
    PROVE  EditInv'
<1>1. \A o \in Editors : editor'[o] = IF o = e THEN new ELSE editor[o]
  BY DEF EditInv
<1>2. DOMAIN editor' = Editors
  BY DEF EditInv
<1>3. ASSUME NEW o \in Editors
      PROVE  /\ editor'[o] = E!Idle \/ DOMAIN editor'[o] = EditFields
             /\ editor'[o].step \in LockSteps => alock' = {o}
             /\ editor'[o].step = "replace" /\ ~editor'[o].overtaken =>
                   work' = editor'[o].opened /\ committed' = editor'[o].opened
             /\ editor'[o].step = "commit" /\ ~editor'[o].overtaken =>
                   work' = editor'[o].text /\ committed' = editor'[o].opened
  <2>1. CASE o = e
    BY <1>1, <2>1 DEF E!Idle, LockSteps
  <2>2. CASE o # e
    BY <1>1, <2>2 DEF EditInv
  <2> QED
    BY <2>1, <2>2
<1> QED
  BY <1>2, <1>3 DEF EditInv

\* A record with another step, and other fields perhaps.
LEMMA Stepped ==
    ASSUME EditInv, NEW e \in Editors, editor[e] # E!Idle, NEW s
    PROVE  /\ [editor[e] EXCEPT !.step = s].step = s
           /\ DOMAIN [editor[e] EXCEPT !.step = s] = EditFields
           /\ [editor[e] EXCEPT !.step = s].opened = editor[e].opened
           /\ [editor[e] EXCEPT !.step = s].text = editor[e].text
           /\ [editor[e] EXCEPT !.step = s].overtaken = editor[e].overtaken
BY DEF EditInv, EditFields

LEMMA EditsRaised ==
    ASSUME EditInv, NEW e \in Editors, editor[e] # E!Idle, E!Raised(e), UNCHANGED <<work, committed>>
    PROVE  EditInv'
<1>1. CASE editor' = [editor EXCEPT ![e] = E!Idle]
  BY <1>1, EditorMoves DEF E!Raised
<1>2. CASE E!Goto(e, "drafting")
  <2>1. editor' = [editor EXCEPT ![e] = [editor[e] EXCEPT !.step = "drafting"]]
    BY <1>2 DEF E!Goto
  <2> QED
    BY <2>1, Stepped, EditorMoves DEF E!Raised
<1> QED
  BY <1>1, <1>2 DEF E!Raised

\* The owner's doings mark whoever is past the check as overtaken.
LEMMA EditsByHand ==
    ASSUME EditInv, E!ByHand PROVE EditInv'
<1>1. /\ alock' = alock /\ DOMAIN editor' = Editors
      /\ \A e \in Editors : editor'[e] = IF editor[e].step \in {"replace", "commit"}
                                         THEN [editor[e] EXCEPT !.overtaken = TRUE] ELSE editor[e]
  BY DEF E!ByHand
<1>2. ASSUME NEW e \in Editors
      PROVE  /\ editor'[e] = E!Idle \/ DOMAIN editor'[e] = EditFields
             /\ editor'[e].step = editor[e].step
             /\ editor[e].step \in {"replace", "commit"} => editor'[e].overtaken
  <2>1. CASE editor[e] = E!Idle
    BY <1>1, <2>1 DEF E!Idle
  <2>2. CASE DOMAIN editor[e] = EditFields
    BY <1>1, <2>2 DEF EditFields
  <2> QED
    BY <2>1, <2>2 DEF EditInv
<1> QED
  BY <1>1, <1>2 DEF EditInv

LEMMA EditsStep ==
    ASSUME EditInv, [E!Next]_(E!vars) PROVE EditInv'
<1>1. CASE UNCHANGED E!vars
  BY <1>1 DEF E!vars, EditInv
<1>2. CASE E!ByHand
  BY <1>2, EditsByHand
<1>3. ASSUME NEW e \in Editors, E!Open(e) PROVE EditInv'
  <2>1. DOMAIN [step |-> "drafting", opened |-> work, text |-> work, overtaken |-> FALSE] = EditFields
    BY DEF EditFields
  <2> QED
    BY <1>3, <2>1, EditorMoves DEF E!Open
<1>4. ASSUME NEW e \in Editors, E!Submit(e) PROVE EditInv'
  <2>0. editor[e].step = "drafting" /\ UNCHANGED <<work, committed, alock>>
    BY <1>4, Zenon DEF E!Submit
  <2>1. editor[e] # E!Idle /\ UNCHANGED <<work, committed, alock>>
    BY <2>0 DEF E!Idle
  <2>2. CASE editor' = [editor EXCEPT ![e] = E!Idle]
    BY <2>1, <2>2, EditorMoves
  <2>3. CASE \E t \in Texts : editor' =
             [editor EXCEPT ![e].step = "wait", ![e].text = t, ![e].overtaken = FALSE]
    <3>1. PICK t \in Texts : editor' =
             [editor EXCEPT ![e].step = "wait", ![e].text = t, ![e].overtaken = FALSE]
      BY <2>3
    <3> DEFINE new == [editor[e] EXCEPT !.step = "wait", !.text = t, !.overtaken = FALSE]
    <3>2. editor' = [editor EXCEPT ![e] = new]
      BY <3>1 DEF EditInv
    <3>3. DOMAIN new = EditFields /\ new.step = "wait"
      BY <2>1 DEF EditInv, EditFields
    <3> HIDE DEF new
    <3> QED
      BY <2>1, <3>2, <3>3, EditorMoves
  <2> QED
    BY <1>4, <2>2, <2>3 DEF E!Submit
<1>5. ASSUME NEW e \in Editors, E!Lock(e) PROVE EditInv'
  <2>1. /\ editor[e] # E!Idle /\ alock = {} /\ alock' = {e} /\ UNCHANGED <<work, committed>>
        /\ editor' = [editor EXCEPT ![e] = [editor[e] EXCEPT !.step = "check"]]
    BY <1>5 DEF E!Lock, E!Idle, E!Goto
  <2> QED
    BY <2>1, Stepped DEF EditInv, LockSteps
<1>6. ASSUME NEW e \in Editors, E!LockTimeout(e) PROVE EditInv'
  BY <1>6, EditsRaised DEF E!LockTimeout, E!Idle
<1>7. ASSUME NEW e \in Editors, E!Check(e) PROVE EditInv'
  <2>1. editor[e].step = "check" /\ editor[e] # E!Idle /\ UNCHANGED <<work, committed>>
    BY <1>7 DEF E!Check, E!Idle
  <2>2. CASE ~E!editable
    BY <1>7, <2>1, <2>2, EditsRaised DEF E!Check
  <2>3. CASE E!editable /\ (E!moved(e) \/ editor[e].text = work)
    BY <1>7, <2>1, <2>3, EditorMoves DEF E!Check, LockSteps
  <2>4. CASE E!editable /\ ~(E!moved(e) \/ editor[e].text = work)
    <3>1. /\ alock' = alock /\ editor' = [editor EXCEPT ![e] = [editor[e] EXCEPT !.step = "replace"]]
          /\ work = editor[e].opened /\ committed = editor[e].opened
      BY <1>7, <2>4 DEF E!Check, E!Goto, E!editable, E!moved
    <3> QED
      BY <2>1, <3>1, Stepped DEF EditInv, LockSteps
  <2> QED
    BY <2>2, <2>3, <2>4
<1>8. ASSUME NEW e \in Editors, E!CheckRefuses(e) PROVE EditInv'
  BY <1>8, EditsRaised DEF E!CheckRefuses, E!Idle
<1>9. ASSUME NEW e \in Editors, E!Replace(e) PROVE EditInv'
  <2>1. /\ editor[e].step = "replace" /\ editor[e] # E!Idle /\ alock' = alock
        /\ work' = editor[e].text /\ committed' = committed
        /\ editor' = [editor EXCEPT ![e] = [editor[e] EXCEPT !.step = "commit"]]
    BY <1>9 DEF E!Replace, E!Idle, E!Goto
  <2>2. \A o \in Editors \ {e} : editor[o].step \notin LockSteps
    BY <2>1 DEF EditInv, LockSteps
  <2> QED
    BY <2>1, <2>2, Stepped DEF EditInv, LockSteps
<1>10. ASSUME NEW e \in Editors, E!Commit(e) PROVE EditInv'
  <2>1. /\ editor[e].step = "commit" /\ alock' = {} /\ editor' = [editor EXCEPT ![e] = E!Idle]
    BY <1>10 DEF E!Commit
  <2>2. \A o \in Editors \ {e} : editor[o].step \notin LockSteps
    BY <2>1 DEF EditInv, LockSteps
  <2> QED
    BY <2>1, <2>2 DEF EditInv, LockSteps, E!Idle
<1>11. ASSUME NEW e \in Editors, E!CommitFails(e) PROVE EditInv'
  BY <1>11, EditorMoves DEF E!CommitFails, LockSteps
<1> QED
  BY <1>1, <1>2, <1>3, <1>4, <1>5, <1>6, <1>7, <1>8, <1>9, <1>10, <1>11 DEF E!Next

\* A commit kelso makes turns the text its editor opened into the text handed
\* in, whoever else edits through kelso at the same time, unless the owner of
\* the repository came between the check and the commit.
THEOREM CommitsClean == E!Spec => CleanCommits
<1> DEFINE Clean == \A e \in Editors :
              editor[e].step = "commit" /\ committed' # committed /\ ~editor[e].overtaken
                => committed = editor[e].opened /\ committed' = editor[e].text
<1>1. E!Init => EditInv
  BY EditsInit
<1>2. EditInv /\ [E!Next]_(E!vars) => EditInv'
  BY EditsStep
<1>3. EditInv /\ [E!Next]_(E!vars) => Clean
  <2> SUFFICES ASSUME EditInv, [E!Next]_(E!vars), NEW e \in Editors,
                      editor[e].step = "commit", committed' # committed, ~editor[e].overtaken
               PROVE  committed = editor[e].opened /\ committed' = editor[e].text
    OBVIOUS
  <2>1. E!ByHand \/ \E o \in Editors : E!Commit(o)
    BY DEF E!Next, E!vars, E!Open, E!Submit, E!Lock, E!LockTimeout, E!Check, E!CheckRefuses,
           E!Replace, E!CommitFails
  <2>2. committed' = work
    BY <2>1 DEF E!ByHand, E!Commit
  <2> QED
    BY <2>2 DEF EditInv
<1>4. E!Spec => [][Clean]_(E!vars)
  BY <1>1, <1>2, <1>3, PTL DEF E!Spec
<1> QED
  BY <1>4 DEF CleanCommits, E!CleanCommits
-----------------------------------------------------------------------------
(* config.toml and the repositories' copies. *)

HandFields == {"step", "verb", "entry", "value", "seen", "doc", "todo", "then"}
Outside == {"idle", "wait"}

\* A process past the wait has the kelso lock; at its commit it has the document
\* as it stands; a copy it is about to throw away is known to be half way.
HandInv(h) ==
    /\ hand[h] = R!Idle \/ DOMAIN hand[h] = HandFields
    /\ hand[h].step \notin Outside => klock = {h}
    /\ hand[h].step = "commit" => hand[h].doc = conf
    /\ hand[h].step = "big" => hand[h].entry \in torn

RepoInv ==
    /\ conf = meant /\ R!RecordTrue
    /\ tip.shape \in R!Shapes
    /\ DOMAIN hand = Hands /\ DOMAIN copy = Mirrors /\ DOMAIN mark = Mirrors
    /\ \A h \in Hands : HandInv(h)

LEMMA ReposInit == ASSUME R!Init PROVE RepoInv
BY DEF R!Init, RepoInv, HandInv, R!RecordTrue, R!Idle, R!Shapes, Outside

\* A step of one process: whatever it does with the lock, the others are not
\* past the wait; without it, it leaves what the invariant says of the others.
LEMMA HandMoves ==
    ASSUME RepoInv, NEW h \in Hands, NEW new,
           hand' = [hand EXCEPT ![h] = new],
           new = R!Idle \/ DOMAIN new = HandFields,
           new.step \notin Outside => klock' = {h},
           new.step = "commit" => new.doc = conf',
           new.step = "big" => new.entry \in torn',
           klock = {h} \/ klock = {} \/ (UNCHANGED <<klock, conf, torn>>),
           conf' = meant', R!RecordTrue', tip' = tip,
           DOMAIN copy' = Mirrors, DOMAIN mark' = Mirrors
    PROVE  RepoInv'
<1>1. \A o \in Hands : hand'[o] = IF o = h THEN new ELSE hand[o]
  BY DEF RepoInv
<1>2. HandInv(h)'
  BY <1>1 DEF HandInv
<1>3. ASSUME NEW o \in Hands, o # h PROVE HandInv(o)'
  <2>1. hand'[o] = hand[o] /\ HandInv(o)
    BY <1>1, <1>3 DEF RepoInv
  <2>2. CASE klock = {h} \/ klock = {}
    <3>1. hand[o].step \in Outside
      BY <1>3, <2>1, <2>2 DEF HandInv
    <3> QED
      BY <2>1, <3>1 DEF HandInv, Outside
  <2>3. CASE UNCHANGED <<klock, conf, torn>>
    BY <2>1, <2>3 DEF HandInv
  <2> QED
    BY <2>2, <2>3
<1> QED
  BY <1>2, <1>3 DEF RepoInv

\* What a process is at has no field missing.
LEMMA HandKnown ==
    ASSUME RepoInv, NEW h \in Hands, hand[h].step # "idle"
    PROVE  DOMAIN hand[h] = HandFields /\ HandInv(h) /\ hand[h] # R!Idle
BY DEF RepoInv, HandInv, R!Idle

\* The command ends, and nothing else is changed than the lock.
LEMMA ReposDone ==
    ASSUME RepoInv, NEW h \in Hands, R!Done(h), hand[h].step # "idle", conf' = meant', R!RecordTrue',
           klock = {h} \/ UNCHANGED <<conf, torn>>,
           tip' = tip, DOMAIN copy' = Mirrors, DOMAIN mark' = Mirrors
    PROVE  RepoInv'
<1>1. hand' = [hand EXCEPT ![h] = R!Idle] /\ klock' = klock \ {h}
  BY DEF R!Done
<1>2. R!Idle.step = "idle"
  BY DEF R!Idle
<1>3. CASE klock = {h}
  BY <1>1, <1>2, <1>3, HandMoves DEF Outside
<1>4. CASE klock # {h} /\ UNCHANGED <<conf, torn>>
  <2>1. \A o \in Hands : hand'[o] = IF o = h THEN R!Idle ELSE hand[o]
    BY <1>1 DEF RepoInv
  <2>2. ASSUME NEW o \in Hands PROVE HandInv(o)'
    <3>1. HandInv(o)
      BY DEF RepoInv
    <3>2. CASE o = h
      BY <1>2, <2>1, <3>2 DEF HandInv, Outside
    <3>3. CASE o # h
      BY <1>1, <1>4, <2>1, <3>1, <3>3 DEF HandInv
    <3> QED
      BY <3>2, <3>3
  <2> QED
    BY <1>1, <1>4, <2>2 DEF RepoInv
<1> QED
  BY <1>3, <1>4

\* One that goes on to another step, with the lock.
LEMMA ReposGoto ==
    ASSUME RepoInv, NEW h \in Hands, NEW s, R!Goto(h, s), hand[h].step # "idle",
           s \notin {"commit", "big"}, klock = {h} \/ klock = {}, klock' = {h},
           conf' = meant', R!RecordTrue', tip' = tip, DOMAIN copy' = Mirrors, DOMAIN mark' = Mirrors
    PROVE  RepoInv'
<1> DEFINE new == [hand[h] EXCEPT !.step = s]
<1>1. hand' = [hand EXCEPT ![h] = new]
  BY DEF R!Goto
<1>2. DOMAIN new = HandFields /\ new.step = s
  BY HandKnown DEF HandFields
<1> HIDE DEF new
<1> QED
  BY <1>1, <1>2, HandMoves

-----------------------------------------------------------------------------

LEMMA ReposAsks ==
    ASSUME RepoInv, NEW h \in Hands, NEW verb, NEW e, NEW v, NEW todo, NEW th,
           hand' = [hand EXCEPT ![h] =
               [step |-> "wait", verb |-> verb, entry |-> e, value |-> v,
                seen |-> conf, doc |-> conf, todo |-> todo, then |-> th]],
           UNCHANGED <<conf, meant, klock, copy, mark, torn, tip, faults>>
    PROVE  RepoInv'
<1>1. R!RecordTrue' /\ conf' = meant' /\ DOMAIN copy' = Mirrors /\ DOMAIN mark' = Mirrors
  BY DEF RepoInv, R!RecordTrue
<1> DEFINE new == [step |-> "wait", verb |-> verb, entry |-> e, value |-> v,
                   seen |-> conf, doc |-> conf, todo |-> todo, then |-> th]
<1>2. DOMAIN new = HandFields /\ new.step = "wait" /\ hand' = [hand EXCEPT ![h] = new]
  BY DEF HandFields
<1> HIDE DEF new
<1> QED
  BY <1>1, <1>2, HandMoves DEF Outside

LEMMA ReposAsk ==
    ASSUME RepoInv, NEW h \in Hands, R!Ask(h) \/ R!AskAll(h) \/ R!AskProvider(h)
    PROVE  RepoInv'
<1>1. UNCHANGED <<conf, meant, klock, copy, mark, torn, tip, faults>>
  BY DEF R!Ask, R!AskAll, R!AskProvider
<1>2. CASE R!Ask(h)
  <2>1. PICK verb, e, v : hand' = [hand EXCEPT ![h] =
            [step |-> "wait", verb |-> verb, entry |-> e, value |-> v,
             seen |-> conf, doc |-> conf, todo |-> {e}, then |-> R!Unset]]
    BY <1>2, Zenon DEF R!Ask
  <2> QED
    BY <1>1, <2>1, ReposAsks
<1>3. CASE R!AskAll(h)
  <2>1. PICK e \in R!wanted(conf) : hand' = [hand EXCEPT ![h] =
            [step |-> "wait", verb |-> "update", entry |-> e, value |-> conf[e],
             seen |-> conf, doc |-> conf, todo |-> R!wanted(conf), then |-> R!Unset]]
    BY <1>3, Zenon DEF R!AskAll
  <2> QED
    BY <1>1, <2>1, ReposAsks
<1>4. CASE R!AskProvider(h)
  <2> DEFINE written(tag, d, a) == R!apply_route_provider_config(conf, tag, d, a)
             first(tag, d, a) == written(tag, d, a).address # R!Unset
  <2>1. PICK tag, d, a : hand' = [hand EXCEPT ![h] =
            [step |-> "wait", verb |-> "set provider",
             entry |-> IF first(tag, d, a) THEN R!Address ELSE tag,
             value |-> IF first(tag, d, a) THEN written(tag, d, a).address
                       ELSE written(tag, d, a).domain,
             seen |-> conf, doc |-> conf, todo |-> {tag}, then |-> written(tag, d, a).domain]]
    BY <1>4, Zenon DEF R!AskProvider
  <2> HIDE DEF written, first
  <2> QED
    BY <1>1, <2>1, ReposAsks
<1> QED
  BY <1>2, <1>3, <1>4

LEMMA ReposLock ==
    ASSUME RepoInv, NEW h \in Hands, R!Lock(h) \/ R!LockTimeout(h)
    PROVE  RepoInv'
<1>1. R!RecordTrue' /\ conf' = meant' /\ DOMAIN copy' = Mirrors /\ DOMAIN mark' = Mirrors /\ tip' = tip
  BY DEF RepoInv, R!RecordTrue, R!Lock, R!LockTimeout
<1>2. CASE R!Lock(h)
  <2>1. PICK s \in {"mirror", "read"} : R!Goto(h, s)
    BY <1>2 DEF R!Lock
  <2> QED
    BY <1>1, <1>2, <2>1, ReposGoto DEF R!Lock
<1>3. CASE R!LockTimeout(h)
  BY <1>1, <1>3, ReposDone DEF R!LockTimeout
<1> QED
  BY <1>2, <1>3

\* The document is read under the lock.
LEMMA ReposRead ==
    ASSUME RepoInv, NEW h \in Hands, R!Read(h)
    PROVE  RepoInv'
<1>1. /\ R!RecordTrue' /\ conf' = meant' /\ DOMAIN copy' = Mirrors /\ DOMAIN mark' = Mirrors
      /\ UNCHANGED <<tip, conf, torn>> /\ hand[h].step = "read"
  BY DEF RepoInv, R!RecordTrue, R!Read
<1>2. klock = {h} /\ DOMAIN hand[h] = HandFields
  BY <1>1, HandKnown DEF HandInv, Outside
<1>3. CASE R!Done(h)
  BY <1>1, <1>2, <1>3, ReposDone
<1>4. CASE ~R!Done(h)
  <2> DEFINE new == [hand[h] EXCEPT !.step = "commit", !.doc = conf]
  <2>1. hand' = [hand EXCEPT ![h] = new] /\ klock' = klock
    BY <1>4, <1>1 DEF R!Read, R!document, RepoInv
  <2>2. DOMAIN new = HandFields /\ new.step = "commit" /\ new.doc = conf
    BY <1>2 DEF HandFields
  <2> HIDE DEF new
  <2> QED
    BY <1>1, <1>2, <2>1, <2>2, HandMoves
<1> QED
  BY <1>3, <1>4

\* The document committed is the file, so the other entries are as they were.
LEMMA ReposCommit ==
    ASSUME RepoInv, NEW h \in Hands, R!Commit(h)
    PROVE  RepoInv'
<1>1. /\ R!RecordTrue' /\ DOMAIN copy' = Mirrors /\ DOMAIN mark' = Mirrors
      /\ UNCHANGED <<tip, torn>> /\ hand[h].step = "commit"
  BY DEF RepoInv, R!RecordTrue, R!Commit
<1>2. klock = {h} /\ DOMAIN hand[h] = HandFields /\ hand[h].doc = meant
  BY <1>1, HandKnown DEF HandInv, Outside, RepoInv
<1>3. conf' = meant'
  BY <1>2 DEF R!Commit
<1>4. \/ R!Done(h)
      \/ klock' = klock /\ (R!Goto(h, "mirror") \/ R!Goto(h, "rmtree") \/ R!set_route_provider(h))
  <2>1. R!AfterCommit(h)
    BY DEF R!Commit
  <2> QED
    BY <2>1 DEF R!AfterCommit
<1>5. CASE R!Done(h)
  BY <1>1, <1>2, <1>3, <1>5, ReposDone
<1>6. CASE klock' = klock /\ (R!Goto(h, "mirror") \/ R!Goto(h, "rmtree"))
  BY <1>1, <1>2, <1>3, <1>6, ReposGoto
<1>7. CASE klock' = klock /\ R!set_route_provider(h)
  <2>1. PICK tag : hand' =
           [hand EXCEPT ![h].step = "read", ![h].entry = tag, ![h].value = hand[h].then]
    BY <1>7, Zenon DEF R!set_route_provider
  <2> DEFINE new == [hand[h] EXCEPT !.step = "read", !.entry = tag, !.value = hand[h].then]
  <2>2. hand' = [hand EXCEPT ![h] = new]
    BY <2>1 DEF RepoInv
  <2>3. DOMAIN new = HandFields /\ new.step = "read"
    BY <1>2 DEF HandFields
  <2> HIDE DEF new
  <2> QED
    BY <1>1, <1>2, <1>3, <1>7, <2>2, <2>3, HandMoves
<1> QED
  BY <1>4, <1>5, <1>6, <1>7

LEMMA ReposEnds ==
    ASSUME RepoInv, NEW h \in Hands,
           R!CommitRefused(h) \/ R!FetchFails(h) \/ R!Missing(h) \/ R!Crash(h)
    PROVE  RepoInv'
<1>1. /\ R!RecordTrue' /\ conf' = meant' /\ DOMAIN copy' = Mirrors /\ DOMAIN mark' = Mirrors
      /\ UNCHANGED <<tip, conf, torn>> /\ R!Done(h)
  BY DEF RepoInv, R!RecordTrue, R!CommitRefused, R!FetchFails, R!Missing, R!Crash
<1>2. hand[h].step # "idle" \/ R!Crash(h)
  BY DEF R!CommitRefused, R!FetchFails, R!Missing
<1>3. CASE hand[h].step # "idle"
  BY <1>1, <1>3, ReposDone
<1>4. CASE hand[h].step = "idle"
  <2>1. hand' = [hand EXCEPT ![h] = R!Idle] /\ klock' = klock \ {h} /\ R!Idle.step = "idle"
    BY <1>1 DEF R!Done, R!Idle
  <2>2. \A o \in Hands : hand'[o] = IF o = h THEN R!Idle ELSE hand[o]
    BY <2>1 DEF RepoInv
  <2>3. ASSUME NEW o \in Hands PROVE HandInv(o)'
    <3>1. HandInv(o)
      BY DEF RepoInv
    <3> QED
      BY <1>1, <1>4, <2>1, <2>2, <3>1 DEF HandInv, Outside
  <2> QED
    BY <1>1, <2>1, <2>3 DEF RepoInv
<1> QED
  BY <1>3, <1>4

\* An empty repository is made only where nothing is on record, or half way.
LEMMA ReposMirror ==
    ASSUME RepoInv, NEW h \in Hands, R!Mirror(h)
    PROVE  RepoInv'
<1>1. PICK n \in hand[h].todo :
        /\ copy' = [copy EXCEPT ![n] = IF copy[n] = R!NoCopy THEN R!Bare ELSE copy[n]]
        /\ hand' = [hand EXCEPT ![h].step = "fetch", ![h].entry = n, ![h].todo = @ \ {n}]
  BY Zenon DEF R!Mirror
<1>2. /\ hand[h].step = "mirror" /\ UNCHANGED <<conf, meant, klock, mark, torn, tip>>
  BY Zenon DEF R!Mirror
<1>3. klock = {h} /\ DOMAIN hand[h] = HandFields
  BY <1>2, HandKnown DEF HandInv, Outside
<1> DEFINE new == [hand[h] EXCEPT !.step = "fetch", !.entry = n, !.todo = @ \ {n}]
<1>4. hand' = [hand EXCEPT ![h] = new]
  BY <1>1 DEF RepoInv
<1>5. DOMAIN new = HandFields /\ new.step = "fetch"
  BY <1>3 DEF HandFields
<1>6. DOMAIN copy' = Mirrors
  BY <1>1 DEF RepoInv
<1>7. R!RecordTrue'
  <2> SUFFICES ASSUME NEW m \in Mirrors \ torn', mark'[m] # R!NoCopy PROVE copy'[m] = mark'[m]
    BY DEF R!RecordTrue
  <2>1. copy[m] = mark[m] /\ mark'[m] = mark[m]
    BY <1>2 DEF RepoInv, R!RecordTrue
  <2>2. copy'[m] = copy[m]
    BY <1>1, <2>1 DEF RepoInv
  <2> QED
    BY <2>1, <2>2
<1> HIDE DEF new
<1> QED
  BY <1>2, <1>3, <1>4, <1>5, <1>6, <1>7, HandMoves DEF RepoInv

LEMMA ReposFetch ==
    ASSUME RepoInv, NEW h \in Hands, R!Fetch(h)
    PROVE  RepoInv'
<1>1. /\ hand[h].step = "fetch" /\ UNCHANGED <<conf, meant, klock, mark, tip>>
      /\ copy' = [copy EXCEPT ![hand[h].entry] = tip.sha]
      /\ torn' = torn \cup {hand[h].entry}
      /\ hand' = [hand EXCEPT ![h] = [hand[h] EXCEPT !.step = tip.shape]]
  BY DEF R!Fetch
<1>2. klock = {h} /\ DOMAIN hand[h] = HandFields
  BY <1>1, HandKnown DEF HandInv, Outside
<1> DEFINE new == [hand[h] EXCEPT !.step = tip.shape]
<1>3. DOMAIN new = HandFields /\ new.step \in R!Shapes /\ new.entry = hand[h].entry
  BY <1>2 DEF HandFields, RepoInv
<1>4. R!RecordTrue' /\ DOMAIN copy' = Mirrors
  BY <1>1 DEF RepoInv, R!RecordTrue
<1>5. hand' = [hand EXCEPT ![h] = new]
  BY <1>1
<1> HIDE DEF new
<1> QED
  BY <1>1, <1>2, <1>3, <1>4, <1>5, HandMoves DEF RepoInv, R!Shapes

\* A copy is thrown away only where it is known to be half way, and its record
\* then deleted.
LEMMA ReposDrops ==
    ASSUME RepoInv, NEW h \in Hands, R!TooBig(h) \/ R!RemoveCopy(h)
    PROVE  RepoInv'
<1>1. /\ hand[h].step \in {"big", "rmtree"} /\ UNCHANGED <<conf, meant, klock, mark, tip>>
      /\ copy' = [copy EXCEPT ![hand[h].entry] = R!NoCopy] /\ R!Goto(h, "forget")
      /\ \/ torn' = torn \cup {hand[h].entry}
         \/ hand[h].step = "big" /\ torn' = torn
  BY DEF R!TooBig, R!RemoveCopy
<1>2. klock = {h} /\ (hand[h].step = "big" => hand[h].entry \in torn)
  BY <1>1, HandKnown DEF HandInv, Outside
<1>3. R!RecordTrue' /\ DOMAIN copy' = Mirrors
  BY <1>1, <1>2 DEF RepoInv, R!RecordTrue
<1> QED
  BY <1>1, <1>2, <1>3, ReposGoto DEF RepoInv

LEMMA ReposRecords ==
    ASSUME RepoInv, NEW h \in Hands, R!Forget(h) \/ R!Fits(h)
    PROVE  RepoInv'
<1>1. /\ hand[h].step \in {"forget", "fits"} /\ UNCHANGED <<conf, meant, copy, tip>>
      /\ torn' = torn \ {hand[h].entry}
      /\ \/ mark' = [mark EXCEPT ![hand[h].entry] = R!NoCopy]
         \/ mark' = [mark EXCEPT ![hand[h].entry] = copy[hand[h].entry]]
      /\ R!Done(h) \/ (R!Goto(h, "mirror") /\ klock' = klock)
  BY DEF R!Forget, R!Fits
<1>2. klock = {h}
  BY <1>1, HandKnown DEF HandInv, Outside
<1>3. R!RecordTrue' /\ DOMAIN mark' = Mirrors
  BY <1>1 DEF RepoInv, R!RecordTrue
<1> QED
  BY <1>1, <1>2, <1>3, ReposGoto, ReposDone DEF RepoInv

LEMMA ReposStep ==
    ASSUME RepoInv, [R!Next]_(R!vars) PROVE RepoInv'
<1>1. CASE UNCHANGED R!vars
  BY <1>1 DEF R!vars, RepoInv, HandInv, R!RecordTrue
<1>2. CASE R!Push
  <2>1. tip'.shape \in R!Shapes /\ UNCHANGED <<conf, meant, hand, klock, copy, mark, torn>>
    BY <1>2 DEF R!Push
  <2> QED
    BY <2>1 DEF RepoInv, HandInv, R!RecordTrue
<1> QED
  BY <1>1, <1>2, ReposAsk, ReposLock, ReposRead, ReposCommit, ReposEnds, ReposMirror, ReposFetch,
     ReposDrops, ReposRecords DEF R!Next

\* config.toml always says what the edits that succeeded say, each on its own
\* entry, in the order they were made, whatever the processes had read before.
THEOREM EditsKept == R!Spec => []ConfigKeeps
<1>1. R!Init => RepoInv
  BY ReposInit
<1>2. RepoInv /\ [R!Next]_(R!vars) => RepoInv'
  BY ReposStep
<1>3. RepoInv => ConfigKeeps
  BY DEF RepoInv, ConfigKeeps, R!ConfigKeeps
<1> QED
  BY <1>1, <1>2, <1>3, PTL DEF R!Spec

\* The commit kelsodb has for a repository is the one its copy is at, for every
\* copy no mirroring or removal left half way.
THEOREM RecordsTrue == R!Spec => []RecordTrue
<1>1. R!Init => RepoInv
  BY ReposInit
<1>2. RepoInv /\ [R!Next]_(R!vars) => RepoInv'
  BY ReposStep
<1>3. RepoInv => RecordTrue
  BY DEF RepoInv, RecordTrue
<1> QED
  BY <1>1, <1>2, <1>3, PTL DEF R!Spec

-----------------------------------------------------------------------------
(***************************************************************************)
(* The logs of runs.  What a name is given to is not in the state, so the  *)
(* invariant says that there is such a function: own, of the runs that did *)
(* not die before they wrote anything.                                     *)
(***************************************************************************)
Pairs == Nat \X Nat
AtWork == {"named", "running", "ran", "index", "list", "unlink"}
Asked(own) == [step : AtWork, run : DOMAIN own, name : Pairs, stale : SUBSET Pairs]

\* The files after f by name, and whether these are as many as are kept: then f is
\* nobody's to keep any more.
After(files, f) == {g \in files : A!before(f, g)}
Due(files, f) == Cardinality(After(files, f)) >= KeepRuns

\* A run has its file once it wrote to it.
Wrote(r) == \A w \in Recorders : recorder[w].step = "named" => recorder[w].run # r

RunsTyped(own) ==
    /\ second \in Nat /\ IsFiniteSet(begun)
    /\ begun \subseteq [at : 0..second, nth : 1..Cardinality(begun)]
    /\ own \in [DOMAIN own -> Pairs] /\ DOMAIN own \subseteq begun
    /\ \A r \in DOMAIN own : own[r][1] = r.at
    /\ closed \subseteq DOMAIN own
    /\ recorder \in [Recorders -> {A!Idle} \cup Asked(own)]
\* Who is at work has a run of its own, by the name of its own.
AtWorkApart(own) ==
    \A w \in Recorders : recorder[w] # A!Idle =>
        /\ recorder[w].name = own[recorder[w].run] /\ recorder[w].run \notin closed
        /\ \A v \in Recorders \ {w} : recorder[v] # A!Idle => recorder[v].run # recorder[w].run
FewASecond == \A s \in Nat : Cardinality({r \in begun : r.at = s}) <= KeepRuns
\* Every file is a run's, and every run's of this second is there.
FilesOwned(own) ==
    /\ \A f \in DOMAIN logs : \E r \in DOMAIN own : Wrote(r) /\ own[r] = f
    /\ \A r \in DOMAIN own : Wrote(r) /\ r.at = second => own[r] \in DOMAIN logs
    /\ \A i \in index : i[1] \in DOMAIN own /\ Wrote(i[1]) /\ i[2] = own[i[1]]
NamesApart(own) ==
    \A r, q \in DOMAIN own : r # q /\ own[r] = own[q] => own[r] \in clashed
\* What is pruned, or about to be, is of an earlier second and has enough after it.
PrunedLate(own) ==
    /\ \A w \in Recorders : recorder[w] # A!Idle =>
         \A f \in recorder[w].stale : f[1] < second /\ Due(DOMAIN logs, f)
    /\ \A r \in DOMAIN own : Wrote(r) /\ own[r] \notin DOMAIN logs => Due(DOMAIN logs, own[r])
\* What the file of a run at work has in it, if it is there and nobody else's: a piece
\* only if it is to be pruned.
Text(w) ==
    LET r == recorder[w].run
        f == recorder[w].name
        s == recorder[w].step
    IN f \notin clashed /\ f \in DOMAIN logs =>
         /\ s = "running" => logs[f] = {<<r, "header">>}
         /\ s = "ran" => logs[f] = {<<r, "header">>, <<r, "output">>}
         /\ s \in {"index", "list"} => A!Whole(r, logs[f]) \/ Due(DOMAIN logs, f)
         /\ s = "unlink" => A!Whole(r, logs[f]) \/ f \in recorder[w].stale
ClosedWhole(own) ==
    \A r \in closed : own[r] \notin clashed /\ own[r] \in DOMAIN logs => A!Whole(r, logs[own[r]])

RunsInv(own) ==
    /\ RunsTyped(own) /\ AtWorkApart(own) /\ FewASecond /\ FilesOwned(own)
    /\ NamesApart(own) /\ PrunedLate(own) /\ ClosedWhole(own)
    /\ \A w \in Recorders : recorder[w] # A!Idle => Text(w)

-----------------------------------------------------------------------------
(* Counting files by the runs they are of. *)

\* Activity counts as this module does.
LEMMA SameCount == \A S : A!Cardinality(S) = Cardinality(S)
BY DEF A!Cardinality, Cardinality

\* Files of runs in X are no more than X.
LEMMA FilesCounted ==
    ASSUME NEW own, NEW X, IsFiniteSet(X), NEW F,
           \A f \in F : \E r \in X \cap DOMAIN own : own[r] = f
    PROVE  IsFiniteSet(F) /\ Cardinality(F) <= Cardinality(X)
<1> DEFINE Y == {r \in X \cap DOMAIN own : own[r] \in F}
           m == [r \in Y |-> own[r]]
<1>1. IsFiniteSet(Y) /\ Cardinality(Y) <= Cardinality(X)
  BY FS_Subset
<1>2. m \in Surjection(Y, F)
  BY DEF Surjection
<1>3. IsFiniteSet(F) /\ Cardinality(F) <= Cardinality(Y)
  BY <1>1, <1>2, FS_Surjection
<1>4. Cardinality(F) \in Nat /\ Cardinality(Y) \in Nat /\ Cardinality(X) \in Nat
  BY <1>1, <1>3, FS_CardinalityType
<1> QED BY <1>1, <1>3, <1>4

LEMMA FilesFinite ==
    ASSUME NEW own, RunsTyped(own), FilesOwned(own)
    PROVE  IsFiniteSet(DOMAIN logs) /\ Cardinality(DOMAIN logs) <= Cardinality(begun)
<1>1. \A f \in DOMAIN logs : \E r \in begun \cap DOMAIN own : own[r] = f
  BY DEF RunsTyped, FilesOwned
<1> QED BY <1>1, FilesCounted DEF RunsTyped

\* More files keep what is due due.
LEMMA DueGrows ==
    ASSUME NEW S, NEW T, IsFiniteSet(T), S \subseteq T, NEW f, Due(S, f), KeepRuns \in Nat
    PROVE  Due(T, f)
<1>1. After(S, f) \subseteq After(T, f) /\ After(T, f) \subseteq T
  BY DEF After
<1>2. IsFiniteSet(After(T, f))
  BY <1>1, FS_Subset
<1>3. IsFiniteSet(After(S, f)) /\ Cardinality(After(S, f)) <= Cardinality(After(T, f))
  BY <1>1, <1>2, FS_Subset
<1> QED BY <1>2, <1>3, FS_CardinalityType DEF Due

LEMMA BeforeOrders ==
    ASSUME NEW f \in Pairs, NEW g \in Pairs
    PROVE  /\ ~A!before(f, f)
           /\ A!before(f, g) => f[1] <= g[1] /\ f # g
           /\ \A h \in Pairs : A!before(f, g) /\ A!before(g, h) => A!before(f, h)
BY DEF A!before, Pairs

\* However old a listing is, what is pruned by it leaves as many after f as there
\* must be: of those that are due, take one with the fewest after it; none after it
\* is due.
LEMMA DueSurvives ==
    ASSUME NEW F, F \subseteq Pairs, IsFiniteSet(F), KeepRuns \in Nat,
           NEW f \in Pairs, Due(F, f), NEW gone, \A g \in gone : Due(F, g)
    PROVE  Due(F \ gone, f)
<1> DEFINE D == {g \in {f} \cup After(F, f) : Due(F, g)}
           S == {After(F, g) : g \in D}
<1>1. f \in D /\ D \subseteq Pairs
  BY DEF After
<1>2. S \subseteq FiniteSubsetsOf(F) /\ S # {}
  <2>1. \A g : After(F, g) \subseteq F
    BY DEF After
  <2>2. \A g : IsFiniteSet(After(F, g))
    BY <2>1, FS_Subset
  <2> QED BY <1>1, <2>1, <2>2 DEF FiniteSubsetsOf
<1>3. PICK A0 \in S : \A B \in S : ~(<<B, A0>> \in StrictSubsetOrdering(F))
  BY <1>2, FS_StrictSubsetOrderingWellFounded, WFMin
<1>4. PICK g \in D : A0 = After(F, g)
  BY <1>3
<1>5. After(F, g) \subseteq After(F, f)
  BY <1>1, <1>4, BeforeOrders DEF After
<1>6. ASSUME NEW h \in After(F, g) PROVE ~Due(F, h)
  <2> SUFFICES ASSUME Due(F, h) PROVE FALSE
    OBVIOUS
  <2>1. h \in D /\ h \in Pairs /\ g \in Pairs /\ A!before(g, h)
    BY <1>1, <1>5, <1>6 DEF After
  <2>2. After(F, h) \subseteq After(F, g) /\ h \notin After(F, h)
    BY <2>1, BeforeOrders DEF After
  <2>3. <<After(F, h), A0>> \in StrictSubsetOrdering(F)
    BY <1>4, <1>6, <2>2 DEF StrictSubsetOrdering, After
  <2>4. After(F, h) \in S
    BY <2>1
  <2> QED BY <1>3, <2>3, <2>4
<1>7. After(F, g) \subseteq After(F \ gone, f)
  BY <1>5, <1>6 DEF After
<1>8. IsFiniteSet(After(F \ gone, f))
  BY FS_Subset DEF After
<1>9. Cardinality(After(F, g)) <= Cardinality(After(F \ gone, f)) /\ IsFiniteSet(After(F, g))
  BY <1>7, <1>8, FS_Subset
<1>10. Cardinality(After(F, g)) >= KeepRuns
  BY <1>4 DEF Due
<1> QED BY <1>8, <1>9, <1>10, FS_CardinalityType DEF Due

\* Once who works at a name has written to it, a step keeps everything that the text it
\* leaves keeps: all other files are other runs'.
LEMMA RunsMove ==
    ASSUME NEW own, RunsInv(own), KeepRuns \in Nat,
           NEW w \in Recorders, recorder[w] # A!Idle, NEW k \in Asked(own),
           k.run = recorder[w].run, k.name = recorder[w].name, k.step # "named",
           recorder' = [recorder EXCEPT ![w] = k], NEW f, f = recorder[w].name,
           DOMAIN logs \subseteq DOMAIN logs', DOMAIN logs' \subseteq DOMAIN logs \cup {f},
           \A g \in DOMAIN logs : g # f => logs'[g] = logs[g],
           recorder[w].step = "named" => f \in DOMAIN logs',
           index' \subseteq index \cup {<<k.run, f>>},
           UNCHANGED <<second, begun, closed, clashed>>,
           \A g \in k.stale : g[1] < second /\ Due(DOMAIN logs, g),
           Text(w)'
    PROVE  RunsInv(own)'
<1>1. /\ RunsTyped(own) /\ AtWorkApart(own) /\ FewASecond /\ FilesOwned(own)
      /\ NamesApart(own) /\ PrunedLate(own) /\ ClosedWhole(own)
      /\ \A v \in Recorders : recorder[v] # A!Idle => Text(v)
  BY DEF RunsInv
<1>2. /\ recorder'[w] = k /\ k # A!Idle /\ k.run \in DOMAIN own /\ own[k.run] = f
      /\ \A v \in Recorders \ {w} : recorder'[v] = recorder[v]
      /\ recorder' \in [Recorders -> {A!Idle} \cup Asked(own)]
      /\ k.step \in AtWork
  BY <1>1 DEF RunsTyped, AtWorkApart, Asked, AtWork, A!Idle
<1>3. RunsTyped(own)'
  BY <1>1, <1>2 DEF RunsTyped
<1>4. AtWorkApart(own)'
  BY <1>1, <1>2 DEF AtWorkApart
<1>5. FewASecond' /\ NamesApart(own)'
  BY <1>1 DEF FewASecond, NamesApart
<1>6. \A r : Wrote(r)' <=> Wrote(r) \/ r = k.run
  BY <1>1, <1>2 DEF Wrote, AtWorkApart, RunsTyped, A!Idle
<1>7. FilesOwned(own)'
  <2>1. \A g \in DOMAIN logs' : \E r \in DOMAIN own : Wrote(r)' /\ own[r] = g
    BY <1>1, <1>2, <1>6 DEF FilesOwned
  <2>2. \A r \in DOMAIN own : Wrote(r)' /\ r.at = second' => own[r] \in DOMAIN logs'
    <3>1. recorder[w].step = "named" \/ Wrote(k.run)
      BY <1>1, <1>2 DEF Wrote, AtWorkApart, RunsTyped, A!Idle
    <3> QED BY <1>1, <1>2, <1>6, <3>1 DEF FilesOwned
  <2>3. \A i \in index' : i[1] \in DOMAIN own /\ Wrote(i[1])' /\ i[2] = own[i[1]]
    BY <1>1, <1>2, <1>6 DEF FilesOwned
  <2> QED BY <2>1, <2>2, <2>3 DEF FilesOwned
<1>8. IsFiniteSet(DOMAIN logs')
  BY <1>3, <1>7, FS_AddElement, FS_Subset, FilesFinite, <1>1
<1>9. \A g : Due(DOMAIN logs, g) => Due(DOMAIN logs', g)
  BY <1>8, DueGrows
<1>10. PrunedLate(own)'
  <2>1. ASSUME NEW v \in Recorders, recorder'[v] # A!Idle, NEW g \in recorder'[v].stale
        PROVE  g[1] < second' /\ Due(DOMAIN logs', g)
    <3>1. CASE v = w
      BY <1>2, <1>9, <2>1, <3>1
    <3>2. CASE v # w
      BY <1>1, <1>2, <1>9, <2>1, <3>2 DEF PrunedLate
    <3> QED BY <3>1, <3>2
  <2>2. ASSUME NEW r \in DOMAIN own, Wrote(r)', own[r] \notin DOMAIN logs'
        PROVE  Due(DOMAIN logs', own[r])
    <3>1. Wrote(r)
      BY <1>1, <1>2, <1>6, <2>2 DEF Wrote, AtWorkApart, RunsTyped, A!Idle
    <3> QED BY <1>1, <1>9, <2>2, <3>1 DEF PrunedLate
  <2> QED BY <2>1, <2>2 DEF PrunedLate
<1>11. \A r \in DOMAIN own : r # k.run /\ own[r] \notin clashed => own[r] # f
  BY <1>1, <1>2 DEF NamesApart
<1>12. ClosedWhole(own)'
  <2> SUFFICES ASSUME NEW r \in closed, own[r] \notin clashed, own[r] \in DOMAIN logs'
               PROVE  A!Whole(r, logs'[own[r]])
    BY DEF ClosedWhole
  <2>1. r \in DOMAIN own /\ r # k.run
    BY <1>1 DEF AtWorkApart, RunsTyped
  <2>2. own[r] # f
    BY <1>11, <2>1
  <2>3. own[r] \in DOMAIN logs /\ logs'[own[r]] = logs[own[r]]
    BY <2>2
  <2> QED BY <1>1, <2>3 DEF ClosedWhole
<1>13. ASSUME NEW v \in Recorders, recorder'[v] # A!Idle PROVE Text(v)'
  <2>1. CASE v # w
    <3>1. /\ recorder'[v] = recorder[v] /\ recorder[v].run \in DOMAIN own
          /\ recorder[v].run # k.run /\ recorder[v].name = own[recorder[v].run] /\ Text(v)
      BY <1>1, <1>2, <1>13, <2>1 DEF AtWorkApart, RunsTyped, Asked
    <3>2. recorder[v].name \notin clashed => recorder[v].name # f
      BY <1>11, <3>1
    <3> QED BY <1>9, <3>1, <3>2 DEF Text
  <2> QED BY <2>1
<1> QED BY <1>3, <1>4, <1>5, <1>7, <1>10, <1>12, <1>13 DEF RunsInv

LEMMA GotoStep ==
    ASSUME NEW own, RunsTyped(own), NEW w \in Recorders, recorder[w] # A!Idle,
           NEW s \in AtWork, A!Goto(w, s)
    PROVE  \E k \in Asked(own) :
             /\ k.run = recorder[w].run /\ k.name = recorder[w].name /\ k.step = s
             /\ k.stale = recorder[w].stale /\ recorder' = [recorder EXCEPT ![w] = k]
             /\ recorder'[w] = k
<1>1. recorder[w] \in Asked(own)
  BY DEF RunsTyped
<1>2. PICK k : k = [recorder[w] EXCEPT !.step = s]
  OBVIOUS
<1>3. /\ k \in Asked(own) /\ k.run = recorder[w].run /\ k.name = recorder[w].name
      /\ k.step = s /\ k.stale = recorder[w].stale
  BY <1>1, <1>2 DEF Asked
<1>4. recorder' = [recorder EXCEPT ![w] = k]
  BY <1>2 DEF A!Goto
<1> QED BY <1>3, <1>4 DEF RunsTyped

\* Writing the header, the output, the trailer, the record, and listing.
LEMMA RunsBegin ==
    ASSUME NEW own, RunsInv(own), KeepRuns \in Nat, NEW w \in Recorders, A!Begin(w)
    PROVE  RunsInv(own)'
<1>1. recorder[w].step = "named" /\ A!Goto(w, "running") /\ recorder[w] # A!Idle
  BY DEF A!Begin, A!Idle
<1>2. PICK f : f = recorder[w].name
  OBVIOUS
<1>3. PICK k \in Asked(own) :
             /\ k.run = recorder[w].run /\ k.name = recorder[w].name /\ k.step = "running"
             /\ k.stale = recorder[w].stale /\ recorder' = [recorder EXCEPT ![w] = k]
             /\ recorder'[w] = k
  BY <1>1, GotoStep DEF RunsInv, AtWork
<1>4. /\ DOMAIN logs' = DOMAIN logs \cup {f} /\ logs'[f] = {<<k.run, "header">>}
      /\ \A g \in DOMAIN logs : g # f => logs'[g] = logs[g]
  BY <1>2, <1>3 DEF A!Begin, A!Appended
<1>5. Text(w)'
  BY <1>2, <1>3, <1>4 DEF Text
<1>6. \A g \in k.stale : g[1] < second /\ Due(DOMAIN logs, g)
  BY <1>1, <1>3 DEF RunsInv, PrunedLate
<1> QED BY <1>1, <1>2, <1>3, <1>4, <1>5, <1>6, RunsMove DEF A!Begin

LEMMA RunsOutput ==
    ASSUME NEW own, RunsInv(own), KeepRuns \in Nat, NEW w \in Recorders, A!Output(w)
    PROVE  RunsInv(own)'
<1>1. recorder[w].step = "running" /\ A!Goto(w, "ran") /\ recorder[w] # A!Idle
  BY DEF A!Output, A!Idle
<1>2. PICK f : f = recorder[w].name
  OBVIOUS
<1>3. PICK k \in Asked(own) :
             /\ k.run = recorder[w].run /\ k.name = recorder[w].name /\ k.step = "ran"
             /\ k.stale = recorder[w].stale /\ recorder' = [recorder EXCEPT ![w] = k]
             /\ recorder'[w] = k
  BY <1>1, GotoStep DEF RunsInv, AtWork
<1>4. /\ DOMAIN logs' = DOMAIN logs
      /\ f \in DOMAIN logs => logs'[f] = logs[f] \cup {<<k.run, "output">>}
      /\ \A g \in DOMAIN logs : g # f => logs'[g] = logs[g]
  BY <1>2, <1>3 DEF A!Output, A!Appended
<1>5. Text(w)'
  <2>1. Text(w)
    BY <1>1 DEF RunsInv
  <2> QED BY <1>1, <1>2, <1>3, <1>4, <2>1 DEF Text, A!Output
<1>6. \A g \in k.stale : g[1] < second /\ Due(DOMAIN logs, g)
  BY <1>1, <1>3 DEF RunsInv, PrunedLate
<1> QED BY <1>1, <1>2, <1>3, <1>4, <1>5, <1>6, RunsMove DEF A!Output

\* A file that was pruned is made again, and has enough after it.
LEMMA RunsTrailer ==
    ASSUME NEW own, RunsInv(own), KeepRuns \in Nat, NEW w \in Recorders, A!Trailer(w)
    PROVE  RunsInv(own)'
<1>1. recorder[w].step = "ran" /\ A!Goto(w, "index") /\ recorder[w] # A!Idle
  BY DEF A!Trailer, A!Idle
<1>2. PICK f : f = recorder[w].name
  OBVIOUS
<1>3. PICK k \in Asked(own) :
             /\ k.run = recorder[w].run /\ k.name = recorder[w].name /\ k.step = "index"
             /\ k.stale = recorder[w].stale /\ recorder' = [recorder EXCEPT ![w] = k]
             /\ recorder'[w] = k
  BY <1>1, GotoStep DEF RunsInv, AtWork
<1>4. /\ DOMAIN logs' = DOMAIN logs \cup {f}
      /\ f \in DOMAIN logs => logs'[f] = logs[f] \cup {<<k.run, "trailer">>}
      /\ \A g \in DOMAIN logs : g # f => logs'[g] = logs[g]
  BY <1>2, <1>3 DEF A!Trailer, A!Appended
<1>5. Text(w)'
  <2>1. Text(w) /\ clashed' = clashed
    BY <1>1 DEF RunsInv, A!Trailer
  <2>2. CASE f \in DOMAIN logs
    BY <1>1, <1>2, <1>3, <1>4, <2>1, <2>2 DEF Text, A!Whole, A!Parts
  <2>3. CASE f \notin DOMAIN logs
    <3>1. own[k.run] = f /\ k.run \in DOMAIN own
      BY <1>1, <1>2, <1>3 DEF RunsInv, AtWorkApart, Asked
    <3>2. Wrote(k.run)
      BY <1>1, <1>3 DEF Wrote, RunsInv, AtWorkApart, RunsTyped, A!Idle
    <3>3. Due(DOMAIN logs, f)
      BY <2>3, <3>1, <3>2 DEF RunsInv, PrunedLate
    <3>4. IsFiniteSet(DOMAIN logs')
      BY <1>4, FilesFinite, FS_AddElement DEF RunsInv
    <3>5. Due(DOMAIN logs', f)
      BY <1>4, <3>3, <3>4, DueGrows
    <3> QED BY <1>2, <1>3, <3>5 DEF Text
  <2> QED BY <2>2, <2>3
<1>6. \A g \in k.stale : g[1] < second /\ Due(DOMAIN logs, g)
  BY <1>1, <1>3 DEF RunsInv, PrunedLate
<1> QED BY <1>1, <1>2, <1>3, <1>4, <1>5, <1>6, RunsMove DEF A!Trailer

LEMMA RunsIndex ==
    ASSUME NEW own, RunsInv(own), KeepRuns \in Nat, NEW w \in Recorders, A!Index(w)
    PROVE  RunsInv(own)'
<1>1. /\ recorder[w].step = "index" /\ A!Goto(w, "list") /\ recorder[w] # A!Idle
      /\ index' = index \cup {<<recorder[w].run, recorder[w].name>>}
      /\ UNCHANGED <<second, logs, begun, closed, clashed>>
  BY DEF A!Index, A!Idle
<1>2. PICK f : f = recorder[w].name
  OBVIOUS
<1>3. PICK k \in Asked(own) :
             /\ k.run = recorder[w].run /\ k.name = recorder[w].name /\ k.step = "list"
             /\ k.stale = recorder[w].stale /\ recorder' = [recorder EXCEPT ![w] = k]
             /\ recorder'[w] = k
  BY <1>1, GotoStep DEF RunsInv, AtWork
<1>4. Text(w)'
  <2>1. Text(w)
    BY <1>1 DEF RunsInv
  <2> QED BY <1>1, <1>2, <1>3, <2>1 DEF Text
<1>5. \A g \in k.stale : g[1] < second /\ Due(DOMAIN logs, g)
  BY <1>1, <1>3 DEF RunsInv, PrunedLate
<1> QED BY <1>1, <1>2, <1>3, <1>4, <1>5, RunsMove

\* No more runs begin in a second than are kept, so one's own second prunes nothing.
LEMMA RunsList ==
    ASSUME NEW own, RunsInv(own), KeepRuns \in Nat, NEW w \in Recorders, A!List(w)
    PROVE  RunsInv(own)'
<1>1. /\ recorder[w].step = "list" /\ recorder[w] # A!Idle
      /\ recorder' = [recorder EXCEPT ![w].step = "unlink", ![w].stale = A!prune]
      /\ UNCHANGED <<second, logs, begun, closed, index, clashed>>
  BY DEF A!List, A!Idle
<1>2. /\ RunsTyped(own) /\ FilesOwned(own) /\ FewASecond /\ IsFiniteSet(DOMAIN logs)
      /\ IsFiniteSet(begun)
  BY FilesFinite DEF RunsInv, RunsTyped
<1>3. DOMAIN logs \subseteq Pairs
  BY <1>2 DEF RunsTyped, FilesOwned
<1>4. \A g : g \in A!prune <=> g \in DOMAIN logs /\ Due(DOMAIN logs, g)
  <2> SUFFICES ASSUME NEW g \in DOMAIN logs
               PROVE  g \in A!prune <=> Due(DOMAIN logs, g)
    BY DEF A!prune
  <2>1. After(DOMAIN logs, g) = {h \in DOMAIN logs : A!before(g, h)}
    BY DEF After
  <2>2. Due(DOMAIN logs, g) <=> Cardinality({h \in DOMAIN logs : A!before(g, h)}) >= KeepRuns
    BY <2>1 DEF Due
  <2> QED BY <2>2, SameCount DEF A!prune
<1>5. ASSUME NEW g \in A!prune PROVE g[1] < second
  <2>1. g \in DOMAIN logs /\ Due(DOMAIN logs, g) /\ g \in Pairs
    BY <1>3, <1>4
  <2>2. PICK r \in DOMAIN own : own[r] = g
    BY <1>2, <2>1 DEF FilesOwned
  <2>3. g[1] = r.at /\ r.at \in 0..second
    BY <1>2, <2>2 DEF RunsTyped
  <2>4. SUFFICES ASSUME g[1] = second PROVE FALSE
    BY <1>2, <2>3 DEF RunsTyped
  <2>5. PICK F : F = After(DOMAIN logs, g) \cup {g}
    OBVIOUS
  <2>6. ASSUME NEW h \in F PROVE \E q \in {q \in begun : q.at = second} \cap DOMAIN own : own[q] = h
    <3>1. h \in DOMAIN logs /\ h \in Pairs /\ second <= h[1]
      BY <1>2, <1>3, <2>1, <2>4, <2>5, <2>6, BeforeOrders DEF After, RunsTyped
    <3>2. PICK q \in DOMAIN own : own[q] = h
      BY <1>2, <3>1 DEF FilesOwned
    <3>3. q \in begun /\ q.at = h[1] /\ q.at \in 0..second
      BY <1>2, <3>2 DEF RunsTyped
    <3> QED BY <1>2, <3>1, <3>2, <3>3 DEF RunsTyped
  <2>7. IsFiniteSet({q \in begun : q.at = second})
    BY <1>2, FS_Subset
  <2>8. IsFiniteSet(F) /\ Cardinality(F) <= Cardinality({q \in begun : q.at = second})
    BY <2>6, <2>7, FilesCounted
  <2>9. Cardinality({q \in begun : q.at = second}) <= KeepRuns
    BY <1>2 DEF FewASecond, RunsTyped
  <2>10. IsFiniteSet(After(DOMAIN logs, g)) /\ g \notin After(DOMAIN logs, g)
    BY <1>2, <2>1, FS_Subset, BeforeOrders DEF After
  <2>11. Cardinality(F) = Cardinality(After(DOMAIN logs, g)) + 1
    BY <2>5, <2>10, FS_AddElement
  <2>12. Cardinality(After(DOMAIN logs, g)) >= KeepRuns
    BY <2>1 DEF Due
  <2> QED BY <2>7, <2>8, <2>9, <2>10, <2>11, <2>12, FS_CardinalityType
<1>6. PICK k : k = [recorder[w] EXCEPT !.step = "unlink", !.stale = A!prune]
  OBVIOUS
<1>7. recorder[w] \in Asked(own) /\ A!prune \subseteq Pairs
  BY <1>1, <1>2, <1>3, <1>4 DEF RunsTyped
<1>8. /\ k \in Asked(own) /\ k.run = recorder[w].run /\ k.name = recorder[w].name
      /\ k.step = "unlink" /\ k.stale = A!prune
  BY <1>6, <1>7 DEF Asked, AtWork
<1>9. recorder' = [recorder EXCEPT ![w] = k] /\ recorder'[w] = k
  BY <1>1, <1>2, <1>6 DEF RunsTyped
<1>10. Text(w)'
  <2>1. Text(w)
    BY <1>1 DEF RunsInv
  <2> QED BY <1>1, <1>4, <1>8, <1>9, <2>1 DEF Text
<1>11. \A g \in k.stale : g[1] < second /\ Due(DOMAIN logs, g)
  BY <1>4, <1>5, <1>8
<1> QED BY <1>1, <1>8, <1>9, <1>10, <1>11, RunsMove

\* Unlinking by whatever listing takes only what is due, and leaves enough after it.
LEMMA RunsUnlink ==
    ASSUME NEW own, RunsInv(own), KeepRuns \in Nat, NEW w \in Recorders, A!Unlink(w)
    PROVE  RunsInv(own)'
<1>1. /\ RunsTyped(own) /\ AtWorkApart(own) /\ FewASecond /\ FilesOwned(own)
      /\ NamesApart(own) /\ PrunedLate(own) /\ ClosedWhole(own)
      /\ \A v \in Recorders : recorder[v] # A!Idle => Text(v)
      /\ IsFiniteSet(DOMAIN logs)
  BY FilesFinite DEF RunsInv
<1>2. /\ recorder[w].step = "unlink" /\ recorder[w] # A!Idle
      /\ recorder' = [recorder EXCEPT ![w] = A!Idle]
      /\ closed' = closed \cup {recorder[w].run}
      /\ UNCHANGED <<second, begun, index, clashed>>
  BY DEF A!Unlink, A!Idle
<1>3. PICK gone : gone = recorder[w].stale
  OBVIOUS
<1>4. PICK r0 \in DOMAIN own : r0 = recorder[w].run
  BY <1>1, <1>2 DEF RunsTyped, Asked
<1>5. /\ DOMAIN logs' = DOMAIN logs \ gone
      /\ \A g \in DOMAIN logs' : logs'[g] = logs[g]
  BY <1>3 DEF A!Unlink
<1>6. /\ recorder'[w] = A!Idle /\ \A v \in Recorders \ {w} : recorder'[v] = recorder[v]
      /\ recorder' \in [Recorders -> {A!Idle} \cup Asked(own)]
  BY <1>1, <1>2 DEF RunsTyped
<1>7. RunsTyped(own)'
  BY <1>1, <1>2, <1>4, <1>6 DEF RunsTyped
<1>8. AtWorkApart(own)'
  BY <1>1, <1>2, <1>6 DEF AtWorkApart
<1>9. FewASecond' /\ NamesApart(own)'
  BY <1>1, <1>2 DEF FewASecond, NamesApart
<1>10. \A r : Wrote(r)' <=> Wrote(r)
  BY <1>1, <1>2, <1>6 DEF Wrote, A!Idle
<1>11. \A g \in gone : g[1] < second /\ Due(DOMAIN logs, g)
  BY <1>1, <1>2, <1>3 DEF PrunedLate
<1>12. DOMAIN logs \subseteq Pairs
  BY <1>1 DEF RunsTyped, FilesOwned
<1>13. \A g \in Pairs : Due(DOMAIN logs, g) => Due(DOMAIN logs', g)
  BY <1>1, <1>5, <1>11, <1>12, DueSurvives
<1>14. FilesOwned(own)'
  <2>1. \A r \in DOMAIN own : Wrote(r) /\ r.at = second => own[r] \notin gone
    BY <1>1, <1>11 DEF RunsTyped
  <2> QED BY <1>1, <1>2, <1>5, <1>10, <2>1 DEF FilesOwned
<1>15. PrunedLate(own)'
  <2>1. ASSUME NEW v \in Recorders, recorder'[v] # A!Idle, NEW g \in recorder'[v].stale
        PROVE  g[1] < second' /\ Due(DOMAIN logs', g)
    <3>1. recorder'[v] = recorder[v] /\ recorder[v] \in Asked(own)
      BY <1>1, <1>6, <2>1 DEF RunsTyped
    <3>2. g \in Pairs /\ g[1] < second /\ Due(DOMAIN logs, g)
      BY <1>1, <2>1, <3>1 DEF PrunedLate, Asked
    <3> QED BY <1>2, <1>13, <3>2
  <2>2. ASSUME NEW r \in DOMAIN own, Wrote(r)', own[r] \notin DOMAIN logs'
        PROVE  Due(DOMAIN logs', own[r])
    <3>1. Due(DOMAIN logs, own[r])
      BY <1>1, <1>5, <1>10, <1>11, <2>2 DEF PrunedLate
    <3> QED BY <1>1, <1>13, <3>1 DEF RunsTyped
  <2> QED BY <2>1, <2>2 DEF PrunedLate
<1>16. ClosedWhole(own)'
  <2> SUFFICES ASSUME NEW r \in closed', own[r] \notin clashed, own[r] \in DOMAIN logs'
               PROVE  A!Whole(r, logs[own[r]])
    BY <1>2, <1>5 DEF ClosedWhole
  <2>1. CASE r \in closed
    BY <1>1, <1>5, <2>1 DEF ClosedWhole
  <2>2. CASE r = r0
    <3>1. own[r0] = recorder[w].name /\ Text(w)
      BY <1>1, <1>2, <1>4 DEF AtWorkApart
    <3> QED BY <1>2, <1>3, <1>4, <1>5, <2>2, <3>1 DEF Text
  <2> QED BY <1>2, <1>4, <2>1, <2>2
<1>17. ASSUME NEW v \in Recorders, recorder'[v] # A!Idle PROVE Text(v)'
  <2>1. recorder'[v] = recorder[v] /\ Text(v) /\ recorder[v] \in Asked(own)
    BY <1>1, <1>6, <1>17 DEF RunsTyped
  <2>2. recorder[v].name \in Pairs
    BY <2>1 DEF Asked
  <2> QED BY <1>2, <1>5, <1>13, <2>1, <2>2 DEF Text
<1> QED BY <1>7, <1>8, <1>9, <1>14, <1>15, <1>16, <1>17 DEF RunsInv

\* There is a name left while runs are, and the first is taken.
LEMMA NameFree ==
    ASSUME NEW own, RunsInv(own), MaxRuns \in Nat, A!Cardinality(begun) < MaxRuns
    PROVE  /\ A!run_file(second) \in Pairs /\ A!run_file(second)[1] = second
           /\ A!run_file(second) \notin DOMAIN logs
<1>1. RunsTyped(own) /\ FilesOwned(own) /\ second \in Nat /\ IsFiniteSet(begun)
  BY DEF RunsInv, RunsTyped
<1> DEFINE Free == {c \in A!Counters : <<second, c>> \notin DOMAIN logs}
<1>2. Free \subseteq Nat
  BY DEF A!Counters
<1>3. Free # {}
  <2> SUFFICES ASSUME Free = {} PROVE FALSE
    OBVIOUS
  <2> DEFINE F == {<<second, c>> : c \in 1..MaxRuns}
             m == [c \in 1..MaxRuns |-> <<second, c>>]
  <2>1. F \subseteq DOMAIN logs
    BY DEF A!Counters
  <2>2. IsFiniteSet(1..MaxRuns) /\ Cardinality(1..MaxRuns) = MaxRuns
    BY FS_Interval
  <2>3. m \in Injection(1..MaxRuns, F)
    BY DEF Injection, IsInjective
  <2>4. IsFiniteSet(DOMAIN logs) /\ Cardinality(DOMAIN logs) <= Cardinality(begun)
    BY <1>1, FilesFinite
  <2>5. IsFiniteSet(F) /\ Cardinality(F) <= Cardinality(DOMAIN logs)
    BY <2>1, <2>4, FS_Subset
  <2>6. MaxRuns <= Cardinality(F)
    BY <2>2, <2>3, <2>5, FS_Injection
  <2> QED BY <1>1, <2>4, <2>5, <2>6, SameCount, FS_CardinalityType
<1>4. A!Min(Free) \in Free
  <2>1. PICK c \in Free : \A d \in Free : ~(<<d, c>> \in OpToRel(<, Nat))
    BY <1>2, <1>3, NatLessThanWellFounded, WFMin
  <2>2. \A d \in Free : ~(d < c)
    BY <1>2, <2>1 DEF OpToRel
  <2>3. \A d \in Free : c <= d
    BY <1>2, <2>2
  <2> HIDE DEF Free
  <2> QED BY <2>3 DEF A!Min
<1> QED BY <1>1, <1>4 DEF A!run_file, Pairs, A!Counters

\* A run begins: its name is no other's, or that of one that has not written either.
LEMMA RunsEnter ==
    ASSUME NEW own, RunsInv(own), KeepRuns \in Nat, MaxRuns \in Nat,
           NEW w \in Recorders, A!Enter(w)
    PROVE  \E o : RunsInv(o)'
<1>1. /\ RunsTyped(own) /\ AtWorkApart(own) /\ FewASecond /\ FilesOwned(own)
      /\ NamesApart(own) /\ PrunedLate(own) /\ ClosedWhole(own)
      /\ \A v \in Recorders : recorder[v] # A!Idle => Text(v)
  BY DEF RunsInv
<1>2. PICK r0 : r0 = [at |-> second, nth |-> Cardinality(begun) + 1]
  OBVIOUS
<1>3. PICK f : f = A!run_file(second)
  OBVIOUS
<1>4. PICK k : k = [step |-> "named", run |-> r0, name |-> f, stale |-> {}]
  OBVIOUS
<1>5. /\ recorder[w] = A!Idle /\ begun' = begun \cup {r0} /\ recorder' = [recorder EXCEPT ![w] = k]
      /\ Cardinality({r \in begun : r.at = second}) < KeepRuns
      /\ UNCHANGED <<second, logs, closed, index>>
      /\ clashed' = clashed \cup {g \in {f} : \E v \in Recorders :
                                     recorder[v].step = "named" /\ recorder[v].name = g}
  BY <1>2, <1>3, <1>4, SameCount DEF A!Enter
<1>6. f \in Pairs /\ f[1] = second /\ f \notin DOMAIN logs
  BY <1>3, NameFree DEF A!Enter
<1>7. IsFiniteSet(begun) /\ Cardinality(begun) \in Nat /\ second \in Nat
  BY <1>1, FS_CardinalityType DEF RunsTyped
<1>8. r0 \notin begun /\ r0.at = second
  BY <1>1, <1>2, <1>7 DEF RunsTyped
<1>9. IsFiniteSet(begun') /\ Cardinality(begun') = Cardinality(begun) + 1
  BY <1>5, <1>7, <1>8, FS_AddElement
<1>10. PICK own1 : own1 = [r \in DOMAIN own \cup {r0} |-> IF r = r0 THEN f ELSE own[r]]
  OBVIOUS
<1>11. /\ DOMAIN own1 = DOMAIN own \cup {r0} /\ own1[r0] = f /\ r0 \notin DOMAIN own
       /\ \A r \in DOMAIN own : own1[r] = own[r]
  BY <1>1, <1>8, <1>10 DEF RunsTyped
<1>12. /\ recorder'[w] = k /\ \A v \in Recorders \ {w} : recorder'[v] = recorder[v]
       /\ recorder' \in [Recorders -> {A!Idle} \cup Asked(own1)]
       /\ k # A!Idle /\ k.run = r0 /\ k.name = f /\ k.step = "named" /\ k.stale = {}
  <2>1. Asked(own) \subseteq Asked(own1)
    BY <1>11 DEF Asked
  <2>2. k \in Asked(own1)
    BY <1>4, <1>6, <1>11 DEF Asked, AtWork
  <2> QED BY <1>1, <1>4, <1>5, <2>1, <2>2 DEF RunsTyped, A!Idle
<1>13. RunsTyped(own1)'
  <2>1. begun' \subseteq [at : 0..second', nth : 1..Cardinality(begun')]
    BY <1>1, <1>2, <1>5, <1>7, <1>9 DEF RunsTyped
  <2>2. own1 \in [DOMAIN own1 -> Pairs]
    BY <1>1, <1>6, <1>10, <1>11 DEF RunsTyped
  <2>3. \A r \in DOMAIN own1 : own1[r][1] = r.at
    BY <1>1, <1>6, <1>8, <1>11 DEF RunsTyped
  <2> QED BY <1>1, <1>5, <1>9, <1>11, <1>12, <2>1, <2>2, <2>3 DEF RunsTyped
<1>14. \A v \in Recorders : recorder[v] # A!Idle => recorder[v] \in Asked(own) /\ recorder[v].run \in DOMAIN own
  BY <1>1 DEF RunsTyped, Asked
<1>15. AtWorkApart(own1)'
  <2>1. r0 \notin closed
    BY <1>1, <1>11 DEF RunsTyped
  <2> QED BY <1>1, <1>5, <1>11, <1>12, <1>14, <2>1 DEF AtWorkApart
<1>16. FewASecond'
  <2> SUFFICES ASSUME NEW s \in Nat PROVE Cardinality({r \in begun' : r.at = s}) <= KeepRuns
    BY DEF FewASecond
  <2>1. CASE s = second
    <3>1. {r \in begun' : r.at = s} = {r \in begun : r.at = second} \cup {r0}
      BY <1>5, <1>8, <2>1
    <3>2. IsFiniteSet({r \in begun : r.at = second})
      BY <1>7, FS_Subset
    <3>3. Cardinality({r \in begun : r.at = second} \cup {r0})
            = Cardinality({r \in begun : r.at = second}) + 1
      BY <1>8, <3>2, FS_AddElement
    <3>4. Cardinality({r \in begun : r.at = second}) \in Nat
      BY <3>2, FS_CardinalityType
    <3>5. Cardinality({r \in begun : r.at = second}) + 1 <= KeepRuns
      BY <1>5, <3>4
    <3> QED BY <3>1, <3>3, <3>5
  <2>2. CASE s # second
    <3>1. {r \in begun' : r.at = s} = {r \in begun : r.at = s}
      BY <1>5, <1>8, <2>2
    <3> QED BY <1>1, <3>1 DEF FewASecond
  <2> QED BY <2>1, <2>2
<1>17. \A r \in DOMAIN own : Wrote(r)' <=> Wrote(r)
  BY <1>5, <1>11, <1>12 DEF Wrote, A!Idle
<1>18. ~Wrote(r0)'
  BY <1>12 DEF Wrote
<1>19. FilesOwned(own1)'
  BY <1>1, <1>5, <1>11, <1>17, <1>18 DEF FilesOwned
<1>20. NamesApart(own1)'
  <2>1. ASSUME NEW q \in DOMAIN own, own[q] = f PROVE f \in clashed'
    <3>1. q.at = second
      BY <1>1, <1>6, <2>1 DEF RunsTyped
    <3>2. ~Wrote(q)
      BY <1>1, <1>6, <2>1, <3>1 DEF FilesOwned
    <3>3. PICK v \in Recorders : recorder[v].step = "named" /\ recorder[v].run = q
      BY <3>2 DEF Wrote
    <3>4. recorder[v].name = f
      BY <1>1, <2>1, <3>3 DEF AtWorkApart, A!Idle
    <3> QED BY <1>5, <3>3, <3>4
  <2> QED BY <1>1, <1>5, <1>11, <2>1 DEF NamesApart
<1>21. PrunedLate(own1)'
  BY <1>1, <1>5, <1>11, <1>12, <1>17, <1>18 DEF PrunedLate
<1>22. ClosedWhole(own1)'
  BY <1>1, <1>5, <1>11 DEF ClosedWhole, RunsTyped
<1>23. ASSUME NEW v \in Recorders, recorder'[v] # A!Idle PROVE Text(v)'
  <2>1. CASE v = w
    BY <1>5, <1>6, <1>12, <2>1 DEF Text
  <2>2. CASE v # w
    <3>1. recorder'[v] = recorder[v] /\ Text(v)
      BY <1>1, <1>12, <1>23, <2>2
    <3> QED BY <1>5, <3>1 DEF Text
  <2> QED BY <2>1, <2>2
<1> QED BY <1>13, <1>15, <1>16, <1>19, <1>20, <1>21, <1>22, <1>23 DEF RunsInv

\* A run that dies before it wrote anything has no name any more.
LEMMA RunsDie ==
    ASSUME NEW own, RunsInv(own), NEW w \in Recorders, A!Die(w)
    PROVE  \E o : RunsInv(o)'
<1>1. /\ RunsTyped(own) /\ AtWorkApart(own) /\ FewASecond /\ FilesOwned(own)
      /\ NamesApart(own) /\ PrunedLate(own) /\ ClosedWhole(own)
      /\ \A v \in Recorders : recorder[v] # A!Idle => Text(v)
  BY DEF RunsInv
<1>2. /\ recorder[w] # A!Idle /\ recorder' = [recorder EXCEPT ![w] = A!Idle]
      /\ UNCHANGED <<second, logs, begun, closed, index, clashed>>
  BY DEF A!Die
<1>3. PICK r0 \in DOMAIN own : r0 = recorder[w].run
  BY <1>1, <1>2 DEF RunsTyped, Asked
<1>4. PICK own1 : own1 = [r \in {q \in DOMAIN own : q = r0 => Wrote(r0)} |-> own[r]]
  OBVIOUS
<1>5. /\ DOMAIN own1 \subseteq DOMAIN own /\ \A r \in DOMAIN own1 : own1[r] = own[r]
      /\ \A r \in DOMAIN own : (r = r0 /\ ~Wrote(r0)) \/ r \in DOMAIN own1
  BY <1>4
<1>6. \A v \in Recorders \ {w} : recorder'[v] = recorder[v]
  BY <1>1, <1>2 DEF RunsTyped
<1>7. recorder'[w] = A!Idle
  BY <1>1, <1>2 DEF RunsTyped
<1>8. \A v \in Recorders \ {w} : recorder[v] # A!Idle => recorder[v] \in Asked(own1)
  BY <1>1, <1>2, <1>3, <1>5 DEF RunsTyped, AtWorkApart, Asked
<1>9. recorder' \in [Recorders -> {A!Idle} \cup Asked(own1)]
  BY <1>1, <1>2, <1>6, <1>7, <1>8 DEF RunsTyped
<1>10. r0 \notin closed
  BY <1>1, <1>2, <1>3 DEF AtWorkApart
<1>11. RunsTyped(own1)'
  <2>1. own1 \in [DOMAIN own1 -> Pairs]
    BY <1>1, <1>4, <1>5 DEF RunsTyped
  <2> QED BY <1>1, <1>2, <1>5, <1>9, <1>10, <2>1 DEF RunsTyped
<1>12. AtWorkApart(own1)'
  <2>1. \A v \in Recorders \ {w} : recorder[v] # A!Idle => recorder[v].run \in DOMAIN own1
    BY <1>8 DEF Asked
  <2> QED BY <1>1, <1>2, <1>5, <1>6, <1>7, <2>1 DEF AtWorkApart
<1>13. FewASecond' /\ NamesApart(own1)'
  BY <1>1, <1>2, <1>5 DEF FewASecond, NamesApart
<1>14. \A r \in DOMAIN own1 : Wrote(r)' <=> Wrote(r)
  BY <1>3, <1>4, <1>6, <1>7 DEF Wrote, A!Idle
<1>15. \A r \in DOMAIN own : Wrote(r) => r \in DOMAIN own1
  BY <1>5
<1>16. FilesOwned(own1)'
  BY <1>1, <1>2, <1>5, <1>14, <1>15 DEF FilesOwned
<1>17. PrunedLate(own1)'
  BY <1>1, <1>2, <1>5, <1>6, <1>7, <1>14 DEF PrunedLate
<1>18. ClosedWhole(own1)'
  BY <1>1, <1>2, <1>5, <1>10 DEF ClosedWhole, RunsTyped
<1>19. ASSUME NEW v \in Recorders, recorder'[v] # A!Idle PROVE Text(v)'
  BY <1>1, <1>2, <1>6, <1>7, <1>19 DEF Text
<1> QED BY <1>11, <1>12, <1>13, <1>16, <1>17, <1>18, <1>19 DEF RunsInv

LEMMA RunsSecond ==
    ASSUME NEW own, RunsInv(own), A!Second
    PROVE  RunsInv(own)'
<1>1. /\ RunsTyped(own) /\ AtWorkApart(own) /\ FewASecond /\ FilesOwned(own)
      /\ NamesApart(own) /\ PrunedLate(own) /\ ClosedWhole(own)
      /\ \A v \in Recorders : recorder[v] # A!Idle => Text(v)
  BY DEF RunsInv
<1>2. /\ second \in Nat /\ second' = second + 1
      /\ UNCHANGED <<logs, recorder, begun, closed, index, clashed>>
  BY <1>1 DEF A!Second, RunsTyped
<1>3. RunsTyped(own)'
  <2>1. 0..second \subseteq 0..second'
    BY <1>2
  <2> QED BY <1>1, <1>2, <2>1 DEF RunsTyped
<1>4. FilesOwned(own)'
  <2>1. \A r \in DOMAIN own : r.at # second'
    BY <1>1, <1>2 DEF RunsTyped
  <2> QED BY <1>1, <1>2, <2>1 DEF FilesOwned, Wrote
<1>5. PrunedLate(own)'
  <2>1. ASSUME NEW v \in Recorders, recorder[v] # A!Idle, NEW g \in recorder[v].stale
        PROVE  g[1] < second'
    <3>1. g \in Pairs /\ g[1] < second
      BY <1>1, <2>1 DEF RunsTyped, Asked, PrunedLate
    <3> QED BY <1>2, <3>1 DEF Pairs
  <2> QED BY <1>1, <1>2, <2>1 DEF PrunedLate, Wrote
<1> QED BY <1>1, <1>2, <1>3, <1>4, <1>5
     DEF RunsInv, AtWorkApart, FewASecond, NamesApart, ClosedWhole, Text

LEMMA RunsInit == ASSUME A!Init PROVE \E o : RunsInv(o)
<1>1. PICK own : own = [r \in {} |-> <<0, 1>>]
  OBVIOUS
<1>2. DOMAIN own = {}
  BY <1>1
<1>3. /\ second = 0 /\ logs = [f \in {} |-> {}] /\ begun = {} /\ closed = {}
      /\ index = {} /\ recorder = [w \in Recorders |-> A!Idle]
  BY DEF A!Init
<1>4. IsFiniteSet(begun) /\ Cardinality(begun) = 0
  BY <1>3, FS_EmptySet
<1>5. RunsTyped(own)
  <2>1. own \in [DOMAIN own -> Pairs]
    BY <1>1, <1>2
  <2>2. recorder \in [Recorders -> {A!Idle} \cup Asked(own)]
    BY <1>3
  <2> QED BY <1>2, <1>3, <1>4, <2>1, <2>2 DEF RunsTyped
<1>6. \A w \in Recorders : recorder[w] = A!Idle
  BY <1>3
<1>7. AtWorkApart(own) /\ NamesApart(own) /\ PrunedLate(own) /\ ClosedWhole(own)
  BY <1>2, <1>3, <1>6 DEF AtWorkApart, NamesApart, PrunedLate, ClosedWhole
<1>8. FilesOwned(own)
  <2>1. DOMAIN logs = {}
    BY <1>3
  <2> QED BY <1>2, <1>3, <2>1 DEF FilesOwned
<1>9. FewASecond
  <2> SUFFICES ASSUME NEW s \in Nat
               PROVE  Cardinality({r \in begun : r.at = s}) <= KeepRuns
    BY DEF FewASecond
  <2>1. {r \in begun : r.at = s} = {}
    BY <1>3
  <2> QED BY <2>1, FS_EmptySet, ActivityAssumption
<1> QED BY <1>5, <1>6, <1>7, <1>8, <1>9 DEF RunsInv

LEMMA RunsStep ==
    ASSUME \E o : RunsInv(o), [A!Next]_(A!vars) PROVE (\E o : RunsInv(o))'
<1>1. PICK own : RunsInv(own)
  OBVIOUS
<1> USE ActivityAssumption
<1>2. CASE UNCHANGED A!vars
  <2>1. RunsInv(own)'
    BY <1>1, <1>2
       DEF A!vars, RunsInv, RunsTyped, AtWorkApart, FewASecond, FilesOwned, NamesApart,
           PrunedLate, ClosedWhole, Text, Wrote
  <2> QED BY <2>1
<1>3. CASE A!Second
  BY <1>1, <1>3, RunsSecond
<1>4. ASSUME NEW w \in Recorders, A!Enter(w) \/ A!Die(w) PROVE (\E o : RunsInv(o))'
  BY <1>1, <1>4, RunsEnter, RunsDie
<1>5. ASSUME NEW w \in Recorders, A!Begin(w) \/ A!Output(w) \/ A!Trailer(w) \/ A!Index(w)
                                    \/ A!List(w) \/ A!Unlink(w)
      PROVE  RunsInv(own)'
  BY <1>1, <1>5, RunsBegin, RunsOutput, RunsTrailer, RunsIndex, RunsList, RunsUnlink
<1> QED BY <1>2, <1>3, <1>4, <1>5 DEF A!Next

\* A file that is pruned has as many after it as are kept, each of another run of its
\* second or later.
LEMMA RunsKeep == ASSUME \E o : RunsInv(o) PROVE LogsKept
<1>1. PICK own : RunsInv(own)
  OBVIOUS
<1>2. /\ RunsTyped(own) /\ FilesOwned(own) /\ PrunedLate(own) /\ ClosedWhole(own)
      /\ KeepRuns \in Nat
  BY <1>1, ActivityAssumption DEF RunsInv
<1> SUFFICES ASSUME NEW l \in A!list_runs, l.run \in closed, l.log \notin clashed
             PROVE  \/ l.available /\ A!Whole(l.run, A!read_run_log(l.log))
                    \/ /\ ~l.available
                       /\ A!Cardinality({r \in begun \ {l.run} : r.at >= l.run.at}) >= KeepRuns
  BY DEF LogsKept, A!LogsKept
<1>3. PICK r \in closed : r = l.run
  OBVIOUS
<1>4. /\ l.available = (l.log \in DOMAIN logs) /\ r \in DOMAIN own /\ Wrote(r)
      /\ l.log = own[r]
  BY <1>2, <1>3 DEF A!list_runs, FilesOwned
<1>5. CASE own[r] \in DOMAIN logs
  BY <1>2, <1>3, <1>4, <1>5 DEF ClosedWhole, A!read_run_log
<1>6. CASE own[r] \notin DOMAIN logs
  <2> DEFINE later == {q \in begun \ {r} : q.at >= r.at}
             after == After(DOMAIN logs, own[r])
  <2>1. Due(DOMAIN logs, own[r])
    BY <1>2, <1>4, <1>6 DEF PrunedLate
  <2>2. IsFiniteSet(later)
    BY <1>2, FS_Subset DEF RunsTyped
  <2>3. ASSUME NEW h \in after PROVE \E q \in later \cap DOMAIN own : own[q] = h
    <3>1. h \in DOMAIN logs /\ A!before(own[r], h)
      BY <2>3 DEF After
    <3>2. PICK q \in DOMAIN own : own[q] = h
      BY <1>2, <3>1 DEF FilesOwned
    <3>3. own[r] \in Pairs /\ own[q] \in Pairs /\ own[r][1] = r.at /\ own[q][1] = q.at
      BY <1>2, <1>4 DEF RunsTyped
    <3>4. r.at <= q.at /\ q # r
      BY <3>1, <3>2, <3>3, BeforeOrders
    <3>5. q.at >= r.at
      BY <3>3, <3>4 DEF Pairs
    <3> QED BY <1>2, <3>2, <3>4, <3>5 DEF RunsTyped
  <2> HIDE DEF later
  <2>4. IsFiniteSet(after) /\ Cardinality(after) <= Cardinality(later)
    BY <2>2, <2>3, FilesCounted
  <2>5. Cardinality(after) >= KeepRuns
    BY <2>1 DEF Due
  <2>6. Cardinality(later) >= KeepRuns
    BY <1>2, <2>2, <2>4, <2>5, FS_CardinalityType
  <2>7. A!Cardinality({q \in begun \ {l.run} : q.at >= l.run.at}) >= KeepRuns
    BY <1>3, <2>6, SameCount DEF later
  <2> QED BY <1>4, <1>6, <2>7
<1> QED BY <1>5, <1>6

\* The log of a completed run is whole or pruned, for any number of runs, recorders and
\* deaths: _prune drops only what has KEEP_RUNS files after it, however long ago it
\* listed them (activity.py).
THEOREM LogsStay == A!Spec => []LogsKept
<1>1. A!Init => \E o : RunsInv(o)
  BY RunsInit
<1>2. (\E o : RunsInv(o)) /\ [A!Next]_(A!vars) => (\E o : RunsInv(o))'
  BY RunsStep
<1>3. (\E o : RunsInv(o)) => LogsKept
  BY RunsKeep
<1> QED BY <1>1, <1>2, <1>3, PTL DEF A!Spec

-----------------------------------------------------------------------------
(***************************************************************************)
(* The file of records.  Its end is that of the log, as far back as a      *)
(* compaction keeps records as they are; whoever compacts with nobody else *)
(* writing puts such a file in its place.                                  *)
(***************************************************************************)

IsList(s) == \E T : s \in Seq(T)
\* s ends as t does, n records back.
EndsAs(s, t, n) == Len(s) >= n /\ \A i \in 0..(n - 1) : s[Len(s) - i] = t[Len(t) - i]
Newest == IF Len(log) < History THEN Len(log) ELSE History

LogInv(w) ==
    /\ IsList(log) /\ IsList(file) /\ EndsAs(file, log, Newest)
    /\ DOMAIN at = Writers /\ DOMAIN fd = Writers /\ DOMAIN snap = Writers
    /\ at[w] = "append" => fd[w] = inode
    /\ at[w] = "rewrite" => snap[w] = file /\ (History > 0 => Len(file) >= History)
    /\ at[w] = "replace" => \A s \in compacted : IsList(s) /\ EndsAs(s, log, Newest)

LEMMA ListLen == ASSUME NEW s, IsList(s) PROVE Len(s) \in Nat
BY DEF IsList

LEMMA ListWider == ASSUME NEW T, NEW U, T \subseteq U, NEW s \in Seq(T) PROVE s \in Seq(U)
OBVIOUS

LEMMA ListAppends ==
    ASSUME NEW s, IsList(s), NEW e
    PROVE  /\ IsList(Append(s, e)) /\ Len(Append(s, e)) = Len(s) + 1
           /\ Append(s, e)[Len(s) + 1] = e
           /\ \A i \in 1..Len(s) : Append(s, e)[i] = s[i]
<1>1. PICK T : s \in Seq(T)
  BY DEF IsList
<1>2. s \in Seq(T \cup {e})
  BY <1>1, ListWider
<1> QED BY <1>2, AppendProperties DEF IsList

LEMMA LastOf ==
    ASSUME NEW s, IsList(s), NEW n \in 0..Len(s)
    PROVE  /\ IsList(last(n, s)) /\ Len(last(n, s)) = n
           /\ \A i \in 1..n : last(n, s)[i] = s[Len(s) - n + i]
<1>1. PICK T : s \in Seq(T)
  BY DEF IsList
<1>2. Len(s) \in Nat /\ \A i \in (Len(s) - n + 1)..Len(s) : s[i] \in T
  BY <1>1
<1>3. /\ last(n, s) \in Seq(T)
      /\ Len(last(n, s)) = IF Len(s) - n + 1 <= Len(s) THEN Len(s) - (Len(s) - n + 1) + 1 ELSE 0
      /\ \A i \in 1..(Len(s) - (Len(s) - n + 1) + 1) :
            last(n, s)[i] = s[Len(s) - n + 1 + i - 1]
  BY <1>2, SubSeqProperties DEF last
<1>4. Len(last(n, s)) = n
  BY <1>2, <1>3
<1>5. \A i \in 1..n : last(n, s)[i] = s[Len(s) - n + i]
  BY <1>2, <1>3
<1> QED BY <1>3, <1>4, <1>5 DEF IsList

LEMMA SameEnd ==
    ASSUME NEW s, IsList(s), NEW t, IsList(t), NEW n \in 0..Len(t), EndsAs(s, t, n)
    PROVE  last(n, s) = last(n, t)
<1>1. /\ Len(s) \in Nat /\ Len(t) \in Nat /\ n \in Nat /\ n <= Len(t) /\ n <= Len(s)
  BY ListLen DEF EndsAs
<1>2. PICK T : last(n, s) \in Seq(T)
  BY <1>1, LastOf DEF IsList
<1>3. PICK U : last(n, t) \in Seq(U)
  BY <1>1, LastOf DEF IsList
<1>4. ASSUME NEW i \in 1..n PROVE last(n, s)[i] = last(n, t)[i]
  <2>1. n - i \in 0..(n - 1)
    BY <1>1
  <2>2. s[Len(s) - (n - i)] = t[Len(t) - (n - i)]
    BY <2>1 DEF EndsAs
  <2>3. Len(s) - (n - i) = Len(s) - n + i /\ Len(t) - (n - i) = Len(t) - n + i
    BY <1>1
  <2>4. last(n, s)[i] = s[Len(s) - n + i] /\ last(n, t)[i] = t[Len(t) - n + i]
    BY <1>1, LastOf
  <2> QED BY <2>2, <2>3, <2>4
<1>5. last(n, s) \in Seq(T \cup U) /\ last(n, t) \in Seq(T \cup U)
  BY <1>2, <1>3, ListWider
<1>6. Len(last(n, s)) = n /\ Len(last(n, t)) = n
  BY <1>1, LastOf
<1> HIDE DEF IsList
<1> QED BY <1>4, <1>5, <1>6, SeqEqual

\* A record written to both ends makes them the same one record further back.
LEMMA EndsLater ==
    ASSUME NEW s, IsList(s), NEW t, IsList(t), NEW e, NEW n \in Nat, n <= Len(t),
           EndsAs(s, t, n), NEW m \in 0..(n + 1)
    PROVE  EndsAs(Append(s, e), Append(t, e), m)
<1>1. Len(s) \in Nat /\ Len(t) \in Nat /\ n <= Len(s)
  BY ListLen DEF EndsAs
<1>2. /\ Len(Append(s, e)) = Len(s) + 1 /\ Len(Append(t, e)) = Len(t) + 1
      /\ Append(s, e)[Len(s) + 1] = e /\ Append(t, e)[Len(t) + 1] = e
      /\ \A i \in 1..Len(s) : Append(s, e)[i] = s[i]
      /\ \A i \in 1..Len(t) : Append(t, e)[i] = t[i]
  BY ListAppends
<1>3. ASSUME NEW i \in 0..(m - 1)
      PROVE  Append(s, e)[Len(s) + 1 - i] = Append(t, e)[Len(t) + 1 - i]
  <2>1. CASE i = 0
    BY <1>1, <1>2, <2>1
  <2>2. CASE i # 0
    <3>1. /\ i - 1 \in 0..(n - 1)
          /\ Len(s) + 1 - i = Len(s) - (i - 1) /\ Len(t) + 1 - i = Len(t) - (i - 1)
          /\ Len(s) + 1 - i \in 1..Len(s) /\ Len(t) + 1 - i \in 1..Len(t)
      BY <1>1, <2>2
    <3>2. s[Len(s) - (i - 1)] = t[Len(t) - (i - 1)]
      BY <3>1 DEF EndsAs
    <3> QED BY <1>2, <3>1, <3>2
  <2> QED BY <2>1, <2>2
<1> DEFINE u == Append(s, e)
           v == Append(t, e)
<1>4. /\ Len(u) = Len(s) + 1 /\ Len(v) = Len(t) + 1
      /\ \A i \in 0..(m - 1) : u[Len(s) + 1 - i] = v[Len(t) + 1 - i]
  BY <1>2, <1>3
<1> HIDE DEF u, v
<1>5. EndsAs(u, v, m)
  BY <1>1, <1>4 DEF EndsAs
<1> QED BY <1>5 DEF u, v

\* However its records are ordered, a finite set of them gives a list.
LEMMA SortedIsList == ASSUME NEW S, IsFiniteSet(S) PROVE IsList(oldestFirst(S))
<1>1. Cardinality(S) \in Nat
  BY FS_CardinalityType
<1> DEFINE f == oldestFirst(S)
           T == {f[i] : i \in 1..Cardinality(S)}
<1>2. f \in [1..Cardinality(S) -> T]
  BY DEF oldestFirst
<1> HIDE DEF f, T
<1>3. f \in Seq(T)
  BY <1>1, <1>2
<1>4. IsList(f)
  BY <1>3 DEF IsList
<1> QED BY <1>4 DEF f

\* A compaction leaves as many of the newest records as it is to keep.
LEMMA CompactKeeps ==
    ASSUME IsFiniteSet(Keys), NEW s, IsList(s), History > 0 => Len(s) >= History
    PROVE  /\ IsList(compact(s))
           /\ \A n \in 0..History : n <= Len(s) => EndsAs(compact(s), s, n)
<1> DEFINE now == current(s)
           suffix == last(History, s)
           kept == {k \in Keys : now[k] # NoEntry /\ k \notin {suffix[i].key : i \in DOMAIN suffix}}
           row == [k \in kept |-> [op |-> "set", key |-> k, value |-> now[k].value, ts |-> now[k].ts]]
           rows == {[op |-> "set", key |-> k, value |-> now[k].value, ts |-> now[k].ts] : k \in kept}
           before == oldestFirst(rows)
<1>1. History \in Nat /\ Len(s) \in Nat /\ History <= Len(s)
  BY ListLen, ConstantsAssumption
<1>2. IsFiniteSet(rows)
  <2>1. IsFiniteSet(kept)
    BY FS_Subset
  <2>2. row \in Surjection(kept, rows)
    BY DEF Surjection
  <2> QED BY <2>1, <2>2, FS_Surjection
<1>3. compact(s) = before \o suffix
  BY DEF compact
<1>4. IsList(before)
  BY <1>2, SortedIsList
<1>5. /\ IsList(suffix) /\ Len(suffix) = History
      /\ \A i \in 1..History : suffix[i] = s[Len(s) - History + i]
  BY <1>1, LastOf
<1> HIDE DEF before, suffix
<1>6. PICK T : before \in Seq(T) /\ suffix \in Seq(T)
  <2>1. PICK T1 : before \in Seq(T1)
    BY <1>4 DEF IsList
  <2>2. PICK T2 : suffix \in Seq(T2)
    BY <1>5 DEF IsList
  <2>3. before \in Seq(T1 \cup T2) /\ suffix \in Seq(T1 \cup T2)
    BY <2>1, <2>2, ListWider
  <2> QED BY <2>3
<1>7. /\ compact(s) \in Seq(T) /\ Len(compact(s)) = Len(before) + History
      /\ \A i \in 1..(Len(before) + History) :
            compact(s)[i] = IF i <= Len(before) THEN before[i] ELSE suffix[i - Len(before)]
  <2>1. /\ before \o suffix \in Seq(T) /\ Len(before \o suffix) = Len(before) + Len(suffix)
        /\ \A i \in 1..(Len(before) + Len(suffix)) :
              (before \o suffix)[i] = IF i <= Len(before) THEN before[i]
                                                         ELSE suffix[i - Len(before)]
    BY <1>6, ConcatProperties
  <2> QED BY <1>3, <1>5, <2>1
<1>8. Len(before) \in Nat
  BY <1>4, ListLen
<1>9. ASSUME NEW n \in 0..History, NEW i \in 0..(n - 1)
      PROVE  compact(s)[Len(compact(s)) - i] = s[Len(s) - i]
  <2>1. /\ Len(compact(s)) - i \in 1..(Len(before) + History)
        /\ ~(Len(compact(s)) - i <= Len(before))
        /\ Len(compact(s)) - i - Len(before) = History - i /\ History - i \in 1..History
        /\ Len(s) - History + (History - i) = Len(s) - i
    BY <1>1, <1>7, <1>8, <1>9
  <2> QED BY <1>5, <1>7, <2>1
<1>10. \A n \in 0..History : Len(compact(s)) >= n
  BY <1>1, <1>7, <1>8
<1> QED BY <1>7, <1>9, <1>10 DEF IsList, EndsAs

LEMMA LogInit == ASSUME Init, NEW w \in Writers PROVE LogInv(w)
<1>1. IsList(<<>>) /\ Len(<<>>) = 0
  BY DEF IsList
<1>2. Newest = 0
  BY <1>1, ConstantsAssumption DEF Init, Newest
<1> QED BY <1>1, <1>2 DEF Init, LogInv, EndsAs

LEMMA LogStep ==
    ASSUME IsFiniteSet(Keys), NEW w \in Writers, Writers = {w}, LogInv(w), [Next]_vars
    PROVE  LogInv(w)'
<1>1. /\ IsList(log) /\ IsList(file) /\ EndsAs(file, log, Newest)
      /\ DOMAIN at = Writers /\ DOMAIN fd = Writers /\ DOMAIN snap = Writers
      /\ Len(log) \in Nat /\ Len(file) \in Nat /\ History \in Nat /\ Newest \in 0..History
      /\ Newest <= Len(log) /\ Newest \in Nat
  BY ListLen, ConstantsAssumption DEF LogInv, Newest
<1>2. ASSUME UNCHANGED <<file, log>>, DOMAIN at' = Writers, DOMAIN fd' = Writers,
             DOMAIN snap' = Writers, at'[w] \notin {"append", "rewrite", "replace"}
      PROVE  LogInv(w)'
  BY <1>1, <1>2 DEF LogInv, Newest, EndsAs
<1>3. CASE UNCHANGED vars
  BY <1>3 DEF vars, LogInv, Newest, EndsAs
<1>4. CASE Open(w)
  BY <1>1, <1>4 DEF Open, Goto, LogInv, Newest, EndsAs
<1>5. CASE AppendRecord(w)
  <2>1. /\ log' = Append(log, Stamped(w)) /\ file' = Append(file, Stamped(w))
        /\ at' = [at EXCEPT ![w] = "stat"] /\ UNCHANGED <<fd, snap>>
    BY <1>5 DEF AppendRecord, Goto, LogInv
  <2>2. IsList(log') /\ IsList(file') /\ Len(log') = Len(log) + 1
    BY <1>1, <2>1, ListAppends
  <2>3. Newest' \in 0..(Newest + 1)
    BY <1>1, <2>2 DEF Newest
  <2>4. EndsAs(file', log', Newest')
    BY <1>1, <2>1, <2>3, EndsLater
  <2> QED BY <1>1, <2>1, <2>2, <2>4 DEF LogInv, EndsAs
<1>6. CASE MaybeCompact(w)
  BY <1>1, <1>2, <1>6 DEF MaybeCompact, Goto
<1>7. CASE Read(w)
  BY <1>1, <1>7 DEF Read, Goto, LogInv, Newest, EndsAs
<1>8. CASE Rewrite(w)
  <2>1. /\ UNCHANGED <<file, log, fd>> /\ at' = [at EXCEPT ![w] = "replace"]
        /\ snap[w] = file /\ (History > 0 => Len(file) >= History)
        /\ compacted' = {compact(file)} /\ DOMAIN snap' = Writers
    BY <1>1, <1>8 DEF Rewrite, Goto, LogInv
  <2>2. IsList(compact(file)) /\ EndsAs(compact(file), file, Newest)
    <3>1. Newest <= Len(file)
      BY <1>1 DEF EndsAs
    <3> QED BY <1>1, <2>1, <3>1, CompactKeeps
  <2>3. EndsAs(compact(file), log, Newest)
    BY <1>1, <2>2 DEF EndsAs
  <2> QED BY <1>1, <2>1, <2>2, <2>3 DEF LogInv, Newest, EndsAs
<1>9. CASE Replace(w)
  <2>1. /\ UNCHANGED <<log, fd, snap>> /\ at' = [at EXCEPT ![w] = "idle"]
        /\ file' = file \/ file' \in compacted
        /\ \A s \in compacted : IsList(s) /\ EndsAs(s, log, Newest)
    BY <1>9 DEF Replace, Goto, LogInv
  <2>2. IsList(file') /\ EndsAs(file', log, Newest)
    BY <1>1, <2>1
  <2> QED BY <1>1, <2>1, <2>2 DEF LogInv, Newest, EndsAs
<1>10. CASE Crash(w)
  BY <1>1, <1>2, <1>10 DEF Crash, Goto
<1> QED BY <1>3, <1>4, <1>5, <1>6, <1>7, <1>8, <1>9, <1>10 DEF Next

\* With one writer, as the metrics log has, the newest records can always be listed in the
\* order they were written, for any keys, values and sizes and wherever a compaction dies
\* (LogTab.compact_file).
THEOREM HistoryKept ==
    ASSUME IsFiniteSet(Keys), NEW w, Writers = {w} PROVE Spec => []KeepsHistory
<1>1. Init => LogInv(w)
  BY LogInit
<1>2. LogInv(w) /\ [Next]_vars => LogInv(w)'
  BY LogStep
<1>3. LogInv(w) => KeepsHistory
  <2> SUFFICES ASSUME LogInv(w) PROVE KeepsHistory
    OBVIOUS
  <2>1. /\ IsList(log) /\ IsList(file) /\ EndsAs(file, log, Newest) /\ Newest \in 0..Len(log)
    BY ListLen, ConstantsAssumption DEF LogInv, Newest
  <2>2. last(Newest, file) = last(Newest, log) /\ Len(file) >= Newest
    BY <2>1, SameEnd DEF EndsAs
  <2> QED BY <2>2 DEF KeepsHistory, Newest
<1> QED BY <1>1, <1>2, <1>3, PTL DEF Spec

-----------------------------------------------------------------------------
(***************************************************************************)
(* What a file of records stands for.  A key's entry is made by the last   *)
(* record that touches the key (`Shows`); a compaction keeps, for every    *)
(* key, that record or one with the same effect and time.  Hence the table *)
(* of a file is KeyTable's table.                                          *)
(***************************************************************************)

Rows == {[op |-> r.op, key |-> r.key, value |-> r.value, ts |-> t] :
            r \in Records, t \in Nat \ {0}}

Touches(r, k) == IF r.op = "clr" THEN k \in Under[r.key] ELSE r.key = k
EffectOf(r) == IF r.op = "set" THEN Entry(r.ts, r) ELSE NoEntry
Nothing == [k \in Keys |-> NoEntry]

\* After n records of s the entry of k is e.
Shows(s, n, k, e) ==
    \/ e = NoEntry /\ \A i \in 1..n : ~Touches(s[i], k)
    \/ \E i \in 1..n : /\ Touches(s[i], k) /\ e = EffectOf(s[i])
                       /\ \A j \in (i + 1)..n : ~Touches(s[j], k)

LEMMA RowFields ==
    ASSUME NEW r \in Rows
    PROVE  /\ r.op \in {"set", "del", "clr"} /\ r.ts \in Nat \ {0}
           /\ r.op = "set" => r.key \in Keys /\ r.value \in Values /\ r.value # None
           /\ r.op = "del" => r.key \in Keys
           /\ r.op = "clr" => r.key \in DOMAIN Under /\ Under[r.key] \subseteq Keys
BY ConstantsAssumption DEF Rows, Records

LEMMA ShowsOne ==
    ASSUME NEW s, NEW n \in Nat, NEW k, NEW d, NEW e, Shows(s, n, k, d), Shows(s, n, k, e)
    PROVE  d = e
BY DEF Shows

\* Only the first n records matter.
LEMMA ShowsSame ==
    ASSUME NEW s, NEW t, NEW n \in Nat, NEW k, NEW e, \A i \in 1..n : s[i] = t[i],
           Shows(s, n, k, e)
    PROVE  Shows(t, n, k, e)
<1>1. CASE e = NoEntry /\ \A i \in 1..n : ~Touches(s[i], k)
  BY <1>1 DEF Shows
<1>2. ASSUME NEW i \in 1..n, Touches(s[i], k), e = EffectOf(s[i]),
             \A j \in (i + 1)..n : ~Touches(s[j], k)
      PROVE  Shows(t, n, k, e)
  <2>1. t[i] = s[i] /\ \A j \in (i + 1)..n : t[j] = s[j]
    OBVIOUS
  <2> QED BY <1>2, <2>1 DEF Shows
<1> QED BY <1>1, <1>2 DEF Shows

LEMMA ShowsNext ==
    ASSUME NEW s, NEW n \in Nat, NEW k, NEW e, Shows(s, n, k, e)
    PROVE  Shows(s, n + 1, k, IF Touches(s[n + 1], k) THEN EffectOf(s[n + 1]) ELSE e)
<1>1. CASE Touches(s[n + 1], k)
  BY <1>1 DEF Shows
<1>2. CASE ~Touches(s[n + 1], k)
  <2>1. CASE e = NoEntry /\ \A i \in 1..n : ~Touches(s[i], k)
    BY <1>2, <2>1 DEF Shows
  <2>2. ASSUME NEW i \in 1..n, Touches(s[i], k), e = EffectOf(s[i]),
               \A j \in (i + 1)..n : ~Touches(s[j], k)
        PROVE  Shows(s, n + 1, k, e)
    <3>1. i \in 1..(n + 1) /\ \A j \in (i + 1)..(n + 1) : ~Touches(s[j], k)
      BY <1>2, <2>2
    <3> QED BY <2>2, <3>1 DEF Shows
  <2> QED BY <1>2, <2>1, <2>2 DEF Shows
<1> QED BY <1>1, <1>2

LEMMA ShowsFrom ==
    ASSUME NEW s, NEW n \in Nat \ {0}, NEW k, NEW e, Shows(s, n - 1, k, e)
    PROVE  Shows(s, n, k, IF Touches(s[n], k) THEN EffectOf(s[n]) ELSE e)
<1> DEFINE m == n - 1
<1>1. m \in Nat /\ m + 1 = n
  OBVIOUS
<1> HIDE DEF m
<1>2. Shows(s, m, k, e)
  BY DEF m
<1>3. Shows(s, m + 1, k, IF Touches(s[m + 1], k) THEN EffectOf(s[m + 1]) ELSE e)
  BY <1>1, <1>2, ShowsNext
<1> QED BY <1>1, <1>3, Zenon

\* A set of naturals that is not empty has a smallest.
LEMMA Least ==
    ASSUME NEW S \in SUBSET Nat, S # {} PROVE \E n \in S : \A m \in S : n <= m
<1>1. PICK n \in S : \A m \in S : ~(<<m, n>> \in OpToRel(<, Nat))
  BY NatLessThanWellFounded, WFMin
<1>2. \A m \in S : ~(m < n)
  BY <1>1 DEF OpToRel
<1> QED BY <1>2

LEMMA ShowsSome == ASSUME NEW s, NEW n \in Nat, NEW k PROVE \E e : Shows(s, n, k, e)
<1> DEFINE Dark == {m \in Nat : ~ \E e : Shows(s, m, k, e)}
<1>1. SUFFICES ASSUME Dark # {} PROVE FALSE
  OBVIOUS
<1>2. PICK m \in Dark : \A l \in Dark : m <= l
  BY <1>1, Least
<1>3. CASE m = 0
  <2>1. Shows(s, 0, k, NoEntry)
    BY DEF Shows
  <2> QED BY <1>3, <2>1
<1>4. CASE m # 0
  <2>1. m - 1 \in Nat /\ m - 1 \notin Dark /\ m \in Nat \ {0}
    BY <1>2, <1>4
  <2>2. PICK e : Shows(s, m - 1, k, e)
    BY <2>1
  <2> QED BY <2>1, <2>2, ShowsFrom
<1> QED BY <1>3, <1>4

LEMMA AppliesTo ==
    ASSUME NEW r \in Rows, NEW es, es = [k \in Keys |-> es[k]]
    PROVE  Apply(es, r) = [k \in Keys |-> IF Touches(r, k) THEN EffectOf(r) ELSE es[k]]
<1>1. CASE r.op = "set"
  BY <1>1, RowFields DEF Apply, Touches, EffectOf
<1>2. CASE r.op = "del"
  BY <1>2, RowFields DEF Apply, Touches, EffectOf
<1>3. CASE r.op = "clr"
  BY <1>3, RowFields DEF Apply, Touches, EffectOf
<1> QED BY <1>1, <1>2, <1>3, RowFields

\* f goes through the records of s as load does.
Builds(s, f) ==
    f = [n \in 0..Len(s) |-> IF n = 0 THEN Nothing ELSE Apply(f[n - 1], s[n])]

LEMMA BuildsSome == ASSUME NEW s \in Seq(Rows) PROVE \E f : Builds(s, f)
<1> DEFINE At(n, k) == CHOOSE e : Shows(s, n, k, e)
           f == [n \in 0..Len(s) |-> [k \in Keys |-> At(n, k)]]
<1>0. Len(s) \in Nat
  BY LenProperties
<1>1. \A n \in Nat : \A k : Shows(s, n, k, At(n, k))
  BY ShowsSome, Zenon
<1> HIDE DEF At
<1>2. ASSUME NEW k \in Keys PROVE At(0, k) = NoEntry
  <2>1. Shows(s, 0, k, At(0, k))
    BY <1>1
  <2> QED BY <2>1 DEF Shows
<1>3. ASSUME NEW n \in 0..Len(s), n # 0
      PROVE  [k \in Keys |-> At(n, k)] = Apply([k \in Keys |-> At(n - 1, k)], s[n])
  <2>1. n - 1 \in Nat /\ n \in Nat \ {0} /\ s[n] \in Rows
    BY <1>3, ElementOfSeq
  <2>2. Apply([k \in Keys |-> At(n - 1, k)], s[n]) =
          [k \in Keys |-> IF Touches(s[n], k) THEN EffectOf(s[n]) ELSE At(n - 1, k)]
    BY <2>1, AppliesTo
  <2>3. ASSUME NEW k \in Keys
        PROVE  At(n, k) = IF Touches(s[n], k) THEN EffectOf(s[n]) ELSE At(n - 1, k)
    <3>1. Shows(s, n, k, IF Touches(s[n], k) THEN EffectOf(s[n]) ELSE At(n - 1, k))
      BY <1>1, <2>1, ShowsFrom
    <3>2. Shows(s, n, k, At(n, k))
      BY <1>1, <2>1
    <3> QED BY <2>1, <3>1, <3>2, ShowsOne
  <2> QED BY <2>2, <2>3
<1>4. ASSUME NEW n \in 0..Len(s)
      PROVE  f[n] = IF n = 0 THEN Nothing ELSE Apply(f[n - 1], s[n])
  <2>1. CASE n = 0
    BY <1>2, <2>1 DEF Nothing
  <2>2. CASE n # 0
    <3>1. n - 1 \in 0..Len(s)
      BY <1>0, <2>2
    <3>2. f[n] = [k \in Keys |-> At(n, k)] /\ f[n - 1] = [k \in Keys |-> At(n - 1, k)]
      BY <3>1
    <3> HIDE DEF f
    <3> QED BY <1>3, <2>2, <3>2
  <2> QED BY <2>1, <2>2
<1>5. f = [n \in 0..Len(s) |-> f[n]]
  OBVIOUS
<1> HIDE DEF f
<1>6. f = [n \in 0..Len(s) |-> IF n = 0 THEN Nothing ELSE Apply(f[n - 1], s[n])]
  BY <1>4, <1>5
<1> QED BY <1>6 DEF Builds

LEMMA BuildsShow ==
    ASSUME NEW s \in Seq(Rows), NEW f, Builds(s, f), NEW n \in 0..Len(s)
    PROVE  f[n] = [k \in Keys |-> f[n][k]] /\ \A k \in Keys : Shows(s, n, k, f[n][k])
<1> DEFINE Right(m) == /\ f[m] = [k \in Keys |-> f[m][k]]
                       /\ \A k \in Keys : Shows(s, m, k, f[m][k])
           Wrong == {m \in 0..Len(s) : ~Right(m)}
<1>0. Len(s) \in Nat /\ Wrong \in SUBSET Nat
  BY LenProperties
<1>1. SUFFICES ASSUME Wrong # {} PROVE FALSE
  OBVIOUS
<1>2. PICK m \in Wrong : \A l \in Wrong : m <= l
  <2> HIDE DEF Wrong
  <2> QED BY <1>0, <1>1, Least
<1>3. m \in 0..Len(s) /\ ~Right(m)
  BY <1>2
<1>4. f[m] = IF m = 0 THEN Nothing ELSE Apply(f[m - 1], s[m])
  BY <1>3 DEF Builds
<1>5. CASE m = 0
  <2>1. f[m] = Nothing
    BY <1>4, <1>5
  <2>2. \A k \in Keys : Shows(s, m, k, NoEntry)
    BY <1>5 DEF Shows
  <2> QED BY <1>3, <2>1, <2>2 DEF Nothing
<1>6. CASE m # 0
  <2>1. m \in Nat \ {0} /\ m - 1 \in 0..Len(s) /\ ~(m <= m - 1)
    BY <1>0, <1>3, <1>6
  <2>2. m - 1 \notin Wrong
    BY <1>2, <2>1
  <2>3. Right(m - 1) /\ s[m] \in Rows
    BY <1>3, <2>1, <2>2, ElementOfSeq
  <2>4. f[m] = Apply(f[m - 1], s[m])
    BY <1>4, <1>6
  <2>5. f[m] = [k \in Keys |-> IF Touches(s[m], k) THEN EffectOf(s[m]) ELSE f[m - 1][k]]
    BY <2>3, <2>4, AppliesTo
  <2>6. ASSUME NEW k \in Keys PROVE Shows(s, m, k, f[m][k])
    <3>1. Shows(s, m, k, IF Touches(s[m], k) THEN EffectOf(s[m]) ELSE f[m - 1][k])
      BY <2>1, <2>3, ShowsFrom
    <3> QED BY <2>5, <3>1
  <2> QED BY <1>3, <2>5, <2>6
<1> QED BY <1>5, <1>6

LEMMA CurrentShows ==
    ASSUME NEW s \in Seq(Rows)
    PROVE  /\ current(s) = [k \in Keys |-> current(s)[k]]
           /\ \A k \in Keys : Shows(s, Len(s), k, current(s)[k])
<1> DEFINE built == CHOOSE f : Builds(s, f)
<1>1. Builds(s, built)
  BY BuildsSome, Zenon
<1>2. current(s) = built[Len(s)]
  BY DEF current, Builds, Nothing
<1>3. Len(s) \in 0..Len(s)
  BY LenProperties
<1> HIDE DEF built
<1>4. /\ built[Len(s)] = [k \in Keys |-> built[Len(s)][k]]
      /\ \A k \in Keys : Shows(s, Len(s), k, built[Len(s)][k])
  BY <1>1, <1>3, BuildsShow
<1> QED BY <1>2, <1>4, Zenon

\* A record appended takes effect, and nothing else does.
LEMMA LoadAppends ==
    ASSUME NEW s \in Seq(Rows), NEW r \in Rows
    PROVE  load(Append(s, r)) =
             [k \in Keys |-> IF Touches(r, k) THEN EffectOf(r).value ELSE load(s)[k]]
<1> DEFINE t == Append(s, r)
<1>1. /\ t \in Seq(Rows) /\ Len(t) = Len(s) + 1 /\ Len(s) \in Nat /\ t[Len(s) + 1] = r
      /\ \A i \in 1..Len(s) : s[i] = t[i]
  BY AppendProperties, LenProperties
<1> HIDE DEF t
<1>2. ASSUME NEW k \in Keys
      PROVE  current(t)[k] = IF Touches(r, k) THEN EffectOf(r) ELSE current(s)[k]
  <2>1. Shows(t, Len(s), k, current(s)[k])
    BY <1>1, CurrentShows, ShowsSame
  <2>2. Shows(t, Len(t), k, IF Touches(r, k) THEN EffectOf(r) ELSE current(s)[k])
    BY <1>1, <2>1, ShowsNext
  <2> QED BY <1>1, <2>2, CurrentShows, ShowsOne
<1>3. load(t) = [k \in Keys |-> IF Touches(r, k) THEN EffectOf(r).value ELSE load(s)[k]]
  BY <1>2 DEF load
<1> QED BY <1>3 DEF t

\* Records in the order of their times, none later than t.
Dated(s, t) ==
    /\ s \in Seq(Rows)
    /\ \A i \in 1..Len(s) : s[i].ts <= t
    /\ \A i, j \in 1..Len(s) : i < j => s[i].ts < s[j].ts

\* Listed oldest first, a set of records of different times is listed whole.
LEMMA OldestFirstLists ==
    ASSUME NEW S \in SUBSET Rows, IsFiniteSet(S), \A q, r \in S : q.ts = r.ts => q = r
    PROVE  /\ oldestFirst(S) \in Seq(S) /\ Len(oldestFirst(S)) = Cardinality(S)
           /\ \A r \in S : \E i \in 1..Len(oldestFirst(S)) : oldestFirst(S)[i] = r
           /\ \A i, j \in 1..Len(oldestFirst(S)) :
                 i < j => oldestFirst(S)[i].ts < oldestFirst(S)[j].ts
<1> DEFINE Older(r) == {q \in S : q.ts < r.ts}
           Rank(r) == Cardinality(Older(r))
           n == Cardinality(S)
           rank == [r \in S |-> Rank(r)]
           f == oldestFirst(S)
<1>0. \A r \in S : r.ts \in Nat
  BY RowFields
<1>1. f = [i \in 1..n |-> CHOOSE r \in S : Rank(r) = i - 1]
  BY DEF oldestFirst
<1>2. \A q, r \in S : q \in Older(r) <=> q.ts < r.ts
  OBVIOUS
<1>3. \A r \in S : Older(r) \in SUBSET S
  OBVIOUS
<1> HIDE DEF f, Older
<1>4. n \in Nat /\ \A r \in S : IsFiniteSet(Older(r)) /\ Rank(r) \in Nat
  BY <1>3, FS_CardinalityType, FS_Subset
<1>5. ASSUME NEW r \in S PROVE Rank(r) \in 0..(n - 1)
  <2>1. r \notin Older(r)
    BY <1>0, <1>2
  <2>2. Rank(r) <= n /\ n # Rank(r)
    BY <1>3, <2>1, FS_Subset
  <2> QED BY <1>4, <2>2
<1>6. ASSUME NEW q \in S, NEW r \in S, q.ts < r.ts PROVE Rank(q) < Rank(r)
  <2>1. Older(q) \in SUBSET Older(r)
    BY <1>0, <1>2, <1>3, <1>6
  <2>2. q \in Older(r) /\ q \notin Older(q)
    BY <1>0, <1>2, <1>6
  <2>3. Rank(q) <= Rank(r) /\ Rank(r) # Rank(q)
    BY <1>4, <2>1, <2>2, FS_Subset
  <2> QED BY <1>4, <2>3
<1> HIDE DEF Rank, n
<1>7. ASSUME NEW q \in S, NEW r \in S, Rank(q) = Rank(r) PROVE q = r
  <2>1. ~(q.ts < r.ts) /\ ~(r.ts < q.ts)
    BY <1>4, <1>6, <1>7
  <2>2. q.ts = r.ts
    BY <1>0, <2>1
  <2> QED BY <2>2
<1>8. \A m \in 0..(n - 1) : \E r \in S : Rank(r) = m
  <2>1. IsFiniteSet(0..(n - 1)) /\ Cardinality(0..(n - 1)) = n
    BY <1>4, FS_Interval
  <2>2. rank \in Injection(S, 0..(n - 1))
    BY <1>5, <1>7 DEF Injection, IsInjective
  <2>3. rank \in Surjection(S, 0..(n - 1))
    BY <2>1, <2>2, FS_Injection DEF n
  <2> QED BY <2>3 DEF Surjection
<1>9. ASSUME NEW i \in 1..n PROVE f[i] \in S /\ Rank(f[i]) = i - 1
  <2>1. f[i] = CHOOSE r \in S : Rank(r) = i - 1
    BY <1>1
  <2>2. \E r \in S : Rank(r) = i - 1
    BY <1>4, <1>8
  <2> QED BY <2>1, <2>2
<1>10. f \in Seq(S) /\ Len(f) = n
  BY <1>1, <1>4, <1>9
<1>11. ASSUME NEW r \in S PROVE \E i \in 1..n : f[i] = r
  <2> DEFINE i == Rank(r) + 1
  <2>1. i \in 1..n /\ i - 1 = Rank(r)
    BY <1>4, <1>5
  <2> HIDE DEF i
  <2>2. f[i] \in S /\ Rank(f[i]) = Rank(r)
    BY <1>9, <2>1
  <2> QED BY <1>7, <2>1, <2>2
<1>12. ASSUME NEW i \in 1..n, NEW j \in 1..n, i < j PROVE f[i].ts < f[j].ts
  <2>1. f[i] \in S /\ f[j] \in S /\ Rank(f[i]) = i - 1 /\ Rank(f[j]) = j - 1
    BY <1>9
  <2>2. ~(Rank(f[j]) < Rank(f[i])) /\ Rank(f[i]) # Rank(f[j])
    BY <1>4, <1>12, <2>1
  <2>3. ~(f[j].ts < f[i].ts) /\ f[i].ts # f[j].ts
    BY <1>6, <2>1, <2>2
  <2> QED BY <1>0, <2>1, <2>3
<1> QED BY <1>10, <1>11, <1>12 DEF f, n

\* A compaction changes no entry.
LEMMA CompactSame ==
    ASSUME IsFiniteSet(Keys), NEW t \in Nat, NEW s, Dated(s, t), History <= Len(s)
    PROVE  Dated(compact(s), t) /\ load(compact(s)) = load(s)
<1> DEFINE now == current(s)
           suffix == last(History, s)
           mentions == {suffix[i].key : i \in DOMAIN suffix}
           kept == {k \in Keys : now[k] # NoEntry /\ k \notin mentions}
           Row(k) == [op |-> "set", key |-> k, value |-> now[k].value, ts |-> now[k].ts]
           row == [k \in kept |-> Row(k)]
           rows == {Row(k) : k \in kept}
           before == oldestFirst(rows)
           c == compact(s)
           b == Len(before)
           old == Len(s) - History
<1>1. /\ s \in Seq(Rows) /\ Len(s) \in Nat /\ History \in Nat /\ old \in Nat
      /\ \A i \in 1..Len(s) : s[i] \in Rows /\ s[i].ts \in Nat
  BY ConstantsAssumption, ElementOfSeq, RowFields DEF Dated
<1>2. c = before \o suffix
  BY DEF compact
<1>3. /\ Len(suffix) = History
      /\ \A i \in 1..History : suffix[i] = s[old + i] /\ old + i \in 1..Len(s)
  BY <1>1, LastOf DEF IsList
<1>4. suffix \in Seq(Rows)
  <2>1. \A i \in (Len(s) - History + 1)..Len(s) : s[i] \in Rows
    BY <1>1
  <2> QED BY <1>1, <2>1, SubSeqProperties DEF last
<1>5. \A k \in Keys : Shows(s, Len(s), k, now[k])
  BY <1>1, CurrentShows
<1> HIDE DEF now, suffix
<1>6. \A i \in 1..History : suffix[i].key \in mentions
  BY <1>3, <1>4
\* Where the record is that a row stands for.
<1>7. ASSUME NEW k \in kept
      PROVE  \E i \in 1..old : /\ s[i].op = "set" /\ s[i].key = k /\ now[k] = Entry(s[i].ts, s[i])
                               /\ s[i].ts = now[k].ts /\ s[i].value = now[k].value
                               /\ \A j \in (i + 1)..Len(s) : ~Touches(s[j], k)
  <2>1. PICK i \in 1..Len(s) : /\ Touches(s[i], k) /\ now[k] = EffectOf(s[i])
                               /\ \A j \in (i + 1)..Len(s) : ~Touches(s[j], k)
    BY <1>5 DEF Shows
  <2>2. s[i].op = "set" /\ now[k] = Entry(s[i].ts, s[i]) /\ s[i].key = k
    BY <2>1 DEF EffectOf, Touches
  <2>3. ~(i > old)
    <3> SUFFICES ASSUME i > old PROVE FALSE
      OBVIOUS
    <3>1. i - old \in 1..History /\ old + (i - old) = i
      BY <1>1
    <3>2. suffix[i - old].key = k
      BY <1>3, <2>2, <3>1
    <3> QED BY <1>6, <3>1, <3>2
  <2>4. i \in 1..old
    BY <1>1, <2>3
  <2> QED BY <2>1, <2>2, <2>4 DEF Entry
<1>8. /\ rows \in SUBSET Rows
      /\ \A r \in rows : r.ts <= t
      /\ \A r \in rows, i \in 1..History : r.ts < suffix[i].ts
  <2> SUFFICES ASSUME NEW k \in kept
               PROVE  Row(k) \in Rows /\ Row(k).ts <= t /\ \A i \in 1..History : Row(k).ts < suffix[i].ts
    OBVIOUS
  <2>1. PICK i \in 1..old : s[i].op = "set" /\ s[i].key = k /\ s[i].ts = now[k].ts /\ s[i].value = now[k].value
    BY <1>7
  <2>2. i \in 1..Len(s) /\ s[i] \in Rows /\ \A j \in 1..History : i < old + j
    BY <1>1
  <2>3. Row(k).ts = s[i].ts
    BY <2>1
  <2>4. Row(k) \in Rows
    <3>1. s[i].key \in Keys /\ s[i].value \in Values /\ s[i].ts \in Nat \ {0}
      BY <2>1, <2>2, RowFields
    <3>2. [op |-> "set", key |-> s[i].key, value |-> s[i].value] \in Records
      BY <3>1 DEF Records
    <3> QED BY <2>1, <3>1, <3>2 DEF Rows
  <2> QED BY <1>3, <2>2, <2>3, <2>4 DEF Dated
<1>9. \A q, r \in rows : q.ts = r.ts => q = r
  <2> SUFFICES ASSUME NEW k \in kept, NEW l \in kept, now[k].ts = now[l].ts PROVE k = l
    OBVIOUS
  <2>1. PICK i \in 1..old : s[i].key = k /\ s[i].ts = now[k].ts
    BY <1>7
  <2>2. PICK j \in 1..old : s[j].key = l /\ s[j].ts = now[l].ts
    BY <1>7
  <2>3. i \in 1..Len(s) /\ j \in 1..Len(s) /\ s[i].ts \in Nat /\ s[j].ts \in Nat
    BY <1>1
  <2>4. i = j
    BY <1>1, <2>1, <2>2, <2>3 DEF Dated
  <2> QED BY <2>1, <2>2, <2>4
<1>10. IsFiniteSet(rows)
  <2>1. IsFiniteSet(kept)
    BY FS_Subset
  <2>2. row \in Surjection(kept, rows)
    BY DEF Surjection
  <2> QED BY <2>1, <2>2, FS_Surjection
<1> HIDE DEF rows, kept
<1>11. /\ before \in Seq(rows) /\ b \in Nat
       /\ \A r \in rows : \E i \in 1..b : before[i] = r
       /\ \A i, j \in 1..b : i < j => before[i].ts < before[j].ts
       /\ \A i \in 1..b : before[i] \in rows
  BY <1>8, <1>9, <1>10, OldestFirstLists, LenProperties, ElementOfSeq
<1> HIDE DEF before
<1>12. before \in Seq(Rows)
  BY <1>8, <1>11
<1>13. /\ c \in Seq(Rows) /\ Len(c) = b + History
       /\ \A i \in 1..b : c[i] = before[i]
       /\ \A i \in 1..History : c[b + i] = s[old + i]
  <2>0. /\ before \o suffix \in Seq(Rows) /\ Len(before \o suffix) = Len(before) + Len(suffix)
        /\ \A i \in 1..(Len(before) + Len(suffix)) :
              (before \o suffix)[i] = IF i <= Len(before) THEN before[i]
                                                         ELSE suffix[i - Len(before)]
    BY <1>4, <1>12, ConcatProperties
  <2> HIDE DEF c
  <2>1. /\ c \in Seq(Rows) /\ Len(c) = b + History
        /\ \A i \in 1..(b + History) : c[i] = IF i <= b THEN before[i] ELSE suffix[i - b]
    BY <1>2, <1>3, <2>0
  <2> HIDE DEF b
  <2>2. ASSUME NEW i \in 1..b PROVE c[i] = before[i]
    BY <1>1, <1>11, <2>1
  <2>3. ASSUME NEW i \in 1..History PROVE c[b + i] = s[old + i]
    <3> DEFINE m == b + i
    <3>1. m \in 1..(b + History) /\ ~(m <= b) /\ m - b = i
      BY <1>1, <1>11
    <3> HIDE DEF m
    <3>2. c[m] = s[old + i]
      BY <1>3, <2>1, <3>1
    <3> QED BY <3>2 DEF m
  <2> QED BY <2>1, <2>2, <2>3
<1>14. Len(s) = old + History
  BY <1>1
<1> HIDE DEF c, b, old
<1>15. Dated(c, t)
  <2>1. ASSUME NEW i \in 1..Len(c)
        PROVE  /\ c[i].ts <= t
               /\ i <= b => i \in 1..b /\ c[i] = before[i] /\ c[i] \in rows
               /\ i > b => i - b \in 1..History /\ c[i] = s[old + (i - b)]
    <3>1. CASE i <= b
      BY <1>8, <1>11, <1>13, <3>1
    <3>2. CASE i > b
      <4>1. i - b \in 1..History /\ b + (i - b) = i
        BY <1>1, <1>11, <1>13, <1>14, <3>2
      <4>2. c[i] = s[old + (i - b)] /\ old + (i - b) \in 1..Len(s)
        BY <1>3, <1>13, <4>1
      <4> QED BY <1>11, <3>2, <4>1, <4>2 DEF Dated
    <3> QED BY <1>1, <1>11, <3>1, <3>2
  <2>2. ASSUME NEW i \in 1..Len(c), NEW j \in 1..Len(c), i < j PROVE c[i].ts < c[j].ts
    <3>1. CASE j <= b
      <4>1. i <= b
        BY <1>1, <1>11, <1>13, <2>2, <3>1
      <4>2. i \in 1..b /\ j \in 1..b /\ c[i] = before[i] /\ c[j] = before[j]
        BY <2>1, <3>1, <4>1
      <4> QED BY <1>11, <2>2, <4>2
    <3>2. CASE i <= b /\ j > b
      BY <1>3, <1>8, <2>1, <3>2
    <3>3. CASE i > b
      <4>1. /\ i - b \in 1..History /\ j - b \in 1..History
            /\ c[i] = s[old + (i - b)] /\ c[j] = s[old + (j - b)]
        BY <1>11, <2>1, <2>2, <3>3
      <4>2. /\ old + (i - b) \in 1..Len(s) /\ old + (j - b) \in 1..Len(s)
            /\ old + (i - b) < old + (j - b)
        BY <1>1, <1>3, <1>11, <1>14, <2>2, <4>1
      <4> QED BY <4>1, <4>2 DEF Dated
    <3> QED BY <1>11, <3>1, <3>2, <3>3
  <2> QED BY <1>13, <2>1, <2>2 DEF Dated
\* What of c touches a key.
<1>16. \A i \in 1..b, k \in Keys : Touches(c[i], k) => k \in kept /\ c[i] = Row(k)
  <2> SUFFICES ASSUME NEW i \in 1..b, NEW k \in Keys, Touches(c[i], k)
               PROVE  k \in kept /\ c[i] = Row(k)
    OBVIOUS
  <2>1. PICK l \in kept : c[i] = Row(l)
    <3>1. c[i] \in rows
      BY <1>11, <1>13
    <3> QED BY <3>1 DEF rows
  <2>2. c[i].op = "set" /\ c[i].key = l
    BY <2>1
  <2>3. l = k
    BY <2>2 DEF Touches
  <2> QED BY <2>1, <2>3
<1>17. ASSUME NEW k \in Keys PROVE Shows(c, Len(c), k, now[k])
  <2>1. ASSUME NEW i \in (old + 1)..Len(s), Touches(s[i], k), now[k] = EffectOf(s[i]),
               \A j \in (i + 1)..Len(s) : ~Touches(s[j], k)
        PROVE  Shows(c, Len(c), k, now[k])
    <3> DEFINE g == i - old
               m == b + g
    <3>1. g \in 1..History /\ old + g = i /\ m \in 1..Len(c)
      BY <1>1, <1>11, <1>13, <1>14
    <3> HIDE DEF g
    <3>2. c[m] = s[i]
      BY <1>13, <3>1
    <3>3. ASSUME NEW j \in (m + 1)..Len(c) PROVE ~Touches(c[j], k)
      <4> DEFINE h == j - b
      <4>1. h \in 1..History /\ b + h = j /\ old + h \in (i + 1)..Len(s)
        BY <1>1, <1>11, <1>13, <1>14, <3>1
      <4> HIDE DEF h
      <4>2. c[j] = s[old + h]
        BY <1>13, <4>1
      <4> QED BY <2>1, <4>1, <4>2
    <3> HIDE DEF m
    <3> QED BY <2>1, <3>1, <3>2, <3>3 DEF Shows
  <2>2. ASSUME \A j \in (old + 1)..Len(s) : ~Touches(s[j], k) PROVE Shows(c, Len(c), k, now[k])
    <3>1. ASSUME NEW j \in (b + 1)..Len(c) PROVE ~Touches(c[j], k)
      <4>1. j - b \in 1..History /\ b + (j - b) = j /\ old + (j - b) \in (old + 1)..Len(s)
        BY <1>1, <1>11, <1>13, <1>14
      <4> QED BY <1>13, <2>2, <4>1
    <3>2. CASE k \in kept
      <4>1. Row(k) \in rows
        BY <3>2 DEF rows
      <4>2. PICK i \in 1..b : before[i] = Row(k)
        BY <1>11, <4>1
      <4>3. i \in 1..Len(c) /\ c[i] = Row(k) /\ c[i].op = "set" /\ c[i].key = k
        BY <1>1, <1>11, <1>13, <1>14, <4>2
      <4>4. Touches(c[i], k) /\ EffectOf(c[i]) = now[k]
        <5>1. Touches(c[i], k)
          BY <4>3 DEF Touches
        <5>2. EffectOf(c[i]) = [ts |-> now[k].ts, value |-> now[k].value]
          BY <4>3 DEF EffectOf, Entry
        <5>3. PICK j \in 1..old : now[k] = Entry(s[j].ts, s[j])
          BY <1>7, <3>2
        <5>4. now[k] = [ts |-> now[k].ts, value |-> now[k].value]
          BY <5>3 DEF Entry
        <5> QED BY <5>1, <5>2, <5>4
      <4>5. ASSUME NEW j \in (i + 1)..Len(c), Touches(c[j], k) PROVE FALSE
        <5>0. j \notin (b + 1)..Len(c)
          BY <3>1, <4>5
        <5>1. j \in 1..b /\ j \in 1..Len(c) /\ i < j
          <6>1. b \in Nat /\ Len(c) \in Nat /\ i \in Nat \ {0} /\ j \in (i + 1)..Len(c)
            BY <1>11, <1>13, <4>2, LenProperties
          <6> QED BY <5>0, <6>1
        <5>2. c[j] = Row(k)
          BY <1>16, <4>5, <5>1
        <5>3. c[i].ts < c[j].ts /\ c[i].ts \in Nat
          BY <1>15, <4>3, <5>1, ElementOfSeq, RowFields DEF Dated
        <5> QED BY <4>3, <5>2, <5>3
      <4> QED BY <4>3, <4>4, <4>5 DEF Shows
    <3>3. CASE k \notin kept
      <4>1. k \notin mentions
        <5> SUFFICES ASSUME NEW i \in DOMAIN suffix, suffix[i].key = k PROVE FALSE
          OBVIOUS
        <5>1. i \in 1..History /\ suffix[i] = s[old + i] /\ old + i \in (old + 1)..Len(s)
          BY <1>1, <1>3, <1>4
        <5>2. suffix[i] \in Rows
          BY <1>1, <5>1
        <5>3. Touches(suffix[i], k)
          BY <5>2, RowFields, ConstantsAssumption DEF Touches
        <5> QED BY <2>2, <5>1, <5>3
      <4>2. now[k] = NoEntry
        BY <3>3, <4>1 DEF kept
      <4>3. \A j \in 1..Len(c) : ~Touches(c[j], k)
        <5> SUFFICES ASSUME NEW j \in 1..Len(c), Touches(c[j], k) PROVE FALSE
          OBVIOUS
        <5>1. j \notin (b + 1)..Len(c)
          BY <3>1
        <5>2. j \in 1..b
          BY <1>1, <1>11, <1>13, <5>1
        <5> QED BY <1>16, <3>3, <5>2
      <4> QED BY <4>2, <4>3 DEF Shows
    <3> QED BY <3>2, <3>3
  <2>3. Shows(s, Len(s), k, now[k])
    BY <1>5
  <2>4. ASSUME NEW i \in 1..Len(s), Touches(s[i], k), now[k] = EffectOf(s[i]),
               \A j \in (i + 1)..Len(s) : ~Touches(s[j], k)
        PROVE  Shows(c, Len(c), k, now[k])
    <3>1. CASE i > old
      <4>1. i \in (old + 1)..Len(s)
        BY <1>1, <3>1
      <4> QED BY <2>1, <2>4, <4>1
    <3>2. CASE i <= old
      <4>1. \A j \in (old + 1)..Len(s) : j \in (i + 1)..Len(s)
        BY <1>1, <3>2
      <4> QED BY <2>2, <2>4, <4>1
    <3> QED BY <1>1, <3>1, <3>2
  <2>5. CASE \A i \in 1..Len(s) : ~Touches(s[i], k)
    <3>1. \A j \in (old + 1)..Len(s) : j \in 1..Len(s)
      BY <1>1
    <3> QED BY <2>2, <2>5, <3>1
  <2> QED BY <2>3, <2>4, <2>5 DEF Shows
<1>18. ASSUME NEW k \in Keys PROVE current(c)[k] = now[k]
  BY <1>13, <1>15, <1>17, CurrentShows, ShowsOne, LenProperties
<1>19. load(c) = load(s)
  BY <1>18 DEF load, now
<1> QED BY <1>15, <1>19 DEF c

TableInv(w) ==
    /\ LogInv(w) /\ Dated(file, Len(log)) /\ DOMAIN rec = Writers
    /\ at[w] = "append" => rec[w] \in Records
    /\ at[w] = "replace" => \A c \in compacted : Dated(c, Len(log)) /\ load(c) = load(file)

LEMMA DatedAppends ==
    ASSUME NEW t \in Nat, NEW s, Dated(s, t), NEW r \in Rows, r.ts = t + 1
    PROVE  Dated(Append(s, r), t + 1)
<1> DEFINE u == Append(s, r)
<1>1. /\ u \in Seq(Rows) /\ Len(u) = Len(s) + 1 /\ Len(s) \in Nat /\ u[Len(s) + 1] = r
      /\ \A i \in 1..Len(s) : u[i] = s[i] /\ s[i].ts <= t /\ s[i].ts \in Nat
  BY AppendProperties, LenProperties, ElementOfSeq, RowFields DEF Dated
<1> HIDE DEF u
<1>2. \A i \in 1..Len(u) : i \in 1..Len(s) \/ i = Len(s) + 1
  BY <1>1
<1>3. \A i \in 1..Len(u) : u[i].ts <= t + 1
  BY <1>1, <1>2
<1>4. \A i, j \in 1..Len(u) : i < j => u[i].ts < u[j].ts
  BY <1>1, <1>2 DEF Dated
<1>5. Dated(u, t + 1)
  BY <1>1, <1>3, <1>4 DEF Dated
<1> QED BY <1>5 DEF u

LEMMA TableInit ==
    ASSUME Init, NEW w \in Writers
    PROVE  TableInv(w) /\ load(file) = [k \in Keys |-> None]
<1>1. LogInv(w)
  BY LogInit
<1>2. file = <<>> /\ log = <<>> /\ at[w] = "idle" /\ DOMAIN rec = Writers /\ <<>> \in Seq(Rows) /\ Len(<<>>) = 0
  BY DEF Init
<1>3. Dated(file, Len(log))
  BY <1>2 DEF Dated
<1>4. ASSUME NEW k \in Keys PROVE current(<<>>)[k] = NoEntry
  <2>1. Shows(<<>>, 0, k, current(<<>>)[k])
    BY <1>2, CurrentShows
  <2> QED BY <2>1 DEF Shows
<1>5. load(<<>>) = [k \in Keys |-> None]
  BY <1>4 DEF load, NoEntry
<1> QED BY <1>1, <1>2, <1>3, <1>5 DEF TableInv

\* An operation of the table is the step that appends its record; nothing else changes it.
LEMMA TableStep ==
    ASSUME IsFiniteSet(Keys), NEW w \in Writers, Writers = {w}, TableInv(w), [Next]_vars
    PROVE  TableInv(w)' /\ (load(file') = load(file) \/ \E r \in Rows : file' = Append(file, r))
<1>1. LogInv(w)'
  BY LogStep DEF TableInv
<1>2. Len(log) \in Nat /\ DOMAIN at = Writers /\ DOMAIN rec = Writers
  BY ListLen DEF TableInv, LogInv
<1>3. ASSUME UNCHANGED <<file, log, rec>>, at'[w] \notin {"append", "replace"}
      PROVE  TableInv(w)' /\ load(file') = load(file)
  BY <1>1, <1>3 DEF TableInv
<1>4. CASE UNCHANGED vars
  BY <1>1, <1>4 DEF TableInv, vars
<1>5. CASE Open(w)
  <2>1. /\ UNCHANGED <<file, log>> /\ at'[w] = "append"
        /\ \E r \in Records : rec' = [rec EXCEPT ![w] = r]
    BY <1>2, <1>5 DEF Open, Goto
  <2> QED BY <1>1, <2>1 DEF TableInv
<1>6. CASE AppendRecord(w)
  <2>1. /\ log' = Append(log, Stamped(w)) /\ file' = Append(file, Stamped(w)) /\ at'[w] = "stat"
        /\ rec[w] \in Records /\ rec' = rec
    BY <1>2, <1>6 DEF AppendRecord, Goto, TableInv, LogInv
  <2>2. Stamped(w) \in Rows /\ Stamped(w).ts = Len(log) + 1
    BY <1>2, <2>1 DEF Stamped, Rows
  <2>3. Len(log') = Len(log) + 1
    BY <2>1, ListAppends DEF TableInv, LogInv
  <2>4. Dated(file', Len(log'))
    BY <1>2, <2>1, <2>2, <2>3, DatedAppends DEF TableInv
  <2> QED BY <1>1, <2>1, <2>2, <2>4 DEF TableInv
<1>7. CASE MaybeCompact(w)
  BY <1>2, <1>3, <1>7 DEF MaybeCompact, Goto
<1>8. CASE Read(w)
  BY <1>2, <1>3, <1>8 DEF Read, Goto
<1>9. CASE Rewrite(w)
  <2>1. /\ UNCHANGED <<file, log, rec>> /\ at'[w] = "replace"
        /\ compacted' = {compact(file)} /\ (History > 0 => Len(file) >= History)
    BY <1>2, <1>9 DEF Rewrite, Goto, TableInv, LogInv
  <2>2. History <= Len(file)
    BY <2>1, ListLen, ConstantsAssumption DEF TableInv, LogInv
  <2>3. Dated(compact(file), Len(log)) /\ load(compact(file)) = load(file)
    BY <1>2, <2>2, CompactSame DEF TableInv
  <2> QED BY <1>1, <2>1, <2>3 DEF TableInv
<1>10. CASE Replace(w)
  <2>1. /\ UNCHANGED <<log, rec>> /\ at[w] = "replace" /\ at'[w] = "idle"
        /\ file' = file \/ file' \in compacted
    BY <1>2, <1>10 DEF Replace, Goto
  <2>2. Dated(file', Len(log)) /\ load(file') = load(file)
    BY <2>1 DEF TableInv
  <2> QED BY <1>1, <2>1, <2>2 DEF TableInv
<1>11. CASE Crash(w)
  BY <1>2, <1>3, <1>11 DEF Crash, Goto
<1> QED BY <1>4, <1>5, <1>6, <1>7, <1>8, <1>9, <1>10, <1>11 DEF Next

\* With one writer a LogTab is the table KeyTable says it is: every operation takes effect when
\* its record is appended, and neither a compaction nor a death anywhere in one has any effect,
\* for any keys, values, prefixes and sizes (LogTab.load, LogTab.compact).
THEOREM TableKept ==
    ASSUME IsFiniteSet(Keys), NEW w, Writers = {w} PROVE Spec => IsKeyTable
<1>1. Init => TableInv(w) /\ Table!Init
  BY TableInit DEF Table!Init
<1>2. TableInv(w) /\ [Next]_vars => TableInv(w)' /\ [Table!Next]_(load(file))
  <2> SUFFICES ASSUME TableInv(w), [Next]_vars
               PROVE  TableInv(w)' /\ [Table!Next]_(load(file))
    OBVIOUS
  <2>1. TableInv(w)' /\ (load(file') = load(file) \/ \E r \in Rows : file' = Append(file, r))
    BY TableStep
  <2>2. ASSUME NEW r \in Rows, file' = Append(file, r) PROVE Table!Next
    <3>1. load(file') = [k \in Keys |-> IF Touches(r, k) THEN EffectOf(r).value ELSE load(file)[k]]
      BY <2>2, LoadAppends DEF TableInv, Dated
    <3>2. load(file) = [k \in Keys |-> load(file)[k]]
      BY DEF load
    <3>3. CASE r.op = "set"
      <4>1. Table!Write(r.key, r.value)
        BY <3>1, <3>2, <3>3, RowFields DEF Table!Write, Touches, EffectOf, Entry
      <4> QED BY <3>3, <4>1, RowFields DEF Table!Next
    <3>4. CASE r.op = "del"
      <4>1. Table!Delete(r.key)
        BY <3>1, <3>2, <3>4, RowFields DEF Table!Delete, Touches, EffectOf, NoEntry
      <4> QED BY <3>4, <4>1, RowFields DEF Table!Next
    <3>5. CASE r.op = "clr"
      <4>1. Table!Clear(r.key)
        BY <3>1, <3>2, <3>5, RowFields DEF Table!Clear, Touches, EffectOf, NoEntry
      <4> QED BY <3>5, <4>1, RowFields DEF Table!Next
    <3> QED BY <3>3, <3>4, <3>5, RowFields
  <2> QED BY <2>1, <2>2
<1> QED BY <1>1, <1>2, PTL DEF Spec, IsKeyTable, Table!Spec

-----------------------------------------------------------------------------
(***************************************************************************)
(* The keys of secrets, for any apps, processes and phrases and without    *)
(* Vault's bounds: no secret is ever under a key that is not on file, and  *)
(* rekeys that ran to their end, however they overlapped, leave every      *)
(* secret under the last key.                                              *)
(***************************************************************************)

Key == Phrases \cup {First}
KeyOrNone == Key \cup {NoKey}

\* What the variables hold.  A backup is not from the future.
Typed ==
    /\ keyfile \in Seq([seed : Key, at : Nat]) /\ keyfile # <<>>
    /\ seconds \in Nat
    /\ secret \in [V!Stores -> KeyOrNone]
    /\ ctx \in [VWriters -> KeyOrNone]
    /\ taken \subseteq [of : V!Stores, time : 0..seconds, keys : [V!Stores -> KeyOrNone]]
    /\ rk \in [Phrases -> [pc : {"idle", "backups", "seed", "config", "apps"},
                           old : KeyOrNone, new : KeyOrNone, todo : SUBSET V!Stores]]
    /\ died \in BOOLEAN /\ fresh \in BOOLEAN

\* Whatever may come to be a store's key is on file: stores, contexts, what
\* backups hold, and the key a rekey moves stores to.  The phrase of a rekey is
\* new until it is written, so once it is the current key is not an old one.
Held == V!Seeds \cup {NoKey}
KeysOf(e, r) ==
    /\ r.pc # "idle" => r.old \in V!Seeds /\ r.old # NoKey
    /\ r.pc \in {"backups", "seed"} => e \notin V!Seeds
    /\ r.pc \in {"config", "apps"} => r.old # V!master_key
    /\ r.pc = "apps" => r.new \in V!Seeds
OnFile ==
    /\ \A s \in V!Stores : secret[s] \in Held
    /\ \A w \in VWriters : ctx[w] \in Held
    /\ \A b \in taken : \A s \in V!Stores : b.keys[s] \in Held
    /\ \A e \in Phrases : KeysOf(e, rk[e])

\* A backup of a store holds a secret of it.
BackupsFull == \A b \in taken : b.keys[b.of] # NoKey

\* A store under an older key, and not astray, is one that a rekey to the current
\* key is still to come to: it has not listed them yet, or this one is on its list.
Moves(r, s) == \/ r.pc = "config"
               \/ r.pc = "apps" /\ r.new = V!master_key /\ s \in r.todo
Moving ==
    \A s \in V!Stores \ stale :
        secret[s] \in {V!master_key, NoKey} \/ \E e \in Phrases : Moves(rk[e], s)

IndInv ==
    /\ Typed /\ BackupsFull
    /\ ~fresh => OnFile
    /\ ~fresh /\ ~died => Moving

-----------------------------------------------------------------------------
(* The key file. *)

\* A step that leaves the key file leaves what is read from it.
LEMMA SameFile ==
    ASSUME keyfile' = keyfile
    PROVE  /\ V!Seeds' = V!Seeds /\ Held' = Held /\ V!master_key' = V!master_key
           /\ \A t : V!read_keyfile(t)' = V!read_keyfile(t)
BY DEF V!Seeds, Held, V!master_key, V!read_keyfile

\* The current key is on file.
LEMMA MasterOnFile ==
    ASSUME Typed
    PROVE  V!master_key \in V!Seeds /\ V!master_key \in Key
<1> DEFINE Rel == [seed : Key, at : Nat]
<1>0. keyfile \in Seq(Rel) /\ keyfile # <<>>
  BY DEF Typed
<1>1. Len(keyfile) \in 1..Len(keyfile) /\ DOMAIN keyfile = 1..Len(keyfile)
  BY <1>0
<1>2. keyfile[Len(keyfile)] \in Rel
  <2> HIDE DEF Rel
  <2> QED BY <1>0, <1>1
<1> QED
  BY <1>0, <1>1, <1>2 DEF V!Seeds, V!master_key

\* A seed that is written is the current key, and the ones before stay on file.
LEMMA SeedAdded ==
    ASSUME Typed, NEW k \in Key, V!write_seed(k)
    PROVE  /\ keyfile' \in Seq([seed : Key, at : Nat]) /\ keyfile' # <<>>
           /\ V!Seeds' = V!Seeds \cup {k} /\ V!master_key' = k
<1> DEFINE r == [seed |-> k, at |-> seconds]
<1>1. r \in [seed : Key, at : Nat] /\ keyfile' = Append(keyfile, r)
  BY DEF Typed, V!write_seed
<1>2. /\ keyfile' \in Seq([seed : Key, at : Nat]) /\ keyfile' # <<>>
      /\ Len(keyfile') = Len(keyfile) + 1
      /\ \A i \in 1..Len(keyfile) : keyfile'[i] = keyfile[i]
      /\ keyfile'[Len(keyfile) + 1] = r
  BY <1>1 DEF Typed
<1>3. DOMAIN keyfile = 1..Len(keyfile) /\ DOMAIN keyfile' = 1..(Len(keyfile) + 1)
  BY <1>2 DEF Typed
<1>4. Len(keyfile) \in Nat
  BY DEF Typed
<1>5. V!Seeds \cup {k} \subseteq V!Seeds'
  BY <1>2, <1>3, <1>4 DEF V!Seeds
<1>6. V!Seeds' \subseteq V!Seeds \cup {k}
  <2> SUFFICES ASSUME NEW i \in 1..(Len(keyfile) + 1) PROVE keyfile'[i].seed \in V!Seeds \cup {k}
    BY <1>3 DEF V!Seeds
  <2>1. CASE i = Len(keyfile) + 1
    BY <1>2, <2>1
  <2>2. CASE i \in 1..Len(keyfile)
    BY <1>2, <1>3, <2>2 DEF V!Seeds
  <2> QED BY <1>4, <2>1, <2>2
<1>7. V!master_key' = k
  BY <1>2 DEF V!master_key
<1> QED
  BY <1>2, <1>5, <1>6, <1>7

-----------------------------------------------------------------------------
(* Backups. *)

\* There is a newest one among backups that were taken.
LEMMA NewestOf ==
    ASSUME Typed, NEW bs \in SUBSET taken, bs # {}
    PROVE  V!Newest(bs) \in bs
<1> DEFINE ages == {seconds - b.time : b \in bs}
<1>1. \A b \in bs : b.time \in 0..seconds
  BY DEF Typed
<1>2. ages \in SUBSET Nat /\ ages # {}
  BY <1>1 DEF Typed
<1>3. PICK x \in ages : \A y \in ages : x <= y
  <2> HIDE DEF ages
  <2> QED BY <1>2, Least
<1>4. PICK b \in bs : x = seconds - b.time
  BY <1>3
<1>5. \A o \in bs : o.time <= b.time
  <2>1. SUFFICES ASSUME NEW o \in bs PROVE o.time <= b.time
    OBVIOUS
  <2>2. seconds - b.time <= seconds - o.time
    BY <1>3, <1>4
  <2> QED
    BY <2>2, <1>1 DEF Typed
<1> QED
  BY <1>5 DEF V!Newest

\* Restoring a store leaves it under its key or the one restored with.
LEMMA RestoredIs ==
    ASSUME NEW key, NEW time, NEW now
    PROVE  V!Restored(key, time, now) \in {key, now}
BY DEF V!Restored, V!Reencrypted

\* If the backup's time tells its key, restoring moves it to the one restored with.
LEMMA RestoredNow ==
    ASSUME NEW b, ~V!Torn(b), b.keys[b.of] # NoKey, NEW now
    PROVE  V!Restored(b.keys[b.of], b.time, now) = now
BY DEF V!Restored, V!Reencrypted, V!Torn
-----------------------------------------------------------------------------
(* The invariant. *)

LEMMA InitInv ==
    ASSUME V!Init PROVE IndInv
<1>1. keyfile \in Seq([seed : Key, at : Nat]) /\ keyfile # <<>>
  BY DEF V!Init, Key
<1>2. Typed
  BY <1>1 DEF V!Init, Typed, Key, KeyOrNone, V!NoRekey
<1>3. V!master_key = First /\ First \in V!Seeds
  BY DEF V!Init, V!master_key, V!Seeds
<1>4. OnFile
  BY <1>3 DEF V!Init, OnFile, KeysOf, Held, V!NoRekey
<1>5. Moving
  BY <1>3 DEF V!Init, Moving, V!NoRekey
<1> QED
  BY <1>2, <1>4, <1>5 DEF V!Init, IndInv, BackupsFull

\* Steps that touch neither what is encrypted nor the rekey.
LEMMA InvStutter ==
    ASSUME IndInv, UNCHANGED V!vars PROVE IndInv'
<1>1. keyfile' = keyfile
  BY DEF V!vars
<1> QED
  BY <1>1, SameFile DEF V!vars, IndInv, Typed, BackupsFull, OnFile, KeysOf, Moving, Moves

LEMMA InvTick ==
    ASSUME IndInv, V!Tick PROVE IndInv'
<1>1. keyfile' = keyfile
  BY DEF V!Tick
<1>2. 0..seconds \subseteq 0..seconds' /\ seconds' \in Nat
  BY DEF V!Tick, IndInv, Typed
<1>3. taken' \subseteq [of : V!Stores, time : 0..seconds', keys : [V!Stores -> KeyOrNone]]
  BY <1>2 DEF V!Tick, IndInv, Typed
<1>4. Typed'
  BY <1>2, <1>3 DEF V!Tick, IndInv, Typed
<1> QED
  BY <1>1, <1>4, SameFile DEF V!Tick, IndInv, BackupsFull, OnFile, KeysOf, Moving, Moves

LEMMA InvContext ==
    ASSUME IndInv, NEW w \in VWriters, V!crypto_from_config(w) PROVE IndInv'
<1>1. keyfile' = keyfile
  BY DEF V!crypto_from_config
<1>2. V!master_key \in V!Seeds /\ V!master_key \in Key
  BY MasterOnFile DEF IndInv
<1>3. Typed'
  BY <1>2 DEF V!crypto_from_config, IndInv, Typed, KeyOrNone
<1>4. OnFile => OnFile'
  BY <1>1, <1>2, SameFile DEF V!crypto_from_config, IndInv, Typed, OnFile, KeysOf, Held
<1>5. Moving => Moving'
  BY <1>1, SameFile DEF V!crypto_from_config, Moving, Moves
<1> QED
  BY <1>3, <1>4, <1>5 DEF V!crypto_from_config, IndInv, BackupsFull

\* A store is written under a key on file, and counted as astray unless that is
\* the current one.
LEMMA InvWritten ==
    ASSUME IndInv, NEW s \in V!Stores, NEW key \in KeyOrNone, NEW astray \in BOOLEAN,
           V!Written(s, key, astray),
           ~fresh => key \in Held, astray \/ key = V!master_key,
           UNCHANGED <<keyfile, repo, taken, ctx, rk, seconds, died, fresh, accidents>>
    PROVE  IndInv'
<1>1. keyfile' = keyfile
  OBVIOUS
<1>2. Typed'
  BY DEF V!Written, IndInv, Typed
<1>3. secret' = [secret EXCEPT ![s] = key] /\ secret \in [V!Stores -> KeyOrNone]
  BY DEF V!Written, IndInv, Typed
<1>4. ~fresh /\ OnFile => OnFile'
  BY <1>1, <1>3, SameFile DEF OnFile, KeysOf
<1>5. Moving => Moving'
  <2>1. \A o \in V!Stores \ stale' :
          secret'[o] = V!master_key \/ (o \notin stale /\ secret'[o] = secret[o])
    BY <1>3 DEF V!Written
  <2> QED
    BY <1>1, <2>1, SameFile DEF Moving, Moves
<1> QED
  BY <1>2, <1>4, <1>5 DEF IndInv, BackupsFull

LEMMA InvSet ==
    ASSUME IndInv, NEW w \in VWriters, NEW s \in V!Stores, V!set_config(w, s) PROVE IndInv'
<1>1. ctx[w] \in KeyOrNone /\ (~fresh => ctx[w] \in Held)
  BY DEF IndInv, Typed, OnFile
<1> QED
  BY <1>1, InvWritten DEF V!set_config

LEMMA InvRestore ==
    ASSUME IndInv, NEW w \in VWriters, NEW b \in taken, V!restore(w, b) PROVE IndInv'
<1> DEFINE key == V!Restored(b.keys[b.of], b.time, ctx[w])
           astray == ctx[w] # V!master_key \/ V!Torn(b)
<1>1. /\ b.of \in V!Stores /\ b.keys[b.of] \in KeyOrNone /\ b.keys[b.of] # NoKey
      /\ ctx[w] \in KeyOrNone
      /\ ~fresh => ctx[w] \in Held /\ b.keys[b.of] \in Held
  BY DEF IndInv, Typed, OnFile, BackupsFull
<1>2. key \in {b.keys[b.of], ctx[w]}
  BY RestoredIs
<1>3. key \in KeyOrNone /\ (~fresh => key \in Held)
  BY <1>1, <1>2
<1>4. astray \/ key = V!master_key
  BY <1>1, RestoredNow
<1>5. astray \in BOOLEAN
  OBVIOUS
<1>6. /\ V!Written(b.of, key, astray)
      /\ UNCHANGED <<keyfile, repo, taken, ctx, rk, seconds, died, fresh, accidents>>
  BY DEF V!restore
<1> HIDE DEF key, astray
<1> QED
  BY <1>1, <1>3, <1>4, <1>5, <1>6, InvWritten

LEMMA InvRekey ==
    ASSUME IndInv, NEW e \in Phrases, NEW w \in VWriters, V!rekey(e, w) PROVE IndInv'
<1> DEFINE r == [pc |-> "backups", old |-> ctx[w], new |-> e, todo |-> {}]
<1>1. keyfile' = keyfile /\ rk' = [rk EXCEPT ![e] = r] /\ rk[e].pc = "idle"
      /\ ctx[w] # NoKey /\ e \notin V!Seeds /\ ctx[w] \in KeyOrNone
  BY DEF V!rekey, IndInv, Typed
<1>2. e \in KeyOrNone
  BY DEF Key, KeyOrNone
<1>3. Typed'
  BY <1>1, <1>2 DEF V!rekey, IndInv, Typed
<1>4. rk'[e] = r /\ \A o \in Phrases : o # e => rk'[o] = rk[o]
  BY <1>1 DEF IndInv, Typed
<1>5. OnFile => OnFile'
  BY <1>1, <1>4, SameFile DEF V!rekey, OnFile, KeysOf, Held
<1>6. Moving => Moving'
  BY <1>1, <1>4, SameFile DEF V!rekey, Moving, Moves
<1> QED
  BY <1>3, <1>5, <1>6 DEF V!rekey, IndInv, BackupsFull

LEMMA InvBackups ==
    ASSUME IndInv, NEW e \in Phrases, V!move_backups(e) PROVE IndInv'
<1>1. keyfile' = keyfile /\ rk[e].pc = "backups"
  BY DEF V!move_backups
<1>2. rk' = [rk EXCEPT ![e].pc = "seed"] \/ rk' = [rk EXCEPT ![e] = V!NoRekey]
  BY DEF V!move_backups
<1>3. Typed'
  <2> DEFINE Rekey == [pc : {"idle", "backups", "seed", "config", "apps"},
                       old : KeyOrNone, new : KeyOrNone, todo : SUBSET V!Stores]
  <2>1. rk \in [Phrases -> Rekey] /\ V!NoRekey \in Rekey
    BY DEF IndInv, Typed, V!NoRekey, KeyOrNone
  <2>2. [rk[e] EXCEPT !.pc = "seed"] \in Rekey
    BY <2>1
  <2>3. rk' \in [Phrases -> Rekey]
    <3> HIDE DEF Rekey
    <3> QED BY <1>2, <2>1, <2>2
  <2> QED BY <2>3 DEF V!move_backups, IndInv, Typed
<1>4. /\ rk'[e] = V!NoRekey \/ rk'[e] = [rk[e] EXCEPT !.pc = "seed"]
      /\ \A o \in Phrases : o # e => rk'[o] = rk[o]
  BY <1>2 DEF IndInv, Typed
<1>5. /\ rk'[e].pc = "idle" \/ (rk'[e].pc = "seed" /\ rk'[e].old = rk[e].old)
  BY <1>4 DEF IndInv, Typed, V!NoRekey
<1>6. OnFile => OnFile'
  BY <1>1, <1>4, <1>5, SameFile DEF V!move_backups, OnFile, KeysOf
<1>7. Moving => Moving'
  BY <1>1, <1>4, SameFile DEF V!move_backups, Moving, Moves
<1> QED
  BY <1>3, <1>6, <1>7 DEF V!move_backups, IndInv, BackupsFull

\* The seed is written: no rekey has it for its old key, and this one is still to
\* list the stores.
LEMMA InvSeed ==
    ASSUME IndInv, NEW e \in Phrases, V!RekeySeed(e) PROVE IndInv'
<1>1. Typed /\ rk[e].pc = "seed" /\ e \in Key /\ V!write_seed(e)
  BY DEF V!RekeySeed, IndInv, Key
<1>2. /\ keyfile' \in Seq([seed : Key, at : Nat]) /\ keyfile' # <<>>
      /\ V!Seeds' = V!Seeds \cup {e} /\ V!master_key' = e
  BY <1>1, SeedAdded
<1>3. rk' = [rk EXCEPT ![e].pc = "config"]
  BY DEF V!RekeySeed
<1>4. Typed'
  BY <1>1, <1>2, <1>3 DEF V!RekeySeed, Typed
<1>5. Held \subseteq Held'
  BY <1>2 DEF Held
<1>6. /\ rk'[e].pc = "config" /\ rk'[e].old = rk[e].old
      /\ \A o \in Phrases : o # e => rk'[o] = rk[o]
  BY <1>1, <1>3 DEF Typed
<1>7. OnFile => OnFile'
  <2> SUFFICES ASSUME OnFile PROVE OnFile'
    OBVIOUS
  <2>1. e \notin V!Seeds
    BY <1>1 DEF OnFile, KeysOf
  <2>2. \A o \in Phrases : KeysOf(o, rk[o])'
    BY <1>1, <1>2, <1>6, <2>1 DEF OnFile, KeysOf
  <2> QED
    BY <1>5, <2>2 DEF V!RekeySeed, OnFile
<1>8. Moving'
  BY <1>6 DEF Moving, Moves
<1> QED
  BY <1>4, <1>7, <1>8 DEF V!RekeySeed, IndInv, BackupsFull

\* The key is that of the moment, and the stores are listed that hold anything.
LEMMA InvListed ==
    ASSUME IndInv, NEW e \in Phrases, V!load_config_file(e) PROVE IndInv'
<1> DEFINE held == {s \in V!Stores : secret[s] # NoKey} \cup {V!KelsoDb}
<1>1. keyfile' = keyfile /\ rk[e].pc = "config"
      /\ rk' = [rk EXCEPT ![e] = [pc |-> "apps", old |-> rk[e].old,
                                  new |-> V!master_key, todo |-> held]]
  BY DEF V!load_config_file
<1>2. V!master_key \in V!Seeds /\ V!master_key \in KeyOrNone
  BY MasterOnFile DEF IndInv, KeyOrNone
<1> DEFINE r == [pc |-> "apps", old |-> rk[e].old, new |-> V!master_key, todo |-> held]
<1>3. held \subseteq V!Stores
  BY DEF V!Stores
<1>4. \A s \in V!Stores : secret[s] = NoKey \/ s \in held
  OBVIOUS
<1> HIDE DEF held
<1>5. rk' = [rk EXCEPT ![e] = r]
  BY <1>1
<1>6. Typed'
  BY <1>1, <1>2, <1>3, <1>5 DEF V!load_config_file, IndInv, Typed
<1>7. /\ rk'[e].pc = "apps" /\ rk'[e].old = rk[e].old /\ rk'[e].new = V!master_key
      /\ rk'[e].todo = held
      /\ \A o \in Phrases : o # e => rk'[o] = rk[o]
  BY <1>5 DEF IndInv, Typed
<1>8. OnFile => OnFile'
  <2> SUFFICES ASSUME OnFile PROVE OnFile'
    OBVIOUS
  <2>1. \A o \in Phrases : KeysOf(o, rk[o])'
    BY <1>1, <1>2, <1>7, SameFile DEF OnFile, KeysOf
  <2> QED
    BY <1>1, <2>1, SameFile DEF V!load_config_file, OnFile
<1>9. Moving'
  <2> SUFFICES ASSUME NEW s \in V!Stores, secret[s] # NoKey PROVE Moves(rk[e], s)'
    BY DEF V!load_config_file, Moving
  <2> QED BY <1>1, <1>4, <1>7, SameFile DEF Moves
<1> QED
  BY <1>6, <1>8, <1>9 DEF V!load_config_file, IndInv, BackupsFull

LEMMA InvSecrets ==
    ASSUME IndInv, NEW e \in Phrases, NEW s \in V!Stores, V!rekey_secrets(e, s)
    PROVE  IndInv'
<1> DEFINE r == rk[e]
<1>1. keyfile' = keyfile
  BY DEF V!rekey_secrets
<1>2. /\ r.pc = "apps" /\ s \in r.todo
      /\ secret' = [secret EXCEPT ![s] = V!Reencrypted(secret[s], r.old, r.new)]
      /\ stale' = IF secret'[s] = V!master_key THEN stale \ {s}
                  ELSE IF secret[s] \notin {r.old, NoKey} THEN stale \cup {s} ELSE stale
      /\ rk' = [rk EXCEPT ![e] = IF r.todo = {s} THEN V!NoRekey
                                 ELSE [r EXCEPT !.todo = r.todo \ {s}]]
  BY DEF V!rekey_secrets, V!Reported, IndInv, Typed
<1>3. /\ secret \in [V!Stores -> KeyOrNone] /\ r.new \in KeyOrNone
      /\ r \in [pc : {"idle", "backups", "seed", "config", "apps"},
                old : KeyOrNone, new : KeyOrNone, todo : SUBSET V!Stores]
  BY DEF IndInv, Typed
<1>4. /\ secret'[s] = IF secret[s] = r.old THEN r.new ELSE secret[s]
      /\ \A o \in V!Stores \ {s} : secret'[o] = secret[o]
      /\ secret' \in [V!Stores -> KeyOrNone]
  BY <1>2, <1>3 DEF V!Reencrypted
<1>5. /\ \A o \in Phrases : o # e => rk'[o] = rk[o]
      /\ rk'[e] = IF r.todo = {s} THEN V!NoRekey ELSE [r EXCEPT !.todo = r.todo \ {s}]
  BY <1>2 DEF IndInv, Typed
<1>6. \/ r.todo = {s} /\ rk'[e].pc = "idle"
      \/ rk'[e].pc = "apps" /\ rk'[e].old = r.old /\ rk'[e].new = r.new
         /\ rk'[e].todo = r.todo \ {s}
  BY <1>2, <1>3, <1>5 DEF V!NoRekey
<1>7. Typed'
  BY <1>2, <1>4 DEF V!rekey_secrets, IndInv, Typed, V!NoRekey, KeyOrNone
<1> HIDE DEF r
<1>8. OnFile => OnFile'
  <2> SUFFICES ASSUME OnFile PROVE OnFile'
    OBVIOUS
  <2>1. r.new \in Held /\ r.new \in V!Seeds
    BY <1>2 DEF OnFile, KeysOf, Held, r
  <2>2. \A o \in V!Stores : secret'[o] \in Held'
    BY <1>1, <1>4, <2>1, SameFile DEF OnFile
  <2>3. \A o \in Phrases : KeysOf(o, rk[o])'
    BY <1>1, <1>2, <1>5, <1>6, SameFile DEF OnFile, KeysOf, r
  <2> QED
    BY <1>1, <2>2, <2>3, SameFile DEF V!rekey_secrets, OnFile
<1>9. OnFile /\ Moving => Moving'
  <2> SUFFICES ASSUME OnFile, Moving, NEW o \in V!Stores \ stale',
                      secret'[o] # V!master_key, secret'[o] # NoKey
               PROVE  \E q \in Phrases : Moves(rk[q], o)'
    BY <1>1, SameFile DEF Moving
  <2>1. CASE o # s
    <3>1. o \notin stale /\ secret'[o] = secret[o]
      BY <1>2, <1>4, <2>1
    <3>2. PICK q \in Phrases : Moves(rk[q], o)
      BY <3>1 DEF Moving
    <3>3. CASE q # e
      BY <1>1, <1>5, <3>2, <3>3, SameFile DEF Moves
    <3>4. CASE q = e
      <4>1. r.new = V!master_key /\ o \in r.todo \ {s} /\ r.todo # {s}
        BY <1>2, <2>1, <3>2, <3>4 DEF Moves, r
      <4> QED BY <1>1, <1>6, <4>1, SameFile DEF Moves
    <3> QED BY <3>3, <3>4
  <2>2. CASE o = s
    <3>1. r.old # NoKey /\ r.old # V!master_key
      BY <1>2 DEF OnFile, KeysOf, r
    <3>2. s \notin stale /\ secret[s] \in {r.old, NoKey}
      BY <1>2, <2>2
    <3>3. secret[s] = r.old /\ r.new # V!master_key
      BY <1>4, <2>2, <3>2
    <3>4. PICK q \in Phrases : Moves(rk[q], s)
      BY <3>1, <3>2, <3>3 DEF Moving
    <3>5. q # e
      BY <1>2, <3>3, <3>4 DEF Moves, r
    <3> QED BY <1>1, <1>5, <2>2, <3>4, <3>5, SameFile DEF Moves
  <2> QED BY <2>1, <2>2
<1> QED
  BY <1>7, <1>8, <1>9 DEF V!rekey_secrets, IndInv, BackupsFull

LEMMA InvDies ==
    ASSUME IndInv, NEW e \in Phrases, V!RekeyDies(e) PROVE IndInv'
<1>1. keyfile' = keyfile /\ rk' = [rk EXCEPT ![e] = V!NoRekey]
  BY DEF V!RekeyDies
<1>2. Typed'
  BY <1>1 DEF V!RekeyDies, IndInv, Typed, V!NoRekey, KeyOrNone
<1>3. rk'[e].pc = "idle" /\ \A o \in Phrases : o # e => rk'[o] = rk[o]
  BY <1>1 DEF IndInv, Typed, V!NoRekey
<1>4. OnFile => OnFile'
  BY <1>1, <1>3, SameFile DEF V!RekeyDies, OnFile, KeysOf
<1> QED
  BY <1>2, <1>4 DEF V!RekeyDies, IndInv, BackupsFull

LEMMA InvBackup ==
    ASSUME IndInv, NEW s \in V!Stores, V!Backup(s) PROVE IndInv'
<1>1. keyfile' = keyfile
  BY DEF V!Backup
<1> DEFINE b == [of |-> s, time |-> seconds,
                 keys |-> [o \in V!Stores |-> IF o = s \/ s = V!KelsoDb THEN secret[o] ELSE NoKey]]
<1>2. taken' = taken \cup {b} /\ secret[s] # NoKey
  BY DEF V!Backup
<1>3. b \in [of : V!Stores, time : 0..seconds, keys : [V!Stores -> KeyOrNone]]
  BY DEF IndInv, Typed, KeyOrNone
<1>4. /\ b.keys[b.of] # NoKey
      /\ \A o \in V!Stores : b.keys[o] \in {secret[o], NoKey}
  BY <1>2
<1> HIDE DEF b
<1>5. Typed'
  BY <1>2, <1>3 DEF V!Backup, IndInv, Typed
<1>6. BackupsFull'
  BY <1>2, <1>4 DEF IndInv, BackupsFull
<1>7. OnFile => OnFile'
  <2> SUFFICES ASSUME OnFile PROVE OnFile'
    OBVIOUS
  <2>1. \A o \in V!Stores : b.keys[o] \in Held
    BY <1>4 DEF OnFile, Held
  <2> QED
    BY <1>1, <1>2, <2>1, SameFile DEF V!Backup, OnFile, KeysOf
<1>8. Moving => Moving'
  BY <1>1, SameFile DEF V!Backup, Moving, Moves
<1> QED
  BY <1>5, <1>6, <1>7, <1>8 DEF V!Backup, IndInv

LEMMA InvPurge ==
    ASSUME IndInv, V!run_purge PROVE IndInv'
<1>1. keyfile' = keyfile
  BY DEF V!run_purge
<1>2. Typed'
  BY DEF V!run_purge, V!purged, IndInv, Typed, KeyOrNone
<1>3. OnFile => OnFile'
  BY <1>1, SameFile DEF V!run_purge, V!purged, OnFile, KeysOf, Held
<1>4. \A o \in V!Stores \ stale' : secret'[o] = NoKey \/ (o \notin stale /\ secret'[o] = secret[o])
  BY DEF V!run_purge, V!purged
<1>5. Moving => Moving'
  BY <1>1, <1>4, SameFile DEF V!run_purge, Moving, Moves
<1> QED
  BY <1>2, <1>3, <1>5 DEF V!run_purge, IndInv, BackupsFull

LEMMA InvPhrase ==
    ASSUME IndInv, V!init_with_phrase PROVE IndInv'
<1> DEFINE r == [seed |-> V!master_key, at |-> seconds]
<1>1. r \in [seed : Key, at : Nat]
  BY MasterOnFile DEF IndInv, Typed
<1>2. keyfile' \in Seq([seed : Key, at : Nat]) /\ keyfile' # <<>>
  BY <1>1 DEF V!init_with_phrase
<1>3. Typed'
  BY <1>2 DEF V!init_with_phrase, IndInv, Typed, KeyOrNone, V!NoRekey
<1> QED
  BY <1>3 DEF V!init_with_phrase, IndInv, BackupsFull

\* What a whole kelso restored from its backups has is what backups held, or the
\* current key.
LEMMA RecoveredIs ==
    ASSUME Typed, V!BackupsOf(V!KelsoDb) # {}, NEW failed, NEW s \in V!Stores
    PROVE  \/ V!recovered(failed)[s] = V!master_key
           \/ \E b \in taken : V!recovered(failed)[s] = b.keys[s]
<1>1. V!Newest(V!BackupsOf(V!KelsoDb)) \in taken
  BY NewestOf DEF V!BackupsOf
<1>2. CASE s \in failed \cup {V!KelsoDb} \/ V!BackupsOf(s) = {}
  BY <1>1, <1>2 DEF V!recovered, V!copy_state
<1>3. CASE ~(s \in failed \cup {V!KelsoDb} \/ V!BackupsOf(s) = {})
  <2> DEFINE b == V!Newest(V!BackupsOf(s))
  <2>1. b \in taken
    BY <1>3, NewestOf DEF V!BackupsOf
  <2>2. V!recovered(failed)[s] = V!Restored(b.keys[s], b.time, V!master_key)
    BY <1>3 DEF V!recovered
  <2> QED
    BY <2>1, <2>2, RestoredIs
<1> QED
  BY <1>2, <1>3

LEMMA InvEverything ==
    ASSUME IndInv, V!restore_everything PROVE IndInv'
<1>1. keyfile' = keyfile
  BY DEF V!restore_everything
<1>2. PICK failed \in SUBSET {a \in VApps : V!BackupsOf(a) # {}} :
        /\ secret' = V!recovered(failed)
        /\ stale' = {s \in V!Stores : /\ secret'[s] # V!master_key
                                    /\ \/ s \in failed \cup {V!KelsoDb} \/ V!BackupsOf(s) = {}
                                       \/ V!Torn(V!Newest(V!BackupsOf(s)))}
  BY DEF V!restore_everything
<1>3. Typed /\ BackupsFull /\ V!BackupsOf(V!KelsoDb) # {}
  BY DEF V!restore_everything, IndInv
<1>4. \A s \in V!Stores : secret'[s] = V!master_key \/ \E b \in taken : secret'[s] = b.keys[s]
  BY <1>2, <1>3, RecoveredIs
<1>5. V!master_key \in V!Seeds /\ V!master_key \in Key
  BY <1>3, MasterOnFile
<1>6. secret' \in [V!Stores -> KeyOrNone]
  <2>1. DOMAIN secret' = V!Stores /\ secret' = [s \in V!Stores |-> secret'[s]]
    BY <1>2 DEF V!recovered
  <2>2. \A s \in V!Stores : secret'[s] \in KeyOrNone
    <3>1. \A b \in taken : \A s \in V!Stores : b.keys[s] \in KeyOrNone
      BY <1>3 DEF Typed
    <3> QED
      BY <1>4, <1>5, <3>1 DEF KeyOrNone
  <2> QED
    BY <2>1, <2>2
<1>7. Typed'
  BY <1>3, <1>6 DEF V!restore_everything, Typed
<1>8. OnFile => OnFile'
  <2> SUFFICES ASSUME OnFile PROVE OnFile'
    OBVIOUS
  <2>1. \A s \in V!Stores : secret'[s] \in Held
    BY <1>4, <1>5 DEF OnFile, Held
  <2> QED
    BY <1>1, <2>1, SameFile DEF V!restore_everything, OnFile, KeysOf
<1>9. \A s \in V!Stores \ stale' : secret'[s] = V!master_key
  <2> SUFFICES ASSUME NEW s \in V!Stores \ stale', secret'[s] # V!master_key PROVE FALSE
    OBVIOUS
  <2> DEFINE b == V!Newest(V!BackupsOf(s))
  <2>1. s \notin failed \cup {V!KelsoDb} /\ V!BackupsOf(s) # {} /\ ~V!Torn(b)
    BY <1>2
  <2>2. b \in V!BackupsOf(s)
    BY <1>3, <2>1, NewestOf DEF V!BackupsOf
  <2>3. b \in taken /\ b.of = s
    BY <2>2 DEF V!BackupsOf
  <2>4. b.keys[b.of] # NoKey
    BY <1>3, <2>3 DEF BackupsFull
  <2>5. secret'[s] = V!Restored(b.keys[b.of], b.time, V!master_key)
    BY <1>2, <2>1, <2>3 DEF V!recovered
  <2> HIDE DEF b
  <2> QED
    BY <2>1, <2>4, <2>5, RestoredNow
<1>10. Moving'
  BY <1>1, <1>3, <1>9, SameFile DEF V!restore_everything, Moving, Moves
<1> QED
  BY <1>3, <1>7, <1>8, <1>10 DEF V!restore_everything, IndInv, BackupsFull

\* Every step keeps the invariant.
THEOREM Inductive == IndInv /\ [V!Next]_(V!vars) => IndInv'
<1> SUFFICES ASSUME IndInv, [V!Next]_(V!vars) PROVE IndInv'
  OBVIOUS
<1>1. CASE UNCHANGED V!vars
  BY <1>1, InvStutter
<1>2. CASE V!Next
  BY <1>2, InvTick, InvContext, InvSet, InvRestore, InvRekey, InvBackups, InvSeed, InvListed,
     InvSecrets, InvDies, InvBackup, InvPurge, InvPhrase, InvEverything DEF V!Next
<1> QED
  BY <1>1, <1>2

\* No secret is encrypted under a key this root does not have on file, whatever
\* step a rekey died at, whoever wrote in between and however often backups were
\* restored, unless the machine was lost and made anew with the phrase.
THEOREM NothingLost == V!Spec => []NoSecretLost
<1>1. V!Init => IndInv
  BY InitInv
<1>2. IndInv => NoSecretLost
  BY DEF IndInv, OnFile, Held, NoSecretLost, V!NoSecretLost
<1> QED
  BY <1>1, <1>2, Inductive, PTL DEF V!Spec

\* Once the rekeys under way have run to their end, however they overlapped and
\* with whatever old keys, every secret is under the current key, but for the
\* stores last written with an older context or from a backup whose time does not
\* tell its key, and those a rekey reported it could not read.
THEOREM AllCurrent == V!Spec => []SecretsCurrent
<1>1. V!Init => IndInv
  BY InitInv
<1>2. IndInv => SecretsCurrent
  BY DEF IndInv, Moving, Moves, SecretsCurrent, V!SecretsCurrent
<1> QED
  BY <1>1, <1>2, Inductive, PTL DEF V!Spec
-----------------------------------------------------------------------------
(***************************************************************************)
(* Which backups are kept.  The keep policy goes through the backups       *)
(* newest first; what it keeps is said here by what is newer than each:    *)
(* few enough days, or weeks or months, and none of its own.  So nothing   *)
(* that is wanted of all the backups there ever were stops being wanted    *)
(* because an unwanted one is gone, and a later backup makes nothing       *)
(* wanted that was not.                                                    *)
(***************************************************************************)

\* How many members of S a function has below r.
Below(S, f, r) == {q \in S : f[q] < f[r]}
Rank(S, f, r) == Cardinality(Below(S, f, r))

\* By a function that tells the members of a finite set apart, they have the ranks from 0.
LEMMA Ranks ==
    ASSUME NEW S, IsFiniteSet(S), NEW f, \A r \in S : f[r] \in Int,
           \A q, r \in S : f[q] = f[r] => q = r
    PROVE  /\ Cardinality(S) \in Nat
           /\ \A r \in S : Rank(S, f, r) \in 0..(Cardinality(S) - 1)
           /\ \A q, r \in S : f[q] < f[r] <=> Rank(S, f, q) < Rank(S, f, r)
           /\ \A q, r \in S : Rank(S, f, q) = Rank(S, f, r) => q = r
           /\ \A m \in 0..(Cardinality(S) - 1) : \E r \in S : Rank(S, f, r) = m
<1> DEFINE n == Cardinality(S)
           rank == [r \in S |-> Rank(S, f, r)]
<1>1. \A q, r \in S : q \in Below(S, f, r) <=> f[q] < f[r]
  BY DEF Below
<1>2. \A r \in S : Below(S, f, r) \in SUBSET S
  BY DEF Below
<1>3. n \in Nat /\ \A r \in S : IsFiniteSet(Below(S, f, r)) /\ Rank(S, f, r) \in Nat
  BY <1>2, FS_CardinalityType, FS_Subset DEF Rank
<1>4. ASSUME NEW r \in S PROVE Rank(S, f, r) \in 0..(n - 1)
  <2>1. r \notin Below(S, f, r)
    BY <1>1
  <2>2. Rank(S, f, r) <= n /\ n # Rank(S, f, r)
    BY <1>2, <2>1, FS_Subset DEF Rank
  <2> QED BY <1>3, <2>2
<1>5. ASSUME NEW q \in S, NEW r \in S, f[q] < f[r] PROVE Rank(S, f, q) < Rank(S, f, r)
  <2>1. Below(S, f, q) \in SUBSET Below(S, f, r)
    BY <1>1, <1>2, <1>5
  <2>2. q \in Below(S, f, r) /\ q \notin Below(S, f, q)
    BY <1>1, <1>5
  <2>3. Rank(S, f, q) <= Rank(S, f, r) /\ Rank(S, f, r) # Rank(S, f, q)
    BY <1>3, <2>1, <2>2, FS_Subset DEF Rank
  <2> QED BY <1>3, <2>3
<1> HIDE DEF n
<1>6. ASSUME NEW q \in S, NEW r \in S, ~(f[q] < f[r]) PROVE ~(Rank(S, f, q) < Rank(S, f, r))
  <2>1. CASE f[q] = f[r]
    BY <1>3, <2>1
  <2>2. CASE f[r] < f[q]
    BY <1>3, <1>5, <2>2
  <2> QED BY <1>6, <2>1, <2>2
<1>7. ASSUME NEW q \in S, NEW r \in S, Rank(S, f, q) = Rank(S, f, r) PROVE q = r
  <2>1. ~(f[q] < f[r]) /\ ~(f[r] < f[q])
    BY <1>3, <1>5, <1>7
  <2> QED BY <2>1
<1>8. \A m \in 0..(n - 1) : \E r \in S : Rank(S, f, r) = m
  <2>1. IsFiniteSet(0..(n - 1)) /\ Cardinality(0..(n - 1)) = n
    BY <1>3, FS_Interval
  <2>2. rank \in Injection(S, 0..(n - 1))
    BY <1>4, <1>7 DEF Injection, IsInjective
  <2>3. rank \in Surjection(S, 0..(n - 1))
    BY <2>1, <2>2, FS_Injection DEF n
  <2> QED BY <2>3 DEF Surjection
<1>9. \A q, r \in S : f[q] < f[r] <=> Rank(S, f, q) < Rank(S, f, r)
  BY <1>5, <1>6
<1> QED BY <1>3, <1>4, <1>7, <1>8, <1>9 DEF n

\* A finite set that is not empty has a member least by f, one of naturals a greatest.
LEMMA LeastBy ==
    ASSUME NEW S, IsFiniteSet(S), S # {}, NEW f, \A r \in S : f[r] \in Int,
           \A q, r \in S : f[q] = f[r] => q = r
    PROVE  \E n \in S : \A m \in S : ~(f[m] < f[n])
<1>1. /\ Cardinality(S) \in Nat
      /\ \A r \in S : Rank(S, f, r) \in 0..(Cardinality(S) - 1)
      /\ \A q, r \in S : f[q] < f[r] <=> Rank(S, f, q) < Rank(S, f, r)
      /\ \A m \in 0..(Cardinality(S) - 1) : \E r \in S : Rank(S, f, r) = m
  BY Ranks
<1>2. PICK n \in S : Rank(S, f, n) = 0
  <2>1. Cardinality(S) # 0
    BY FS_EmptySet
  <2> QED BY <1>1, <2>1
<1> QED BY <1>1, <1>2

LEMMA Most ==
    ASSUME NEW S \in SUBSET Nat, IsFiniteSet(S), S # {} PROVE \E n \in S : \A m \in S : m <= n
<1> DEFINE f == [n \in S |-> -n]
<1>1. \A r \in S : f[r] = -r /\ f[r] \in Int
  OBVIOUS
<1> HIDE DEF f
<1>2. \A q, r \in S : f[q] = f[r] => q = r
  BY <1>1
<1>3. PICK n \in S : \A m \in S : ~(f[m] < f[n])
  BY <1>1, <1>2, LeastBy
<1>4. ASSUME NEW m \in S PROVE m <= n
  <2>1. ~(f[m] < f[n])
    BY <1>3
  <2> QED BY <1>1, <2>1
<1> QED BY <1>4

-----------------------------------------------------------------------------
(* The keep policy.  X are runs, f[v] is what run v is one of (its day, or the *)
(* run itself), and the newest of each of the n last of these are kept.        *)

Later(X, f, v) == {f[u] : u \in {x \in X : x > v}}
Thinned(X, f, n) == {v \in X : f[v] \notin Later(X, f, v) /\ Cardinality(Later(X, f, v)) < n}

LEMMA LaterFinite ==
    ASSUME NEW X \in SUBSET Nat, IsFiniteSet(X), NEW f, NEW v
    PROVE  IsFiniteSet(Later(X, f, v)) /\ Cardinality(Later(X, f, v)) \in Nat
<1> DEFINE U == {x \in X : x > v}
           g == [u \in U |-> f[u]]
<1>1. IsFiniteSet(U)
  BY FS_Subset
<1>2. g \in Surjection(U, Later(X, f, v))
  BY DEF Surjection, Later
<1> QED BY <1>1, <1>2, FS_Surjection, FS_CardinalityType

\* Where what is kept of all runs is not forgotten, as much is kept of what is left: what
\* is newer than a run and of something that nothing left is of would itself be kept.
LEMMA ThinnedSame ==
    ASSUME NEW H \in SUBSET Nat, IsFiniteSet(H), NEW X \in SUBSET H, NEW f, NEW n \in Nat,
           Thinned(H, f, n) \subseteq X
    PROVE  Thinned(X, f, n) = Thinned(H, f, n)
<1>1. \A v : /\ Later(X, f, v) \subseteq Later(H, f, v)
             /\ IsFiniteSet(Later(X, f, v)) /\ Cardinality(Later(X, f, v)) \in Nat
             /\ IsFiniteSet(Later(H, f, v)) /\ Cardinality(Later(H, f, v)) \in Nat
  <2>1. IsFiniteSet(X)
    BY FS_Subset
  <2>2. \A v : Later(X, f, v) \subseteq Later(H, f, v)
    BY DEF Later
  <2> QED BY <2>1, <2>2, LaterFinite
<1>2. ASSUME NEW v \in Thinned(H, f, n) PROVE v \in Thinned(X, f, n)
  <2>1. Cardinality(Later(X, f, v)) <= Cardinality(Later(H, f, v))
    BY <1>1, FS_Subset
  <2>2. Cardinality(Later(X, f, v)) < n /\ f[v] \notin Later(X, f, v) /\ v \in X
    BY <1>1, <1>2, <2>1 DEF Thinned
  <2> QED BY <2>2 DEF Thinned
<1>3. ASSUME NEW v \in Thinned(X, f, n) PROVE v \in Thinned(H, f, n)
  <2> DEFINE D == {u \in H : u > v /\ f[u] \notin Later(X, f, v)}
  <2>1. v \in X /\ v \in Nat /\ f[v] \notin Later(X, f, v) /\ Cardinality(Later(X, f, v)) < n
    BY <1>3 DEF Thinned
  <2>2. ASSUME D # {} PROVE FALSE
    <3>1. D \in SUBSET Nat /\ IsFiniteSet(D)
      BY FS_Subset
    <3>2. PICK c \in D : \A m \in D : m <= c
      <4> HIDE DEF D
      <4> QED BY <2>2, <3>1, Most
    <3>3. Later(H, f, c) \subseteq Later(X, f, v)
      <4> SUFFICES ASSUME NEW u \in H, u > c PROVE f[u] \in Later(X, f, v)
        BY DEF Later
      <4>1. u \notin D /\ u > v
        BY <2>1, <3>2
      <4> QED BY <4>1
    <3>4. Cardinality(Later(H, f, c)) <= Cardinality(Later(X, f, v))
      BY <1>1, <3>3, FS_Subset
    <3>5. c \in H /\ c > v /\ f[c] \notin Later(X, f, v)
      BY <3>2
    <3>6. c \in Thinned(H, f, n)
      BY <1>1, <2>1, <3>3, <3>4, <3>5 DEF Thinned
    <3>7. f[c] \in Later(X, f, v)
      BY <3>5, <3>6 DEF Later
    <3> QED BY <3>5, <3>7
  <2>3. Later(H, f, v) = Later(X, f, v)
    <3>1. ASSUME NEW u \in H, u > v PROVE f[u] \in Later(X, f, v)
      BY <2>2, <3>1
    <3> QED BY <1>1, <3>1 DEF Later
  <2> QED BY <2>1, <2>3 DEF Thinned
<1> QED BY <1>2, <1>3

\* It depends on the runs in question alone, and keeps none where none are wanted.
LEMMA ThinnedBy ==
    ASSUME NEW X, NEW f, NEW g, NEW n, \A v \in X : f[v] = g[v]
    PROVE  Thinned(X, f, n) = Thinned(X, g, n)
<1>1. \A v : Later(X, f, v) = Later(X, g, v)
  BY DEF Later
<1> QED BY <1>1 DEF Thinned

LEMMA NoneThinned ==
    ASSUME NEW X \in SUBSET Nat, IsFiniteSet(X), NEW f PROVE Thinned(X, f, 0) = {}
BY LaterFinite DEF Thinned

Reasons == {Rt!Scheduled, Rt!Manual, Rt!Update, Rt!PreRestore}

\* Backups as a listing has them, their runs of a reason, which of a kind of period each of
\* the scheduled ones is of, and what is kept of them all.
Listing(bs) ==
    /\ IsFiniteSet(bs)
    /\ \A b \in bs : b.run \in Nat /\ b.reason \in Reasons
    /\ \A b, c \in bs : b.run = c.run => b = c
RunsFor(bs, why) == {b.run : b \in Rt!OfReason(bs, why)}
PeriodFor(bs, len) ==
    [v \in RunsFor(bs, Rt!Scheduled) |-> (CHOOSE b \in bs : b.run = v).time \div len]
Itself == [v \in Nat |-> v]
KeptOf(bs) ==
    (UNION {Thinned(RunsFor(bs, Rt!Scheduled), PeriodFor(bs, Period[k]), Keep[k]) :
              k \in {"daily", "weekly", "monthly"}})
    \cup Thinned(RunsFor(bs, Rt!Manual), Itself, Keep.manual)
    \cup Thinned(RunsFor(bs, Rt!Update), Itself, 1)
    \cup Thinned(RunsFor(bs, Rt!PreRestore), Itself, 1)

LEMMA InKept ==
    ASSUME NEW bs, NEW v
    PROVE  v \in KeptOf(bs) <=>
             \/ \E k \in {"daily", "weekly", "monthly"} :
                  v \in Thinned(RunsFor(bs, Rt!Scheduled), PeriodFor(bs, Period[k]), Keep[k])
             \/ v \in Thinned(RunsFor(bs, Rt!Manual), Itself, Keep.manual)
             \/ v \in Thinned(RunsFor(bs, Rt!Update), Itself, 1)
             \/ v \in Thinned(RunsFor(bs, Rt!PreRestore), Itself, 1)
<1> DEFINE Term(k) == Thinned(RunsFor(bs, Rt!Scheduled), PeriodFor(bs, Period[k]), Keep[k])
           Un == UNION {Term(k) : k \in {"daily", "weekly", "monthly"}}
           Mn == Thinned(RunsFor(bs, Rt!Manual), Itself, Keep.manual)
           G == Thinned(RunsFor(bs, Rt!Update), Itself, 1)
           B == Thinned(RunsFor(bs, Rt!PreRestore), Itself, 1)
<1>1. KeptOf(bs) = Un \cup Mn \cup G \cup B
  BY DEF KeptOf
<1>2. v \in Un <=> \E k \in {"daily", "weekly", "monthly"} : v \in Term(k)
  <2> HIDE DEF Term
  <2> QED OBVIOUS
<1> HIDE DEF Un, Mn, G, B
<1>3. v \in KeptOf(bs) <=> v \in Un \/ v \in Mn \/ v \in G \/ v \in B
  BY <1>1
<1> QED BY <1>2, <1>3 DEF Mn, G, B

\* Retention counts as this module does.
LEMMA SameSize == \A S : Rt!Cardinality(S) = Cardinality(S)
BY DEF Rt!Cardinality, Cardinality

LEMMA RunsFinite ==
    ASSUME NEW bs, Listing(bs), NEW why
    PROVE  RunsFor(bs, why) \in SUBSET Nat /\ IsFiniteSet(RunsFor(bs, why))
<1> DEFINE of == Rt!OfReason(bs, why)
           g == [b \in of |-> b.run]
<1>1. of \in SUBSET bs /\ IsFiniteSet(of)
  BY FS_Subset DEF Rt!OfReason, Listing
<1>2. g \in Surjection(of, RunsFor(bs, why))
  BY DEF Surjection, RunsFor
<1> QED BY <1>1, <1>2, FS_Surjection DEF RunsFor, Listing

\* Newest first, and the first of each bucket until there are enough: what is kept of
\* scheduled backups by one kind of period.
LEMMA ThinIs ==
    ASSUME NEW bs, IsFiniteSet(bs), \A b \in bs : b.run \in Nat,
           \A b, c \in bs : b.run = c.run => b = c,
           NEW len, NEW n \in Nat, NEW f, \A b \in bs : f[b.run] = b.time \div len,
           NEW X, X = {b.run : b \in bs}
    PROVE  Rt!Thin(bs, n, len) = Thinned(X, f, n)
<1> DEFINE g == [b \in bs |-> -b.run]
           N == Cardinality(bs)
           nf == [i \in 1..Rt!Cardinality(bs) |->
                    CHOOSE b \in bs : Rt!Cardinality({c \in bs : c.run > b.run}) = i - 1]
<1>1. \A b \in bs : g[b] = -b.run /\ g[b] \in Int
  OBVIOUS
<1>2. \A b, c \in bs : g[b] = g[c] => b = c
  BY <1>1
<1>3. \A b \in bs : Below(bs, g, b) = {c \in bs : c.run > b.run}
  BY <1>1 DEF Below
<1> HIDE DEF g
<1>4. /\ N \in Nat
      /\ \A b \in bs : Rank(bs, g, b) \in 0..(N - 1)
      /\ \A b, c \in bs : g[b] < g[c] <=> Rank(bs, g, b) < Rank(bs, g, c)
      /\ \A m \in 0..(N - 1) : \E b \in bs : Rank(bs, g, b) = m
  BY <1>1, <1>2, Ranks
<1>5. \A b, c \in bs : b.run > c.run <=> Rank(bs, g, b) < Rank(bs, g, c)
  BY <1>1, <1>4
<1>6. DOMAIN nf = 1..N
  BY SameSize
<1>7. ASSUME NEW i \in 1..N PROVE nf[i] \in bs /\ Rank(bs, g, nf[i]) = i - 1
  <2>1. i - 1 \in 0..(N - 1)
    BY <1>4
  <2>2. \A b \in bs : Rank(bs, g, b) = i - 1 <=> Rt!Cardinality({c \in bs : c.run > b.run}) = i - 1
    BY <1>3, SameSize DEF Rank
  <2>3. nf[i] = CHOOSE b \in bs : Rt!Cardinality({c \in bs : c.run > b.run}) = i - 1
    BY SameSize
  <2> HIDE DEF nf
  <2>4. \E b \in bs : Rt!Cardinality({c \in bs : c.run > b.run}) = i - 1
    BY <1>4, <2>1, <2>2
  <2> QED BY <2>2, <2>3, <2>4
<1> DEFINE Bucket(i) == nf[i].time \div len
           Opens(i) == \A j \in 1..(i - 1) : Bucket(j) # Bucket(i)
           Seen(i) == {Bucket(j) : j \in 1..(i - 1)}
<1>8. Rt!Thin(bs, n, len) = {nf[i].run : i \in {i \in DOMAIN nf : Opens(i) /\ Rt!Cardinality(Seen(i)) < n}}
  BY Zenon DEF Rt!Thin
<1>9. DOMAIN nf = 1..N
  BY <1>6
<1> HIDE DEF nf, N
<1>10. ASSUME NEW i \in 1..N
       PROVE  /\ Seen(i) = Later(X, f, nf[i].run)
              /\ Opens(i) <=> f[nf[i].run] \notin Later(X, f, nf[i].run)
  <2>1. ASSUME NEW j \in 1..(i - 1) PROVE Bucket(j) \in Later(X, f, nf[i].run)
    <3>1. j \in 1..N /\ j < i
      BY <1>4
    <3>2. nf[j] \in bs /\ nf[i] \in bs /\ nf[j].run > nf[i].run
      BY <1>4, <1>5, <1>7, <3>1
    <3>3. nf[j].run \in X /\ f[nf[j].run] = Bucket(j)
      BY <3>2
    <3> QED BY <3>2, <3>3 DEF Later
  <2>2. ASSUME NEW u \in X, u > nf[i].run PROVE \E j \in 1..(i - 1) : f[u] = Bucket(j)
    <3>1. PICK b \in bs : u = b.run
      OBVIOUS
    <3> DEFINE j == Rank(bs, g, b) + 1
    <3>2. Rank(bs, g, b) < i - 1 /\ Rank(bs, g, b) \in Nat
      BY <1>4, <1>5, <1>7, <2>2, <3>1
    <3>3. j \in 1..(i - 1) /\ j \in 1..N /\ Rank(bs, g, b) = j - 1
      BY <1>4, <3>2
    <3> HIDE DEF j
    <3>4. Rank(bs, g, nf[j]) = Rank(bs, g, b) /\ nf[j] \in bs
      BY <1>7, <3>3
    <3>5. nf[j] = b
      <4>1. ~(nf[j].run > b.run) /\ ~(b.run > nf[j].run)
        BY <1>4, <1>5, <3>4
      <4> QED BY <3>4, <4>1
    <3> QED BY <3>1, <3>3, <3>5
  <2>3. Seen(i) = Later(X, f, nf[i].run)
    BY <2>1, <2>2 DEF Later
  <2>4. f[nf[i].run] = Bucket(i)
    BY <1>7
  <2> QED BY <2>3, <2>4
<1>11. ASSUME NEW v \in X PROVE \E i \in 1..N : nf[i].run = v
  <2>1. PICK b \in bs : v = b.run
    OBVIOUS
  <2> DEFINE i == Rank(bs, g, b) + 1
  <2>2. i \in 1..N /\ Rank(bs, g, b) = i - 1
    BY <1>4
  <2> HIDE DEF i
  <2>3. Rank(bs, g, nf[i]) = Rank(bs, g, b) /\ nf[i] \in bs
    BY <1>7, <2>2
  <2>4. ~(nf[i].run > b.run) /\ ~(b.run > nf[i].run)
    BY <1>4, <1>5, <2>3
  <2> QED BY <2>1, <2>2, <2>3, <2>4
<1>12. \A i \in 1..N : nf[i].run \in X
  BY <1>7
<1> HIDE DEF Opens, Seen
<1>13. \A i \in 1..N : (Opens(i) /\ Rt!Cardinality(Seen(i)) < n) <=> nf[i].run \in Thinned(X, f, n)
  BY <1>10, <1>12, SameSize DEF Thinned
<1>14. Thinned(X, f, n) \subseteq X
  BY DEF Thinned
<1> QED BY <1>8, <1>9, <1>11, <1>13, <1>14

LEMMA NewestIs ==
    ASSUME NEW X \in SUBSET Nat, NEW n PROVE Rt!Greatest(n, X) = Thinned(X, Itself, n)
<1>1. ASSUME NEW v \in X
      PROVE  Later(X, Itself, v) = {w \in X : w > v} /\ Itself[v] \notin Later(X, Itself, v)
  <2>1. \A u \in X : Itself[u] = u
    BY DEF Itself
  <2>2. Later(X, Itself, v) = {w \in X : w > v}
    <3>1. \A u : u \in Later(X, Itself, v) <=> u \in {w \in X : w > v}
      BY <2>1 DEF Later
    <3> QED BY <3>1
  <2>3. ~(v > v)
    OBVIOUS
  <2> QED BY <2>1, <2>2, <2>3
<1> QED BY <1>1, SameSize DEF Rt!Greatest, Thinned

LEMMA KeptIs ==
    ASSUME NEW bs, Listing(bs) PROVE Rt!Kept(bs) = KeptOf(bs)
<1> DEFINE scheduled == Rt!OfReason(bs, Rt!Scheduled)
           X == RunsFor(bs, Rt!Scheduled)
<1>1. IsFiniteSet(scheduled) /\ scheduled \in SUBSET bs /\ X = {b.run : b \in scheduled}
  BY FS_Subset DEF Listing, Rt!OfReason, RunsFor
<1>2. ASSUME NEW k \in {"daily", "weekly", "monthly"}
      PROVE  Rt!Thin(scheduled, Keep[k], Period[k]) = Thinned(X, PeriodFor(bs, Period[k]), Keep[k])
  <2> DEFINE f == PeriodFor(bs, Period[k])
  <2>1. ASSUME NEW b \in scheduled PROVE f[b.run] = b.time \div Period[k]
    <3>1. b \in bs /\ b.run \in X
      BY <1>1
    <3>2. b = CHOOSE c \in bs : c.run = b.run
      BY <3>1 DEF Listing
    <3> QED BY <3>1, <3>2 DEF PeriodFor
  <2>2. Keep[k] \in Nat
    BY KeepAssumption DEF Rt!RetentionAssumption
  <2>3. (\A b \in scheduled : b.run \in Nat) /\ (\A b, c \in scheduled : b.run = c.run => b = c)
    BY <1>1 DEF Listing
  <2> HIDE DEF scheduled, f, X
  <2> QED BY <1>1, <2>1, <2>2, <2>3, ThinIs DEF f
<1>3. \A why : \A n : Rt!Greatest(n, {b.run : b \in Rt!OfReason(bs, why)}) = Thinned(RunsFor(bs, why), Itself, n)
  BY RunsFinite, NewestIs DEF RunsFor
<1>4. {Rt!Thin(scheduled, Keep[k], Period[k]) : k \in {"daily", "weekly", "monthly"}}
        = {Thinned(X, PeriodFor(bs, Period[k]), Keep[k]) : k \in {"daily", "weekly", "monthly"}}
  BY <1>2, Zenon
<1> QED BY <1>3, <1>4, Zenon DEF Rt!Kept, KeptOf

LEMMA WantedIs ==
    ASSUME NEW bs, Listing(bs) PROVE Rt!Wanted(bs) = KeptOf(bs)
<1> DEFINE Newer(b) == {c \in bs : c.reason = b.reason /\ c.run > b.run}
           X == RunsFor(bs, Rt!Scheduled)
           Count(why) == IF why = Rt!Manual THEN Keep.manual ELSE 1
           Fits(c) == IF c.reason = Rt!Scheduled
                      THEN \E k \in DOMAIN Period :
                             /\ c.time \div Period[k] \notin {d.time \div Period[k] : d \in Newer(c)}
                             /\ Rt!Cardinality({d.time \div Period[k] : d \in Newer(c)}) < Keep[k]
                      ELSE Rt!Cardinality(Newer(c)) < Count(c.reason)
<1>1. Rt!Wanted(bs) = {b.run : b \in {c \in bs : Fits(c)}}
  BY Zenon DEF Rt!Wanted
<1>2. \A b \in bs : b.run \in RunsFor(bs, b.reason) /\ b.run \in Nat
  BY DEF RunsFor, Rt!OfReason, Listing
<1>3. ASSUME NEW why, NEW v \in RunsFor(bs, why) PROVE \E b \in bs : b.run = v /\ b.reason = why
  BY DEF RunsFor, Rt!OfReason
<1>4. ASSUME NEW b \in bs, NEW k, b.reason = Rt!Scheduled
      PROVE  /\ b.time \div Period[k] = PeriodFor(bs, Period[k])[b.run]
             /\ {d.time \div Period[k] : d \in Newer(b)} = Later(X, PeriodFor(bs, Period[k]), b.run)
  <2> DEFINE f == PeriodFor(bs, Period[k])
  <2>1. ASSUME NEW d \in bs, d.reason = Rt!Scheduled PROVE d.run \in X /\ f[d.run] = d.time \div Period[k]
    <3>1. d.run \in X
      BY <1>2, <2>1
    <3>2. d = CHOOSE c \in bs : c.run = d.run
      BY DEF Listing
    <3> QED BY <3>1, <3>2 DEF PeriodFor
  <2> HIDE DEF f, X
  <2>2. \A d \in Newer(b) : d \in bs /\ d.reason = Rt!Scheduled /\ d.run > b.run
    BY <1>4
  <2>3. \A u \in X : u > b.run => \E d \in Newer(b) : d.run = u
    BY <1>3, <1>4 DEF X
  <2>4. {d.time \div Period[k] : d \in Newer(b)} = Later(X, f, b.run)
    <3>1. ASSUME NEW d \in Newer(b) PROVE d.time \div Period[k] \in Later(X, f, b.run)
      BY <2>1, <2>2 DEF Later
    <3>2. ASSUME NEW u \in X, u > b.run PROVE f[u] \in {d.time \div Period[k] : d \in Newer(b)}
      BY <2>1, <2>2, <2>3, <3>2
    <3> QED BY <3>1, <3>2 DEF Later
  <2> QED BY <1>4, <2>1, <2>4 DEF f
<1>5. ASSUME NEW b \in bs
      PROVE  Rt!Cardinality(Newer(b)) = Cardinality(Later(RunsFor(bs, b.reason), Itself, b.run))
  <2> DEFINE T == Later(RunsFor(bs, b.reason), Itself, b.run)
             h == [c \in Newer(b) |-> c.run]
  <2>1. T = {u \in RunsFor(bs, b.reason) : u > b.run}
    BY RunsFinite DEF Later, Itself
  <2>2. IsFiniteSet(Newer(b))
    BY FS_Subset DEF Listing
  <2>3. \A c \in Newer(b) : h[c] \in T
    BY <1>2, <2>1
  <2>4. \A u \in T : \E c \in Newer(b) : h[c] = u
    BY <1>3, <2>1
  <2>5. h \in Surjection(Newer(b), T)
    BY <2>3, <2>4 DEF Surjection
  <2>6. h \in Injection(Newer(b), T)
    BY <2>3 DEF Injection, IsInjective, Listing
  <2> HIDE DEF h, T, Newer
  <2>7. Cardinality(T) = Cardinality(Newer(b))
    BY <2>2, <2>5, <2>6, FS_Surjection
  <2> QED BY <2>7, SameSize DEF T
<1> HIDE DEF Newer
<1>6. ASSUME NEW b \in bs, b.reason = Rt!Scheduled
      PROVE  Fits(b) <=> \E k \in {"daily", "weekly", "monthly"} :
                            b.run \in Thinned(X, PeriodFor(bs, Period[k]), Keep[k])
  <2>1. DOMAIN Period = {"daily", "weekly", "monthly"}
    BY KeepAssumption DEF Rt!RetentionAssumption
  <2>2. b.run \in X
    BY <1>2, <1>6
  <2> HIDE DEF X
  <2> QED BY <1>4, <1>6, <2>1, <2>2, SameSize DEF Thinned
<1>7. ASSUME NEW b \in bs, b.reason # Rt!Scheduled
      PROVE  Fits(b) <=> b.run \in Thinned(RunsFor(bs, b.reason), Itself, Count(b.reason))
  <2>1. b.run \in RunsFor(bs, b.reason) /\ RunsFor(bs, b.reason) \in SUBSET Nat
    BY <1>2, RunsFinite
  <2>2. Itself[b.run] \notin Later(RunsFor(bs, b.reason), Itself, b.run)
    <3>1. \A u \in RunsFor(bs, b.reason) : Itself[u] = u
      BY <2>1 DEF Itself
    <3> QED BY <2>1, <3>1 DEF Later
  <2> QED BY <1>5, <1>7, <2>1, <2>2 DEF Thinned
<1>8. \A why, f, n : \A v \in Thinned(RunsFor(bs, why), f, n) : \E b \in bs : b.run = v /\ b.reason = why
  BY <1>3 DEF Thinned
<1>9. /\ Rt!Scheduled = "scheduled" /\ Rt!Manual = "manual" /\ Rt!Update = "update"
      /\ Rt!PreRestore = "pre-restore" /\ \A b \in bs : b.reason \in Reasons
  BY DEF Rt!Scheduled, Rt!Manual, Rt!Update, Rt!PreRestore, Listing
<1>12. Count(Rt!Manual) = Keep.manual /\ Count(Rt!Update) = 1 /\ Count(Rt!PreRestore) = 1
  BY <1>9
<1> HIDE DEF Fits, X, Count
<1>10. ASSUME NEW b \in bs, Fits(b) PROVE b.run \in KeptOf(bs)
  <2>1. CASE b.reason = Rt!Scheduled
    BY <1>6, <1>10, <2>1 DEF KeptOf, X
  <2>2. CASE b.reason # Rt!Scheduled
    <3>1. b.run \in Thinned(RunsFor(bs, b.reason), Itself, Count(b.reason))
      BY <1>7, <1>10, <2>2
    <3>2. b.reason \in {Rt!Manual, Rt!Update, Rt!PreRestore}
      BY <1>9, <2>2 DEF Reasons
    <3> QED BY <1>12, <3>1, <3>2, InKept
  <2> QED BY <2>1, <2>2
<1>11. ASSUME NEW v \in KeptOf(bs) PROVE \E b \in bs : b.run = v /\ Fits(b)
  <2>1. CASE \E k \in {"daily", "weekly", "monthly"} : v \in Thinned(X, PeriodFor(bs, Period[k]), Keep[k])
    <3>1. PICK b \in bs : b.run = v /\ b.reason = Rt!Scheduled
      BY <1>8, <2>1 DEF X
    <3> QED BY <1>6, <2>1, <3>1
  <2>2. CASE \E why \in {Rt!Manual, Rt!Update, Rt!PreRestore} :
               v \in Thinned(RunsFor(bs, why), Itself, Count(why))
    <3>1. PICK why \in {Rt!Manual, Rt!Update, Rt!PreRestore} :
               v \in Thinned(RunsFor(bs, why), Itself, Count(why))
      BY <2>2
    <3>2. PICK b \in bs : b.run = v /\ b.reason = why
      BY <1>8, <3>1
    <3>3. b.reason # Rt!Scheduled
      BY <1>9, <3>2
    <3> QED BY <1>7, <3>1, <3>2, <3>3
  <2> QED BY <1>11, <1>12, <2>1, <2>2, InKept DEF X
<1> QED BY <1>1, <1>10, <1>11
-----------------------------------------------------------------------------
(* Snapshots as backups. *)

\* Snapshots as a repository has them: no two of one number.
Sane(ss) ==
    /\ IsFiniteSet(ss)
    /\ \A s \in ss : s.id \in Nat /\ s.run \in Nat /\ s.reason \in Reasons
    /\ \A s, t \in ss : s.id = t.id => s = t
OneReason(ss) == \A s, t \in ss : s.run = t.run => s.reason = t.reason
OfRun(ss, v) == {s \in ss : s.run = v}
IdsOf(ss, v) == {Rt!Latest({s \in OfRun(ss, v) : s.part = x}).id : x \in {s.part : s \in OfRun(ss, v)}}
RunsIn(ss, why) == {s.run : s \in {t \in ss : t.reason = why}}
TimeIn(ss, len) == [v \in RunsIn(ss, Rt!Scheduled) |-> Rt!Oldest(OfRun(ss, v)).time \div len]

LEMMA OldestIs ==
    ASSUME NEW ss, Sane(ss), NEW v, OfRun(ss, v) # {}
    PROVE  /\ Rt!Oldest(OfRun(ss, v)) \in OfRun(ss, v)
           /\ \A o \in OfRun(ss, v) : Rt!Oldest(OfRun(ss, v)).id <= o.id
<1> DEFINE ids == {s.id : s \in OfRun(ss, v)}
<1>1. ids \in SUBSET Nat /\ ids # {}
  BY DEF OfRun, Sane
<1>2. \E n \in ids : \A m \in ids : n <= m
  <2> HIDE DEF ids
  <2> QED BY <1>1, Least
<1>3. \E s \in OfRun(ss, v) : \A o \in OfRun(ss, v) : s.id <= o.id
  BY <1>2
<1> QED BY <1>3 DEF Rt!Oldest

\* A later snapshot of a run leaves its first what it was.
LEMMA OldestStays ==
    ASSUME NEW ss, NEW tt, Sane(ss), Sane(tt), ss \subseteq tt, NEW v, OfRun(ss, v) # {},
           \A s \in OfRun(ss, v) : \A t \in tt \ ss : s.id < t.id
    PROVE  Rt!Oldest(OfRun(tt, v)) = Rt!Oldest(OfRun(ss, v))
<1> DEFINE o == Rt!Oldest(OfRun(ss, v))
           q == Rt!Oldest(OfRun(tt, v))
<1>1. OfRun(tt, v) # {} /\ OfRun(ss, v) \subseteq OfRun(tt, v)
  BY DEF OfRun
<1>2. q \in OfRun(tt, v) /\ \A s \in OfRun(tt, v) : q.id <= s.id
  BY <1>1, OldestIs
<1>3. o \in OfRun(ss, v) /\ \A s \in OfRun(ss, v) : o.id <= s.id
  BY OldestIs
<1> HIDE DEF o, q
<1>4. q.id <= o.id /\ q.id \in Nat /\ o.id \in Nat
  BY <1>1, <1>2, <1>3 DEF OfRun, Sane
<1>5. q \in OfRun(ss, v)
  <2>1. CASE q \in ss
    BY <1>2, <2>1 DEF OfRun
  <2>2. CASE q \notin ss
    <3>1. q \in tt \ ss
      BY <1>2, <2>2 DEF OfRun
    <3> QED BY <1>3, <1>4, <3>1
  <2> QED BY <2>1, <2>2
<1>6. q.id = o.id /\ q \in ss /\ o \in ss
  BY <1>3, <1>4, <1>5 DEF OfRun
<1>7. q = o
  BY <1>6 DEF Sane
<1> QED BY <1>7 DEF o, q

LEMMA BackupsAre ==
    ASSUME NEW ss, Sane(ss)
    PROVE  LET Runs == {s.run : s \in ss}
               As(v) == [run |-> v, time |-> Rt!Oldest(OfRun(ss, v)).time,
                         reason |-> Rt!Oldest(OfRun(ss, v)).reason,
                         ids |-> IdsOf(ss, v)]
           IN  Rt!backups(ss) = {As(v) : v \in Runs}
BY Zenon DEF Rt!backups, OfRun, IdsOf

LEMMA ListingOf ==
    ASSUME NEW ss, Sane(ss)
    PROVE  /\ Listing(Rt!backups(ss))
           /\ \A b \in Rt!backups(ss) :
                /\ OfRun(ss, b.run) # {} /\ b.time = Rt!Oldest(OfRun(ss, b.run)).time
                /\ b.reason = Rt!Oldest(OfRun(ss, b.run)).reason
                /\ b.ids = IdsOf(ss, b.run)
           /\ \A s \in ss : \E b \in Rt!backups(ss) : b.run = s.run
<1> DEFINE All == {s.run : s \in ss}
           As(v) == [run |-> v, time |-> Rt!Oldest(OfRun(ss, v)).time,
                     reason |-> Rt!Oldest(OfRun(ss, v)).reason, ids |-> IdsOf(ss, v)]
<1>1. Rt!backups(ss) = {As(v) : v \in All}
  BY BackupsAre
<1>2. ASSUME NEW v PROVE /\ As(v).run = v /\ As(v).time = Rt!Oldest(OfRun(ss, v)).time
                         /\ As(v).reason = Rt!Oldest(OfRun(ss, v)).reason /\ As(v).ids = IdsOf(ss, v)
  OBVIOUS
<1>3. \A v \in All : OfRun(ss, v) # {}
  BY DEF OfRun
<1>4. IsFiniteSet(Rt!backups(ss))
  <2> DEFINE g == [s \in ss |-> As(s.run)]
  <2> HIDE DEF As
  <2>1. g \in Surjection(ss, {As(v) : v \in All})
    BY DEF Surjection
  <2>2. IsFiniteSet(ss)
    BY DEF Sane
  <2> QED BY <1>1, <2>1, <2>2, FS_Surjection
<1>5. \A v \in All : v \in Nat /\ Rt!Oldest(OfRun(ss, v)).reason \in Reasons
  <2> SUFFICES ASSUME NEW v \in All PROVE v \in Nat /\ Rt!Oldest(OfRun(ss, v)).reason \in Reasons
    OBVIOUS
  <2>1. Rt!Oldest(OfRun(ss, v)) \in OfRun(ss, v)
    BY <1>3, OldestIs
  <2> QED BY <2>1 DEF OfRun, Sane
<1> HIDE DEF As
<1>6. Listing(Rt!backups(ss))
  BY <1>1, <1>2, <1>4, <1>5 DEF Listing
<1>7. \A b \in Rt!backups(ss) : b.run \in All /\ b = As(b.run)
  BY <1>1, <1>2
<1>8. \A s \in ss : \E b \in Rt!backups(ss) : b.run = s.run
  <2> SUFFICES ASSUME NEW s \in ss PROVE \E b \in Rt!backups(ss) : b.run = s.run
    OBVIOUS
  <2>1. s.run \in All
    OBVIOUS
  <2> HIDE DEF All
  <2>2. As(s.run) \in Rt!backups(ss) /\ As(s.run).run = s.run
    BY <1>1, <1>2, <2>1
  <2> QED BY <2>2
<1> HIDE DEF All
<1>9. \A b \in Rt!backups(ss) :
         /\ OfRun(ss, b.run) # {} /\ b.time = Rt!Oldest(OfRun(ss, b.run)).time
         /\ b.reason = Rt!Oldest(OfRun(ss, b.run)).reason /\ b.ids = IdsOf(ss, b.run)
  BY <1>2, <1>3, <1>7
<1> QED BY <1>6, <1>8, <1>9

\* What is kept, by the snapshots.
Chosen(ss) ==
    (UNION {Thinned(RunsIn(ss, Rt!Scheduled), TimeIn(ss, Period[k]), Keep[k]) :
              k \in {"daily", "weekly", "monthly"}})
    \cup Thinned(RunsIn(ss, Rt!Manual), Itself, Keep.manual)
    \cup Thinned(RunsIn(ss, Rt!Update), Itself, 1)
    \cup Thinned(RunsIn(ss, Rt!PreRestore), Itself, 1)

LEMMA InChosen ==
    ASSUME NEW ss, NEW v
    PROVE  v \in Chosen(ss) <=>
             \/ \E k \in {"daily", "weekly", "monthly"} :
                  v \in Thinned(RunsIn(ss, Rt!Scheduled), TimeIn(ss, Period[k]), Keep[k])
             \/ v \in Thinned(RunsIn(ss, Rt!Manual), Itself, Keep.manual)
             \/ v \in Thinned(RunsIn(ss, Rt!Update), Itself, 1)
             \/ v \in Thinned(RunsIn(ss, Rt!PreRestore), Itself, 1)
<1> DEFINE Term(k) == Thinned(RunsIn(ss, Rt!Scheduled), TimeIn(ss, Period[k]), Keep[k])
           Un == UNION {Term(k) : k \in {"daily", "weekly", "monthly"}}
           Mn == Thinned(RunsIn(ss, Rt!Manual), Itself, Keep.manual)
           G == Thinned(RunsIn(ss, Rt!Update), Itself, 1)
           B == Thinned(RunsIn(ss, Rt!PreRestore), Itself, 1)
<1>1. Chosen(ss) = Un \cup Mn \cup G \cup B
  BY DEF Chosen
<1>2. v \in Un <=> \E k \in {"daily", "weekly", "monthly"} : v \in Term(k)
  <2> HIDE DEF Term
  <2> QED OBVIOUS
<1> HIDE DEF Un, Mn, G, B
<1>3. v \in Chosen(ss) <=> v \in Un \/ v \in Mn \/ v \in G \/ v \in B
  BY <1>1
<1> QED BY <1>2, <1>3 DEF Mn, G, B

LEMMA ChosenIs ==
    ASSUME NEW ss, Sane(ss), OneReason(ss)
    PROVE  KeptOf(Rt!backups(ss)) = Chosen(ss)
<1> DEFINE bs == Rt!backups(ss)
<1>1. ASSUME NEW b \in bs
      PROVE  OfRun(ss, b.run) # {} /\ \A s \in OfRun(ss, b.run) : s.reason = b.reason
  <2>1. OfRun(ss, b.run) # {} /\ b.reason = Rt!Oldest(OfRun(ss, b.run)).reason
    BY ListingOf
  <2>2. Rt!Oldest(OfRun(ss, b.run)) \in OfRun(ss, b.run)
    BY <2>1, OldestIs
  <2> QED BY <2>1, <2>2 DEF OfRun, OneReason
<1>2. \A s \in ss : \E b \in bs : b.run = s.run
  BY ListingOf
<1>3. Listing(bs) /\ \A b \in bs : b.time = Rt!Oldest(OfRun(ss, b.run)).time
  BY ListingOf
<1> HIDE DEF bs
<1>4. ASSUME NEW why PROVE RunsFor(bs, why) = RunsIn(ss, why)
  <2>1. ASSUME NEW v \in RunsFor(bs, why) PROVE v \in RunsIn(ss, why)
    <3>1. PICK b \in bs : b.run = v /\ b.reason = why
      BY DEF RunsFor, Rt!OfReason
    <3>2. PICK s \in OfRun(ss, v) : TRUE
      BY <1>1, <3>1
    <3>3. s.reason = why /\ s.run = v /\ s \in ss
      BY <1>1, <3>1, <3>2 DEF OfRun
    <3> QED BY <3>3 DEF RunsIn
  <2>2. ASSUME NEW v \in RunsIn(ss, why) PROVE v \in RunsFor(bs, why)
    <3>1. PICK s \in ss : s.run = v /\ s.reason = why
      BY DEF RunsIn
    <3>2. PICK b \in bs : b.run = v
      BY <1>2, <3>1
    <3>3. b.reason = why
      BY <1>1, <3>1, <3>2 DEF OfRun
    <3> QED BY <3>2, <3>3 DEF RunsFor, Rt!OfReason
  <2> QED BY <2>1, <2>2
<1>5. ASSUME NEW len PROVE PeriodFor(bs, len) = TimeIn(ss, len)
  <2>1. ASSUME NEW v \in RunsFor(bs, Rt!Scheduled)
        PROVE  (CHOOSE b \in bs : b.run = v).time = Rt!Oldest(OfRun(ss, v)).time
    <3>1. \E b \in bs : b.run = v
      BY DEF RunsFor, Rt!OfReason
    <3> QED BY <1>3, <3>1
  <2>2. RunsFor(bs, Rt!Scheduled) = RunsIn(ss, Rt!Scheduled)
    BY <1>4
  <2> DEFINE X == RunsIn(ss, Rt!Scheduled)
             D(v) == (CHOOSE b \in bs : b.run = v).time
             F(v) == Rt!Oldest(OfRun(ss, v)).time
  <2>3. PeriodFor(bs, len) = [v \in X |-> D(v) \div len] /\ TimeIn(ss, len) = [v \in X |-> F(v) \div len]
    BY <2>2, Zenon DEF PeriodFor, TimeIn
  <2>4. \A v \in X : D(v) = F(v)
    BY <2>1, <2>2
  <2> HIDE DEF X, D, F
  <2> QED BY <2>3, <2>4
<1>6. \A why : RunsFor(bs, why) = RunsIn(ss, why)
  BY <1>4
<1>7. \A len : PeriodFor(bs, len) = TimeIn(ss, len)
  BY <1>5
<1>8. KeptOf(bs) = Chosen(ss)
  BY <1>6, <1>7, InKept, InChosen
<1> QED BY <1>8 DEF bs

\* Of some of the runs, with the same times, a run that more of them keep is kept.
LEMMA ThinnedGrows ==
    ASSUME NEW Y \in SUBSET Nat, IsFiniteSet(Y), NEW X \in SUBSET Y, NEW f, NEW g, NEW n \in Nat,
           \A v \in X : f[v] = g[v], NEW v \in X, v \in Thinned(Y, g, n)
    PROVE  v \in Thinned(X, f, n)
<1>1. Later(X, f, v) \subseteq Later(Y, g, v)
  BY DEF Later
<1>2. IsFiniteSet(X)
  BY FS_Subset
<1>3. /\ IsFiniteSet(Later(Y, g, v)) /\ Cardinality(Later(Y, g, v)) \in Nat
      /\ IsFiniteSet(Later(X, f, v)) /\ Cardinality(Later(X, f, v)) \in Nat
  BY <1>2, LaterFinite
<1>4. Cardinality(Later(X, f, v)) <= Cardinality(Later(Y, g, v))
  BY <1>1, <1>3, FS_Subset
<1>5. g[v] \notin Later(Y, g, v) /\ Cardinality(Later(Y, g, v)) < n /\ f[v] = g[v]
  BY DEF Thinned
<1>6. f[v] \notin Later(X, f, v) /\ Cardinality(Later(X, f, v)) < n
  BY <1>1, <1>3, <1>4, <1>5
<1> QED BY <1>6 DEF Thinned

LEMMA RunsInFinite ==
    ASSUME NEW ss, Sane(ss), NEW why
    PROVE  RunsIn(ss, why) \in SUBSET Nat /\ IsFiniteSet(RunsIn(ss, why))
<1> DEFINE of == {t \in ss : t.reason = why}
           g == [s \in of |-> s.run]
<1>1. of \in SUBSET ss /\ IsFiniteSet(of)
  BY FS_Subset DEF Sane
<1>2. g \in Surjection(of, RunsIn(ss, why))
  BY DEF Surjection, RunsIn
<1> QED BY <1>1, <1>2, FS_Surjection DEF RunsIn, Sane

LEMMA SomeSane ==
    ASSUME NEW tt, Sane(tt), NEW ss, ss \subseteq tt PROVE Sane(ss)
BY FS_Subset DEF Sane

Keeping == \E k \in DOMAIN Period : Keep[k] > 0

LEMMA Counts ==
    /\ \A k \in {"daily", "weekly", "monthly", "manual"} : Keep[k] \in Nat
    /\ Keep.manual \in Nat /\ 1 \in Nat
    /\ DOMAIN Period = {"daily", "weekly", "monthly"}
BY KeepAssumption DEF Rt!RetentionAssumption

\* While all that is wanted of the snapshots ever taken is there, what is kept of those left
\* is what is wanted.
LEMMA KeptTheSame ==
    ASSUME NEW hh, NEW ss, Sane(hh), OneReason(hh), ss \subseteq hh,
           \A s \in hh \ ss : s.run \notin Chosen(hh),
           Keeping => \A s \in ss, t \in hh :
                        s.run = t.run /\ s.reason = Rt!Scheduled => t \in ss
    PROVE  Chosen(ss) = Chosen(hh)
<1>1. ASSUME NEW why, NEW f, NEW n, Thinned(RunsIn(hh, why), f, n) \subseteq Chosen(hh), n \in Nat
      PROVE  Thinned(RunsIn(ss, why), f, n) = Thinned(RunsIn(hh, why), f, n)
  <2>1. RunsIn(ss, why) \in SUBSET RunsIn(hh, why)
    BY DEF RunsIn
  <2>2. ASSUME NEW v \in Thinned(RunsIn(hh, why), f, n) PROVE v \in RunsIn(ss, why)
    <3>1. v \in RunsIn(hh, why) /\ v \in Chosen(hh)
      BY <1>1 DEF Thinned
    <3>2. PICK s \in hh : s.run = v /\ s.reason = why
      BY <3>1 DEF RunsIn
    <3>3. s \in ss
      BY <3>1, <3>2
    <3> QED BY <3>2, <3>3 DEF RunsIn
  <2>3. Thinned(RunsIn(hh, why), f, n) \subseteq RunsIn(ss, why)
    BY <2>2
  <2>4. RunsIn(hh, why) \in SUBSET Nat /\ IsFiniteSet(RunsIn(hh, why))
    BY RunsInFinite
  <2> QED BY <1>1, <2>1, <2>3, <2>4, ThinnedSame
<1>2. ASSUME NEW k \in {"daily", "weekly", "monthly"}
      PROVE  Thinned(RunsIn(ss, Rt!Scheduled), TimeIn(ss, Period[k]), Keep[k])
               = Thinned(RunsIn(hh, Rt!Scheduled), TimeIn(hh, Period[k]), Keep[k])
  <2>1. Thinned(RunsIn(hh, Rt!Scheduled), TimeIn(hh, Period[k]), Keep[k]) \subseteq Chosen(hh)
    BY InChosen
  <2>2. Keep[k] \in Nat /\ k \in DOMAIN Period
    BY Counts
  <2>3. CASE Keep[k] = 0
    <3>1. Thinned(RunsIn(ss, Rt!Scheduled), TimeIn(ss, Period[k]), 0) = {}
      BY SomeSane, RunsInFinite, NoneThinned
    <3>2. Thinned(RunsIn(hh, Rt!Scheduled), TimeIn(hh, Period[k]), 0) = {}
      BY RunsInFinite, NoneThinned
    <3> QED BY <2>3, <3>1, <3>2
  <2>4. CASE Keep[k] # 0
    <3>1. Keeping
      BY <2>2, <2>4 DEF Keeping
    <3>2. ASSUME NEW v \in RunsIn(ss, Rt!Scheduled)
          PROVE  TimeIn(ss, Period[k])[v] = TimeIn(hh, Period[k])[v]
      <4>1. PICK s \in ss : s.run = v /\ s.reason = Rt!Scheduled
        BY DEF RunsIn
      <4>2. OfRun(ss, v) = OfRun(hh, v)
        BY <3>1, <4>1 DEF OfRun
      <4>3. v \in RunsIn(hh, Rt!Scheduled)
        BY <4>1 DEF RunsIn
      <4> QED BY <4>2, <4>3 DEF TimeIn
    <3>3. Thinned(RunsIn(ss, Rt!Scheduled), TimeIn(ss, Period[k]), Keep[k])
            = Thinned(RunsIn(ss, Rt!Scheduled), TimeIn(hh, Period[k]), Keep[k])
      BY <3>2, ThinnedBy
    <3> QED BY <1>1, <2>1, <2>2, <3>3
  <2> QED BY <2>3, <2>4
<1>3. ASSUME NEW why, NEW n \in Nat, <<why, n>> \in {<<Rt!Manual, Keep.manual>>, <<Rt!Update, 1>>, <<Rt!PreRestore, 1>>}
      PROVE  Thinned(RunsIn(ss, why), Itself, n) = Thinned(RunsIn(hh, why), Itself, n)
  <2>1. Thinned(RunsIn(hh, why), Itself, n) \subseteq Chosen(hh)
    BY <1>3, InChosen
  <2> QED BY <1>1, <2>1
<1>4. /\ Thinned(RunsIn(ss, Rt!Manual), Itself, Keep.manual) = Thinned(RunsIn(hh, Rt!Manual), Itself, Keep.manual)
      /\ Thinned(RunsIn(ss, Rt!Update), Itself, 1) = Thinned(RunsIn(hh, Rt!Update), Itself, 1)
      /\ Thinned(RunsIn(ss, Rt!PreRestore), Itself, 1) = Thinned(RunsIn(hh, Rt!PreRestore), Itself, 1)
  BY <1>3, Counts
<1>5. \A v : v \in Chosen(ss) <=> v \in Chosen(hh)
  BY <1>2, <1>4, InChosen
<1>6. Chosen(ss) \subseteq Chosen(hh) /\ Chosen(hh) \subseteq Chosen(ss)
  BY <1>5
<1> QED BY <1>6

\* A later snapshot makes no run wanted that was not.
LEMMA ChosenShrinks ==
    ASSUME NEW ss, NEW tt, Sane(tt), OneReason(tt), ss \subseteq tt,
           \A s \in ss : \A t \in tt \ ss : s.id < t.id,
           NEW q \in ss, q.run \in Chosen(tt)
    PROVE  q.run \in Chosen(ss)
<1> DEFINE v == q.run
<1>0. Sane(ss)
  BY SomeSane
<1>1. ASSUME NEW why, NEW f, NEW g, NEW n \in Nat, v \in Thinned(RunsIn(tt, why), g, n),
             \A u \in RunsIn(ss, why) : f[u] = g[u]
      PROVE  v \in Thinned(RunsIn(ss, why), f, n)
  <2>1. RunsIn(ss, why) \in SUBSET RunsIn(tt, why)
    BY DEF RunsIn
  <2>2. v \in RunsIn(tt, why)
    BY <1>1 DEF Thinned
  <2>3. q.reason = why
    BY <2>2 DEF RunsIn, OneReason
  <2>4. v \in RunsIn(ss, why)
    BY <2>3 DEF RunsIn
  <2>5. RunsIn(tt, why) \in SUBSET Nat /\ IsFiniteSet(RunsIn(tt, why))
    BY RunsInFinite
  <2> HIDE DEF v
  <2> QED BY <1>1, <2>1, <2>4, <2>5, ThinnedGrows
<1>2. ASSUME NEW len, NEW u \in RunsIn(ss, Rt!Scheduled)
      PROVE  TimeIn(ss, len)[u] = TimeIn(tt, len)[u]
  <2>1. OfRun(ss, u) # {} /\ u \in RunsIn(tt, Rt!Scheduled)
    BY DEF RunsIn, OfRun
  <2>2. \A s \in OfRun(ss, u) : \A t \in tt \ ss : s.id < t.id
    BY DEF OfRun
  <2>3. Rt!Oldest(OfRun(tt, u)) = Rt!Oldest(OfRun(ss, u))
    BY <1>0, <2>1, <2>2, OldestStays
  <2> QED BY <2>1, <2>3 DEF TimeIn
<1>3. \A k \in {"daily", "weekly", "monthly"} :
        v \in Thinned(RunsIn(tt, Rt!Scheduled), TimeIn(tt, Period[k]), Keep[k])
          => v \in Thinned(RunsIn(ss, Rt!Scheduled), TimeIn(ss, Period[k]), Keep[k])
  BY <1>1, <1>2, Counts
<1>4. \A why, n : n \in Nat /\ v \in Thinned(RunsIn(tt, why), Itself, n)
                    => v \in Thinned(RunsIn(ss, why), Itself, n)
  BY <1>1
<1> HIDE DEF v
<1>5. v \in Chosen(tt) => v \in Chosen(ss)
  BY <1>3, <1>4, Counts, InChosen
<1> QED BY <1>5 DEF v

\* The last of the scheduled runs is wanted, if any is.
LEMMA LastChosen ==
    ASSUME NEW ss, Sane(ss), Keeping, NEW q \in ss, q.reason = Rt!Scheduled,
           \A s \in ss : s.reason = Rt!Scheduled => s.run <= q.run
    PROVE  q.run \in Chosen(ss)
<1>1. PICK k \in {"daily", "weekly", "monthly"} : Keep[k] > 0
  BY Counts DEF Keeping
<1>2. Later(RunsIn(ss, Rt!Scheduled), TimeIn(ss, Period[k]), q.run) = {}
  <2>1. \A u \in RunsIn(ss, Rt!Scheduled) : ~(u > q.run)
    BY DEF RunsIn, Sane
  <2> QED BY <2>1 DEF Later
<1>3. q.run \in RunsIn(ss, Rt!Scheduled)
  BY DEF RunsIn
<1>4. Cardinality({}) = 0
  BY FS_EmptySet
<1>5. q.run \in Thinned(RunsIn(ss, Rt!Scheduled), TimeIn(ss, Period[k]), Keep[k])
  BY <1>1, <1>2, <1>3, <1>4 DEF Thinned
<1> QED BY <1>5, InChosen
-----------------------------------------------------------------------------
(* The repository.  All that is wanted of the snapshots ever taken is there and *)
(* on nobody's list, whoever forgets from a listing of before.                  *)

Parts == {"data", "bulk"}
RunState == [pc : {"off", "backup", "list", "forget"}, run : Nat, reason : Reasons,
             part : Parts, doomed : SUBSET Nat]
SnapsTyped ==
    /\ unit \in Nat /\ shots \in Nat
    /\ runner \in [Runners -> RunState]
    /\ \A r \in Runners : /\ runner[r].run <= unit /\ \A d \in runner[r].doomed : d <= shots
                          /\ runner[r].reason = Rt!Scheduled => r = Kelsod
    /\ Sane(hist) /\ snaps \subseteq hist
    /\ \A s \in hist : s.id <= shots /\ s.run <= unit /\ s.part \in Parts

Backing(r) == runner[r].pc = "backup"

\* A run's snapshots are of one reason, one of each part, its data first.
RunsWhole ==
    /\ OneReason(hist)
    /\ \A s, t \in hist : s.run = t.run /\ s.part = t.part => s = t
    /\ \A s \in hist : \E t \in hist : t.run = s.run /\ t.part = "data"
    /\ \A r \in Runners : Backing(r) /\ runner[r].part = "bulk" =>
         \E s \in hist : s.run = runner[r].run /\ s.part = "data" /\ s.reason = runner[r].reason
    /\ \A r \in Runners : Backing(r) /\ runner[r].reason = Rt!Scheduled =>
         \A s \in hist : s.reason = Rt!Scheduled => s.run <= runner[r].run
\* Where scheduled backups are wanted at all, they are there, or listed, as wholes.
WantedThere ==
    /\ \A s \in hist \ snaps : s.run \notin Chosen(hist)
    /\ \A r \in Runners, s \in hist : s.id \in runner[r].doomed => s.run \notin Chosen(hist)
    /\ Keeping => \A s \in snaps, t \in hist : s.run = t.run /\ s.reason = Rt!Scheduled =>
                    /\ t \in snaps
                    /\ \A r \in Runners : s.id \in runner[r].doomed => t.id \in runner[r].doomed
SnapsInv == SnapsTyped /\ (~disturbed => RunsWhole /\ WantedThere)

LEMMA WantedIsKept ==
    ASSUME SnapsInv, ~disturbed
    PROVE  Rt!Kept(Rt!backups(snaps)) = Chosen(hist) /\ Rt!Wanted(Rt!backups(hist)) = Chosen(hist)
<1>1. Sane(hist) /\ OneReason(hist) /\ snaps \subseteq hist
  BY DEF SnapsInv, SnapsTyped, RunsWhole
<1>2. Sane(snaps) /\ OneReason(snaps)
  BY <1>1, SomeSane DEF OneReason
<1>3. Rt!Kept(Rt!backups(snaps)) = Chosen(snaps)
  BY <1>2, ListingOf, KeptIs, ChosenIs
<1>4. Rt!Wanted(Rt!backups(hist)) = Chosen(hist)
  BY <1>1, ListingOf, WantedIs, ChosenIs
<1>5. Chosen(snaps) = Chosen(hist)
  BY <1>1, KeptTheSame DEF SnapsInv, WantedThere
<1> QED BY <1>3, <1>4, <1>5

LEMMA SnapsInit == Rt!Init => SnapsInv
<1> SUFFICES ASSUME Rt!Init PROVE SnapsInv
  OBVIOUS
<1>1. /\ unit = 0 /\ shots = 0 /\ hist = {} /\ snaps = {}
      /\ runner = [r \in Runners |-> Rt!Off]
  BY DEF Rt!Init
<1>2. /\ Rt!Off \in RunState
      /\ Rt!Off.run = 0 /\ Rt!Off.doomed = {} /\ Rt!Off.reason # Rt!Scheduled /\ Rt!Off.pc = "off"
  BY DEF RunState, Rt!Off, Reasons, Parts, Rt!Manual, Rt!Scheduled, Rt!Update, Rt!PreRestore
<1>3. Sane(hist)
  BY <1>1, FS_EmptySet DEF Sane
<1>4. SnapsTyped
  BY <1>1, <1>2, <1>3 DEF SnapsTyped
<1>5. RunsWhole /\ WantedThere
  BY <1>1, <1>2 DEF RunsWhole, WantedThere, OneReason, Backing
<1> QED BY <1>4, <1>5 DEF SnapsInv

\* A runner that takes no snapshot, and lists nothing new.
LEMMA RunnerTurns ==
    ASSUME SnapsInv, NEW r \in Runners, hist' = hist, snaps' = snaps, shots' = shots,
           disturbed' = disturbed, unit' = unit,
           NEW k \in RunState,
           runner' = [runner EXCEPT ![r] = k],
           k.run <= unit, k.reason = Rt!Scheduled => r = Kelsod,
           k.doomed = {} \/ k.doomed = runner[r].doomed,
           k.pc = "backup" => /\ k.part = "data"
                              /\ k.run = unit
    PROVE  SnapsInv'
<1>1. runner \in [Runners -> RunState]
  BY DEF SnapsInv, SnapsTyped
<1>2. runner'[r] = k /\ \A o \in Runners : o # r => runner'[o] = runner[o]
  BY <1>1
<1>3. \A o \in Runners : runner'[o].doomed = runner[o].doomed \/ runner'[o].doomed = {}
  BY <1>2
<1>4. runner' \in [Runners -> RunState]
  BY <1>1
<1>5. SnapsTyped'
  <2>1. SnapsTyped
    BY DEF SnapsInv
  <2>2. Sane(hist)' <=> Sane(hist)
    BY DEF Sane
  <2> QED BY <1>2, <1>3, <1>4, <2>1, <2>2 DEF SnapsTyped
<1>6. ASSUME ~disturbed PROVE RunsWhole' /\ WantedThere'
  <2>1. RunsWhole /\ WantedThere /\ \A s \in hist : s.run <= unit
    BY <1>6 DEF SnapsInv, SnapsTyped
  <2>2. OneReason(hist)' /\ Chosen(hist)' = Chosen(hist)
    BY <2>1 DEF RunsWhole, OneReason
  <2>3. ASSUME NEW o \in Runners, Backing(o)'
        PROVE  /\ runner[o]'.part = "bulk" =>
                    \E s \in hist : s.run = runner[o]'.run /\ s.part = "data" /\ s.reason = runner[o]'.reason
               /\ runner[o]'.reason = Rt!Scheduled =>
                    \A s \in hist : s.reason = Rt!Scheduled => s.run <= runner[o]'.run
    <3>1. CASE o = r
      BY <1>2, <2>1, <2>3, <3>1 DEF Backing
    <3>2. CASE o # r
      BY <1>2, <2>1, <2>3, <3>2 DEF Backing, RunsWhole
    <3> QED BY <3>1, <3>2
  <2>4. RunsWhole'
    BY <2>1, <2>2, <2>3 DEF RunsWhole
  <2> HIDE DEF Chosen, Keeping
  <2>5. WantedThere'
    BY <1>3, <2>1, <2>2 DEF WantedThere, Keeping
  <2> QED BY <2>4, <2>5
<1> QED BY <1>5, <1>6 DEF SnapsInv

LEMMA OffState ==
    /\ Rt!Off \in RunState /\ Rt!Off.run = 0 /\ Rt!Off.doomed = {}
    /\ Rt!Off.reason # Rt!Scheduled /\ Rt!Off.pc = "off"
BY DEF RunState, Rt!Off, Reasons, Parts, Rt!Manual, Rt!Scheduled, Rt!Update, Rt!PreRestore

LEMMA RunnerStops ==
    ASSUME SnapsInv, NEW r \in Runners, hist' = hist, snaps' = snaps, shots' = shots,
           disturbed' = disturbed, unit' = unit, runner' = [runner EXCEPT ![r] = Rt!Off]
    PROVE  SnapsInv'
<1>1. unit \in Nat
  BY DEF SnapsInv, SnapsTyped
<1>2. Rt!Off.run <= unit
  BY <1>1, OffState
<1> QED BY <1>2, OffState, RunnerTurns

LEMMA SnapsStands ==
    ASSUME SnapsInv, hist' = hist, snaps' = snaps, shots' = shots, disturbed' = disturbed,
           unit' \in Nat, unit <= unit', runner' = runner
    PROVE  SnapsInv'
<1>1. SnapsTyped /\ (~disturbed => RunsWhole /\ WantedThere)
  BY DEF SnapsInv
<1>2. SnapsTyped'
  <2>1. Sane(hist)' <=> Sane(hist)
    BY DEF Sane
  <2>2. \A r \in Runners : runner[r].run \in Nat
    BY <1>1 DEF SnapsTyped, RunState
  <2>3. \A s \in hist : s.run \in Nat
    BY <1>1 DEF SnapsTyped, Sane
  <2> QED BY <1>1, <2>1, <2>2, <2>3 DEF SnapsTyped
<1>3. RunsWhole' <=> RunsWhole
  BY DEF RunsWhole, OneReason, Backing
<1>4. WantedThere' <=> WantedThere
  BY DEF WantedThere, Keeping
<1> QED BY <1>1, <1>2, <1>3, <1>4 DEF SnapsInv

LEMMA SnapsBegin ==
    ASSUME SnapsInv, NEW r \in Runners, NEW why \in Reasons, Rt!Begin(r, why) PROVE SnapsInv'
<1> DEFINE k == [Rt!Off EXCEPT !.pc = "backup", !.run = unit, !.reason = why]
<1>1. /\ hist' = hist /\ snaps' = snaps /\ shots' = shots /\ disturbed' = disturbed /\ unit' = unit
      /\ runner' = [runner EXCEPT ![r] = k] /\ (why = Rt!Scheduled => r = Kelsod)
  BY DEF Rt!Begin, Rt!Set
<1>2. unit \in Nat
  BY DEF SnapsInv, SnapsTyped
<1>3. k \in RunState /\ k.doomed = {} /\ k.run = unit /\ k.reason = why /\ k.part = "data"
  BY <1>2, OffState DEF Rt!Off, RunState, Parts
<1> HIDE DEF k
<1>4. k.run <= unit
  BY <1>2, <1>3
<1>5. k.reason = Rt!Scheduled => r = Kelsod
  BY <1>1, <1>3
<1>6. k.pc = "backup" => k.part = "data" /\ k.run = unit
  BY <1>3
<1> QED BY <1>1, <1>3, <1>4, <1>5, <1>6, RunnerTurns

\* What is listed to be forgotten is not wanted; of a run all is, or nothing.
LEMMA DoomedIs ==
    ASSUME SnapsInv
    PROVE  /\ Rt!Doomed \in SUBSET Nat /\ \A d \in Rt!Doomed : d <= shots
           /\ ~disturbed => /\ \A s \in hist : s.id \in Rt!Doomed => s.run \notin Chosen(hist)
                            /\ \A s, t \in snaps : s.run = t.run /\ s.id \in Rt!Doomed => t.id \in Rt!Doomed
<1> DEFINE bs == Rt!backups(snaps)
<1>1. Sane(hist) /\ Sane(snaps) /\ snaps \subseteq hist /\ \A s \in hist : s.id <= shots
  BY SomeSane DEF SnapsInv, SnapsTyped
<1>2. /\ Listing(bs)
      /\ \A b \in bs : b.ids = IdsOf(snaps, b.run)
      /\ \A s \in snaps : \E b \in bs : b.run = s.run
  BY <1>1, ListingOf
<1>3. Rt!Doomed = UNION {b.ids : b \in {c \in bs : c.run \notin Rt!Kept(bs)}}
  BY DEF Rt!Doomed, Rt!expired
<1> HIDE DEF bs
<1>4. ASSUME NEW ss, ss \in SUBSET snaps, ss # {} PROVE Rt!Latest(ss) \in ss
  <2> DEFINE top == {s.id : s \in ss}
             g == [s \in ss |-> s.id]
  <2>1. top \in SUBSET Nat /\ top # {}
    BY <1>1, <1>4 DEF Sane
  <2>2. IsFiniteSet(ss)
    BY <1>1, <1>4, FS_Subset DEF Sane
  <2>3. g \in Surjection(ss, top)
    BY DEF Surjection
  <2>4. IsFiniteSet(top)
    BY <2>2, <2>3, FS_Surjection
  <2>5. \E n \in top : \A m \in top : m <= n
    <3> HIDE DEF top
    <3> QED BY <2>1, <2>4, Most
  <2>6. \E s \in ss : \A o \in ss : o.id <= s.id
    BY <2>5
  <2> QED BY <2>6 DEF Rt!Latest
<1>5. ASSUME NEW d \in Rt!Doomed
      PROVE  \E s \in snaps : s.id = d /\ \E b \in bs : b.run = s.run /\ b.run \notin Rt!Kept(bs) /\ d \in b.ids
  <2>1. PICK b \in bs : b.run \notin Rt!Kept(bs) /\ d \in b.ids
    BY <1>3
  <2>2. PICK q \in OfRun(snaps, b.run) : d = Rt!Latest({s \in OfRun(snaps, b.run) : s.part = q.part}).id
    <3> DEFINE Last(x) == Rt!Latest({s \in OfRun(snaps, b.run) : s.part = x}).id
    <3>1. b.ids = {Last(x) : x \in {s.part : s \in OfRun(snaps, b.run)}}
      BY <1>2, <2>1, Zenon DEF IdsOf
    <3> HIDE DEF Last
    <3>2. PICK q \in OfRun(snaps, b.run) : d = Last(q.part)
      BY <2>1, <3>1
    <3> QED BY <3>2 DEF Last
  <2> DEFINE ss == {s \in OfRun(snaps, b.run) : s.part = q.part}
  <2>3. ss \in SUBSET snaps /\ ss # {} /\ \A s \in ss : s.run = b.run
    BY DEF OfRun
  <2>4. Rt!Latest(ss) \in ss /\ d = Rt!Latest(ss).id
    BY <1>4, <2>2, <2>3
  <2> HIDE DEF ss
  <2> QED BY <2>1, <2>3, <2>4
<1>6. Rt!Doomed \in SUBSET Nat /\ \A d \in Rt!Doomed : d <= shots
  BY <1>1, <1>5 DEF Sane
<1>7. ASSUME ~disturbed, NEW s \in hist, s.id \in Rt!Doomed PROVE s.run \notin Chosen(hist)
  <2>1. PICK q \in snaps : q.id = s.id /\ q.run \notin Rt!Kept(bs)
    BY <1>5, <1>7
  <2>2. q = s
    BY <1>1, <2>1 DEF Sane
  <2>3. Rt!Kept(bs) = Chosen(hist)
    BY <1>7, WantedIsKept DEF bs
  <2> QED BY <2>1, <2>2, <2>3
<1>8. ASSUME ~disturbed, NEW s \in snaps, NEW t \in snaps, s.run = t.run, s.id \in Rt!Doomed
      PROVE  t.id \in Rt!Doomed
  <2>1. PICK q \in snaps, b \in bs : q.id = s.id /\ b.run = q.run /\ b.run \notin Rt!Kept(bs)
    BY <1>5, <1>8
  <2>2. q = s
    BY <1>1, <2>1 DEF Sane
  <2>3. t \in OfRun(snaps, b.run)
    BY <1>8, <2>1, <2>2 DEF OfRun
  <2> DEFINE ss == {o \in OfRun(snaps, b.run) : o.part = t.part}
  <2>4. ss \in SUBSET snaps /\ t \in ss /\ \A o \in ss : o.run = t.run /\ o.part = t.part
    BY <2>3 DEF OfRun
  <2>5. \A o \in ss : o = t
    BY <1>1, <1>8, <2>4 DEF SnapsInv, RunsWhole
  <2>6. Rt!Latest(ss) = t
    <3> HIDE DEF ss
    <3>1. Rt!Latest(ss) \in ss
      BY <1>4, <2>4
    <3> QED BY <2>5, <3>1
  <2>7. t.id \in b.ids
    <3> DEFINE Last(x) == Rt!Latest({o \in OfRun(snaps, b.run) : o.part = x}).id
    <3>1. b.ids = {Last(x) : x \in {o.part : o \in OfRun(snaps, b.run)}}
      BY <1>2, <2>1, Zenon DEF IdsOf
    <3> HIDE DEF Last
    <3>2. Last(t.part) \in b.ids
      BY <2>3, <3>1
    <3>3. Last(t.part) = t.id
      BY <2>6 DEF Last
    <3> QED BY <3>2, <3>3
  <2> QED BY <1>3, <2>1, <2>7
<1> QED BY <1>6, <1>7, <1>8

LEMMA SnapsList ==
    ASSUME SnapsInv, NEW r \in Runners, Rt!List(r) PROVE SnapsInv'
<1> DEFINE k == [runner[r] EXCEPT !.pc = "forget", !.doomed = Rt!Doomed]
<1>1. /\ hist' = hist /\ snaps' = snaps /\ shots' = shots /\ disturbed' = disturbed /\ unit' = unit
      /\ \/ runner' = [runner EXCEPT ![r] = Rt!Off]
         \/ runner' = [runner EXCEPT ![r] = k]
  BY DEF Rt!List, Rt!Set
<1>2. CASE runner' = [runner EXCEPT ![r] = Rt!Off]
  BY <1>1, <1>2, RunnerStops
<1>3. CASE runner' = [runner EXCEPT ![r] = k]
  <2>1. SnapsTyped /\ (~disturbed => RunsWhole /\ WantedThere) /\ runner \in [Runners -> RunState]
    BY DEF SnapsInv, SnapsTyped
  <2>2. Rt!Doomed \in SUBSET Nat /\ \A d \in Rt!Doomed : d <= shots
    BY DoomedIs
  <2>3. /\ k \in RunState /\ k.pc = "forget" /\ k.doomed = Rt!Doomed
        /\ k.run = runner[r].run /\ k.reason = runner[r].reason
    BY <2>1, <2>2 DEF RunState
  <2> HIDE DEF k
  <2>4. /\ runner' \in [Runners -> RunState]
        /\ runner'[r] = k /\ \A o \in Runners : o # r => runner'[o] = runner[o]
    BY <1>3, <2>1, <2>3
  <2>5. SnapsTyped'
    <3>1. Sane(hist)' <=> Sane(hist)
      BY <1>1 DEF Sane
    <3> QED BY <1>1, <2>1, <2>2, <2>3, <2>4, <3>1 DEF SnapsTyped
  <2>6. ASSUME ~disturbed PROVE RunsWhole' /\ WantedThere'
    <3>1. \A o \in Runners : Backing(o)' => Backing(o) /\ runner'[o] = runner[o]
      BY <2>3, <2>4 DEF Backing
    <3>2. OneReason(hist)' /\ Chosen(hist)' = Chosen(hist)
      BY <1>1, <2>1, <2>6 DEF RunsWhole, OneReason
    <3>3. RunsWhole'
      BY <1>1, <2>1, <2>6, <3>1, <3>2 DEF RunsWhole
    <3>4. /\ \A s \in hist : s.id \in Rt!Doomed => s.run \notin Chosen(hist)
          /\ \A s, t \in snaps : s.run = t.run /\ s.id \in Rt!Doomed => t.id \in Rt!Doomed
      BY <2>6, DoomedIs
    <3>5. \A o \in Runners, s \in hist : s.id \in runner'[o].doomed => s.run \notin Chosen(hist)
      BY <2>1, <2>3, <2>4, <2>6, <3>4 DEF WantedThere
    <3>6. ASSUME Keeping, NEW s \in snaps, NEW t \in hist, s.run = t.run, s.reason = Rt!Scheduled
          PROVE  /\ t \in snaps
                 /\ \A o \in Runners : s.id \in runner'[o].doomed => t.id \in runner'[o].doomed
      <4>1. /\ t \in snaps
            /\ \A o \in Runners : s.id \in runner[o].doomed => t.id \in runner[o].doomed
        BY <2>1, <2>6, <3>6 DEF WantedThere
      <4> QED BY <2>3, <2>4, <3>4, <3>6, <4>1
    <3>7. \A s \in hist \ snaps : s.run \notin Chosen(hist)
      BY <2>1, <2>6 DEF WantedThere
    <3>8. WantedThere'
      BY <1>1, <3>2, <3>5, <3>6, <3>7 DEF WantedThere, Keeping
    <3> QED BY <3>3, <3>8
  <2> QED BY <1>1, <2>5, <2>6 DEF SnapsInv
<1> QED BY <1>1, <1>2, <1>3

LEMMA SnapsForget ==
    ASSUME SnapsInv, NEW r \in Runners, Rt!forget(r) PROVE SnapsInv'
<1>1. /\ hist' = hist /\ shots' = shots /\ disturbed' = disturbed /\ unit' = unit
      /\ runner' = [runner EXCEPT ![r] = Rt!Off]
      /\ snaps' = snaps \/ snaps' = {s \in snaps : s.id \notin runner[r].doomed}
  BY DEF Rt!forget, Rt!Set
<1>2. CASE snaps' = snaps
  BY <1>1, <1>2, RunnerStops
<1>3. CASE snaps' = {s \in snaps : s.id \notin runner[r].doomed}
  <2>1. SnapsTyped /\ (~disturbed => RunsWhole /\ WantedThere) /\ runner \in [Runners -> RunState]
    BY DEF SnapsInv, SnapsTyped
  <2>2. /\ runner' \in [Runners -> RunState] /\ runner'[r] = Rt!Off
        /\ \A o \in Runners : o # r => runner'[o] = runner[o]
    BY <1>1, <2>1, OffState
  <2>3. SnapsTyped'
    <3>1. Sane(hist)' <=> Sane(hist)
      BY <1>1 DEF Sane
    <3>2. snaps' \subseteq hist'
      BY <1>1, <1>3, <2>1 DEF SnapsTyped
    <3>3. Rt!Off.run <= unit
      BY <2>1, OffState DEF SnapsTyped
    <3> QED BY <1>1, <2>1, <2>2, <3>1, <3>2, <3>3, OffState DEF SnapsTyped
  <2>4. ASSUME ~disturbed PROVE RunsWhole' /\ WantedThere'
    <3>1. \A o \in Runners : Backing(o)' => Backing(o) /\ runner'[o] = runner[o]
      BY <2>2, OffState DEF Backing
    <3>2. OneReason(hist)' /\ Chosen(hist)' = Chosen(hist)
      BY <1>1, <2>1, <2>4 DEF RunsWhole, OneReason
    <3>3. RunsWhole'
      BY <1>1, <2>1, <2>4, <3>1, <3>2 DEF RunsWhole
    <3>4. \A s \in hist \ snaps' : s.run \notin Chosen(hist)
      BY <1>3, <2>1, <2>4 DEF WantedThere
    <3>5. \A o \in Runners, s \in hist : s.id \in runner'[o].doomed => s.run \notin Chosen(hist)
      BY <2>1, <2>2, <2>4, OffState DEF WantedThere
    <3>6. ASSUME Keeping, NEW s \in snaps', NEW t \in hist, s.run = t.run, s.reason = Rt!Scheduled
          PROVE  /\ t \in snaps'
                 /\ \A o \in Runners : s.id \in runner'[o].doomed => t.id \in runner'[o].doomed
      <4>1. s \in snaps /\ s \in hist /\ s.id \notin runner[r].doomed
        BY <1>3, <2>1 DEF SnapsTyped
      <4>2. /\ t \in snaps
            /\ \A o \in Runners : s.id \in runner[o].doomed => t.id \in runner[o].doomed
        BY <2>1, <2>4, <3>6, <4>1 DEF WantedThere
      <4>3. t.reason = Rt!Scheduled
        BY <2>1, <2>4, <3>6, <4>1 DEF RunsWhole, OneReason
      <4>4. t.id \in runner[r].doomed => s.id \in runner[r].doomed
        BY <2>1, <2>4, <3>6, <4>1, <4>2, <4>3 DEF WantedThere
      <4> QED BY <1>3, <2>2, <4>1, <4>2, <4>4, OffState
    <3>7. WantedThere'
      BY <1>1, <3>2, <3>4, <3>5, <3>6 DEF WantedThere, Keeping
    <3> QED BY <3>3, <3>7
  <2> QED BY <1>1, <2>3, <2>4 DEF SnapsInv
<1> QED BY <1>1, <1>2, <1>3

LEMMA SnapsDelete ==
    ASSUME SnapsInv, NEW b, Rt!delete(b) PROVE SnapsInv'
<1>1. /\ hist' = hist /\ shots' = shots /\ disturbed' = TRUE /\ unit' = unit /\ runner' = runner
      /\ snaps' \subseteq snaps
  BY DEF Rt!delete
<1>2. Sane(hist)' <=> Sane(hist)
  BY <1>1 DEF Sane
<1> QED BY <1>1, <1>2 DEF SnapsInv, SnapsTyped

\* A snapshot is taken, of a run of its own name and, for bulk volumes, one whose data is there.
LEMMA SnapsTaken ==
    ASSUME SnapsInv, NEW r \in Runners, Backing(r), NEW new, NEW k \in RunState,
           new.id = shots + 1, new.part = runner[r].part, new.run = runner[r].run,
           new.reason = runner[r].reason,
           hist' = hist \cup {new}, snaps' = snaps \cup {new}, shots' = shots + 1, unit' = unit,
           disturbed' = (disturbed \/ \E s \in hist : s.run = runner[r].run /\ s.part = runner[r].part),
           runner' = [runner EXCEPT ![r] = k],
           k.run <= unit, k.reason = Rt!Scheduled => r = Kelsod, k.doomed = {} \/ k.doomed = runner[r].doomed,
           k.pc = "backup" => /\ runner[r].part = "data"
                              /\ k.run = runner[r].run /\ k.reason = runner[r].reason
    PROVE  SnapsInv'
<1>1. SnapsTyped /\ (~disturbed => RunsWhole /\ WantedThere) /\ runner \in [Runners -> RunState]
  BY DEF SnapsInv, SnapsTyped
<1>2. /\ runner' \in [Runners -> RunState] /\ runner'[r] = k
      /\ \A o \in Runners : o # r => runner'[o] = runner[o]
  BY <1>1
<1>3. /\ shots \in Nat /\ unit \in Nat /\ Sane(hist) /\ snaps \subseteq hist
      /\ \A s \in hist : s.id \in Nat /\ s.id <= shots /\ s.run <= unit /\ s.part \in Parts
      /\ \A o \in Runners : \A d \in runner[o].doomed : d \in Nat /\ d <= shots
  BY <1>1 DEF SnapsTyped, Sane, RunState
<1>4. /\ new.id \in Nat /\ new.run \in Nat /\ new.reason \in Reasons /\ new.part \in Parts
      /\ new.run <= unit
  BY <1>1, <1>3 DEF RunState, SnapsTyped
<1>5. new \notin hist /\ \A s \in hist : s.id < new.id
  BY <1>3
<1>6. \A o \in Runners : /\ runner'[o].doomed = {} \/ runner'[o].doomed = runner[o].doomed
                         /\ new.id \notin runner'[o].doomed
  BY <1>2, <1>3
<1>7. Sane(hist')
  <2>1. IsFiniteSet(hist')
    BY <1>3, FS_AddElement DEF Sane
  <2> QED BY <1>3, <1>4, <1>5, <2>1 DEF Sane
<1>8. SnapsTyped'
  <2>1. \A o \in Runners : /\ runner'[o].run <= unit /\ \A d \in runner'[o].doomed : d <= shots + 1
                           /\ runner'[o].reason = Rt!Scheduled => o = Kelsod
    BY <1>1, <1>2, <1>3, <1>6 DEF SnapsTyped
  <2>2. \A s \in hist' : s.id <= shots + 1 /\ s.run <= unit /\ s.part \in Parts
    BY <1>3, <1>4
  <2> QED BY <1>2, <1>3, <1>7, <2>1, <2>2 DEF SnapsTyped
<1>9. ASSUME ~disturbed' PROVE RunsWhole' /\ WantedThere'
  <2>1. /\ ~disturbed /\ RunsWhole /\ WantedThere
        /\ \A s \in hist : ~(s.run = new.run /\ s.part = new.part)
    BY <1>1, <1>9
  <2>2. \A s \in hist : s.run = new.run => s.reason = new.reason
    <3>1. CASE new.part = "data"
      <4>1. \A s \in hist : s.run # new.run
        BY <2>1, <3>1 DEF RunsWhole
      <4> QED BY <4>1
    <3>2. CASE new.part = "bulk"
      <4>1. PICK q \in hist : q.run = new.run /\ q.reason = new.reason
        BY <2>1, <3>2 DEF RunsWhole
      <4> QED BY <2>1, <4>1 DEF RunsWhole, OneReason
    <3> QED BY <1>4, <3>1, <3>2 DEF Parts
  <2>3. new.part = "bulk" => \E q \in hist : q.run = new.run /\ q.part = "data"
    BY <2>1 DEF RunsWhole
  <2>4. OneReason(hist')
    BY <2>1, <2>2 DEF RunsWhole, OneReason
  <2>5. new.reason = Rt!Scheduled => \A s \in hist' : s.reason = Rt!Scheduled => s.run <= new.run
    <3>1. new.run <= new.run
      BY <1>4
    <3> QED BY <2>1, <3>1 DEF RunsWhole
  <2>6. RunsWhole'
    <3>1. \A s, t \in hist' : s.run = t.run /\ s.part = t.part => s = t
      BY <2>1 DEF RunsWhole
    <3>2. \A s \in hist' : \E t \in hist' : t.run = s.run /\ t.part = "data"
      <4>1. \A s \in hist : \E t \in hist' : t.run = s.run /\ t.part = "data"
        BY <2>1 DEF RunsWhole
      <4>2. \E t \in hist' : t.run = new.run /\ t.part = "data"
        BY <1>4, <2>3 DEF Parts
      <4> QED BY <4>1, <4>2
    <3>3. ASSUME NEW o \in Runners, Backing(o)', runner'[o].part = "bulk"
          PROVE  \E s \in hist' : s.run = runner'[o].run /\ s.part = "data" /\ s.reason = runner'[o].reason
      <4>1. CASE o = r
        BY <1>2, <3>3, <4>1 DEF Backing
      <4>2. CASE o # r
        BY <1>2, <2>1, <3>3, <4>2 DEF RunsWhole, Backing
      <4> QED BY <4>1, <4>2
    <3>4. ASSUME NEW o \in Runners, Backing(o)', runner'[o].reason = Rt!Scheduled,
                 NEW s \in hist', s.reason = Rt!Scheduled
          PROVE  s.run <= runner'[o].run
      <4>1. CASE o = r
        <5>1. k.run = new.run /\ new.reason = Rt!Scheduled
          BY <1>2, <3>4, <4>1 DEF Backing
        <5> QED BY <1>2, <2>5, <3>4, <4>1, <5>1
      <4>2. CASE o # r
        <5>1. Backing(o) /\ runner'[o] = runner[o] /\ o = Kelsod
          BY <1>1, <1>2, <3>4, <4>2 DEF Backing, SnapsTyped
        <5>2. new.reason # Rt!Scheduled
          BY <1>1, <4>2, <5>1 DEF SnapsTyped
        <5>3. s \in hist
          BY <3>4, <5>2
        <5> QED BY <2>1, <3>4, <5>1, <5>3 DEF RunsWhole
      <4> QED BY <4>1, <4>2
    <3> QED BY <2>4, <3>1, <3>2, <3>3, <3>4 DEF RunsWhole
  <2>7. \A s \in hist : s.run \in Chosen(hist') => s.run \in Chosen(hist)
    <3>1. hist \subseteq hist' /\ \A s \in hist : \A t \in hist' \ hist : s.id < t.id
      BY <1>5
    <3> QED BY <1>7, <2>4, <3>1, ChosenShrinks
  <2>8. \A s \in hist' \ snaps' : s.run \notin Chosen(hist')
    BY <2>1, <2>7 DEF WantedThere
  <2>9. \A o \in Runners, s \in hist' : s.id \in runner'[o].doomed => s.run \notin Chosen(hist')
    <3> SUFFICES ASSUME NEW o \in Runners, NEW s \in hist', s.id \in runner'[o].doomed
                 PROVE  s.run \notin Chosen(hist')
      OBVIOUS
    <3>1. s \in hist /\ s.id \in runner[o].doomed
      BY <1>6
    <3> QED BY <2>1, <2>7, <3>1 DEF WantedThere
  <2>10. ASSUME Keeping, NEW s \in snaps', NEW t \in hist', s.run = t.run, s.reason = Rt!Scheduled
         PROVE  /\ t \in snaps'
                /\ \A o \in Runners : s.id \in runner'[o].doomed => t.id \in runner'[o].doomed
    <3>1. s \in hist' /\ t.reason = Rt!Scheduled
      BY <1>3, <2>4, <2>10 DEF OneReason
    <3>2. ASSUME s = new \/ t = new
          PROVE  \A q \in {s, t} : /\ q \in snaps'
                                   /\ \A o \in Runners : q.id \notin runner'[o].doomed
      <4>1. new.reason = Rt!Scheduled /\ s.run = new.run /\ t.run = new.run
        BY <2>10, <3>1, <3>2
      <4>2. new \in hist' /\ new.run \in Chosen(hist')
        BY <1>7, <2>5, <2>10, <4>1, LastChosen
      <4>3. s.run \in Chosen(hist') /\ t.run \in Chosen(hist') /\ t \in hist'
        BY <4>1, <4>2
      <4> QED BY <2>8, <2>9, <3>1, <4>3
    <3>3. ASSUME s # new, t # new
          PROVE  /\ t \in snaps'
                 /\ \A o \in Runners : s.id \in runner'[o].doomed => t.id \in runner'[o].doomed
      <4>1. s \in snaps /\ t \in hist
        BY <3>3
      <4>2. /\ t \in snaps
            /\ \A o \in Runners : s.id \in runner[o].doomed => t.id \in runner[o].doomed
        BY <2>1, <2>10, <4>1 DEF WantedThere
      <4> QED BY <1>6, <4>2
    <3> QED BY <3>2, <3>3
  <2>11. WantedThere'
    BY <2>8, <2>9, <2>10 DEF WantedThere, Keeping
  <2> QED BY <2>6, <2>11
<1> QED BY <1>8, <1>9 DEF SnapsInv

LEMMA SnapsBackup ==
    ASSUME SnapsInv, NEW r \in Runners, Rt!backup(r) PROVE SnapsInv'
<1> DEFINE k == runner[r]
           new == [id |-> shots + 1, part |-> k.part, run |-> k.run, time |-> unit,
                   reason |-> k.reason]
           bulk == [k EXCEPT !.part = "bulk"]
           onward == IF k.reason = Rt!PreRestore THEN Rt!Off ELSE [k EXCEPT !.pc = "list", !.part = "data"]
           next == IF BulkOn /\ k.part = "data" THEN bulk ELSE onward
           failed == IF k.reason \in {Rt!Update, Rt!PreRestore} THEN Rt!Off ELSE onward
<1>1. /\ k.pc = "backup" /\ unit' = unit
      /\ \/ /\ snaps' = snaps \cup {new} /\ hist' = hist \cup {new} /\ shots' = shots + 1
            /\ disturbed' = (disturbed \/ \E s \in hist : s.run = k.run /\ s.part = k.part)
            /\ runner' = [runner EXCEPT ![r] = next]
         \/ /\ snaps' = snaps /\ hist' = hist /\ shots' = shots /\ disturbed' = disturbed
            /\ runner' = [runner EXCEPT ![r] = failed]
  BY DEF Rt!backup, Rt!Set
<1>2. /\ unit \in Nat /\ k \in RunState /\ k.run <= unit
      /\ k.reason = Rt!Scheduled => r = Kelsod
  BY DEF SnapsInv, SnapsTyped
<1>3. /\ bulk \in RunState /\ bulk.doomed = k.doomed /\ bulk.run = k.run /\ bulk.reason = k.reason
  BY <1>2 DEF RunState, Parts
<1>4. /\ onward \in RunState /\ (onward.doomed = {} \/ onward.doomed = k.doomed)
      /\ onward.run <= unit /\ onward.pc # "backup"
      /\ onward.reason = Rt!Scheduled => r = Kelsod
  <2>1. CASE k.reason = Rt!PreRestore
    <3>1. onward = Rt!Off
      BY <2>1
    <3> HIDE DEF onward
    <3>2. Rt!Off.run <= unit
      BY <1>2, OffState
    <3> QED BY <3>1, <3>2, OffState
  <2>2. CASE k.reason # Rt!PreRestore
    BY <1>2, <2>2 DEF RunState, Parts
  <2> QED BY <2>1, <2>2
<1>5. /\ new.id = shots + 1 /\ new.part = k.part /\ new.run = k.run /\ new.reason = k.reason
  OBVIOUS
<1> HIDE DEF new, bulk, onward
<1>6. CASE /\ snaps' = snaps \cup {new} /\ hist' = hist \cup {new} /\ shots' = shots + 1
           /\ disturbed' = (disturbed \/ \E s \in hist : s.run = k.run /\ s.part = k.part)
           /\ runner' = [runner EXCEPT ![r] = next]
  <2>1. /\ next \in RunState /\ (next.doomed = {} \/ next.doomed = k.doomed)
        /\ next.run <= unit /\ (next.reason = Rt!Scheduled => r = Kelsod)
        /\ (next.pc = "backup" => k.part = "data" /\ next.run = k.run /\ next.reason = k.reason)
    BY <1>2, <1>3, <1>4
  <2> HIDE DEF next
  <2> QED BY <1>1, <1>5, <1>6, <2>1, SnapsTaken DEF Backing
<1>7. CASE /\ snaps' = snaps /\ hist' = hist /\ shots' = shots /\ disturbed' = disturbed
           /\ runner' = [runner EXCEPT ![r] = failed]
  <2>1. CASE failed = Rt!Off
    BY <1>1, <1>7, <2>1, RunnerStops
  <2>2. CASE failed = onward
    <3>1. runner' = [runner EXCEPT ![r] = onward]
      BY <1>7, <2>2
    <3> HIDE DEF failed, k
    <3> QED BY <1>1, <1>4, <1>7, <3>1, RunnerTurns DEF k
  <2> QED BY <2>1, <2>2
<1> QED BY <1>1, <1>6, <1>7

LEMMA SnapsStep == SnapsInv /\ [Rt!Next]_(Rt!vars) => SnapsInv'
<1> SUFFICES ASSUME SnapsInv, [Rt!Next]_(Rt!vars) PROVE SnapsInv'
  OBVIOUS
<1>1. unit \in Nat
  BY DEF SnapsInv, SnapsTyped
<1>2. CASE UNCHANGED Rt!vars
  <2>1. /\ hist' = hist /\ snaps' = snaps /\ shots' = shots /\ disturbed' = disturbed
        /\ unit' = unit /\ runner' = runner
    BY <1>2 DEF Rt!vars
  <2> QED BY <1>1, <2>1, SnapsStands
<1>3. CASE Rt!Time
  <2>1. /\ hist' = hist /\ snaps' = snaps /\ shots' = shots /\ disturbed' = disturbed
        /\ unit' = unit + 1 /\ runner' = runner
    BY <1>3 DEF Rt!Time
  <2>2. unit' \in Nat /\ unit <= unit'
    BY <1>1, <2>1
  <2> QED BY <2>1, <2>2, SnapsStands
<1>4. ASSUME NEW r \in Runners, NEW why \in Reasons, Rt!Begin(r, why) PROVE SnapsInv'
  BY <1>4, SnapsBegin
<1>5. ASSUME NEW r \in Runners, Rt!Dies(r) PROVE SnapsInv'
  <2>1. /\ hist' = hist /\ snaps' = snaps /\ shots' = shots /\ disturbed' = disturbed
        /\ unit' = unit /\ runner' = [runner EXCEPT ![r] = Rt!Off]
    BY <1>5 DEF Rt!Dies
  <2> QED BY <2>1, RunnerStops
<1>6. ASSUME NEW r \in Runners, Rt!backup(r) \/ Rt!List(r) \/ Rt!forget(r) PROVE SnapsInv'
  BY <1>6, SnapsBackup, SnapsList, SnapsForget
<1>7. ASSUME NEW b, Rt!delete(b) PROVE SnapsInv'
  BY <1>7, SnapsDelete
<1>8. CASE Rt!Next
  BY <1>3, <1>4, <1>5, <1>6, <1>7, <1>8 DEF Rt!Next, Reasons
<1> QED BY <1>2, <1>8

\* Forgetting from listings out of date, by runs of several processes that overlap, fail or
\* die, keeps just what the policy wants of every backup ever taken, for any policy, days,
\* weeks and months of any length, unless a backup was deleted by hand or two runs began in
\* one second (backup.expired, backup.forget_expired).
THEOREM ThinnedAsIfAll == Rt!Spec => []ThinsAsIfAll
<1>1. SnapsInv => ThinsAsIfAll
  BY WantedIsKept DEF ThinsAsIfAll, Rt!ThinsAsIfAll
<1> QED BY <1>1, SnapsInit, SnapsStep, PTL DEF Rt!Spec
=============================================================================
