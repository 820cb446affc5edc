------------------------------- MODULE Edits -------------------------------
(***************************************************************************)
(* Editing an app's manifest in a local repository                         *)
(* (kelso/lib/lifecycle/edit.py, kelso/cli/app.py, POST /manifests).       *)
(*                                                                         *)
(* An editor, at a shell or in the web UI, opens the text, works on it     *)
(* with no lock held, and submits it with the hash of what was opened.     *)
(* The owner of the repository works in it with git all the while.         *)
(***************************************************************************)
EXTENDS Naturals

CONSTANTS
  Editors,     \* people who edit through kelso
  Texts,       \* texts of the manifest
  MaxEdits,    \* bound on edits opened
  MaxMoves     \* bound on what the owner does and what fails

VARIABLES
  work,        \* the manifest in the work tree
  committed,   \* the manifest in the branch's last commit
  staged,      \* something is staged
  midway,      \* a merge, a rebase, a HEAD on no branch
  editor,      \* what each editor is at
  alock,       \* who holds the app's lock: at most one
  edits, moves

vars == <<work, committed, staged, midway, editor, alock, edits, moves>>

Idle == [step |-> "idle"]

TypeOK ==
  /\ {work, committed} \subseteq Texts
  /\ {staged, midway} \subseteq BOOLEAN
  /\ alock \in {{}} \cup {{e} : e \in Editors}

Init ==
  /\ work = (CHOOSE t \in Texts : TRUE) /\ committed = work
  /\ staged = FALSE /\ midway = FALSE
  /\ editor = [e \in Editors |-> Idle]
  /\ alock = {}
  /\ edits = 0 /\ moves = 0

Goto(e, s) == editor' = [editor EXCEPT ![e].step = s]

\* edit_manifest raises. At a shell the draft may be opened again, on the
\* base it had; otherwise the edit is given up.
Raised(e) ==
  /\ \/ editor' = [editor EXCEPT ![e] = Idle]
     \/ Goto(e, "drafting")
  /\ alock' = alock \ {e}

EditableDirty == ~midway /\ ~staged

\* repo_git and editable_entry: an edit can be one clean commit.
editable == ~midway /\ ~staged /\ work = committed

Open(e) ==
  /\ editor[e] = Idle
  /\ edits < MaxEdits
  /\ editable
  /\ edits' = edits + 1
  /\ editor' = [editor EXCEPT ![e] =
       [step |-> "drafting", opened |-> work, text |-> work, overtaken |-> FALSE]]
  /\ UNCHANGED <<work, committed, staged, midway, alock, moves>>

\* The text is handed in; which app it is for is looked up before the lock.
Submit(e) ==
  /\ editor[e].step = "drafting"
  /\ \/ /\ editable
        /\ \E t \in Texts : editor' =
             [editor EXCEPT ![e].step = "wait", ![e].text = t, ![e].overtaken = FALSE]
     \/ ~editable /\ editor' = [editor EXCEPT ![e] = Idle]
  /\ UNCHANGED <<work, committed, staged, midway, alock, edits, moves>>

Lock(e) ==
  /\ editor[e].step = "wait"
  /\ alock = {}
  /\ alock' = {e}
  /\ Goto(e, "check")
  /\ UNCHANGED <<work, committed, staged, midway, edits, moves>>

LockTimeout(e) ==
  /\ editor[e].step = "wait"
  /\ alock # {}
  /\ Raised(e)
  /\ UNCHANGED <<work, committed, staged, midway, edits, moves>>

NeverMoved(e) == FALSE

\* ManifestMoved: the file no longer hashes to what the editor opened.
moved(e) == work # editor[e].opened

\* Under the lock everything is looked up again, and the text is checked.
Check(e) ==
  /\ editor[e].step = "check"
  /\ CASE ~editable -> Raised(e)
       [] editable /\ (moved(e) \/ editor[e].text = work) ->
            editor' = [editor EXCEPT ![e] = Idle] /\ alock' = {}
       [] OTHER -> Goto(e, "replace") /\ UNCHANGED alock
  /\ UNCHANGED <<work, committed, staged, midway, edits, moves>>

\* check_manifest_text: what load would refuse is refused here.
CheckRefuses(e) ==
  /\ editor[e].step = "check"
  /\ moves < MaxMoves
  /\ moves' = moves + 1
  /\ Raised(e)
  /\ UNCHANGED <<work, committed, staged, midway, edits>>

Replace(e) ==
  /\ editor[e].step = "replace"
  /\ work' = editor[e].text
  /\ Goto(e, "commit")
  /\ UNCHANGED <<committed, staged, midway, alock, edits, moves>>

\* git.commit takes the file alone, as it is now.
Commit(e) ==
  /\ editor[e].step = "commit"
  /\ committed' = work
  /\ editor' = [editor EXCEPT ![e] = Idle]
  /\ alock' = {}
  /\ UNCHANGED <<work, staged, midway, edits, moves>>

\* A hook, an index.lock or a merge refuses it: the text is saved, perhaps
\* staged, and not committed. The process may also die here.
CommitFails(e) ==
  /\ editor[e].step \in {"replace", "commit"}
  /\ moves < MaxMoves
  /\ moves' = moves + 1
  /\ staged' \in {staged, TRUE}
  /\ editor' = [editor EXCEPT ![e] = Idle]
  /\ alock' = {}
  /\ UNCHANGED <<work, committed, midway, edits>>

-----------------------------------------------------------------------------

\* The owner saves the file, commits it, stages something, or begins or ends
\* a merge; kelso's lock does not keep them from it.
ByHand ==
  /\ moves < MaxMoves
  /\ moves' = moves + 1
  /\ \/ work' \in Texts \ {work} /\ UNCHANGED <<committed, staged, midway>>
     \/ committed' = work /\ staged' = FALSE /\ UNCHANGED <<work, midway>>
     \/ staged' = ~staged /\ UNCHANGED <<work, committed, midway>>
     \/ midway' = ~midway /\ UNCHANGED <<work, committed, staged>>
  /\ editor' = [e \in Editors |->
       IF editor[e].step \in {"replace", "commit"}
       THEN [editor[e] EXCEPT !.overtaken = TRUE] ELSE editor[e]]
  /\ UNCHANGED <<alock, edits>>

Next ==
  \/ ByHand
  \/ \E e \in Editors :
       \/ Open(e) \/ Submit(e) \/ Lock(e) \/ LockTimeout(e)
       \/ Check(e) \/ CheckRefuses(e) \/ Replace(e) \/ Commit(e) \/ CommitFails(e)

Spec == Init /\ [][Next]_vars

-----------------------------------------------------------------------------

(***************************************************************************)
(* CleanCommits: a commit kelso makes turns the text its editor opened     *)
(* into the text that editor handed in, with nobody else's edit undone or  *)
(* swept up (edit_manifest), unless the owner of the repository did        *)
(* something by hand between kelso's check and its commit.                 *)
(***************************************************************************)
CleanCommits ==
  [][\A e \in Editors :
       editor[e].step = "commit" /\ committed' # committed /\ ~editor[e].overtaken
         => committed = editor[e].opened /\ committed' = editor[e].text]_vars

=============================================================================
