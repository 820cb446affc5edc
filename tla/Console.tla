------------------------------ MODULE Console ------------------------------
(***************************************************************************)
(* A console in the browser: xterm.js, the UI's bridge, kelsod's relay, a  *)
(* docker client on a PTY, and the shell it started in a container         *)
(* (kelso/daemon/console.py, kelso/lib/lifecycle/console.py, the UI's      *)
(* pages/console.py and console.js).                                       *)
(*                                                                         *)
(* docker cannot end what it started: a client that is killed leaves its   *)
(* shell.  So the shell announces its pid on the terminal, and kelsod      *)
(* kills it from inside when it abandons the session.                      *)
(***************************************************************************)
EXTENDS Integers, FiniteSets

CONSTANTS
    IdleAfter,    \* units without a key or output after which a session is closed
    MaxSessions,  \* bound: sessions opened
    MaxMishaps    \* bound: hangups that fail, kelsod stopping

VARIABLES
    page,     \* the browser: "off", "live", and what it shows of the end
    bridge,   \* the UI's relay: "off" or "up"
    sock,     \* kelsod's websocket: "off", "open", "gone", and how kelsod closed it
    phase,    \* the handler: "off", "relay", "finish", "end", "hangup", "close", "over"
    done,     \* tasks that were done when the wait was: of "out", "keys", "idle", "failed out"
    ending,   \* _Ending.text
    client,   \* the docker client: "none", "runs", "exited" by itself, "ended"
    shell,    \* in the container: "none", "runs", "gone"
    marker,   \* the pid's announcement: "unsent", "sent", "read", "missed",
              \* or "failed": read, and the shell not killed by it
    quiet,    \* units since the last key or output
    recorded, \* the session in the activity log: "none", "open", or how it ended
    sessions, mishaps

vars == <<page, bridge, sock, phase, done, ending, client, shell, marker, quiet, recorded,
          sessions, mishaps>>

Init ==
    /\ page = "off" /\ bridge = "off" /\ sock = "off" /\ phase = "off"
    /\ done = {} /\ ending = "disconnected"
    /\ client = "none" /\ shell = "none" /\ marker = "unsent" /\ quiet = 0
    /\ recorded = "none" /\ sessions = 0 /\ mishaps = 0

Mishap == mishaps < MaxMishaps /\ mishaps' = mishaps + 1

-----------------------------------------------------------------------------
(* The browser and the bridge. *)

\* connect, again too once a session is over; the bridge opens kelsod's socket.
\* The app's unit was running a moment ago.
connect ==
    /\ page # "live" /\ bridge = "off" /\ phase \in {"off", "over"} /\ sessions < MaxSessions
    /\ sessions' = sessions + 1
    /\ page' = "live" /\ bridge' = "up" /\ sock' = "open" /\ phase' = "relay"
    /\ recorded' = "open" /\ ending' = "disconnected" /\ done' = {}
    /\ client' = "runs" /\ shell' = "runs" /\ marker' = "unsent" /\ quiet' = 0
    /\ UNCHANGED mishaps

\* The tab is closed or the network lost.
BrowserLeaves ==
    /\ page = "live" /\ page' = "off"
    /\ UNCHANGED <<bridge, sock, phase, done, ending, client, shell, marker, quiet, recorded, sessions, mishaps>>

\* One of the bridge's two directions ends: the browser's, then kelsod's socket
\* is closed too, or kelsod's, then the browser is told how.
BridgeEnds ==
    /\ bridge = "up"
    /\ \/ page = "off" /\ sock = "open" /\ sock' = "gone" /\ UNCHANGED page
       \/ /\ sock \notin {"off", "open"}
          /\ page' = IF page = "live" THEN (IF sock = "gone" THEN "disconnected" ELSE sock) ELSE page
          /\ UNCHANGED sock
    /\ bridge' = "off"
    /\ UNCHANGED <<phase, done, ending, client, shell, marker, quiet, recorded, sessions,
                   mishaps>>

-----------------------------------------------------------------------------
(* The container. *)

\* The shell prints its pid before anything else.
Announce ==
    /\ shell = "runs" /\ client = "runs" /\ marker = "unsent" /\ marker' = "sent"
    /\ UNCHANGED <<page, bridge, sock, phase, done, ending, client, shell, quiet, recorded, sessions, mishaps>>

\* The user types exit, the app is stopped, or the shell is hung up; the client
\* goes with it.
ShellExits ==
    /\ shell = "runs" /\ shell' = "gone"
    /\ client' = IF client = "runs" THEN "exited" ELSE client
    /\ UNCHANGED <<page, bridge, sock, phase, done, ending, marker, quiet, recorded, sessions, mishaps>>

-----------------------------------------------------------------------------
(* kelsod's relay: three tasks, the first that is done ends all. *)

\* Output, or a key: the marker is looked for in each piece read, so one that
\* comes in two pieces is missed.
Traffic ==
    /\ phase = "relay" /\ sock = "open" /\ client = "runs"
    /\ quiet' = 0
    /\ marker' \in (IF marker = "sent" THEN {"read", "missed"} ELSE {marker})
    /\ <<quiet', marker'>> # <<quiet, marker>>
    /\ UNCHANGED <<page, bridge, sock, phase, done, ending, client, shell, recorded, sessions, mishaps>>
Quiet ==
    /\ phase = "relay" /\ quiet < IdleAfter /\ quiet' = quiet + 1
    /\ UNCHANGED <<page, bridge, sock, phase, done, ending, client, shell, marker, recorded, sessions, mishaps>>

\* The tasks that may be done by now: one may be done and another not yet.
MayBeDone ==
    (IF client = "exited" THEN {"out"} ELSE {})
    \cup (IF sock # "open" THEN {"keys"} ELSE {})
    \cup (IF sock # "open" /\ client = "runs" THEN {"failed out"} ELSE {})
    \cup (IF quiet = IdleAfter THEN {"idle"} ELSE {})

\* The shell's own end is told before the time that is up.
Outcome(tasks) == CASE "out" \in tasks -> "exited"
                    [] "idle" \in tasks /\ "out" \notin tasks -> "idle"
                    [] OTHER -> "disconnected"
RelayEnds ==
    /\ phase = "relay" /\ MayBeDone # {}
    /\ \E tasks \in (SUBSET MayBeDone) \ {{}} : done' = tasks /\ ending' = Outcome(tasks)
    /\ phase' = "finish"
    /\ UNCHANGED <<page, bridge, sock, client, shell, marker, quiet, recorded, sessions,
                   mishaps>>

\* Closes its socket with how it ended, if it is still there.
Finish ==
    /\ phase = "finish"
    /\ sock' = IF sock = "open" THEN ending ELSE sock
    /\ phase' = "end"
    /\ UNCHANGED <<page, bridge, done, ending, client, shell, marker, quiet, recorded, sessions, mishaps>>

\* kelsod stops: the handler is cancelled wherever it waits, and goes to its end.
Cancelled ==
    /\ phase \in {"relay", "finish"} /\ Mishap
    /\ sock' = "gone" /\ phase' = "end"
    /\ UNCHANGED <<page, bridge, done, ending, client, shell, marker, quiet, recorded, sessions>>

\* _end: the client may be gone by itself.  Otherwise closing the terminal ends
\* it, at the latest when it is killed, and what it started is left behind.
End ==
    /\ phase = "end"
    /\ client' = IF client = "runs" THEN "ended" ELSE client
    /\ phase' = IF client = "runs" THEN "hangup" ELSE "close"
    /\ UNCHANGED <<page, bridge, sock, done, ending, shell, marker, quiet, recorded, sessions, mishaps>>

\* Mutant: the container's side is left alone when the socket went first.
HangUpIdle ==
    /\ phase = "hangup"
    /\ shell' = IF marker = "read" /\ ending = "idle" THEN "gone" ELSE shell
    /\ UNCHANGED <<marker, mishaps>>
\* The shell is killed by the pid that was read, if the container still answers.
HangUp ==
    /\ phase = "hangup"
    /\ \/ shell' = (IF marker = "read" THEN "gone" ELSE shell) /\ UNCHANGED <<marker, mishaps>>
       \/ marker = "read" /\ Mishap /\ marker' = "failed" /\ UNCHANGED shell
HungUp ==
    /\ HangUp
    /\ phase' = "close"
    /\ UNCHANGED <<page, bridge, sock, done, ending, client, quiet, recorded, sessions>>

\* The record is closed.  When the handler was cancelled the threads that end the
\* client and close the record run side by side; it is over when both are done.
Close ==
    /\ phase = "close"
    /\ recorded' = ending /\ phase' = "over"
    /\ UNCHANGED <<page, bridge, sock, done, ending, client, shell, marker, quiet, sessions,
                   mishaps>>

Next == \/ connect \/ BrowserLeaves \/ BridgeEnds \/ Announce \/ ShellExits
        \/ Traffic \/ Quiet \/ RelayEnds \/ Finish \/ Cancelled \/ End \/ HungUp \/ Close

Spec == Init /\ [][Next]_vars

-----------------------------------------------------------------------------
(* Properties. *)

\* A session that is over, however it ended and though kelsod stopped on the way,
\* leaves no shell in the container: unless its pid was not read, or killing it
\* failed.
NoShellLeft == phase = "over" /\ shell = "runs" => marker # "read"
=============================================================================
