---------------------------- MODULE DaemonFiles ----------------------------
(***************************************************************************)
(* How procServ becomes a daemon, and the two files that tell others about *)
(* it: the PID file, which the foreground command writes on behalf of the  *)
(* daemon it has forked, and the info file, which the daemon writes.  Both *)
(* are removed when the daemon ends in order (procServ.cc, from the        *)
(* listeners in main to the end of it).                                    *)
(*                                                                         *)
(* The same command line may be used again: while the server still runs,   *)
(* while it is ending, or after it has died.  A launch is one such use.    *)
(*                                                                         *)
(* A file is a name and what stands behind it (an inode), so that somebody *)
(* may write to a file whose name another has removed.  Children that      *)
(* inherit the listening socket are in module Endpoint.                    *)
(*                                                                         *)
(* A definition named ...Bug is a faulty variant of the one it precedes.   *)
(***************************************************************************)
EXTENDS Integers, FiniteSets

CONSTANTS
    Launches,    \* uses of the command
    None,        \* no inode
    StdSets,     \* which of the descriptors 0 to 2 a caller may have open
    Patient      \* a caller waits until the launches before are over

ASSUME DaemonAssumption ==
    /\ None \notin Launches
    /\ StdSets \subseteq SUBSET {0, 1, 2}
    /\ Patient \in BOOLEAN

Files == {"pid", "info"}
FD == 0..8
Objects == {"closed", "terminal", "listener", "log", "null"}

VARIABLES
    exclusive,   \* the endpoint can only be bound while nobody listens at it
    toOutput,    \* the log file is "-", the standard output
    command,     \* the process that was called, by launch
    server,      \* the process that serves: the daemon, or the same one (-f)
    foreground,  \* -f, by launch
    name,        \* the inode behind the name of a file
    text,        \* the launch whose process id an inode holds, or None
    open,        \* the inode that a launch is writing
    fds, logFD,  \* the server's descriptors, and logFileFD
    overlapped,  \* history: launches that were not alone
    without,     \* history: files that a launch could not open or write
    stuck,       \* history: files that a server could not remove
    overtaken,   \* history: daemons that ended before their PID file came
    last         \* history: the latest launch

settings == <<exclusive, toOutput>>
fileVars == <<name, text, open>>
fdVars   == <<fds, logFD>>
histVars == <<overlapped, without, stuck, overtaken, last>>
vars == <<settings, command, server, foreground, fileVars, fdVars, histVars>>

FilesTypeOK ==
    /\ exclusive \in BOOLEAN /\ toOutput \in BOOLEAN
    /\ command \in [Launches -> {"idle", "pidfile", "writing", "over"}]
    /\ server \in [Launches -> {"none", "start", "wait", "info", "writing", "up",
                                "closed", "tidy", "ended", "dead"}]
    /\ foreground \in [Launches -> BOOLEAN]
    /\ name \in [Files -> Launches \cup {None}]
    /\ text \in [Files -> [Launches -> Launches \cup {None}]]
    /\ open \in [Files -> [Launches -> Launches \cup {None}]]
    /\ overlapped \subseteq Launches
    /\ without \subseteq Launches \X Files /\ stuck \subseteq Launches \X Files
    /\ overtaken \subseteq Launches
    /\ last \in Launches \cup {None}

TypeOK ==
    /\ FilesTypeOK
    /\ fds \in [Launches -> [FD -> Objects]]
    /\ logFD \in [Launches -> FD \cup {-1}]

CommandOver(l) == command[l] \in {"idle", "over"}
ServerOver(l)  == server[l] \in {"none", "ended", "dead"}
Over(l) == CommandOver(l) /\ ServerOver(l)

\* Who has the listening socket open: the server, and the command until it exits.
Listens(l) == ~CommandOver(l) \/ ~(ServerOver(l) \/ server[l] \in {"closed", "tidy"})

-----------------------------------------------------------------------------
(* Descriptors *)

LowestFree(t) ==
    CHOOSE d \in FD : t[d] = "closed" /\ \A e \in FD : t[e] = "closed" => d <= e

Opened(t, object) == [t EXCEPT ![LowestFree(t)] = object]
Closed(t, ds) == [d \in FD |-> IF d \in ds THEN "closed" ELSE t[d]]

\* dup of a descriptor that has been closed fails.
Duped(t, fh) == IF t[fh] = "closed" THEN t ELSE Opened(t, t[fh])

\* Faulty: closes the standard descriptors after the duplication.
RedirectedBug(t, fh) == Closed(Duped(Duped(Duped(t, fh), fh), fh), {0, 1, 2, fh})

\* The daemon's part of forkAndGo.
Redirected(t, fh) ==
    LET bare == Closed(t, {0, 1, 2})
    IN  Closed(Duped(Duped(Duped(bare, fh), fh), fh), {fh})

\* What a caller leaves open, and then the listener.
WithListener(std) ==
    Opened([d \in FD |-> IF d \in std THEN "terminal" ELSE "closed"], "listener")

-----------------------------------------------------------------------------
(* Files *)

\* fopen("w"), and the constructor of ofstream: create or truncate.
Create(f, l) ==
    LET inode == IF name[f] = None THEN l ELSE name[f]
    IN  /\ name' = [name EXCEPT ![f] = inode]
        /\ text' = [text EXCEPT ![f][inode] = None]
        /\ open' = [open EXCEPT ![f][l] = inode]

\* Faulty: the text stays in the buffer of the stream.
FinishBug(f, l, ok) ==
    /\ open' = [open EXCEPT ![f][l] = None]
    /\ without' = IF ok THEN without ELSE without \cup {<<l, f>>}
    /\ UNCHANGED <<name, text>>

\* The text is written when the stream is closed, or cannot be (no room on
\* the device): nobody looks at the results.
Finish(f, l, ok) ==
    /\ text' = IF ok THEN [text EXCEPT ![f][open[f][l]] = l] ELSE text
    /\ open' = [open EXCEPT ![f][l] = None]
    /\ without' = IF ok THEN without ELSE without \cup {<<l, f>>}
    /\ UNCHANGED name

\* Nor at this one, if the directory does not allow it.
Unlink(f, l, ok) ==
    /\ name' = IF ok THEN [name EXCEPT ![f] = None] ELSE name
    /\ stuck' = IF ok THEN stuck ELSE stuck \cup {<<l, f>>}
    /\ UNCHANGED <<text, open>>

-----------------------------------------------------------------------------
(* Launching *)

Init ==
    /\ exclusive \in BOOLEAN /\ toOutput \in BOOLEAN
    /\ command = [l \in Launches |-> "idle"]
    /\ server = [l \in Launches |-> "none"]
    /\ foreground = [l \in Launches |-> FALSE]
    /\ name = [f \in Files |-> None]
    /\ text = [f \in Files |-> [l \in Launches |-> None]]
    /\ open = [f \in Files |-> [l \in Launches |-> None]]
    /\ fds = [l \in Launches |-> [d \in FD |-> "closed"]]
    /\ logFD = [l \in Launches |-> -1]
    /\ overlapped = {} /\ without = {} /\ stuck = {} /\ overtaken = {}
    /\ last = None

\* openLogFile: nothing is closed for -1 and 1, and nothing opened for "-";
\* a file may be impossible to open.
LogClosed(t, old) == IF old \in {-1, 1} THEN t ELSE Closed(t, {old})
Reopened(t, old, ok) ==
    IF ok /\ ~toOutput THEN Opened(LogClosed(t, old), "log") ELSE LogClosed(t, old)
ReopenedFD(t, old, ok) ==
    IF toOutput THEN 1 ELSE IF ok THEN LowestFree(LogClosed(t, old)) ELSE -1

\* main up to fork, or up to the PID file that a server in the foreground
\* writes itself.  -- The daemon inherits the descriptors, /dev/null among them.
Launch(l) ==
    /\ command[l] = "idle"
    /\ Patient => \A k \in Launches : Over(k)
    /\ exclusive => \A k \in Launches : ~Listens(k)
    /\ LET active == {k \in Launches : ~Over(k)}
       IN  overlapped' = overlapped \cup (IF active = {} THEN {} ELSE active \cup {l})
    /\ last' = l
    /\ \E fg, ok \in BOOLEAN, std \in StdSets :
           LET t == Reopened(WithListener(std), -1, ok)
           IN  /\ foreground' = [foreground EXCEPT ![l] = fg]
               /\ server' = [server EXCEPT ![l] = IF fg THEN "wait" ELSE "start"]
               /\ logFD' = [logFD EXCEPT ![l] = ReopenedFD(WithListener(std), -1, ok)]
               /\ fds' = [fds EXCEPT ![l] = IF fg THEN t ELSE Opened(t, "null")]
    /\ command' = [command EXCEPT ![l] = "pidfile"]
    /\ UNCHANGED <<settings, fileVars, without, stuck, overtaken>>

\* The address is taken, or there is no /dev/null or no process to fork.
LaunchFails(l) ==
    /\ command[l] = "idle"
    /\ Patient => \A k \in Launches : Over(k)
    /\ command' = [command EXCEPT ![l] = "over"]
    /\ UNCHANGED <<settings, server, foreground, fileVars, fdVars, histVars>>

-----------------------------------------------------------------------------
(* The PID file *)

\* What follows writePidFile: the command exits, or goes on as the server.
GoesOn(l) ==
    /\ command' = [command EXCEPT ![l] = "over"]
    /\ server' = [server EXCEPT ![l] = IF foreground[l] THEN "info" ELSE @]

OpenPid(l) ==
    /\ command[l] = "pidfile"
    /\ command' = [command EXCEPT ![l] = "writing"]
    /\ Create("pid", l)
    /\ overtaken' = IF server[l] = "ended" THEN overtaken \cup {l} ELSE overtaken
    /\ UNCHANGED <<settings, server, foreground, fdVars, overlapped, without, stuck, last>>

\* "Don't stop here - just go without"
OpenPidFails(l) ==
    /\ command[l] = "pidfile"
    /\ GoesOn(l)
    /\ without' = without \cup {<<l, "pid">>}
    /\ UNCHANGED <<settings, foreground, fileVars, fdVars, overlapped, stuck, overtaken, last>>

WritePid(l) ==
    /\ command[l] = "writing"
    /\ GoesOn(l)
    /\ \E ok \in BOOLEAN : Finish("pid", l, ok)
    /\ UNCHANGED <<settings, foreground, fdVars, overlapped, stuck, overtaken, last>>

-----------------------------------------------------------------------------
(* The server *)

\* The child in forkAndGo.
Redirect(l) ==
    /\ server[l] = "start"
    /\ server' = [server EXCEPT ![l] = "info"]
    /\ LET fh == CHOOSE d \in FD : fds[l][d] = "null"
       IN  fds' = [fds EXCEPT ![l] = Redirected(@, fh)]
    /\ UNCHANGED <<settings, command, foreground, fileVars, logFD, histVars>>

OpenInfo(l) ==
    /\ server[l] = "info"
    /\ server' = [server EXCEPT ![l] = "writing"]
    /\ Create("info", l)
    /\ UNCHANGED <<settings, command, foreground, fdVars, histVars>>

OpenInfoFails(l) ==
    /\ server[l] = "info"
    /\ server' = [server EXCEPT ![l] = "up"]
    /\ without' = without \cup {<<l, "info">>}
    /\ UNCHANGED <<settings, command, foreground, fileVars, fdVars, overlapped, stuck, overtaken, last>>

WriteInfo(l) ==
    /\ server[l] = "writing"
    /\ server' = [server EXCEPT ![l] = "up"]
    /\ \E ok \in BOOLEAN : Finish("info", l, ok)
    /\ UNCHANGED <<settings, command, foreground, fdVars, overlapped, stuck, overtaken, last>>

\* SIGHUP
OpenLogFile(l) ==
    /\ server[l] = "up"
    /\ \E ok \in BOOLEAN :
           /\ fds' = [fds EXCEPT ![l] = Reopened(@, logFD[l], ok)]
           /\ logFD' = [logFD EXCEPT ![l] = ReopenedFD(fds[l], @, ok)]
    /\ UNCHANGED <<settings, command, server, foreground, fileVars, histVars>>

\* The end of main, after the loop.
CloseSockets(l) ==
    /\ server[l] = "up"
    /\ server' = [server EXCEPT ![l] = "closed"]
    /\ fds' = [fds EXCEPT ![l] = [d \in FD |-> IF @[d] = "listener" THEN "closed" ELSE @[d]]]
    /\ UNCHANGED <<settings, command, foreground, fileVars, logFD, histVars>>

\* Faulty: leaves the name.
UnlinkInfoBug(l) ==
    /\ server[l] = "closed"
    /\ server' = [server EXCEPT ![l] = "tidy"]
    /\ UNCHANGED <<settings, command, foreground, fileVars, fdVars, histVars>>

UnlinkInfo(l) ==
    /\ server[l] = "closed"
    /\ server' = [server EXCEPT ![l] = "tidy"]
    /\ \E ok \in BOOLEAN : Unlink("info", l, ok)
    /\ UNCHANGED <<settings, command, foreground, fdVars, overlapped, without, overtaken, last>>

UnlinkPid(l) ==
    /\ server[l] = "tidy"
    /\ server' = [server EXCEPT ![l] = "ended"]
    /\ \E ok \in BOOLEAN : Unlink("pid", l, ok)
    /\ UNCHANGED <<settings, command, foreground, fdVars, overlapped, without, overtaken, last>>

\* A signal that nobody handles, an assertion, an uncaught exception.
ServerDies(l) ==
    /\ ~ServerOver(l)
    /\ server' = [server EXCEPT ![l] = "dead"]
    /\ command' = [command EXCEPT ![l] = IF foreground[l] THEN "over" ELSE @]
    /\ UNCHANGED <<settings, foreground, fileVars, fdVars, histVars>>

Server(l) ==
    \/ Redirect(l) \/ OpenInfo(l) \/ OpenInfoFails(l) \/ WriteInfo(l) \/ OpenLogFile(l)
    \/ CloseSockets(l) \/ UnlinkInfo(l) \/ UnlinkPid(l) \/ ServerDies(l)

Command(l) ==
    Launch(l) \/ LaunchFails(l) \/ OpenPid(l) \/ OpenPidFails(l) \/ WritePid(l)

Next == \E l \in Launches : Command(l) \/ Server(l)

Spec == Init /\ [][Next]_vars

-----------------------------------------------------------------------------
(* Properties *)

Names(f, l) == name[f] # None /\ text[f][name[f]] = l

\* Once the command has returned, which tells a type=forking service manager
\* that the daemon is ready, the PID file names the daemon; and a server in
\* its main loop has an info file that names it.  No other launch in between,
\* but whatever earlier ones have left behind, dead or alive when it was
\* refused an address.  (forkAndGo, writePidFile, writeInfoFile)
Announced ==
    \A l \in Launches \ overlapped :
        /\ /\ command[l] = "over" /\ <<l, "pid">> \notin without
           /\ server[l] \in {"start", "info", "writing", "up", "closed"}
           => Names("pid", l)
        /\ server[l] = "up" /\ <<l, "info">> \notin without => Names("info", l)

\* A server that ends in order leaves no info file, and no PID file unless it
\* was faster than the command that writes it, of those that it can remove.
\* (main, behind its loop)
CleanedUp ==
    \A l \in Launches \ overlapped :
        /\ l = last /\ server[l] = "ended" /\ command[l] = "over"
        => /\ <<l, "info">> \notin stuck => name["info"] = None
           /\ l \notin overtaken /\ <<l, "pid">> \notin stuck => name["pid"] = None

\* Past the redirection a daemon has lost the terminal and nothing else: the
\* standard descriptors are /dev/null, and the listener and the log file,
\* reopened any number of times, are open once each, the latter where
\* logFileFD says; no file is open for a log that goes to standard output.
\* A server in the foreground keeps its terminal.
\* (forkAndGo, openLogFile)
DescriptorsKept ==
    \A l \in Launches : server[l] \in {"info", "writing", "up"} =>
        /\ \A d \in 0..2 : fds[l][d] = IF foreground[l] THEN "terminal" ELSE "null"
        /\ \E d \in FD : fds[l][d] = "listener"
        /\ {d \in FD : fds[l][d] = "log"} = {logFD[l]} \ (IF toOutput THEN {1} ELSE {-1})
        /\ \A d \in FD \ (0..2) : fds[l][d] \notin {"terminal", "null"}

-----------------------------------------------------------------------------
(* What does not hold.  These have configurations of their own. *)

\* Violated (files_stale.cfg): with no other launch about, no PID file stays
\* behind a daemon that ended in order.  It may end before the command has
\* written the file on its behalf.
NothingStale ==
    \A l \in Launches \ overlapped :
        /\ l = last /\ server[l] = "ended" /\ command[l] = "over"
        /\ <<l, "pid">> \notin stuck
        => name["pid"] = None

\* Violated (files_stolen.cfg): an address that only one server can have
\* keeps the launches apart.  A server gives the address up before it
\* removes the files, which may be its successor's by then.
ExclusiveAnnounced ==
    \A l \in Launches :
        /\ exclusive /\ command[l] = "over" /\ <<l, "pid">> \notin without
        /\ l = last /\ server[l] = "up"
        => Names("pid", l)

\* Violated (files_stdout.cfg): a log file "-", "logs to stdout" by the usage
\* text, is what the caller sees as standard output.  The redirection makes
\* it /dev/null.
LogsToStdout ==
    \A l \in Launches :
        toOutput /\ server[l] = "up" => fds[l][logFD[l]] = "terminal"

=============================================================================
