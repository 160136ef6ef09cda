------------------------------ MODULE ProcServ ------------------------------
(***************************************************************************)
(* The core of procServ: the single-threaded main loop (procServ.cc), the  *)
(* item that stands for the supervised child (processFactory.cc), the      *)
(* commands that console clients type (clientFactory.cc), and the world    *)
(* around the loop: the child's processes, the peers of the client         *)
(* sockets, and the signals sent to the server.                            *)
(*                                                                         *)
(* The server is one thread.  Its program counter pc names the places      *)
(* between which the world may move:                                       *)
(*   "select"   about to call pselect                                      *)
(*   "work"     in the pass that reads every ready connection              *)
(*   "input"    scanning a buffer a user sent for command characters       *)
(*   "reap"     about to call waitpid in OnPollTimeout                     *)
(*   "clean"    about to delete the dead connections in OnPollTimeout      *)
(*   "restart"  about to decide whether to start a child (timeout only)    *)
(*   "closing"  out of the loop, about to delete every connection          *)
(*   "exited", "aborted"   gone                                            *)
(*                                                                         *)
(* A definition named ...Bug is a faulty variant of the one it precedes.   *)
(* None is used: each shows, put in its place, that a property can fail.   *)
(***************************************************************************)
EXTENDS Naturals, Sequences

CONSTANTS
    Users,        \* clients that may connect to the control port
    Loggers,      \* clients that may connect to the read-only log port
    Items,        \* heap addresses a processClass object may get
    NoItem,       \* the null _runningItem
    Pids,         \* process ids the kernel may give to a child
    NoPid,        \* the -1 that a failed forkpty leaves in _pid
    InitPid,      \* process 1
    HoldoffTime,  \* minimum time between two starts of the child
    MaxInput,     \* bound: characters a client has in flight
    Chars,        \* what users type: a subset of CharKinds
    Signals,      \* what is sent to the server: a subset of {"TERM", "HUP"}
    InFgMode,     \* inFgMode: is the server kept in the foreground (-f)
    KillSig,      \* the signal of the kill command and of a SIGTERM shutdown
    Faults        \* what the platform may do: a subset of FaultKinds

CharKinds == {"restart", "kill", "quit", "logout", "toggle", "text"}

(***************************************************************************)
(* "fork":    forkpty may fail although a process id is free               *)
(* "fortify": the build checks FD_ISSET (_FORTIFY_SOURCE) and aborts on -1 *)
(* "late":    handlers may run in a pselect that nevertheless times out (a *)
(*            C library that emulates pselect; the Linux system call never *)
(*            does this)                                                   *)
(* "reuse":   a process id may be given to a process of somebody else as   *)
(*            soon as waitpid has freed it                                 *)
(***************************************************************************)
FaultKinds == {"fork", "fortify", "late", "reuse"}

UserPort == "userPort"
LogPort  == "logPort"
Ports    == {UserPort, LogPort}
Clients  == Users \cup Loggers
Peers(port) == IF port = UserPort THEN Users ELSE Loggers

\* Blocked in the server before the first fork; a child inherits the mask.
BlockedMask == {"SIGPIPE", "SIGTERM", "SIGHUP"}

\* Ignored by the server; a program that is executed keeps ignoring them.
IgnoredSignals == {"SIGXFSZ"} \cup IF InFgMode THEN {"SIGINT", "SIGQUIT"} ELSE {}

ASSUME ConstantsAssumption ==
    /\ HoldoffTime \in Nat
    /\ MaxInput \in Nat
    /\ Chars \subseteq CharKinds
    /\ Signals \subseteq {"TERM", "HUP"}
    /\ InFgMode \in BOOLEAN
    /\ Faults \subseteq FaultKinds
    /\ NoItem \notin Items
    /\ NoPid \notin Pids
    /\ InitPid \notin Pids

ASSUME DisjointAssumption ==
    /\ Users \cap Loggers = {}
    /\ Clients \cap Items = {}
    /\ Ports \cap (Clients \cup Items) = {}

VARIABLES
    \* the main loop
    pc, ready, todo, reader, chars,
    \* restart policy: restartMode, firstRun, waitForManualStart;
    \* restartArmed is "_restartTime is not 0", hold is the time until then
    restartMode, firstRun, waitForManualStart, restartArmed, hold,
    shutdownServer,
    terminated,       \* history: a SIGTERM was handled
    farewell,         \* history: what the last goodbye message announced
    \* the connection list (listeners apart) and the processClass objects
    conns, marked, runningItem, pidOf,
    \* the world: ptys by item, sockets by client, child processes, signals
    slave, out, peer, inbox, os, pend, sigPending

loopVars   == <<pc, ready, todo, reader, chars>>
policyVars == <<restartMode, firstRun, waitForManualStart, restartArmed, hold>>
exitVars   == <<shutdownServer, terminated>>
itemVars   == <<runningItem, pidOf>>
ptyVars    == <<slave, out>>
sockVars   == <<peer, inbox>>
osVars     == <<os, pend>>
vars == <<loopVars, policyVars, exitVars, farewell, conns, marked, itemVars,
          ptyVars, sockVars, osVars, sigPending>>

LoopType ==
    /\ pc \in {"select", "work", "input", "reap", "clean", "restart",
               "closing", "exited", "aborted"}
    /\ ready \in {"none", "timeout", "work"}
    /\ todo \subseteq Clients \cup Items \cup Ports
    /\ reader \in Users \cup {NoItem}
    /\ chars \in Seq(Chars \cup {"text"})

PolicyType ==
    /\ restartMode \in {"restart", "norestart", "oneshot"}
    /\ firstRun \in BOOLEAN
    /\ waitForManualStart \in BOOLEAN
    /\ restartArmed \in BOOLEAN
    /\ hold \in 0..HoldoffTime
    /\ shutdownServer \in BOOLEAN
    /\ terminated \in BOOLEAN
    /\ farewell \in {"none", "restart", "norestart", "oneshot"}

ItemType ==
    /\ conns \subseteq Clients \cup Items
    /\ marked \subseteq conns
    /\ runningItem \in Items \cup {NoItem}
    /\ pidOf \in [Items -> Pids \cup {NoPid}]

WorldType ==
    /\ slave \in [Items -> BOOLEAN]
    /\ out \in [Items -> BOOLEAN]
    /\ peer \in [Clients -> {"off", "open", "closed"}]
    /\ inbox \in [Clients -> Seq(Chars \cup {"text"})]
    /\ os \in [Pids -> {"free", "young", "alive", "zombie", "stranger"}]
    /\ pend \in [Pids \cup {InitPid} -> SUBSET {"SIGKILL", KillSig}]
    /\ sigPending \subseteq {"PIPE", "TERM", "HUP"}

TypeOK == LoopType /\ PolicyType /\ ItemType /\ WorldType

Init ==
    /\ pc = "select" /\ ready = "none" /\ todo = {}
    /\ reader = NoItem /\ chars = <<>>
    /\ restartMode \in {"restart", "norestart", "oneshot"}
    /\ firstRun = TRUE
    /\ waitForManualStart \in BOOLEAN
    /\ restartArmed = FALSE /\ hold = 0
    /\ shutdownServer = FALSE /\ terminated = FALSE
    /\ farewell = "none"
    /\ conns = {} /\ marked = {}
    /\ runningItem = NoItem
    /\ pidOf = [i \in Items |-> NoPid]
    /\ slave = [i \in Items |-> FALSE]
    /\ out = [i \in Items |-> FALSE]
    /\ peer = [c \in Clients |-> "off"]
    /\ inbox = [c \in Clients |-> <<>>]
    /\ os = [p \in Pids |-> "free"]
    /\ pend = [p \in Pids \cup {InitPid} |-> {}]
    /\ sigPending = {}

-----------------------------------------------------------------------------
(***************************************************************************)
(* Helpers.                                                                *)
(***************************************************************************)
Up == pc \notin {"exited", "aborted"}

ProcessItems == conns \cap Items
Backlog(port) == {c \in Peers(port) : c \notin conns /\ peer[c] # "off"}

\* What pselect reports.  A failed item has no descriptor to watch.
Readable ==
    {port \in Ports : Backlog(port) # {}}
    \cup {c \in conns \cap Clients : inbox[c] # <<>> \/ peer[c] = "closed"}
    \cup {i \in ProcessItems : pidOf[i] # NoPid /\ (out[i] \/ ~slave[i])}

\* Faulty: writes to clients that are not in the list.
HearsBug == Clients \ marked

\* Clients that SendToAll still writes to.
Hears == (conns \cap Clients) \ marked

(***************************************************************************)
(* A write to a client may fail, because the peer is gone or because it    *)
(* has not read for the ten seconds of SO_SNDTIMEO; the client is then     *)
(* marked.  A write to a closed peer may raise SIGPIPE, which stays        *)
(* pending until the next pselect.  "lost" is the set of clients whose     *)
(* write fails, "sigs" the pending signals before.                         *)
(***************************************************************************)
MayRaisePipe(lost, sigs) ==
    sigPending' \in {sigs} \cup {sigs \cup {"PIPE"} :
                                 c \in {d \in lost : peer[d] = "closed"}}

\* SendToAll to the clients, in a step that also marks the members of dead.
Broadcast(dead, sigs) ==
    \E lost \in SUBSET Hears :
        /\ marked' = marked \cup dead \cup lost
        /\ MayRaisePipe(lost, sigs)

\* kill(-pid): reaches a process group, and so no child before its setsid,
\* but whoever leads the group of that number.
Reached(p, target) ==
    p = target /\ (p = InitPid \/ os[p] \in {"alive", "stranger"})

(***************************************************************************)
(* processFactorySendSignal(killSig).  The negated _pid of an item whose   *)
(* fork failed is 1, so that the signal is sent to process 1.              *)
(***************************************************************************)
SendSignal ==
    LET target == IF pidOf[runningItem] = NoPid THEN InitPid
                                                ELSE pidOf[runningItem]
    IN  IF runningItem = NoItem
        THEN UNCHANGED pend
        ELSE pend' = [p \in DOMAIN pend |->
                        IF Reached(p, target) THEN pend[p] \cup {KillSig}
                                              ELSE pend[p]]

\* Faulty: the destructor does not kill.
KillGroupsBug(dead) == UNCHANGED pend

\* ~processClass kills the process group of each deleted item for good.  It
\* does not know whether waitpid has freed its _pid, nor to whom it went.
KillGroups(dead) ==
    pend' = [p \in DOMAIN pend |->
               IF \E i \in dead : pidOf[i] # NoPid /\ Reached(p, pidOf[i])
               THEN pend[p] \cup {"SIGKILL"} ELSE pend[p]]

\* Deleting the items dead and the clients gone frees what they refer to.
Release(dead, gone) ==
    /\ pidOf' = [i \in Items |-> IF i \in dead THEN NoPid ELSE pidOf[i]]
    /\ slave' = [i \in Items |-> slave[i] /\ i \notin dead]
    /\ out'   = [i \in Items |-> out[i] /\ i \notin dead]
    /\ peer'  = [c \in Clients |-> IF c \in gone THEN "off" ELSE peer[c]]
    /\ inbox' = [c \in Clients |-> IF c \in gone THEN <<>> ELSE inbox[c]]

\* Faulty: nobody looks at shutdownServer.
EndIterationBug == pc' = "select" /\ ready' = "none"

\* The condition of the while loop, at the end of an iteration.
EndIteration ==
    /\ pc' = IF shutdownServer' THEN "closing" ELSE "select"
    /\ ready' = "none"

-----------------------------------------------------------------------------
(***************************************************************************)
(* pselect, and the handling of the signals whose handlers ran in it.      *)
(***************************************************************************)
\* Faulty: SIGTERM is only heeded while there is a child.
HandleSignalsBug(caught) ==
    /\ LET rest == sigPending \ caught
       IN  IF "PIPE" \in caught
           THEN Broadcast({}, rest)
           ELSE sigPending' = rest /\ UNCHANGED marked
    /\ IF "TERM" \in caught /\ runningItem # NoItem
       THEN SendSignal /\ shutdownServer' = TRUE /\ terminated' = TRUE
       ELSE UNCHANGED <<pend, exitVars>>
    /\ UNCHANGED <<reader, chars, policyVars, farewell, conns, itemVars,
                   ptyVars, sockVars, os>>

\* SIGPIPE is reported to everyone; SIGTERM kills the child and ends the
\* loop; SIGHUP reopens the log file, which is not modelled here.
HandleSignals(caught) ==
    /\ LET rest == sigPending \ caught
       IN  IF "PIPE" \in caught
           THEN Broadcast({}, rest)
           ELSE sigPending' = rest /\ UNCHANGED marked
    /\ IF "TERM" \in caught
       THEN SendSignal /\ shutdownServer' = TRUE /\ terminated' = TRUE
       ELSE UNCHANGED <<pend, exitVars>>
    /\ UNCHANGED <<reader, chars, policyVars, farewell, conns, itemVars,
                   ptyVars, sockVars, os>>

\* A descriptor is ready: Linux then returns without running the handlers,
\* other systems run them first.
SelectReady ==
    /\ pc = "select" /\ Readable # {}
    /\ \E caught \in {{}, sigPending} : HandleSignals(caught)
    /\ pc' = "work" /\ ready' = "work" /\ todo' = Readable

\* Faulty: waitpid is not called after a timeout.
SelectTimeoutNoWaitBug ==
    /\ pc = "select" /\ Readable = {}
    /\ sigPending = {} \/ "late" \in Faults
    /\ HandleSignals(sigPending)
    /\ pc' = "clean" /\ ready' = "timeout" /\ UNCHANGED todo

SelectTimeout ==
    /\ pc = "select" /\ Readable = {}
    /\ sigPending = {} \/ "late" \in Faults
    /\ HandleSignals(sigPending)
    /\ pc' = "reap" /\ ready' = "timeout" /\ UNCHANGED todo

\* EINTR: the iteration ends without any housekeeping.
SelectIntr ==
    /\ pc = "select" /\ Readable = {} /\ sigPending # {}
    /\ HandleSignals(sigPending)
    /\ EndIteration /\ UNCHANGED todo

-----------------------------------------------------------------------------
(***************************************************************************)
(* The pass over the ready connections.  The order of the list is left     *)
(* open: a connection is only ever added at its head and never moves, so   *)
(* every order the code can have is among those allowed here.              *)
(***************************************************************************)
BadFd == \E i \in ProcessItems : pidOf[i] = NoPid

\* FD_ISSET(-1): a fortified build aborts.  An item whose fork failed is at
\* the head of the list, so that it is the first to be looked at.
ProbeBadFd ==
    /\ pc = "work" /\ BadFd /\ "fortify" \in Faults
    /\ pc' = "aborted" /\ ready' = "none" /\ todo' = {}
    /\ UNCHANGED <<reader, chars, policyVars, exitVars, farewell, conns,
                   marked, itemVars, ptyVars, sockVars, osVars, sigPending>>

\* The turn of x in the pass.
Visit(x) ==
    /\ pc = "work" /\ x \in todo
    /\ ~(BadFd /\ "fortify" \in Faults)
    /\ todo' = todo \ {x}
    /\ UNCHANGED <<ready, policyVars, exitVars, farewell, itemVars, slave,
                   peer, osVars>>

\* acceptItem::readFromFd.  The greeting and the telnet negotiation are
\* written to the new client at once.
Accept(port) ==
    /\ Visit(port)
    /\ \E c \in Backlog(port), failed \in BOOLEAN :
          LET lost == IF failed THEN {c} ELSE {}
          IN  /\ conns' = conns \cup {c}
              /\ marked' = marked \cup lost
              /\ MayRaisePipe({c}, sigPending)
    /\ UNCHANGED <<pc, reader, chars, out, inbox>>

\* processClass::readFromFd: output is passed on; EOF or EIO marks the item.
ReadProcess(i) ==
    /\ i \in Items /\ Visit(i)
    /\ IF out[i] THEN Broadcast({}, sigPending)
                 ELSE marked' = marked \cup {i} /\ UNCHANGED sigPending
    /\ out' = [out EXCEPT ![i] = FALSE]
    /\ UNCHANGED <<pc, reader, chars, conns, inbox>>

\* clientItem::readFromFd, EOF or error (a reset connection loses its data).
ReadEof(c) ==
    /\ c \in Clients /\ Visit(c)
    /\ peer[c] = "closed"
    /\ marked' = marked \cup {c}
    /\ inbox' = [inbox EXCEPT ![c] = <<>>]
    /\ UNCHANGED <<pc, reader, chars, conns, out, sigPending>>

\* clientItem::readFromFd: what a logger types is dropped.
ReadLogger(c) ==
    /\ c \in Loggers /\ Visit(c)
    /\ inbox[c] # <<>>
    /\ inbox' = [inbox EXCEPT ![c] = <<>>]
    /\ UNCHANGED <<pc, reader, chars, conns, marked, out, sigPending>>

\* clientItem::readFromFd: what a user types goes to processInput.
ReadUser(c) ==
    /\ c \in Users /\ Visit(c)
    /\ inbox[c] # <<>>
    /\ pc' = "input" /\ reader' = c /\ chars' = inbox[c]
    /\ inbox' = [inbox EXCEPT ![c] = <<>>]
    /\ UNCHANGED <<conns, marked, out, sigPending>>

WorkDone ==
    /\ pc = "work" /\ todo = {}
    /\ ~(BadFd /\ "fortify" \in Faults)
    /\ pc' = "reap"
    /\ UNCHANGED <<ready, todo, reader, chars, policyVars, exitVars, farewell,
                   conns, marked, itemVars, ptyVars, sockVars, osVars,
                   sigPending>>

-----------------------------------------------------------------------------
(***************************************************************************)
(* clientItem::processInput: one action per command character, and the     *)
(* forwarding of the whole buffer to the child at its end.  A marked       *)
(* client's input is still obeyed.                                         *)
(***************************************************************************)
NextChar(ch) ==
    /\ pc = "input" /\ chars # <<>> /\ Head(chars) = ch
    /\ chars' = Tail(chars)
    /\ UNCHANGED <<pc, ready, todo, reader, terminated, conns, itemVars,
                   ptyVars, sockVars, os>>

\* Faulty: obeyed whether or not there is a child.
ManualStartBug ==
    waitForManualStart' = FALSE /\ restartArmed' = FALSE /\ hold' = 0

\* Only while there is no child item: lift the manual wait, forget the
\* hold-off, and with it the start that norestart remembers.
ManualStart ==
    IF runningItem = NoItem
    THEN /\ waitForManualStart' = FALSE
         /\ restartArmed' = FALSE /\ hold' = 0
    ELSE UNCHANGED <<waitForManualStart, restartArmed, hold>>

CmdRestart ==
    /\ NextChar("restart")
    /\ ManualStart
    /\ UNCHANGED <<restartMode, firstRun, shutdownServer, farewell, marked,
                   pend, sigPending>>

CmdKill ==
    /\ NextChar("kill")
    /\ ManualStart
    /\ Broadcast({}, sigPending)
    /\ SendSignal
    /\ UNCHANGED <<restartMode, firstRun, shutdownServer, farewell>>

\* Faulty: obeyed whether or not there is a child.
CmdQuitBug ==
    /\ NextChar("quit")
    /\ shutdownServer' = TRUE
    /\ UNCHANGED <<policyVars, farewell, marked, pend, sigPending>>

CmdQuit ==
    /\ NextChar("quit")
    /\ shutdownServer' = (shutdownServer \/ runningItem = NoItem)
    /\ UNCHANGED <<policyVars, farewell, marked, pend, sigPending>>

CmdLogout ==
    /\ NextChar("logout")
    /\ marked' = marked \cup {reader}
    /\ UNCHANGED <<policyVars, shutdownServer, farewell, pend, sigPending>>

NextMode == [restart |-> "norestart", norestart |-> "oneshot",
             oneshot |-> "restart"]

CmdToggle ==
    /\ NextChar("toggle")
    /\ restartMode' = NextMode[restartMode]
    /\ firstRun' = (firstRun \/ restartMode = "norestart")
    /\ farewell' = "none"
    /\ Broadcast({}, sigPending)
    /\ UNCHANGED <<waitForManualStart, restartArmed, hold, shutdownServer,
                   pend>>

CmdText ==
    /\ NextChar("text")
    /\ UNCHANGED <<policyVars, shutdownServer, farewell, marked, pend,
                   sigPending>>

\* processClass::Send: the write fails once nobody holds the pty's slave.
ForwardInput ==
    /\ pc = "input" /\ chars = <<>>
    /\ marked' = marked \cup {i \in ProcessItems : ~slave[i]}
    /\ pc' = "work" /\ reader' = NoItem
    /\ UNCHANGED <<ready, todo, chars, policyVars, exitVars, farewell, conns,
                   itemVars, ptyVars, sockVars, osVars, sigPending>>

-----------------------------------------------------------------------------
(***************************************************************************)
(* OnPollTimeout: one waitpid, then the deletion of the dead connections.  *)
(***************************************************************************)
\* Faulty: the item of the dead child is not marked.
ReapChildBug(p) ==
    /\ pc = "reap" /\ os[p] = "zombie"
    /\ os' = [os EXCEPT ![p] = "free"]
    /\ Broadcast({}, sigPending)
    /\ pc' = "clean"
    /\ UNCHANGED <<ready, todo, reader, chars, policyVars, exitVars, farewell,
                   conns, itemVars, ptyVars, sockVars, pend>>

ReapChild(p) ==
    /\ pc = "reap" /\ os[p] = "zombie"
    /\ os' = [os EXCEPT ![p] = "free"]
    /\ Broadcast({i \in ProcessItems : pidOf[i] = p}, sigPending)
    /\ pc' = "clean"
    /\ UNCHANGED <<ready, todo, reader, chars, policyVars, exitVars, farewell,
                   conns, itemVars, ptyVars, sockVars, pend>>

ReapNothing ==
    /\ pc = "reap" /\ \A p \in Pids : os[p] # "zombie"
    /\ pc' = "clean"
    /\ UNCHANGED <<ready, todo, reader, chars, policyVars, exitVars, farewell,
                   conns, marked, itemVars, ptyVars, sockVars, osVars,
                   sigPending>>

(***************************************************************************)
(* The pass that deletes.  ~processClass says goodbye to the clients; of   *)
(* those that are lost on that write, the ones further down the list       *)
(* ("late") are deleted in the same pass, the others in the next.          *)
(***************************************************************************)
CleanUp ==
    /\ pc = "clean"
    /\ LET dead == marked \cap Items IN
       \E lost \in SUBSET Hears : \E late \in SUBSET lost :
          LET gone == marked \cup late IN
          /\ dead = {} => lost = {}
          /\ conns' = conns \ gone
          /\ marked' = lost \ late
          /\ MayRaisePipe(lost, sigPending)
          /\ runningItem' = IF dead = {} THEN runningItem ELSE NoItem
          /\ farewell' = IF dead = {} THEN farewell ELSE restartMode
          /\ KillGroups(dead)
          /\ Release(dead, gone)
    /\ UNCHANGED <<todo, reader, chars, policyVars, exitVars, os>>
    /\ IF ready = "timeout" THEN pc' = "restart" /\ UNCHANGED ready
                            ELSE EndIteration

-----------------------------------------------------------------------------
(***************************************************************************)
(* After a timeout: start, restart or give up (procServ.cc, timeout        *)
(* branch; processFactory; the constructor of processClass).               *)
(***************************************************************************)
\* Faulty: does not ask for the running item.
NeedsRestartBug ==
    /\ ~(restartMode = "norestart" /\ restartArmed)
    /\ hold = 0
    /\ ~waitForManualStart

\* Faulty: the mode is not looked at, a child is started only once.
NeedsRestartOnceBug ==
    /\ ~restartArmed
    /\ runningItem = NoItem
    /\ hold = 0
    /\ ~waitForManualStart

NeedsRestart ==
    /\ ~(restartMode = "norestart" /\ restartArmed)
    /\ runningItem = NoItem
    /\ hold = 0
    /\ ~waitForManualStart

\* Faulty: oneshot mode is not looked at.
OneshotOverBug == FALSE

OneshotOver == restartMode = "oneshot" /\ ~firstRun

\* A new item, whose pid is p if the fork succeeds and NoPid otherwise.
NewItem(i, p) ==
    /\ pc = "restart" /\ NeedsRestart /\ ~OneshotOver
    /\ i \notin conns
    /\ conns' = conns \cup {i}
    /\ runningItem' = i
    /\ pidOf' = [pidOf EXCEPT ![i] = p]
    /\ restartArmed' = TRUE /\ hold' = HoldoffTime
    /\ firstRun' = FALSE
    /\ farewell' = "none"
    /\ UNCHANGED <<todo, reader, chars, restartMode, waitForManualStart,
                   exitVars, out, sockVars, pend>>
    /\ EndIteration

StartChild(i, p) ==
    /\ NewItem(i, p)
    /\ os[p] = "free"
    /\ os' = [os EXCEPT ![p] = "young"]
    /\ slave' = [slave EXCEPT ![i] = TRUE]
    /\ Broadcast({}, sigPending)

\* The item of a failed fork is marked from the start and deleted by the
\* housekeeping of the next iteration that has one.
StartFails(i) ==
    /\ NewItem(i, NoPid)
    /\ "fork" \in Faults \/ \A p \in Pids : os[p] # "free"
    /\ Broadcast({i}, sigPending)
    /\ UNCHANGED <<os, slave>>

OneshotExit ==
    /\ pc = "restart" /\ NeedsRestart /\ OneshotOver
    /\ shutdownServer' = TRUE
    /\ EndIteration
    /\ UNCHANGED <<todo, reader, chars, policyVars, terminated, farewell,
                   conns, marked, itemVars, ptyVars, sockVars, osVars,
                   sigPending>>

NoRestart ==
    /\ pc = "restart" /\ ~NeedsRestart
    /\ UNCHANGED <<todo, reader, chars, policyVars, exitVars, farewell, conns,
                   marked, itemVars, ptyVars, sockVars, osVars, sigPending>>
    /\ EndIteration

\* After the loop every connection is deleted and the server returns.
CloseAll ==
    /\ pc = "closing"
    /\ KillGroups(ProcessItems)
    /\ Release(ProcessItems, Clients)
    /\ conns' = {} /\ marked' = {}
    /\ runningItem' = NoItem
    /\ farewell' = "none"
    /\ pc' = "exited"
    /\ UNCHANGED <<ready, todo, reader, chars, policyVars, exitVars, os,
                   sigPending>>

-----------------------------------------------------------------------------
(***************************************************************************)
(* The world.                                                              *)
(***************************************************************************)
serverVars == <<loopVars, restartMode, firstRun, waitForManualStart,
                restartArmed, exitVars, farewell, conns, marked, itemVars>>

Tick ==
    /\ hold > 0
    /\ hold' = hold - 1
    /\ UNCHANGED <<serverVars, ptyVars, sockVars, osVars, sigPending>>

(***************************************************************************)
(* The new process becomes a group leader and takes the pty as its         *)
(* controlling terminal; if the item is gone the pty has hung up, that     *)
(* fails, and forkpty ends the process.                                    *)
(***************************************************************************)
ChildLeads(p) ==
    /\ os[p] = "young"
    /\ os' = [os EXCEPT ![p] =
                IF \E i \in ProcessItems : pidOf[i] = p THEN "alive"
                                                        ELSE "zombie"]
    /\ UNCHANGED <<serverVars, hold, ptyVars, sockVars, pend, sigPending>>

\* The child, or another process of its group, writes to the terminal.
ChildWrites(i) ==
    /\ slave[i] /\ ~out[i] /\ os[pidOf[i]] # "young"
    /\ out' = [out EXCEPT ![i] = TRUE]
    /\ UNCHANGED <<serverVars, hold, slave, sockVars, osVars, sigPending>>

\* The last holder of the terminal closes it, exiting or not.
ChildClosesTty(i) ==
    /\ slave[i] /\ os[pidOf[i]] # "young"
    /\ slave' = [slave EXCEPT ![i] = FALSE]
    /\ UNCHANGED <<serverVars, hold, out, sockVars, osVars, sigPending>>

\* The child exits, or a signal ends it; its terminal may be held longer.
ChildExits(p) ==
    /\ os[p] = "alive"
    /\ os' = [os EXCEPT ![p] = "zombie"]
    /\ pend' = [pend EXCEPT ![p] = {}]
    /\ UNCHANGED <<serverVars, hold, ptyVars, sockVars, sigPending>>

\* A signal that the child has not inherited as blocked or ignored is deadly.
ChildKilled(p) == pend[p] \ (BlockedMask \cup IgnoredSignals) # {} /\ ChildExits(p)

\* A process id that is free goes to somebody else's group leader, who ends
\* some day and gives it back.
PidTaken(p) ==
    /\ "reuse" \in Faults /\ os[p] = "free"
    /\ os' = [os EXCEPT ![p] = "stranger"]
    /\ UNCHANGED <<serverVars, hold, ptyVars, sockVars, pend, sigPending>>

StrangerLeaves(p) ==
    /\ os[p] = "stranger"
    /\ os' = [os EXCEPT ![p] = "free"]
    /\ pend' = [pend EXCEPT ![p] = {}]
    /\ UNCHANGED <<serverVars, hold, ptyVars, sockVars, sigPending>>

ClientConnects(c) ==
    /\ Up /\ peer[c] = "off"
    /\ peer' = [peer EXCEPT ![c] = "open"]
    /\ UNCHANGED <<serverVars, hold, ptyVars, inbox, osVars, sigPending>>

ClientSends(c, ch) ==
    /\ peer[c] = "open" /\ Len(inbox[c]) < MaxInput
    /\ inbox' = [inbox EXCEPT ![c] = Append(@, ch)]
    /\ UNCHANGED <<serverVars, hold, ptyVars, peer, osVars, sigPending>>

ClientCloses(c) ==
    /\ peer[c] = "open"
    /\ peer' = [peer EXCEPT ![c] = "closed"]
    /\ UNCHANGED <<serverVars, hold, ptyVars, inbox, osVars, sigPending>>

SignalArrives(s) ==
    /\ Up /\ s \notin sigPending
    /\ sigPending' = sigPending \cup {s}
    /\ UNCHANGED <<serverVars, hold, ptyVars, sockVars, osVars>>

-----------------------------------------------------------------------------
Select  == SelectReady \/ SelectTimeout \/ SelectIntr
Pass    == \/ \E port \in Ports : Accept(port)
           \/ \E i \in Items : ReadProcess(i)
           \/ \E c \in Clients : ReadEof(c) \/ ReadLogger(c) \/ ReadUser(c)
           \/ ProbeBadFd \/ WorkDone
Command == CmdRestart \/ CmdKill \/ CmdQuit \/ CmdLogout \/ CmdToggle
           \/ CmdText \/ ForwardInput
Housekeeping == (\E p \in Pids : ReapChild(p)) \/ ReapNothing \/ CleanUp
Restart == \/ \E i \in Items, p \in Pids : StartChild(i, p)
           \/ \E i \in Items : StartFails(i)
           \/ OneshotExit \/ NoRestart
Server  == Select \/ Pass \/ Command \/ Housekeeping \/ Restart \/ CloseAll

World ==
    \/ Tick
    \/ \E p \in Pids : ChildLeads(p) \/ ChildExits(p)
                       \/ PidTaken(p) \/ StrangerLeaves(p)
    \/ \E i \in Items : ChildWrites(i) \/ ChildClosesTty(i)
    \/ \E c \in Clients : ClientConnects(c) \/ ClientCloses(c)
    \/ \E c \in Users, ch \in Chars : ClientSends(c, ch)
    \/ \E c \in Loggers : ClientSends(c, "text")
    \/ \E s \in Signals : SignalArrives(s)

\* The server is gone; what is left of its children may still move.
Gone == ~Up /\ UNCHANGED vars

Next == Server \/ World \/ Gone

Spec == Init /\ [][Next]_vars

-----------------------------------------------------------------------------
(***************************************************************************)
(* Safety.                                                                 *)
(***************************************************************************)
\* There is never a second processClass object, and _runningItem points to
\* the one in the list or nowhere: a new one is only made, and quit only
\* obeyed, when the destructor of the last one has run.
OneItem == ProcessItems = {runningItem} \ {NoItem}

\* The process id of the child item is not given back to the kernel, and to
\* nobody else, while commands and SIGTERM can still signal it: the waitpid
\* that frees it is followed by the deletion of the item.  What the destructor
\* does in between is looked at in StrangersSpared.
PidHeld ==
    \A i \in ProcessItems :
        pidOf[i] \in Pids /\ os[pidOf[i]] \in {"free", "stranger"}
            => pc = "clean" /\ i \in marked

\* No signal meant for the child hits a process that got its id from it.
StrangersSpared == \A p \in Pids : os[p] = "stranger" => pend[p] = {}

\* At most one child runs that has not been sent SIGKILL: when an item goes
\* because its terminal was closed or because the loop ended, its process
\* group is killed, before a new child is made.
Running == {p \in Pids : os[p] \in {"young", "alive"}
                          /\ "SIGKILL" \notin pend[p]}
OneChild == \A p, q \in Running : p = q

\* Unless SIGTERM asked for it, the server leaves its loop (quit command,
\* end of oneshot mode) only when there is no child to be taken down.
ExitSparesChild == pc = "closing" /\ ~terminated => runningItem = NoItem

\* A signal for the child is never sent to process 1.
InitUnharmed == pend[InitPid] = {}

\* A failed fork is survived: the loop goes on and respawns the child later.
Survives == pc # "aborted"

\* When the clients were told "oneshot mode: server will exit", no child is
\* started any more (unless a user toggles the mode, which clears farewell).
FarewellKept == [][farewell = "oneshot" => runningItem' = NoItem]_vars

\* The loop starts, stops and gives up its child as the Supervisor does.
Promise == INSTANCE Supervisor WITH
    server <- IF ~Up THEN "down"
              ELSE IF shutdownServer THEN "stopping" ELSE "up",
    child  <- runningItem # NoItem,
    mode   <- restartMode,
    order  <- IF waitForManualStart THEN "awaited"
              ELSE IF restartArmed THEN "used" ELSE "given",
    fresh  <- firstRun,
    rest   <- hold
ImplementsSupervisor == Promise!Spec

-----------------------------------------------------------------------------
(***************************************************************************)
(* The inductive invariant behind OneItem, PidHeld, OneChild and           *)
(* ExitSparesChild: what the phases of the loop, a child that is not yet a *)
(* group leader, and a shutdown in progress have in common.                *)
(***************************************************************************)
Phases ==
    /\ pc \in {"work", "input"} => /\ ready = "work"
                                  /\ todo \subseteq conns \cup Ports
                                  /\ \A i \in todo \cap Items :
                                        out[i] \/ ~slave[i]
    /\ pc = "input" => reader \in conns \cap Users
    /\ pc = "closing" => shutdownServer

\* A child before its setsid still holds its terminal, so that its item is
\* not deleted and the kill that would miss it is not sent.
YoungHeld ==
    \A i \in ProcessItems :
        pidOf[i] \in Pids /\ os[pidOf[i]] = "young"
            => slave[i] /\ i \notin marked

RunningHeld ==
    \A p \in Running : \/ \E i \in ProcessItems : pidOf[i] = p
                       \/ ~Up /\ os[p] = "young"

\* A shutdown that is under way skips the branch that starts children.
LeavesLoop == \/ pc \in {"closing", "exited", "aborted"}
              \/ ready = "work" /\ pc \in {"work", "input", "reap", "clean"}
ShutdownHeld ==
    /\ shutdownServer /\ ~terminated => runningItem = NoItem /\ LeavesLoop
    /\ shutdownServer /\ "late" \notin Faults => LeavesLoop

IInv == /\ TypeOK /\ OneItem /\ PidHeld /\ OneChild
        /\ Phases /\ YoungHeld /\ RunningHeld /\ ShutdownHeld

-----------------------------------------------------------------------------
(***************************************************************************)
(* Liveness.  The server takes its steps; a pselect is not interrupted for *)
(* ever (strong fairness: signals may keep coming, but not within every    *)
(* half second); waitpid does not pass over a zombie for ever (the kernel  *)
(* looks at the oldest child first); time passes; a new process gets to    *)
(* its setsid; a deadly signal that is not blocked kills.  Nothing is      *)
(* assumed of clients, of the child's output, or of a child left alone.    *)
(***************************************************************************)
Fairness ==
    /\ WF_vars(Server)
    /\ SF_vars(SelectReady \/ SelectTimeout)
    /\ WF_vars(Tick)
    /\ \A p \in Pids : /\ SF_vars(ReapChild(p))
                       /\ WF_vars(ChildLeads(p)) /\ WF_vars(ChildKilled(p))

LiveSpec == Spec /\ Fairness

\* No client has anything for the server to read.
Quiet == /\ \A port \in Ports : Backlog(port) = {}
         /\ \A c \in Clients : inbox[c] = <<>> /\ peer[c] # "closed"
Silent == Quiet /\ \A i \in ProcessItems : ~out[i]

\* A dead child is waited for as long as the server runs, whatever the
\* clients do: both branches of the loop call waitpid.
Reaped == \A p \in Pids : os[p] = "zombie" /\ Up ~> os[p] # "zombie" \/ ~Up

\* A shutdown that has begun is completed.
ShutdownEnds == shutdownServer ~> ~Up

\* After the server is gone none of its children stays.
NoOrphan == pc = "exited" ~> \A p \in Pids : os[p] \notin {"young", "alive"}

\* The promise "a new one will be restarted shortly" is kept, until a user
\* toggles the mode or the server goes.
Respawned == farewell = "restart" ~> farewell # "restart"

\* ... once the clients let the pselect time out.
RespawnedWhenQuiet == <>[]Quiet => Respawned

\* In oneshot mode the loss of the one child ends the server.
OneshotEnds ==
    <>[]Quiet => (farewell = "oneshot" /\ ~firstRun
                    ~> ~Up \/ restartMode # "oneshot")

\* SIGTERM ends the server, once its descriptors let the signal in.
TermHeeded == <>[]Silent => ("TERM" \in sigPending ~> ~Up)

\* A kill signal that reached the child's process group ends the child, and
\* its item goes with it: so far the next start, or the end of a one-shot
\* server, has to wait for kernel, waitpid and the deletion of the item.
KillKills ==
    \A p \in Pids :
        KillSig \in pend[p]
            ~> \/ ~Up
               \/ os[p] # "alive" /\ \A i \in ProcessItems : pidOf[i] # p
=============================================================================
