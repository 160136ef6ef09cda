# procServ in TLA+

procServ is a small daemon that runs one child process behind a pseudo terminal, lets any number of
telnet clients share that terminal, writes a log, and starts the child again when it dies. This
directory models it in TLA+, checks the models with TLC on small instances, and proves the main
safety properties with TLAPS for every value of the constants.

All line numbers are those of this commit of the repository.

## 1. Inventory

| component | source | state it keeps | operations |
|---|---|---|---|
| main loop | `procServ.cc:597-702`, `709-867` | `shutdownServer`, `restartMode`, `firstRun`, `waitForManualStart`, the three signal flags, the list `connectionItem::head` | `pselect`, signal handling, the pass over ready connections, `OnPollTimeout` (one `waitpid`, deletion), restart decision, `SendToAll`, `AddConnection`, `DeleteConnection` |
| process item | `processFactory.cc`, `processClass.h` | `_runningItem`, `_restartTime`, `_pid`, `_fd`, `_markedForDeletion` | constructor (`forkpty`), destructor (goodbye, `kill`), `readFromFd`, `Send`, `processFactorySendSignal`, `restartOnce` |
| console client | `clientFactory.cc` | `_fd`, `_readonly`, `_markedForDeletion`, telnet state, `_users`, `_loggers` | accept (greeting, negotiation), `readFromFd`, `processInput` (commands), `Send`, `writeToFd`, destructor |
| listener | `acceptFactory.cc` | `_fd`, address, UNIX socket path | `remakeConnection` (socket, bind, listen), `readFromFd` (accept, or remake on error), destructor (unlink) |
| log file and time stamps | `procServ.cc:725-751`, `915-933`, `clientFactory.cc:258-280` | `logFileFD`, `log_stamp_sent` (one for the file, one per client) | `openLogFile` at start and on SIGHUP, stamping |
| daemon files | `procServ.cc:80-100`, `870-945`, `694-699` | PID file, info file, `PROCSERV_INFO` | `forkAndGo`, `writePidFile`, `writeInfoFile`, unlink at the end |
| input filter | `processFactory.cc:245-275`, `procServ.cc:430-438` | `ignChars` | drop ignored characters |
| telnet codec | `libtelnet.c`, `libtelnet.h` (vendored) | parser state, RFC 1143 queue per option | `telnet_recv`, `telnet_send`, `telnet_negotiate` |
| options | `procServ.cc:102-200`, `205-478` | the globals of `procServ.cc:49-90` | `getopt_long` loop |
| systemd utilities | `procServUtils/*.py` | `.conf` sections, unit files, systemd's view of them | `add`, `remove`, `start`, `stop`, `status`, `attach`, `write-procs-cf`, launcher, generator |
| portability | `forkpty.c`, Cygwin job objects in `processFactory.cc` | - | - |
| build and packaging | `Makefile.am`, `configure.ac`, `debian/`, `procServ.spec` | - | - |

**How they interact.** The server is one thread and everything it does hangs on `pselect` with a
timeout of half a second. Listeners, clients and the process item are entries of one linked list; an
entry whose descriptor is ready gets its `readFromFd` called. What an entry reads it hands to
`SendToAll`, which writes to the others: clients to the process, the process to the clients and the
log. A failed write only *marks* an entry; marked entries are deleted by `OnPollTimeout`, after one
`waitpid`. The destructor of the process item kills the child's process group, says goodbye to the
clients and clears `_runningItem`; only then can a new child be made, and only when `pselect` has
timed out. Signal handlers set flags that are looked at once after each `pselect`; the signals are
blocked everywhere else.

**What is hard.** Not data races: the server has one thread. The difficulty is in what the *world*
does between two steps of the loop: a child that dies before, after or without its terminal closing;
a process group that outlives its leader; a child that is killed before it has become a group leader;
process ids that the kernel may give away as soon as `waitpid` returned; clients that vanish while
they are written to; signals that arrive in any of these places; a `forkpty` that fails. And in what
the loop only does in *one* of its branches: starting the child (timeout only), handling signals
(after `pselect`, not necessarily in the same call as ready descriptors).

**What makes each part correct.**

* main loop and process item: never two items; `_runningItem` never dangles; the process id that a
  command or SIGTERM signals still belongs to the child; at most one child that has not been
  condemned; a lost child is waited for, and replaced according to mode, hold-off and manual wait; the
  loop is left only when a user, SIGTERM or one-shot mode says so; shutdown completes and leaves no child.
* clients: a client that is gone is not written to and is deleted; commands act on the child that is there.
* listeners: every endpoint stays reachable while the server is up; nobody else's socket is removed.
* log: what the child wrote appears once, stamped once per line however the output was cut into reads.
* daemon files: the PID file names the running daemon as soon as the foreground command has returned.
* utilities: after `add`, unit files and configuration agree; `remove` leaves nothing; each can be
  repeated after it failed half way.

`PROJECT.json` lists every hazard of these kinds, at its line, with the properties that cover it.

## 2. Modules

| module | what it is |
|---|---|
| `Supervisor` | abstract specification: what procServ promises about starting and stopping its child |
| `ProcServ` | the main loop, the process item, the clients' commands and the world around them |
| `ConnectionList` | the linked list of connections, pointer by pointer, and the loops that walk along it |
| `PtyFlow` | the terminal between server and child: input filter, kill command, blocking writes |
| `Endpoint` | listening sockets, their address, and the descriptors children inherit |
| `LogStamp` | time stamps in the log file and for log clients |
| `TelnetNegotiate` | the negotiation of telnet options (RFC 1143), message by message |
| `TelnetSession` | a console connection byte by byte: the parser of `libtelnet.c`, reads cut anywhere, writes; implements `TelnetNegotiate` |
| `DaemonFiles` | becoming a daemon: PID file, info file, descriptors, several uses of the command |
| `MCProcServ`, `MCConnectionList`, `MCPtyFlow`, `MCEndpoint`, `MCLogStamp`, `MCTelnetSession`, `MCDaemonFiles` | the modules for TLC, with symmetry sets where they are used |
| `ProcServProofs`, `ConnectionListProofs`, `EndpointProofs`, `TelnetNegotiateProofs`, `DaemonFilesProofs`, `LogStampProofs`, `PtyFlowProofs`, `TelnetSessionProofs` | theorems and their proofs |

`ProcServ` is the centre. The others look closer at what it takes for granted: that the list of
connections is a set (`ConnectionList`), that a write to the pty returns (`PtyFlow`), that ports stay
open and closed connections are closed (`Endpoint`), that output reaches the log (`LogStamp`), that
characters typed are characters received (`TelnetSession`), that there is one server
(`DaemonFiles`). They have no variables in common with it, so they are not composed by conjunction: each replaces one of its
assumptions by a property that is checked.

### ProcServ

The program counter `pc` stands at the places of the loop between which the world may move; everything
the code does between two of them is one action. That includes calls: `ReapChild` is `waitpid`, the
marking of the item and the message to all clients; `CleanUp` is the whole deletion pass with the
destructors it runs.

| action | code |
|---|---|
| `SelectReady`, `SelectTimeout`, `SelectIntr` | `pselect` with its three results, then the signal flags (`procServ.cc:609-645`). Linux reports ready descriptors before it looks at signals, other systems the other way round: both are allowed |
| `Accept`, `ReadProcess`, `ReadEof`, `ReadLogger`, `ReadUser`, `ProbeBadFd`, `WorkDone` | the pass over ready connections (`:674-682`) and the `readFromFd` of each class |
| `CmdRestart`, `CmdKill`, `CmdQuit`, `CmdLogout`, `CmdToggle`, `CmdText`, `ForwardInput` | `processInput`, one action per character, then the write to the pty (`clientFactory.cc:201-245`, `processFactory.cc:245-275`) |
| `ReapChild`, `ReapNothing`, `CleanUp` | `OnPollTimeout` (`procServ.cc:772-818`) with `~processClass`, `~clientItem` |
| `StartChild`, `StartFails`, `OneshotExit`, `NoRestart` | the timeout branch (`:652-669`), `processFactory` and the constructor |
| `CloseAll` | after the loop (`:684-701`) |
| `Tick`, `Child...`, `PidTaken`, `StrangerLeaves`, `Client...`, `SignalArrives` | the world: time, the child and its process group, owners of a reused process id, telnet peers, signals |

State: `conns` is the list without the listeners, `marked` the entries with `_markedForDeletion`,
`pidOf` each item's `_pid`, `hold` the time until `_restartTime`, `restartArmed` whether
`_restartTime` is non-zero (that is what `norestart` remembers). `os` is the kernel's view of each
process id: free, young (forked, before `setsid`), alive, zombie, or a stranger, which is a process of
somebody else that got the number after `waitpid` had freed it. `pend` holds the signals sent to it.
`terminated` and `farewell` are history variables.

What is abstracted, and why it is sound for these properties:

* The list is a set and the pass may visit ready connections in any order. New entries go to the head
  and never move, so the code's order is one of those.
* Ports are separate from `conns`: listeners are never deleted before `CloseAll`.
* A client's write may fail at any time (`Broadcast`): peer gone, or ten seconds of `SO_SNDTIMEO`. One
  `SIGPIPE` may become pending with it.
* Writes to the pty are assumed to return (see `PtyFlow`).
* The log file that SIGHUP reopens (`LogStamp`, `DaemonFiles`), telnet (`TelnetSession`), the exit
  status, greeting texts and counters are left out; they do not influence the state modelled here.
* What the child inherits for its signals is `BlockedMask` (`procServ.cc:479-494`) and `IgnoredSignals`
  (`:502-509`), of which SIGINT and SIGQUIT only with `-f` (`InFgMode`): a signal of either kind does not
  end it.
* Faults of the platform are a constant: `fork` may fail, FD_ISSET may be fortified, a C library
  that emulates `pselect` may run handlers in a call that then times out, and the kernel may give a
  process id away as soon as `waitpid` has freed it.

### Supervisor

Six variables: is the server up, is there a child, the mode, the standing order, the one-shot
allowance, the rest time. It says in a few short actions what the loop must do in several hundred. The
refinement mapping is `Promise` in `ProcServ`.

### ConnectionList

`next`, `prev`, `head`, `connectionNo` are the code's; `heap` is the set of objects that exist, `list`
an auxiliary variable that says what the pointers should mean. `next` and `prev` start with arbitrary
values, because the constructor of `connectionItem` does not set them. `AddConnection` and
`DeleteConnection` are used by the actions that call them: `AddListener` at the start, `VisitAccept`
in the middle of the pass, `CleanDelete` in the middle of the deletion loop (the successor is read
before the deletion, and the destructor may mark others), `Spawn` after a timeout. `CloseHead` is the
closing loop, which does not keep `prev` and the counter right; nothing reads them any more.

### PtyFlow

One child's terminal holds `InCap` characters for the child and `OutCap` for the server. `Poll` is
`pselect`, `TakeInput` and `TakeOutput` are the `readFromFd` of a client and of the process item in the
pass over what was ready, `PassDone` its end and `Reap` the part of `OnPollTimeout` that deletes the
item of a child that is dead (`listed`). `TakeInput` includes `processInput` and the copy that
`processClass::Send` makes; `WriteSome` and `WriteReturns` are the progress of the blocking `write`.
While the server is in it (`pc = "write"`) nothing else of it happens. `Without` is the loop that drops
ignored characters. Characters are `a`, `b`, a NUL and the kill command. The signal of the kill
command is taken to end the child here; what may go wrong with that is in `ProcServ`. The child's
output is numbered, a read gives any part of it, and `SendToAll` appends that to what each user has
`heard`: so lost, doubled and exchanged output can be told apart. What a dead child has left in its
terminal is lost with the item, since there is one read per pass.

### Endpoint

A server's `fd` is the listening socket of its `acceptItem`; `holders` says which processes have a
socket open, `connHeld` the same of accepted connections. `Fork` copies both to the child, because
no socket is marked close-on-exec (only the log file is). `family` is `path` for a UNIX socket, which is unlinked before it is
bound and when it is destroyed, and `name` for a TCP port or abstract name, which can only be bound
while nobody listens at it. `AcceptFails` is the error branch of `acceptItem::readFromFd`: it
overwrites `_fd`, the old socket stays open; on a port the new bind fails and the exception ends the
server. Two servers may be given the same endpoint. Only safety is asked of this module: that a client
in the queue of a listener is accepted would be no more than the fairness of the loop.

### LogStamp

`Writes` is the loop over a message that `SendToAll` and `clientItem::Send` both have, with its
variables `i` and `j` and the flag. `Expected` is the reference: a stamp in front of each character
that begins a line. `begun` says whether a file was opened in the middle of a line. The greeting that a
client gets is not part of what is stamped.

### TelnetNegotiate and TelnetSession

`TelnetNegotiate` is the abstract specification. A *link* is a side of an option, `q` what
`_get_rfc1143` returns for it, `Enabled` and `Disabled` are `_negotiate` for the words that mean yes
(WILL, DO) and no (WONT, DONT); the cases of the two sides are mirror images but for one missing DO
(`libtelnet.c:441`). `Opening` is the constructor of `clientItem`, which asks for everything in
`my_telopts`. The client is external: it answers by the rules of the RFC, may refuse what it is
offered, and asks for changes whenever nothing is outstanding. The words of each link travel in
channels of their own. What a log client says is read and thrown away, answers included.

`TelnetSession` is the code: `socket` holds the bytes that the client has written, `Read` takes any
number of them into the buffer of one `_process` call, `InData`, `InIac`, ... are one turn of its loop
each, in the state of that name, with the variables `i` and `start` that decide what is passed on.
`ProcessInput` is the data event; `owedInput` says what the client has typed and nobody has seen,
`strayInput` collects what was passed on and never typed. The refinement mapping reads the words back
out of the bytes on their way, the half-read buffer and the parser's state included (`Unread`):
`WordsAbout` counts from the front, and a byte is a command if the bytes IAC in front of it are odd in
number. `Bytes` are those that may occur, in the runs thirteen. A byte
is named for its meaning; a text may hold the bytes called `IAC` or `SE`, as UTF-8 or a binary file does.
`SendOutput` is the child's output between two calls of `telnet_recv`, or a message to all clients from
a `processInput` in the middle of one (`InProcessInput`).
`TELNET_FLAG_PROXY`, line-end translation and compression are not used by procServ.

### DaemonFiles

A *launch* is one use of the same command line. `command` is the process that was called, `server` the
one that serves: the forked daemon, or the same process with `-f`. Files are names for inodes, so that
the command can write into a file that the daemon has already unlinked. `OpenPid` and `WritePid` are
two steps because a program that looks, or a crash, can come between the creation of a file and its
text. `fds` is the descriptor table with the kernel's rule of the lowest free number, since
`forkAndGo` relies on it: it closes 0 to 2 and calls `dup` three times (`procServ.cc:905-906`).
`OpenLogFile` is SIGHUP, and `toOutput` a log file called "-", which is descriptor 1. Writing, closing
and unlinking may fail, and nobody looks at their results. History variables say which launches had
company (`overlapped`), which could not open or write a file (`without`) or not remove it (`stuck`), and
which daemons were faster than the command that writes their PID file (`overtaken`).

## 3. Runs

`TLC -config X.cfg M` with the module `PROJECT.json` names. Runs with liveness use no symmetry; `console`, `faults`, `list` and `files` do.

| run | question | result |
|---|---|---|
| `console` | do kill, quit and toggle, typed at any time, spare the child and implement `Supervisor`? | yes |
| `faults` | with failed forks, fortified builds, late handlers, reused process ids, a log client and SIGTERM: is there one item? | yes |
| `children` | two pids and items overlap, forks fail, handlers run late, ids are reused: no stale pid, at most one uncondemned child, every zombie waited for, SIGTERM heeded, no orphan, one-shot ended? | yes |
| `respawn` | with a client, SIGTERM and late handlers: is a lost child restarted once clients are quiet, does a kill signal take child and item down, does a shutdown complete? | yes |
| `list` | do the pointers stay a list, does no loop stand on a freed object, has every ready connection its turn? | yes |
| `pty` | if the child reads whatever else it does: is input delivered and filtered, does its output reach every client whole and in order, do writes end, is kill heeded? | yes |
| `endpoint` | is a server that is up reachable, do dropped clients know it, is the address free afterwards? | yes |
| `logstamp` | is there a stamp in front of every line and nowhere else, however the output is cut? | yes |
| `telnet` | is text intact in both directions however reads are cut, does the parser implement `TelnetNegotiate`, does the negotiation end in agreement? | yes |
| `files` | with files that cannot be opened, written or removed: does the PID file name the daemon when the command returns, do the files go when it ends, do listener and log file survive the redirection? | yes |
| `init_signalled` | is a signal for the child never sent to process 1? | **no**, after a failed fork |
| `killsig_blocked` | does the kill command end the child with `--killsig 15`? | **no**, the child inherits a mask that blocks it |

**Bounds.** `ProcServ`: one user (and one logger in `faults`): commands of two users interleave only between
visits, and a second user adds no kind of step; `MaxInput` is 2 where pairs of commands in one buffer
matter (kill then quit, toggle twice) and 1 elsewhere. Two items let a new object follow one that is
still being deleted; two pids let an old child, or what is left of it, live beside the new one.
`HoldoffTime` 1 distinguishes rest from no rest (`faults` has none). `children` has no clients, since
what it asks is between child, kernel and loop, and `respawn` looks at shutdown with a client, begun by
quit, by SIGTERM or by both. `respawn` has SIGINT for its kill signal, which a daemon's child does not
inherit as ignored. The
properties that are proved do not depend on these bounds at all. `ConnectionList`: three addresses, so
that an object can be first, in the middle and last, and a freed address be used again. `PtyFlow`: a
capacity of one and three characters are enough for a write to block, for two clients to compete and
for a kill to come behind other text; two characters of output in a terminal that holds both can be
read at once, one by one, or in part, and get into the wrong order. `Endpoint`: three sockets, so that a server can crash, be
started again and be displaced by a second one; two children, so that one can have left its group when
the next is made; two clients, one served and one waiting. `LogStamp`: five characters in pieces of at
most three, so that a line can begin, go on and end in different pieces and around a change of file.
`TelnetSession`: the two options of `my_telopts`, one on each side, whose other sides must be refused;
a subnegotiation buffer of one byte instead of 16384, so that it overflows; inputs that look like
commands, fit the buffer, overflow it, or are broken off by a command; two units or requests of the
client or texts of the server in all, beside the opening negotiation and all answers: one request can
cross the opening and another follow, or come between text in both directions. Every piece of the
bytes under way is a possible read. `DaemonFiles`: two launches, so that one can be a predecessor that
left its files, or overlap the other; descriptors 0 to 8, of which at most six are needed; any open, write and unlink may fail.

**Fairness.** `ProcServ`: the server takes its steps (one thread, no blocking call but
`pselect`). `pselect` returns without EINTR again and again (strong fairness: it would take a signal
in every half second for ever to prevent it). `waitpid(-1)` does not overlook a zombie for ever (the
kernel walks the children in order). Time passes. A new process gets to its `setsid`. A signal that
the child has neither blocked nor ignored kills it; what `KillKills` asks beyond that is the server's
part: the zombie waited for, the item gone, through an interrupted or late `pselect` and a shutdown in
progress. Nothing is assumed of clients, of the child or of its output: where silence is needed the
property says so (`<>[]Quiet => ...`). `PtyFlow`: weak fairness of the server
as a whole, one thread that only the write to the terminal can block, and of nothing in particular that
it does: what comes when is modelled by the pass. The child reads what is there, unless (`Reader`) it only
does so between its own writes, and its own write returns when there is room. Without the former the kill
command is not heeded either: a child that has stopped reading blocks the server. `TelnetSession`: the server
reads and processes what there is, since a socket that stays ready is visited in every pass, and the
client reads too; nobody need write anything of its own accord.

**Mutants.** Every property of a passing run comes with a faulty variant of a definition (`...Bug`)
that it catches: the restart that forgets to ask for the running item, the waitpid that is skipped,
the destructor that does not kill, and so on. They show that the properties can fail.

## 4. Findings

The two violation runs are disagreements between the code and its documentation, with the quoted
lines in `PROJECT.json` under `findings`: `kill(-_pid)` with `_pid == -1`
(`processFactory.cc:284`, the destructor has the check at `:117`), and the signal mask the child
inherits (`procServ.cc:494`).

More configurations are kept beside them; each ends in a counterexample:

| configuration | module, property | what it shows |
|---|---|---|
| `farewell.cfg` | `MCProcServ`, `FarewellKept` | the destructor says "oneshot mode: server will exit" (`processFactory.cc:106`) whatever `firstRun` is; after a toggle (`clientFactory.cc:227`) the child is started once more. `procServ.md:221`: "Once the child process exits, also exit the server" |
| `pty_deadlock.cfg` | `MCPtyFlow`, `KillHeeded` | the write to the pty blocks (`processFactory.cc:269`); a child that is itself blocked writing does not read: both wait, and the kill command is not looked at any more |
| `fork_abort.cfg` | `MCProcServ`, `Survives` | after a failed fork the pass calls `FD_ISSET(-1)` (`procServ.cc:678`; the set-up loop has the check at `:614`), which aborts a fortified build |
| `killsig_ignored.cfg` | `MCProcServ`, `KillKills` | with `-f` SIGINT and SIGQUIT are set to be ignored (`procServ.cc:506-509`), which a program that is executed inherits: `--killsig 2` does not end the child |
| `stranger.cfg` | `MCProcServ`, `StrangersSpared` | the destructor kills the group of `_pid` (`processFactory.cc:117`) after `waitpid` (`procServ.cc:780`) has freed it and after messages to clients that may block for ten seconds; if the kernel has given the number to somebody else's group leader, that group is killed. `PidHeld` says that this is the only such place |
| `starved.cfg` | `MCProcServ`, `Respawned` | the child is only restarted when `pselect` times out (`procServ.cc:654`), so that steady traffic postpones it for ever. This is why `RespawnedWhenQuiet` asks for quiet clients |
| `pty_lastwords.cfg` | `MCPtyFlow`, `LastWordsHeard` | a child that has died is waited for and its item deleted after one more read at most (`processFactory.cc:231`): what is left in the terminal is not sent to anybody |
| `pty_nul.cfg` | `MCPtyFlow`, `Delivered` | with no ignored character at all `strncpy` (`processFactory.cc:263`) stops at a NUL, and what follows it in the read is lost |
| `telnet_mccp.cfg` | `MCTelnetSession`, `InputIntact` | `libtelnet.c:1093-1097` says that the old compression sequence IAC SB 85 WILL SE is discarded; if a read ends before the SE, the SE is passed on as input |
| `telnet_cut.cfg` | `MCTelnetSession`, `OutputIntact` | a write that `SO_SNDTIMEO` ends half way (`clientFactory.cc:286`) can leave half an escaped byte or a command, and the client takes the next text for its rest |
| `endpoint_abandoned.cfg` | `MCEndpoint`, `NoneAbandoned` | after a failed accept on a UNIX path the server listens at a new socket and keeps the old one open (`acceptFactory.cc:398`): clients that wait there are neither accepted nor disconnected |
| `files_stale.cfg` | `MCDaemonFiles`, `NothingStale` | a daemon that ends before the command has written the PID file on its behalf (`procServ.cc:898`) leaves a stale one |
| `files_stolen.cfg` | `MCDaemonFiles`, `ExclusiveAnnounced` | an ending server closes its sockets (`procServ.cc:688`) before it unlinks the files (`:696`); a successor may have taken the address and written them in between, and runs without |
| `files_noinput.cfg` | `MCDaemonFiles`, `DescriptorsKept` | called with standard input closed the listener gets descriptor 0, which the redirection closes (`procServ.cc:905`): a daemon that nobody can reach |
| `files_stdout.cfg` | `MCDaemonFiles`, `LogsToStdout` | a log file "-" "logs to stdout" (`procServ.cc:184`); in a daemon descriptor 1 is `/dev/null` after the redirection |

What `Endpoint` says between the lines: a failed accept on a TCP port ends the server
(`acceptFactory.cc:398`); and of two servers on one path the first to stop unlinks the path of the
other (`:334`), which is why `NeverDeaf` excepts servers that are `displaced`.

## 5. Proofs

### ProcServProofs

The theorems hold for all values of the constants that satisfy
`ConstantsAssumption` and `DisjointAssumption` (names of different kinds differ, the bounds are
numbers); nothing else is assumed.

The properties are not inductive as they stand. `IInv` adds to them
* `Phases`: what is known of the pass over the connections while it is under way. Without it a reader
  could be a deleted client, and an item could be marked that has neither output nor a closed terminal;
* `YoungHeld`: a child that is not yet a group leader still holds its terminal, so its item is neither
  marked nor deleted and no kill is sent that would miss it. This is what `OneChild` needs: the
  destructor's `kill(-pid)` reaches the child because it can only run once the child has led;
* `RunningHeld`: an uncondemned child belongs to the item in the list;
* `ShutdownHeld`: once `shutdownServer` is set, the branch that starts children is not reached.

`Inductive` proves `Init => IInv` and `IInv /\ [Next]_vars => IInv'`, one lemma per group of actions;
`TypeCorrect`, `SingleItem`, `PidNeverStale`, `SingleChild` and `QuitSparesChild` follow.
`Refinement` proves that initial states map to initial states of `Supervisor` and every step to a step
or a stutter. It assumes `Plain`: no late handlers (with them SIGTERM and the start of a child can fall
into the same iteration, and the Supervisor does not start a child while it stops) and no fortified
abort (the Supervisor never goes down on its own).

### ConnectionListProofs

For any set of addresses, from `NullAssumption` alone. The inductive invariant is `TypeOK`, `Linked`,
`Counted` and `Progress`: the loop variable stands at some place `k` of the list, and what the loop has
still to deal with is exactly (pass) or at most (deletion) what is ahead of `k`. An insertion moves
`k` up by one, a deletion at the cursor leaves it. `NeverDangling` and `EveryPassServes` follow from
`Progress` and the fact that the list has no repetitions. Lemmas on `<<n>> \o s`, `Tail` and `Without`
carry the sequence reasoning. `TypeCorrect` states the first part by itself.

### EndpointProofs

For any sets of servers, children and clients and any number of sockets, from `EndpointAssumption`.
`NeverDeaf`, `StopReleases` and `Restartable` are consequences of an invariant about who holds which
socket: `Listening` (a server has its listening socket open exactly while it is up), `Fresh` (a socket
that has not been made is open nowhere), `Single` (a port has one socket at most), `Current` (the path
leads to the last server that came up), `Grouped` (a child without a server is a stray or has ended)
and `Removed` (only a crash leaves a path behind). `Grouped` is what `StopReleases` needs: the
destructor's kill reaches whatever stayed in the group. `DropReaches` is inductive with them.

### TelnetNegotiateProofs

For any options and any table `my_telopts`. The inductive invariant lists, for each link, the joint
situations of the server's state, its word under way, the client's state and the client's words under
way: a dozen rows (`Row`), closed under every step. `Agreement` reads off the rows without words;
`QueueFree` sees that no row has a queued change of mind, and never two words of the server;
`SupportedOnly` also looks at log clients, whose answers nobody reads.

### DaemonFilesProofs

For any set of launches, from `DaemonAssumption`. `Announced` and `CleanedUp` need to know that a
launch which was alone all the time is the latest and the others are over (`Alone`), and what stands
behind each name while the files are written (`Paired`, `PidFile`, `InfoFile`); a write or a removal that
fails is in `without` or `stuck`. `DescriptorsKept` and
the type of the descriptor table are proved for callers that have all of 0 to 2 open (`FullStd`;
without it `files_noinput.cfg` is a counterexample): the invariant gives the whole table (`Layout`),
from which each `open` and `dup` gets its number by the lemma `Lowest`.

### LogStampProofs

For any log clients, messages and bounds, from `LogAssumption` and `FileAssumption`. Two facts are about
the operators. `WritesExpected`: the loop over a message, with its indices and its flag, writes the
stamped form of that message. `ExpectedConcat`: the stamped form of two texts is that of the first and
that of the second, where the end of the first says whether the second begins in a line. The inductive
invariant then says of every reader that what was written is the stamped form of what was said *and* that
the flag tells whether it ends in the middle of a line. For the file the flag is tied to the server's
own output (`inLine`), which outlives a change of file. `FileCorrect` and `LoggersCorrect` state
`FileStamped` and `LoggersStamped`.

### PtyFlowProofs

For any users, characters and sizes of the terminal, from `FlowAssumption`. The invariant `SInv` says
besides the types that nothing waits to be written outside of a write, that an item which is gone had a
dead child, and that ignored characters are nowhere past the filter. `WithoutClean`,
`WithoutConcat` and `WithoutNothing` say that the filter leaves nothing it should drop, may be applied
piece by piece, and leaves the rest alone. `ShieldCorrect` (`Shielded`) needs no more. `DeliveryCorrect`
(`Delivered`) adds `Delivered` itself and has the premise that `ignChars` is set or no client types a NUL: without it `strncpy`
cuts the text at the first NUL, and `pty_nul.cfg` (section 4) shows text that is lost.

### TelnetSessionProofs

For any bytes, options, size of buffer and length of text, from the three assumptions on the
constants. The theorems say of clients what they may send of their own accord: `Inputs` is a subset of
`Units`, which are texts, commands that ask for nothing, and subnegotiations that are `WellFormed`.
Left out are the old use of option 85 (section 4, `telnet_mccp.cfg`), commands with an option inside of
an unfinished subnegotiation, and variables of an environment that end in another command than SE. Answers and requests of
the client's negotiation are not restricted. All inputs of the run `telnet` are units. What concerns
the server's own bytes is proved for whole writes (`CutWrites = FALSE`): with a write that timed out
in the middle `telnet_cut.cfg` is a counterexample.

1. *The parser.* `Fed` and `Heard` say what the state machine makes of one byte. `Decodes` is the least
   relation that holds of no bytes and is closed under a byte in front: from `d`, these bytes pass that
   text on and lead to `e`. `UnitDecodes` shows that each unit decodes to its text, however long and
   also when the buffer overflows; `DecodesConcat` puts runs together and `DecodesFirst` takes them apart.
2. *Input.* The invariant `IInv` says that what is still to be read, in the buffer and in the socket,
   decodes to what is owed less what the loop has seen and not passed on (`start` to `i`), and ends
   in the state for text (`Wire`). No piece is cut wrongly because the statement does not mention pieces.
   `Inductive`, `TypeCorrect` and `InputCorrect` (`InputIntact`) follow.
3. *Output.* The same of the other direction (`OutInv`, `OutputCorrect`).
4. *Refinement.* `WordsStep`: reading a byte takes its word, if it ends one, off the front of the words
   about its link and leaves those of other links; `WordsAppend`: writing puts words at the end. They
   connect two readings of the same bytes, by the grammar and by the state machine. One lemma
   `...Maps` per action then gives a step of `TelnetNegotiate` or a stutter, and `Negotiation` states
   `Negotiates`.
5. *Agreement* carries `Agreed` over from `TelnetNegotiateProofs`, which is instantiated with the same mapping.

`Decodes` quantifies over all sets of runs, so `IInv` and `OutInv` cannot be evaluated and no run
checks them as invariants; the run `telnet` checks everything they are there for.

### Induction over data

The library's induction theorems have an operator as parameter and cannot be used. Three modules have
instead a lemma `SetInduction` (a set with 0 that has the successor of each of its numbers has all of them), which
follows from the well-foundedness of `<`. A recursive function is for the prover only *some* function
that satisfies its equation, if there is one: lemmas such as `FormExists`, `LoopExists` and
`CountedExists` show for every length that there is one, so that the equation may be used.

### What is only model-checked

* Liveness, which needs fairness and what is enabled: `Reaped`, `NoOrphan`, `TermHeeded`, `ShutdownEnds`,
  `RespawnedWhenQuiet`, `OneshotEnds`, `KillKills`, `OutputForwarded`, `WriteEnds`, `KillHeeded`
  and `Settles`.
* The violation runs and the counterexamples of section 4.
* Anything outside the premises named above: late handlers and fortified builds in the refinement
  of `Supervisor`, callers without all of the descriptors 0 to 2, NULs typed where no character is ignored, sessions with
  other inputs than units.

## 6. Plan

What is left, in this order.

1. `ProcServ`: `childExitCode`, and the exit status of a server in one-shot mode.
2. `ManageProcs`: `add`, `remove`, `start` of `procServUtils` as sequences of steps that may fail, run
   twice or at the same time; an abstract specification (configuration and unit files agree).
3. `ProcServ` and `DaemonFiles` together: what a service manager sees when the child ends at once in
   one-shot mode.

## 7. Not modelled

* **The utilities** (`procServUtils/*.py`): scripts beside the server that edit a configuration and call
  `systemctl`; what they promise depends on systemd, of which the repository says little.
* **Exit status** (`procServ.cc:798`): one global, written by the last `waitpid`.
* **`PROCSERV_INFO`** (`setEnvVar`) and the contents of the PID and info files but for the process id.
* **Parts of `libtelnet.c`** that procServ never reaches: compression (built without zlib), proxy mode,
  line-end translation, `telnet_printf`, the senders of ZMP, TTYPE and ENVIRON. Its parsers of
  subnegotiations end in events that `telnet_eh` ignores; that one of them returns non-zero, which
  changes how the buffer is gone on with, is modelled (`Subnegotiate`).
* **Foreground mode** (`-f`): the client on descriptor 0 behaves as any client that connects at the
  start. That SIGINT and SIGQUIT are ignored, by server and child, is in `ProcServ` (`InFgMode`), its
  files and descriptors are in `DaemonFiles`.
* **Wall-clock jumps**: `_restartTime` is compared with `time(0)`; a step of the clock lengthens or
  shortens the hold-off. `hold` models time that only passes.
* **`FD_SETSIZE`**: descriptors are not compared with it (`procServ.cc:616`); the models have few.
* **Option parsing, greeting texts, packaging, Cygwin job objects, the `forkpty` of Solaris**: no
  behaviour over time.
