------------------------------- MODULE Endpoint -------------------------------
(***************************************************************************)
(* A control endpoint and the servers that use it, one after the other or  *)
(* at the same time: listening sockets, the address they are bound to, the *)
(* clients that connect to it, and the descriptors a child inherits        *)
(* (acceptFactory.cc, the destructors in clientFactory.cc, the end of      *)
(* main).  No socket is closed on exec, so that whatever a server has      *)
(* open when it makes a child stays open until the child ends, too.        *)
(*                                                                         *)
(* A definition named ...Bug is a faulty variant of the one it precedes.   *)
(***************************************************************************)
EXTENDS Naturals

CONSTANTS
    Servers,    \* server processes that are given this endpoint
    Children,   \* processes they may make
    Clients,
    Nobody,     \* no process
    MaxSockets  \* bound: listening sockets made in all

ASSUME EndpointAssumption ==
    /\ Servers \cap Children = {} /\ Nobody \notin Servers \cup Children
    /\ MaxSockets \in Nat

VARIABLES
    family,    \* of the address: "path" of a UNIX socket, or "name", which
               \* only one socket can be bound to (TCP port, abstract name)
    phase,     \* of each server: "stopped", "up" or "crashed"
    fd,        \* the listening socket in each server's acceptItem, 0 if none
    made,      \* listening sockets made so far
    holders,   \* the processes that have each listening socket open
    path,      \* the socket the path in the file system leads to, 0 if none
    parent,    \* the server in whose child's process group a child is
    strays,    \* children outside such a group
    conn,      \* what each client sees of its connection
    queuedAt,  \* the listening socket where it waits to be accepted
    connHeld,  \* the processes that have the accepted connection open
    displaced, \* history: servers whose UNIX path another one has unlinked
    lost       \* history: clients whose server crashed

listenVars == <<phase, fd, made, holders, path, displaced>>
childVars == <<parent, strays>>
connVars == <<conn, queuedAt, connHeld, lost>>
vars == <<family, listenVars, childVars, connVars>>

Procs == Servers \cup Children
Sockets == 1..MaxSockets

TypeOK ==
    /\ family \in {"name", "path"}
    /\ phase \in [Servers -> {"stopped", "up", "crashed"}]
    /\ made \in 0..MaxSockets
    /\ fd \in [Servers -> 0..made] /\ path \in 0..made
    /\ holders \in [Sockets -> SUBSET Procs]
    /\ parent \in [Children -> Servers \cup {Nobody}]
    /\ strays \subseteq {ch \in Children : parent[ch] = Nobody}
    /\ conn \in [Clients -> {"idle", "queued", "open", "closed"}]
    /\ queuedAt \in [Clients -> 0..made]
    /\ connHeld \in [Clients -> SUBSET Procs]
    /\ displaced \subseteq Servers /\ lost \subseteq Clients

Init ==
    /\ family \in {"name", "path"}
    /\ phase = [s \in Servers |-> "stopped"]
    /\ fd = [s \in Servers |-> 0]
    /\ made = 0 /\ path = 0
    /\ holders = [k \in Sockets |-> {}]
    /\ parent = [ch \in Children |-> Nobody] /\ strays = {}
    /\ conn = [c \in Clients |-> "idle"]
    /\ queuedAt = [c \in Clients |-> 0]
    /\ connHeld = [c \in Clients |-> {}]
    /\ displaced = {} /\ lost = {}

-----------------------------------------------------------------------------
Up(s) == phase[s] = "up"

\* The sockets a connect to the address may end at.
Reaches ==
    {k \in Sockets : holders[k] # {} /\ (family = "path" => k = path)}

\* Servers that lose their UNIX path when s unlinks it.
Displaces(s) == IF family = "path" THEN {t \in Servers \ {s} : Up(t)} ELSE {}

\* Processes procs end or close everything they have open here.
Close(procs) ==
    /\ holders' = [k \in Sockets |-> holders[k] \ procs]
    /\ connHeld' = [c \in Clients |-> connHeld[c] \ procs]

\* A client is disconnected when nobody has its end open any more.
Disconnected(c) ==
    \/ conn[c] = "queued" /\ holders'[queuedAt[c]] = {}
    \/ conn[c] = "open" /\ connHeld'[c] = {}

Hangup(down) ==
    conn' = [c \in Clients |-> IF Disconnected(c) \/ c \in down
                               THEN "closed" ELSE conn[c]]

\* Faulty: the path is not unlinked, and bind fails if it exists.
BindableBug ==
    IF family = "path" THEN path = 0 ELSE \A k \in Sockets : holders[k] = {}

(***************************************************************************)
(* remakeConnection: unlink the path, make a socket, bind it, listen.      *)
(* A port or an abstract name that somebody listens at cannot be bound.    *)
(***************************************************************************)
Bindable == family = "path" \/ \A k \in Sockets : holders[k] = {}

RemakeConnection(s) ==
    /\ made < MaxSockets /\ made' = made + 1
    /\ Bindable
    /\ holders' = [holders EXCEPT ![made + 1] = {s}]
    /\ fd' = [fd EXCEPT ![s] = made + 1]
    /\ path' = IF family = "path" THEN made + 1 ELSE path
    /\ displaced' = (displaced \ {s}) \cup Displaces(s)

\* The constructor of the acceptItem; with an exception main exits.
Start(s) ==
    /\ ~Up(s)
    /\ RemakeConnection(s)
    /\ phase' = [phase EXCEPT ![s] = "up"]
    /\ UNCHANGED <<family, childVars, connVars>>

\* The process ends without its destructors; its child's group is on its own.
Dies(s) ==
    /\ phase' = [phase EXCEPT ![s] = "crashed"]
    /\ Close({s}) /\ Hangup({})
    /\ strays' = strays \cup {ch \in Children : parent[ch] = s}
    /\ parent' = [ch \in Children |->
                     IF parent[ch] = s THEN Nobody ELSE parent[ch]]
    /\ fd' = [fd EXCEPT ![s] = 0]
    /\ lost' = lost \cup {c \in Clients : s \in connHeld[c]}
    /\ UNCHANGED <<family, made, queuedAt>>

Crash(s) == Up(s) /\ Dies(s) /\ UNCHANGED <<path, displaced>>

Unlink(s) ==
    /\ path' = IF family = "path" THEN 0 ELSE path
    /\ displaced' = displaced \cup Displaces(s)

-----------------------------------------------------------------------------
Connect(c) ==
    /\ conn[c] = "idle"
    /\ \E k \in Reaches :
          /\ conn' = [conn EXCEPT ![c] = "queued"]
          /\ queuedAt' = [queuedAt EXCEPT ![c] = k]
    /\ UNCHANGED <<family, listenVars, childVars, connHeld, lost>>

Waits(s, c) == Up(s) /\ conn[c] = "queued" /\ queuedAt[c] = fd[s]

\* acceptItem::readFromFd with a connection.
Accept(s, c) ==
    /\ Waits(s, c)
    /\ conn' = [conn EXCEPT ![c] = "open"]
    /\ connHeld' = [connHeld EXCEPT ![c] = {s}]
    /\ UNCHANGED <<family, listenVars, childVars, queuedAt, lost>>

\* Faulty: the exception is caught, and the loop goes on with a socket that
\* is bound to nothing.
AcceptFailsBug(s) ==
    /\ \E c \in Clients : Waits(s, c)
    /\ \/ /\ RemakeConnection(s)
          /\ UNCHANGED <<family, phase, childVars, connVars>>
       \/ /\ ~Bindable /\ made < MaxSockets /\ made' = made + 1
          /\ fd' = [fd EXCEPT ![s] = made + 1]
          /\ UNCHANGED <<family, phase, holders, path, displaced, childVars,
                         connVars>>

(***************************************************************************)
(* accept returns an error (no descriptors left, say).  remakeConnection   *)
(* overwrites _fd, so that the old socket stays open with whoever waits    *)
(* there; nobody catches its exception if it cannot make or bind a socket. *)
(***************************************************************************)
AcceptFails(s) ==
    /\ \E c \in Clients : Waits(s, c)
    /\ \/ /\ RemakeConnection(s)
          /\ UNCHANGED <<family, phase, childVars, connVars>>
       \/ Unlink(s) /\ Dies(s)

\* Faulty: the destructor closes the connection without a shutdown.
DropBug(s, c) ==
    /\ Up(s) /\ s \in connHeld[c]
    /\ connHeld' = [connHeld EXCEPT ![c] = @ \ {s}]
    /\ conn' = [conn EXCEPT ![c] = IF connHeld[c] = {s} THEN "closed" ELSE @]
    /\ UNCHANGED <<family, listenVars, childVars, queuedAt, lost>>

\* ~clientItem after a logout, an end of file or a failed write: shutdown
\* reaches the client though a child may have the connection open.
Drop(s, c) ==
    /\ Up(s) /\ s \in connHeld[c]
    /\ connHeld' = [connHeld EXCEPT ![c] = @ \ {s}]
    /\ conn' = [conn EXCEPT ![c] = "closed"]
    /\ UNCHANGED <<family, listenVars, childVars, queuedAt, lost>>

\* A client that was disconnected comes again, on another connection.
ComesAgain(c) ==
    /\ conn[c] = "closed"
    /\ conn' = [conn EXCEPT ![c] = "idle"]
    /\ connHeld' = [connHeld EXCEPT ![c] = {}]
    /\ lost' = lost \ {c}
    /\ UNCHANGED <<family, listenVars, childVars, queuedAt>>

-----------------------------------------------------------------------------
\* A child gets a copy of every descriptor.
Fork(s, ch) ==
    /\ Up(s) /\ ch \notin strays
    /\ \A other \in Children : parent[other] # s
    /\ parent[ch] = Nobody /\ parent' = [parent EXCEPT ![ch] = s]
    /\ holders' = [k \in Sockets |->
                      IF s \in holders[k] THEN holders[k] \cup {ch}
                                          ELSE holders[k]]
    /\ connHeld' = [c \in Clients |->
                      IF s \in connHeld[c] THEN connHeld[c] \cup {ch}
                                           ELSE connHeld[c]]
    /\ UNCHANGED <<family, phase, fd, made, path, displaced, strays, conn,
                   queuedAt, lost>>

\* Faulty: what leaves the group is killed with it all the same.
StraysBug(ch) ==
    /\ parent[ch] # Nobody
    /\ strays' = strays \cup {ch}
    /\ UNCHANGED <<family, parent, listenVars, connVars>>

\* It, or something it started, leaves the process group.
Strays(ch) ==
    /\ parent[ch] # Nobody /\ parent' = [parent EXCEPT ![ch] = Nobody]
    /\ strays' = strays \cup {ch}
    /\ UNCHANGED <<family, listenVars, connVars>>

ChildEnds(ch) ==
    /\ parent[ch] # Nobody \/ ch \in strays
    /\ parent' = [parent EXCEPT ![ch] = Nobody] /\ strays' = strays \ {ch}
    /\ Close({ch}) /\ Hangup({})
    /\ UNCHANGED <<family, phase, fd, made, path, displaced, queuedAt, lost>>

\* Faulty: the child's process group is left alone.
StopBug(s) ==
    /\ Up(s) /\ phase' = [phase EXCEPT ![s] = "stopped"]
    /\ Close({s}) /\ Hangup({c \in Clients : s \in connHeld[c]})
    /\ Unlink(s) /\ fd' = [fd EXCEPT ![s] = 0]
    /\ UNCHANGED <<family, made, childVars, queuedAt, lost>>

\* The loop that closes everything: clients are shut down, the process item
\* kills its group, the listener unlinks the path, whoever made it.
Stop(s) ==
    LET group == {ch \in Children : parent[ch] = s} IN
    /\ Up(s) /\ phase' = [phase EXCEPT ![s] = "stopped"]
    /\ Close({s} \cup group) /\ Hangup({c \in Clients : s \in connHeld[c]})
    /\ parent' = [ch \in Children |->
                     IF ch \in group THEN Nobody ELSE parent[ch]]
    /\ Unlink(s) /\ fd' = [fd EXCEPT ![s] = 0]
    /\ UNCHANGED <<family, made, strays, queuedAt, lost>>

-----------------------------------------------------------------------------
Next ==
    \/ \E s \in Servers :
          \/ Start(s) \/ Crash(s) \/ Stop(s) \/ AcceptFails(s)
          \/ \E c \in Clients : Accept(s, c) \/ Drop(s, c)
          \/ \E ch \in Children : Fork(s, ch)
    \/ \E c \in Clients : Connect(c) \/ ComesAgain(c)
    \/ \E ch \in Children : Strays(ch) \/ ChildEnds(ch)

Spec == Init /\ [][Next]_vars

-----------------------------------------------------------------------------
\* A server that is up is reached by new clients, whatever failed before,
\* unless another server has unlinked its UNIX path: it is never up but deaf.
NeverDeaf ==
    \A s \in Servers : Up(s) /\ s \notin displaced => Reaches = {fd[s]}

\* A client sees the end of every connection its server has given up, also
\* when a child inherited the connection; only a crash leaves it open.
DropReaches ==
    \A c \in Clients :
        conn[c] = "open" => connHeld[c] \cap Servers # {} \/ c \in lost

\* Servers that stopped in order leave nothing that could keep the address
\* busy, unless some of a child's processes had left its group.
StopReleases ==
    (\A s \in Servers : phase[s] = "stopped") /\ strays = {}
        => path = 0 /\ \A k \in Sockets : holders[k] = {}

\* A server that ended in any way can be started again if neither another
\* server nor a process left over from a child has the address.
Restartable ==
    (\A s \in Servers : ~Up(s)) /\ strays = {} => Bindable

\* Violated (endpoint_abandoned.cfg): who waits to be accepted by a running
\* server waits where it listens.  After a failed accept the server listens
\* elsewhere, with the old socket open: the client is neither accepted nor
\* disconnected.
NoneAbandoned ==
    \A s \in Servers, c \in Clients :
        conn[c] = "queued" /\ Up(s) /\ s \in holders[queuedAt[c]] => Waits(s, c)
=============================================================================
