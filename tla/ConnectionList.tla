--------------------------- MODULE ConnectionList ---------------------------
(***************************************************************************)
(* The doubly linked list of connections (procServ.cc): its insertion and  *)
(* deletion, the loops that walk along it, and what may happen to it while *)
(* they do.  ProcServ treats the list as a set of connections; this module *)
(* shows that the pointers deserve it.                                     *)
(*                                                                         *)
(*   "setup"    main adds the listeners                                    *)
(*   "select"   between two iterations                                     *)
(*   "pass"     the loop that reads every ready connection                 *)
(*   "clean"    the loop in OnPollTimeout that deletes marked connections  *)
(*   "spawn"    after a timeout, when a child's item may be added          *)
(*   "closing"  the loop that deletes everything at the end                *)
(*                                                                         *)
(* A definition named ...Bug is a faulty variant of the one it precedes.   *)
(***************************************************************************)
EXTENDS Integers, Sequences

CONSTANTS
    Nodes,   \* addresses a connectionItem may get
    NULL     \* the null pointer

ASSUME NullAssumption == NULL \notin Nodes

VARIABLES
    pc,            \* where the server is
    cursor,        \* the loop variable: p in main, pc in OnPollTimeout
    after,         \* where OnPollTimeout returns to: "select" or "spawn"
    head, next, prev, connectionNo,
    heap,          \* the connectionItems that exist
    marked,        \* those with _markedForDeletion
    list,          \* auxiliary: the connections, youngest first
    waiting        \* history: what the loop under way still has to deal with

nodeVars == <<head, next, prev, connectionNo, heap, list>>
vars == <<pc, cursor, after, nodeVars, marked, waiting>>

Pointers == Nodes \cup {NULL}

TypeOK ==
    /\ pc \in {"setup", "select", "pass", "clean", "spawn", "closing",
               "exited"}
    /\ cursor \in Pointers
    /\ after \in {"select", "spawn"}
    /\ head \in Pointers
    /\ next \in [Nodes -> Pointers]
    /\ prev \in [Nodes -> Pointers]
    /\ connectionNo \in Int
    /\ heap \subseteq Nodes
    /\ marked \subseteq heap
    /\ list \in Seq(Nodes)
    /\ waiting \subseteq heap

\* The constructor of connectionItem leaves next and prev uninitialised.
Init ==
    /\ pc = "setup" /\ cursor = NULL /\ after = "select"
    /\ head = NULL /\ connectionNo = 0
    /\ next \in [Nodes -> Pointers] /\ prev \in [Nodes -> Pointers]
    /\ heap = {} /\ marked = {} /\ list = <<>> /\ waiting = {}

-----------------------------------------------------------------------------
\* Faulty: the old head is not told of its new predecessor.
AddConnectionBug(n) ==
    /\ n \in Nodes \ heap
    /\ next' = [next EXCEPT ![n] = head]
    /\ prev' = [prev EXCEPT ![n] = NULL]
    /\ head' = n
    /\ connectionNo' = connectionNo + 1
    /\ heap' = heap \cup {n}
    /\ list' = <<n>> \o list

\* A new object n, put at the head.
AddConnection(n) ==
    /\ n \in Nodes \ heap
    /\ next' = [next EXCEPT ![n] = head]
    /\ prev' = [m \in Nodes |-> IF m = n THEN NULL
                                ELSE IF m = head THEN n ELSE prev[m]]
    /\ head' = n
    /\ connectionNo' = connectionNo + 1
    /\ heap' = heap \cup {n}
    /\ list' = <<n>> \o list

\* The sequence s without its element k.
Without(s, k) ==
    [i \in 1..(Len(s) - 1) |-> IF i < k THEN s[i] ELSE s[i + 1]]

\* Faulty: the counter is forgotten.
DeleteConnectionBug(n) ==
    /\ next' = [m \in Nodes |-> IF m = prev[n] THEN next[n] ELSE next[m]]
    /\ prev' = [m \in Nodes |-> IF m = next[n] THEN prev[n] ELSE prev[m]]
    /\ head' = IF prev[n] = NULL THEN next[n] ELSE head
    /\ heap' = heap \ {n}
    /\ \E k \in DOMAIN list : list[k] = n /\ list' = Without(list, k)
    /\ UNCHANGED connectionNo

\* Unlink n and delete the object.
DeleteConnection(n) ==
    /\ next' = [m \in Nodes |-> IF m = prev[n] THEN next[n] ELSE next[m]]
    /\ prev' = [m \in Nodes |-> IF m = next[n] THEN prev[n] ELSE prev[m]]
    /\ head' = IF prev[n] = NULL THEN next[n] ELSE head
    /\ connectionNo' = connectionNo - 1
    /\ heap' = heap \ {n}
    /\ \E k \in DOMAIN list : list[k] = n /\ list' = Without(list, k)

\* Some connections are found dead: on EOF, on a failed write of a message
\* to all, by a logout, by waitpid.
Mark(from) == \E dead \in SUBSET from : marked' = marked \cup dead

-----------------------------------------------------------------------------
AddListener(n) ==
    /\ pc = "setup"
    /\ AddConnection(n)
    /\ UNCHANGED <<pc, cursor, after, marked, waiting>>

Setup ==
    /\ pc = "setup" /\ pc' = "select"
    /\ UNCHANGED <<cursor, after, nodeVars, marked, waiting>>

StartPass ==
    /\ pc = "select" /\ pc' = "pass"
    /\ Mark(heap)
    /\ cursor' = head /\ waiting' = heap
    /\ UNCHANGED <<after, nodeVars>>

\* Faulty: a connection that is read dead is deleted at once, so that its
\* successor is read from a freed object.
VisitBug ==
    /\ pc = "pass" /\ cursor # NULL
    /\ DeleteConnection(cursor)
    /\ marked' = marked \ {cursor}
    /\ cursor' \in Pointers /\ waiting' = waiting \ {cursor}
    /\ UNCHANGED <<pc, after>>

\* The turn of the connection at the cursor, which may not be ready.
Visit ==
    /\ pc = "pass" /\ cursor # NULL
    /\ Mark(heap)
    /\ cursor' = next[cursor] /\ waiting' = waiting \ {cursor}
    /\ UNCHANGED <<pc, after, nodeVars>>

\* Faulty: after an accept the walk starts over at the head.
VisitAcceptBug(n) ==
    /\ pc = "pass" /\ cursor # NULL
    /\ AddConnection(n)
    /\ cursor' = head' /\ waiting' = waiting \ {cursor}
    /\ UNCHANGED <<pc, after, marked>>

\* The connection at the cursor is a listener and accepts n.  The cursor
\* moves on afterwards, along the list as it then is.
VisitAccept(n) ==
    /\ pc = "pass" /\ cursor # NULL
    /\ AddConnection(n)
    /\ cursor' = next'[cursor] /\ waiting' = waiting \ {cursor}
    /\ UNCHANGED <<pc, after, marked>>

\* OnPollTimeout begins: waitpid, then the loop that deletes.
OnPollTimeout ==
    /\ \/ pc = "select" /\ after' = "spawn"
       \/ pc = "pass" /\ cursor = NULL /\ after' = "select"
    /\ pc' = "clean"
    /\ Mark(heap)
    /\ cursor' = head /\ waiting' = marked'
    /\ UNCHANGED nodeVars

CleanKeep ==
    /\ pc = "clean" /\ cursor # NULL /\ cursor \notin marked
    /\ cursor' = next[cursor]
    /\ UNCHANGED <<pc, after, nodeVars, marked, waiting>>

\* Faulty: the object is only unlinked after its destructor has run.
CleanDeleteBug ==
    /\ pc = "clean" /\ cursor \in marked
    /\ DeleteConnection(cursor)
    /\ \E dead \in SUBSET heap : marked' = (marked \ {cursor}) \cup dead
    /\ cursor' = next[cursor] /\ waiting' = waiting \ {cursor}
    /\ UNCHANGED <<pc, after>>

\* The destructor may say goodbye to all and find some of them dead.  The
\* successor is read before the deletion.
CleanDelete ==
    /\ pc = "clean" /\ cursor \in marked
    /\ DeleteConnection(cursor)
    /\ \E dead \in SUBSET (heap \ {cursor}) :
          marked' = (marked \ {cursor}) \cup dead
    /\ cursor' = next[cursor] /\ waiting' = waiting \ {cursor}
    /\ UNCHANGED <<pc, after>>

CleanEnd ==
    /\ pc = "clean" /\ cursor = NULL
    /\ pc' = after
    /\ UNCHANGED <<cursor, after, nodeVars, marked, waiting>>

\* A new child's item, dead from the start if the fork failed.
Spawn(n) ==
    /\ pc = "spawn" /\ pc' = "select"
    /\ AddConnection(n)
    /\ Mark(heap')
    /\ UNCHANGED <<cursor, after, waiting>>

NoSpawn ==
    /\ pc = "spawn" /\ pc' = "select"
    /\ UNCHANGED <<cursor, after, nodeVars, marked, waiting>>

\* shutdownServer is set.
Leave ==
    /\ pc = "select" /\ pc' = "closing"
    /\ UNCHANGED <<cursor, after, nodeVars, marked, waiting>>

\* The final loop takes the head off, but leaves prev and the counter.
CloseHead ==
    /\ pc = "closing" /\ head # NULL
    /\ head' = next[head] /\ heap' = heap \ {head} /\ list' = Tail(list)
    /\ \E dead \in SUBSET (heap \ {head}) :
          marked' = (marked \ {head}) \cup dead
    /\ waiting' = waiting \ {head}
    /\ UNCHANGED <<pc, cursor, after, next, prev, connectionNo>>

Exit ==
    /\ pc = "closing" /\ head = NULL /\ pc' = "exited"
    /\ UNCHANGED <<cursor, after, nodeVars, marked, waiting>>

Gone == pc = "exited" /\ UNCHANGED vars

Next ==
    \/ Setup \/ StartPass \/ Visit \/ OnPollTimeout
    \/ CleanKeep \/ CleanDelete \/ CleanEnd \/ NoSpawn
    \/ Leave \/ CloseHead \/ Exit \/ Gone
    \/ \E n \in Nodes : AddListener(n) \/ VisitAccept(n) \/ Spawn(n)

Spec == Init /\ [][Next]_vars

-----------------------------------------------------------------------------
\* The node at position k of the list, NULL behind its end.
At(k) == IF k \in 1..Len(list) THEN list[k] ELSE NULL

Serving == pc \notin {"closing", "exited"}

\* The pointers say what the list says: it holds every connection that
\* exists once, in order, in both directions.
Linked ==
    /\ heap = {list[i] : i \in 1..Len(list)}
    /\ \A i, j \in 1..Len(list) : list[i] = list[j] => i = j
    /\ head = At(1)
    /\ \A i \in 1..Len(list) : next[list[i]] = At(i + 1)
    /\ Serving => \A i \in 1..Len(list) : prev[list[i]] = At(i - 1)

\* No loop ever stands on a deleted object, whatever is added to the list
\* or deleted from it while the loop is under way.
NoDangling == cursor \in heap \cup {NULL}

\* connectionNo counts the connections, so that the assertion at the end of
\* DeleteConnection holds.
Counted == Serving => connectionNo = Len(list)

\* The pass visits every connection it found when it began, no connection
\* twice, and none that was accepted meanwhile (the descriptor set is older
\* than that); the loop that deletes leaves nothing that was marked when it
\* began.
AllServed ==
    /\ pc = "pass" => IF cursor = NULL THEN waiting = {}
                                       ELSE cursor \in waiting
    /\ pc = "clean" /\ cursor = NULL => waiting = {}

(***************************************************************************)
(* The inductive invariant adds where the cursor is and that what waits is *)
(* ahead of it.                                                            *)
(***************************************************************************)
Ahead(k) == {list[i] : i \in k..Len(list)}

Progress ==
    /\ pc = "pass" => \E k \in 1..(Len(list) + 1) :
                          cursor = At(k) /\ waiting = Ahead(k)
    /\ pc = "clean" => \E k \in 1..(Len(list) + 1) :
                          /\ cursor = At(k)
                          /\ waiting \subseteq Ahead(k) \cap marked
    /\ pc \notin {"pass", "clean"} => cursor = NULL

IInv == TypeOK /\ Linked /\ Counted /\ Progress
=============================================================================
