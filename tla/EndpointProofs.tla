--------------------------- MODULE EndpointProofs ---------------------------
(***************************************************************************)
(* Proofs about Endpoint, for any sets of servers, children and clients:   *)
(* a server that is up is reached, a client that is dropped notices it,    *)
(* and servers that have ended leave the address free.                     *)
(***************************************************************************)
EXTENDS Endpoint, TLAPS

\* A server has its listening socket open exactly while it is up.
Listening ==
    \A s \in Servers :
        IF Up(s) THEN fd[s] \in 1..made /\ s \in holders[fd[s]]
                 ELSE \A k \in Sockets : s \notin holders[k]

\* A socket that has not been made is open nowhere.
Fresh == \A k \in Sockets : k > made => holders[k] = {}

\* A name has one socket at most.
Single ==
    family = "name" =>
        /\ path = 0
        /\ \A j, k \in Sockets : holders[j] # {} /\ holders[k] # {} => j = k

\* The path leads to the last server that came up.
Current ==
    family = "path" =>
        \A s \in Servers : Up(s) /\ s \notin displaced => path = fd[s]

\* A child without a server is a stray or has ended.
Grouped ==
    \A ch \in Children :
        IF parent[ch] = Nobody
        THEN ch \in strays \/ \A k \in Sockets : ch \notin holders[k]
        ELSE Up(parent[ch])

\* Only a crash leaves a path behind.
Removed == path # 0 => \E s \in Servers : phase[s] # "stopped"

IInv ==
    /\ TypeOK /\ Listening /\ Fresh /\ Single /\ Current /\ Grouped /\ Removed
    /\ DropReaches

-----------------------------------------------------------------------------
\* The sockets that have been made are sockets.
LEMMA MadeSockets ==
    ASSUME TypeOK
    PROVE  \A k \in 1..made : k \in Sockets
BY EndpointAssumption DEF TypeOK, Sockets

LEMMA InitIInv == Init => IInv
<1> SUFFICES ASSUME Init PROVE IInv
  OBVIOUS
<1>1. TypeOK
  BY EndpointAssumption DEF Init, TypeOK
<1>2. Listening /\ Current /\ Grouped
  BY DEF Init, Listening, Current, Grouped, Up
<1>3. Fresh /\ Single /\ Removed /\ DropReaches
  BY DEF Init, Fresh, Single, Removed, DropReaches
<1> QED
  BY <1>1, <1>2, <1>3 DEF IInv

\* A server makes its socket: when it comes up, and again after a failed accept.
LEMMA RemakeStep ==
    ASSUME IInv, NEW s \in Servers, RemakeConnection(s),
           phase' = [phase EXCEPT ![s] = "up"],
           UNCHANGED <<family, childVars, connVars>>
    PROVE  IInv'
<1>1. made \in Nat /\ made + 1 \in Sockets /\ made' = made + 1
  BY EndpointAssumption DEF IInv, TypeOK, RemakeConnection, Sockets
<1>2. /\ holders' = [holders EXCEPT ![made + 1] = {s}]
      /\ fd' = [fd EXCEPT ![s] = made + 1]
      /\ path' = IF family = "path" THEN made + 1 ELSE path
      /\ displaced' = (displaced \ {s}) \cup Displaces(s)
      /\ family = "path" \/ \A k \in Sockets : holders[k] = {}
  BY DEF RemakeConnection, Bindable
<1>3. TypeOK'
  BY <1>1, <1>2, EndpointAssumption
  DEF IInv, TypeOK, RemakeConnection, Displaces, childVars, connVars, Procs
<1>4. Listening'
  <2> SUFFICES ASSUME NEW t \in Servers
               PROVE  IF Up(t)' THEN fd'[t] \in 1..made' /\ t \in holders'[fd'[t]]
                                ELSE \A k \in Sockets : t \notin holders'[k]
    BY DEF Listening
  <2>1. CASE t = s
    BY <1>1, <1>2, <2>1 DEF IInv, TypeOK, Up
  <2>2. CASE t # s
    BY <1>1, <1>2, <2>2 DEF IInv, TypeOK, Listening, Up
  <2> QED
    BY <2>1, <2>2
<1>5. Fresh'
  BY <1>1, <1>2 DEF IInv, TypeOK, Fresh, Sockets
<1>6. Single'
  BY <1>1, <1>2 DEF IInv, TypeOK, Single
<1>7. Current'
  BY <1>1, <1>2 DEF IInv, TypeOK, Current, Displaces, Up
<1>8. Grouped'
  <2> SUFFICES ASSUME NEW ch \in Children
               PROVE  IF parent'[ch] = Nobody
                      THEN ch \in strays' \/ \A k \in Sockets : ch \notin holders'[k]
                      ELSE Up(parent[ch])'
    BY DEF Grouped, childVars
  <2>1. parent' = parent /\ strays' = strays /\ ch # s
    BY EndpointAssumption DEF childVars
  <2> QED
    BY <1>1, <1>2, <2>1 DEF IInv, TypeOK, Grouped, Up
<1>9. Removed' /\ DropReaches'
  BY DEF IInv, TypeOK, Removed, DropReaches, connVars
<1> QED
  BY <1>3, <1>4, <1>5, <1>6, <1>7, <1>8, <1>9 DEF IInv

\* A server ends without its destructors.  The path stays or is unlinked.
LEMMA DiesStep ==
    ASSUME IInv, NEW s \in Servers, Up(s), Dies(s),
           UNCHANGED <<path, displaced>> \/ Unlink(s)
    PROVE  IInv'
<1>1. /\ phase' = [phase EXCEPT ![s] = "crashed"]
      /\ holders' = [k \in Sockets |-> holders[k] \ {s}]
      /\ connHeld' = [c \in Clients |-> connHeld[c] \ {s}]
      /\ strays' = strays \cup {ch \in Children : parent[ch] = s}
      /\ parent' = [ch \in Children |->
                       IF parent[ch] = s THEN Nobody ELSE parent[ch]]
      /\ fd' = [fd EXCEPT ![s] = 0]
      /\ lost' = lost \cup {c \in Clients : s \in connHeld[c]}
      /\ UNCHANGED <<family, made, queuedAt>>
  BY DEF Dies, Close
<1>2. /\ path' = path \/ (family = "path" /\ path' = 0)
      /\ displaced \subseteq displaced'
      /\ displaced' \subseteq displaced \cup (Servers \ {s})
      /\ \A t \in Servers : t # s /\ Up(t) /\ t \notin displaced' => path' = path
  BY DEF Unlink, Displaces, IInv, TypeOK
<1>3. /\ conn' \in [Clients -> {"idle", "queued", "open", "closed"}]
      /\ \A c \in Clients : conn'[c] \in {conn[c], "closed"}
  BY DEF Dies, Hangup, IInv, TypeOK
<1>4. TypeOK'
  <2>1. path' \in 0..made /\ fd' \in [Servers -> 0..made]
    BY <1>1, <1>2 DEF IInv, TypeOK
  <2> QED
    BY <1>1, <1>2, <1>3, <2>1 DEF IInv, TypeOK, Procs
<1>5. Listening'
  BY <1>1, MadeSockets DEF IInv, TypeOK, Listening, Up
<1>6. Fresh' /\ Single'
  BY <1>1, <1>2 DEF IInv, TypeOK, Fresh, Single
<1>7. Current'
  BY <1>1, <1>2 DEF IInv, TypeOK, Current, Up
<1>8. Grouped'
  BY <1>1, EndpointAssumption DEF IInv, TypeOK, Grouped, Up
<1>9. Removed'
  BY <1>1 DEF IInv, TypeOK, Removed
<1>10. DropReaches'
  BY <1>1, <1>3 DEF IInv, TypeOK, DropReaches
<1> QED
  BY <1>4, <1>5, <1>6, <1>7, <1>8, <1>9, <1>10 DEF IInv

LEMMA StopStep ==
    ASSUME IInv, NEW s \in Servers, Stop(s)
    PROVE  IInv'
<1> DEFINE group == {ch \in Children : parent[ch] = s}
<1>1. /\ Up(s) /\ phase' = [phase EXCEPT ![s] = "stopped"]
      /\ holders' = [k \in Sockets |-> holders[k] \ ({s} \cup group)]
      /\ connHeld' = [c \in Clients |-> connHeld[c] \ ({s} \cup group)]
      /\ parent' = [ch \in Children |->
                       IF ch \in group THEN Nobody ELSE parent[ch]]
      /\ path' = IF family = "path" THEN 0 ELSE path
      /\ displaced' = displaced \cup Displaces(s)
      /\ fd' = [fd EXCEPT ![s] = 0]
      /\ UNCHANGED <<family, made, strays, queuedAt, lost>>
  BY DEF Stop, Close, Unlink
<1>2. /\ conn' \in [Clients -> {"idle", "queued", "open", "closed"}]
      /\ \A c \in Clients : conn'[c] \in {conn[c], "closed"}
      /\ \A c \in Clients : s \in connHeld[c] => conn'[c] = "closed"
  BY DEF Stop, Hangup, IInv, TypeOK
<1>3. \A t \in Servers : t \notin group
  BY EndpointAssumption
<1>4. TypeOK'
  BY <1>1, <1>2 DEF IInv, TypeOK, Displaces, Procs
<1>5. Listening'
  BY <1>1, <1>3, MadeSockets DEF IInv, TypeOK, Listening, Up
<1>6. Fresh' /\ Single'
  BY <1>1 DEF IInv, TypeOK, Fresh, Single
<1>7. Current'
  BY <1>1 DEF IInv, TypeOK, Current, Displaces, Up
<1>8. Grouped'
  BY <1>1, EndpointAssumption DEF IInv, TypeOK, Grouped, Up
<1>9. Removed'
  BY <1>1 DEF IInv, TypeOK, Removed, Single
<1>10. DropReaches'
  BY <1>1, <1>2, <1>3 DEF IInv, TypeOK, DropReaches
<1> QED
  BY <1>4, <1>5, <1>6, <1>7, <1>8, <1>9, <1>10 DEF IInv

LEMMA ForkStep ==
    ASSUME IInv, NEW s \in Servers, NEW ch \in Children, Fork(s, ch)
    PROVE  IInv'
<1>1. /\ Up(s) /\ ch \notin strays
      /\ parent[ch] = Nobody /\ parent' = [parent EXCEPT ![ch] = s]
      /\ holders' = [k \in Sockets |->
                        IF s \in holders[k] THEN holders[k] \cup {ch}
                                            ELSE holders[k]]
      /\ connHeld' = [c \in Clients |->
                        IF s \in connHeld[c] THEN connHeld[c] \cup {ch}
                                             ELSE connHeld[c]]
      /\ UNCHANGED <<family, phase, fd, made, path, displaced, strays, conn,
                     queuedAt, lost>>
  BY DEF Fork
<1>2. ch \notin Servers /\ s # Nobody
  BY EndpointAssumption
<1>3. TypeOK'
  BY <1>1, <1>2 DEF IInv, TypeOK, Procs
<1>4. Listening'
  BY <1>1, <1>2, MadeSockets DEF IInv, TypeOK, Listening, Up
<1>5. Fresh' /\ Single'
  BY <1>1 DEF IInv, TypeOK, Fresh, Single
<1>6. Current' /\ Removed'
  BY <1>1 DEF IInv, Current, Removed, Up
<1>7. Grouped'
  BY <1>1, <1>2 DEF IInv, TypeOK, Grouped, Up
<1>8. DropReaches'
  BY <1>1 DEF IInv, TypeOK, DropReaches
<1> QED
  BY <1>3, <1>4, <1>5, <1>6, <1>7, <1>8 DEF IInv

LEMMA ChildEndsStep ==
    ASSUME IInv, NEW ch \in Children, ChildEnds(ch)
    PROVE  IInv'
<1>1. /\ parent' = [parent EXCEPT ![ch] = Nobody] /\ strays' = strays \ {ch}
      /\ holders' = [k \in Sockets |-> holders[k] \ {ch}]
      /\ connHeld' = [c \in Clients |-> connHeld[c] \ {ch}]
      /\ UNCHANGED <<family, phase, fd, made, path, displaced, queuedAt, lost>>
  BY DEF ChildEnds, Close
<1>2. /\ conn' \in [Clients -> {"idle", "queued", "open", "closed"}]
      /\ \A c \in Clients : conn'[c] \in {conn[c], "closed"}
  BY DEF ChildEnds, Hangup, IInv, TypeOK
<1>3. ch \notin Servers
  BY EndpointAssumption
<1>4. TypeOK'
  BY <1>1, <1>2 DEF IInv, TypeOK, Procs
<1>5. Listening'
  BY <1>1, <1>3, MadeSockets DEF IInv, TypeOK, Listening, Up
<1>6. Fresh' /\ Single'
  BY <1>1 DEF IInv, TypeOK, Fresh, Single
<1>7. Current' /\ Removed'
  BY <1>1 DEF IInv, Current, Removed, Up
<1>8. Grouped'
  BY <1>1 DEF IInv, TypeOK, Grouped, Up
<1>9. DropReaches'
  BY <1>1, <1>2, <1>3 DEF IInv, TypeOK, DropReaches
<1> QED
  BY <1>4, <1>5, <1>6, <1>7, <1>8, <1>9 DEF IInv

LEMMA StraysStep ==
    ASSUME IInv, NEW ch \in Children, Strays(ch)
    PROVE  IInv'
<1>1. /\ parent' = [parent EXCEPT ![ch] = Nobody]
      /\ strays' = strays \cup {ch}
      /\ UNCHANGED <<family, listenVars, connVars>>
  BY DEF Strays
<1>2. TypeOK'
  BY <1>1 DEF IInv, TypeOK, listenVars, connVars
<1>3. Grouped'
  BY <1>1 DEF IInv, TypeOK, Grouped, Up, listenVars
<1>4. /\ Listening' /\ Fresh' /\ Single' /\ Current' /\ Removed'
      /\ DropReaches'
  BY <1>1 DEF IInv, Listening, Fresh, Single, Current, Removed, DropReaches,
              Up, listenVars, connVars
<1> QED
  BY <1>2, <1>3, <1>4 DEF IInv

\* Steps of a client's connection, which leave the listeners alone.
LEMMA ClientStep ==
    ASSUME IInv, NEW c \in Clients,
           \/ Connect(c) \/ ComesAgain(c)
           \/ \E s \in Servers : Accept(s, c) \/ Drop(s, c)
    PROVE  IInv'
<1>1. UNCHANGED <<family, listenVars, childVars>>
  BY DEF Connect, ComesAgain, Accept, Drop
<1>2. Listening' /\ Fresh' /\ Single' /\ Current' /\ Grouped' /\ Removed'
  BY <1>1 DEF IInv, Listening, Fresh, Single, Current, Grouped, Removed, Up,
              listenVars, childVars
<1>3. CASE Connect(c)
  <2>1. \A k \in Reaches : k \in 0..made
    BY DEF Reaches, IInv, Fresh, TypeOK, Sockets
  <2>2. TypeOK'
    BY <1>1, <1>3, <2>1 DEF IInv, TypeOK, Connect, listenVars, childVars
  <2>3. DropReaches'
    BY <1>3 DEF IInv, TypeOK, DropReaches, Connect
  <2> QED
    BY <1>2, <2>2, <2>3 DEF IInv
<1>4. CASE ComesAgain(c)
  <2>1. TypeOK'
    BY <1>1, <1>4 DEF IInv, TypeOK, ComesAgain, listenVars, childVars
  <2>2. DropReaches'
    BY <1>4 DEF IInv, TypeOK, DropReaches, ComesAgain
  <2> QED
    BY <1>2, <2>1, <2>2 DEF IInv
<1>5. ASSUME NEW s \in Servers, Accept(s, c) PROVE IInv'
  <2>1. TypeOK'
    BY <1>1, <1>5 DEF IInv, TypeOK, Accept, Procs, listenVars, childVars
  <2>2. DropReaches'
    BY <1>5 DEF IInv, TypeOK, DropReaches, Accept
  <2> QED
    BY <1>2, <2>1, <2>2 DEF IInv
<1>6. ASSUME NEW s \in Servers, Drop(s, c) PROVE IInv'
  <2>1. TypeOK'
    BY <1>1, <1>6 DEF IInv, TypeOK, Drop, listenVars, childVars
  <2>2. DropReaches'
    BY <1>6 DEF IInv, TypeOK, DropReaches, Drop
  <2> QED
    BY <1>2, <2>1, <2>2 DEF IInv
<1> QED
  BY <1>3, <1>4, <1>5, <1>6

LEMMA NextIInv == IInv /\ [Next]_vars => IInv'
<1> SUFFICES ASSUME IInv, [Next]_vars PROVE IInv'
  OBVIOUS
<1>1. ASSUME NEW s \in Servers, Start(s) PROVE IInv'
  BY <1>1, RemakeStep DEF Start
<1>2. ASSUME NEW s \in Servers, AcceptFails(s) PROVE IInv'
  <2>1. Up(s)
    BY <1>2 DEF AcceptFails, Waits
  <2>2. CASE RemakeConnection(s) /\ UNCHANGED <<family, phase, childVars, connVars>>
    <3>1. phase' = [phase EXCEPT ![s] = "up"]
      BY <2>1, <2>2 DEF IInv, TypeOK, Up
    <3> QED
      BY <2>2, <3>1, RemakeStep
  <2>3. CASE Unlink(s) /\ Dies(s)
    BY <2>1, <2>3, DiesStep
  <2> QED
    BY <1>2, <2>2, <2>3 DEF AcceptFails
<1>3. ASSUME NEW s \in Servers, Crash(s) PROVE IInv'
  BY <1>3, DiesStep DEF Crash
<1>4. CASE UNCHANGED vars
  BY <1>4 DEF vars, listenVars, childVars, connVars, IInv, TypeOK, Listening,
              Fresh, Single, Current, Grouped, Removed, DropReaches, Up
<1> QED
  BY <1>1, <1>2, <1>3, <1>4, StopStep, ForkStep, ChildEndsStep, StraysStep,
     ClientStep DEF Next

\* The invariant that the others follow from.
THEOREM Inductive == Spec => []IInv
BY InitIInv, NextIInv, PTL DEF Spec

\* Every variable keeps to its type, and a stray has no server.
THEOREM TypeCorrect == Spec => []TypeOK
<1>1. IInv => TypeOK
  BY DEF IInv
<1> QED
  BY <1>1, Inductive, PTL

\* A server that is up and not displaced is where a connect ends.
THEOREM NeverUpButDeaf == Spec => []NeverDeaf
<1>1. IInv => NeverDeaf
  <2> SUFFICES ASSUME IInv, NEW s \in Servers, Up(s), s \notin displaced
               PROVE  Reaches = {fd[s]}
    BY DEF NeverDeaf
  <2>1. fd[s] \in Sockets /\ s \in holders[fd[s]]
    BY MadeSockets DEF IInv, Listening
  <2>2. CASE family = "path"
    BY <2>1, <2>2 DEF IInv, Current, Reaches
  <2>3. CASE family = "name"
    BY <2>1, <2>3 DEF IInv, Single, Reaches
  <2> QED
    BY <2>2, <2>3 DEF IInv, TypeOK
<1> QED
  BY <1>1, Inductive, PTL

\* A client that a server has dropped has noticed it.
THEOREM DropNoticed == Spec => []DropReaches
<1>1. IInv => DropReaches
  BY DEF IInv
<1> QED
  BY <1>1, Inductive, PTL

\* With every server down and no strays nobody has a listening socket open.
LEMMA AllClosed ==
    ASSUME IInv, \A s \in Servers : ~Up(s), strays = {}
    PROVE  \A k \in Sockets : holders[k] = {}
<1> SUFFICES ASSUME NEW k \in Sockets, NEW p \in holders[k] PROVE FALSE
  OBVIOUS
<1>1. p \in Servers \/ p \in Children
  BY DEF IInv, TypeOK, Procs
<1>2. CASE p \in Servers
  BY <1>2 DEF IInv, Listening
<1>3. CASE p \in Children
  <2>1. parent[p] = Nobody
    BY <1>3 DEF IInv, TypeOK, Grouped
  <2> QED
    BY <1>3, <2>1 DEF IInv, Grouped
<1> QED
  BY <1>1, <1>2, <1>3

\* Servers that have all stopped in order leave nothing behind.
THEOREM CleanStop == Spec => []StopReleases
<1>1. IInv => StopReleases
  <2> SUFFICES ASSUME IInv, \A s \in Servers : phase[s] = "stopped", strays = {}
               PROVE  path = 0 /\ \A k \in Sockets : holders[k] = {}
    BY DEF StopReleases
  <2>1. \A s \in Servers : ~Up(s)
    BY DEF Up
  <2> QED
    BY <2>1, AllClosed DEF IInv, Removed
<1> QED
  BY <1>1, Inductive, PTL

\* Whichever way the servers have ended, the address can be bound again.
THEOREM AlwaysRestartable == Spec => []Restartable
<1>1. IInv => Restartable
  BY AllClosed DEF Restartable, Bindable
<1> QED
  BY <1>1, Inductive, PTL

=============================================================================
