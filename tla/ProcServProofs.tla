--------------------------- MODULE ProcServProofs ---------------------------
(***************************************************************************)
(* Proofs about ProcServ, for every number of clients, items and process   *)
(* ids, every hold-off time, every kill signal and every set of faults.    *)
(***************************************************************************)
EXTENDS ProcServ, TLAPS, SequenceTheorems

(***************************************************************************)
(* Types.                                                                  *)
(***************************************************************************)
LEMMA InitType == Init => TypeOK
<1> SUFFICES ASSUME Init PROVE TypeOK
    OBVIOUS
<1>1. LoopType
    BY EmptySeq DEF Init, LoopType
<1>2. PolicyType
  <2>1. hold \in 0..HoldoffTime
      BY ConstantsAssumption DEF Init
  <2> QED
      BY <2>1, Zenon DEF Init, PolicyType
<1>3. ItemType
    BY DEF Init, ItemType
<1>4. WorldType
    BY EmptySeq DEF Init, WorldType
<1> QED
    BY <1>1, <1>2, <1>3, <1>4 DEF TypeOK

\* pselect and the signals whose handlers ran in it.
LEMMA SelectType == ASSUME IInv, Select PROVE TypeOK'
<1> USE ConstantsAssumption, DisjointAssumption DEF IInv, TypeOK
<1>1. PICK caught \in SUBSET sigPending : HandleSignals(caught)
    BY DEF Select, SelectReady, SelectTimeout, SelectIntr
<1>2. LoopType'
  <2>1. /\ pc' \in {"select", "work", "reap", "closing"}
        /\ ready' \in {"none", "timeout", "work"}
      BY DEF Select, SelectReady, SelectTimeout, SelectIntr, EndIteration
  <2>2. todo' \subseteq Clients \cup Items \cup Ports
      BY DEF Select, SelectReady, SelectTimeout, SelectIntr, LoopType,
             ItemType, Readable, ProcessItems
  <2>3. reader' = reader /\ chars' = chars
      BY <1>1 DEF HandleSignals
  <2> QED
      BY <2>1, <2>2, <2>3 DEF LoopType
<1>3. PolicyType'
    BY <1>1 DEF HandleSignals, PolicyType, policyVars, exitVars
<1>4. ItemType'
    BY <1>1 DEF HandleSignals, Broadcast, Hears, ItemType, itemVars
<1>5. WorldType'
  <2>1. sigPending' \subseteq {"PIPE", "TERM", "HUP"}
    <3> DEFINE rest == sigPending \ caught
    <3>1. rest \subseteq {"PIPE", "TERM", "HUP"}
        BY DEF WorldType
    <3>2. sigPending' = rest \/ Broadcast({}, rest)
        BY <1>1 DEF HandleSignals
    <3>3. sigPending' = rest \/ sigPending' = rest \cup {"PIPE"}
        BY <3>2 DEF Broadcast, MayRaisePipe
    <3> QED
        BY <3>1, <3>3
  <2>2. pend' \in [Pids \cup {InitPid} -> SUBSET {"SIGKILL", KillSig}]
      BY <1>1 DEF HandleSignals, SendSignal, WorldType
  <2> QED
      BY <1>1, <2>1, <2>2 DEF HandleSignals, WorldType, ptyVars, sockVars
<1> QED
    BY <1>2, <1>3, <1>4, <1>5

\* A write to a client may add SIGPIPE to the pending signals.
LEMMA PipeType ==
    ASSUME WorldType, NEW lost, MayRaisePipe(lost, sigPending)
    PROVE  sigPending' \subseteq {"PIPE", "TERM", "HUP"}
<1>1. sigPending' = sigPending \/ sigPending' = sigPending \cup {"PIPE"}
    BY DEF MayRaisePipe
<1> QED
    BY <1>1 DEF WorldType

\* The pass over the ready connections.
LEMMA PassType == ASSUME IInv, Pass PROVE TypeOK'
<1> USE ConstantsAssumption, DisjointAssumption DEF IInv, TypeOK
<1>1. ASSUME NEW port \in Ports, Accept(port) PROVE TypeOK'
  <2> USE <1>1
  <2>1. LoopType'
      BY DEF Accept, Visit, LoopType
  <2>2. PolicyType'
      BY DEF Accept, Visit, PolicyType, policyVars, exitVars
  <2>3. ItemType'
      BY DEF Accept, Visit, ItemType, itemVars, Backlog, Peers, Clients
  <2>4. sigPending' \subseteq {"PIPE", "TERM", "HUP"}
      BY PipeType DEF Accept
  <2>5. WorldType'
      BY <2>4 DEF Accept, Visit, WorldType, osVars
  <2> QED
      BY <2>1, <2>2, <2>3, <2>5
<1>2. ASSUME NEW i \in Items, ReadProcess(i) PROVE TypeOK'
  <2> USE <1>2
  <2>1. LoopType'
      BY DEF ReadProcess, Visit, LoopType
  <2>2. PolicyType'
      BY DEF ReadProcess, Visit, PolicyType, policyVars, exitVars
  <2>3. i \in conns
      BY DEF ReadProcess, Visit, Phases
  <2>4. ItemType'
      BY <2>3 DEF ReadProcess, Visit, ItemType, itemVars, Broadcast, Hears
  <2>5. sigPending' \subseteq {"PIPE", "TERM", "HUP"}
      BY PipeType DEF ReadProcess, Broadcast, WorldType
  <2>6. WorldType'
      BY <2>5 DEF ReadProcess, Visit, WorldType, osVars
  <2> QED
      BY <2>1, <2>2, <2>4, <2>6
<1>3. ASSUME NEW c \in Clients, ReadEof(c) \/ ReadLogger(c) PROVE TypeOK'
  <2> USE <1>3 DEF ReadEof, ReadLogger, Visit
  <2>1. LoopType'
      BY DEF LoopType
  <2>2. PolicyType'
      BY DEF PolicyType, policyVars, exitVars
  <2>3. c \in conns
      BY DEF Phases
  <2>4. ItemType'
      BY <2>3 DEF ItemType, itemVars
  <2>5. inbox' \in [Clients -> Seq(Chars \cup {"text"})]
    <3>1. inbox' = [inbox EXCEPT ![c] = <<>>]
        OBVIOUS
    <3> QED
        BY ONLY <3>1, EmptySeq, TypeOK DEF TypeOK, WorldType
  <2>6. WorldType'
      BY <2>5 DEF WorldType, osVars
  <2> QED
      BY <2>1, <2>2, <2>4, <2>6
<1>4. ASSUME NEW c \in Clients, ReadUser(c) PROVE TypeOK'
  <2> USE <1>4 DEF ReadUser, Visit
  <2>1. LoopType'
    <3>1. inbox[c] \in Seq(Chars \cup {"text"})
        BY DEF WorldType
    <3> QED
        BY <3>1 DEF LoopType
  <2>2. PolicyType'
      BY DEF PolicyType, policyVars, exitVars
  <2>3. ItemType'
      BY DEF ItemType, itemVars
  <2>4. inbox' \in [Clients -> Seq(Chars \cup {"text"})]
      BY EmptySeq DEF WorldType
  <2>5. WorldType'
      BY <2>4 DEF WorldType, osVars
  <2> QED
      BY <2>1, <2>2, <2>3, <2>5
<1>5. ASSUME ProbeBadFd \/ WorkDone PROVE TypeOK'
  <2> USE <1>5 DEF ProbeBadFd, WorkDone
  <2>1. LoopType' /\ ItemType'
      BY DEF LoopType, ItemType, itemVars
  <2>2. PolicyType'
      BY DEF PolicyType, policyVars, exitVars
  <2>3. WorldType'
      BY DEF WorldType, ptyVars, sockVars, osVars
  <2> QED
      BY <2>1, <2>2, <2>3
<1> QED
    BY <1>1, <1>2, <1>3, <1>4, <1>5 DEF Pass

\* The commands of a user and the forwarding of the buffer.
LEMMA CommandType == ASSUME IInv, Command PROVE TypeOK'
<1> USE ConstantsAssumption, DisjointAssumption DEF IInv, TypeOK
<1>1. ASSUME NEW ch, NextChar(ch) PROVE LoopType'
  <2>1. chars' \in Seq(Chars \cup {"text"})
      BY <1>1, HeadTailProperties DEF NextChar, LoopType
  <2> QED
      BY <1>1, <2>1 DEF NextChar, LoopType
<1>2. ASSUME SendSignal
      PROVE  pend' \in [Pids \cup {InitPid} -> SUBSET {"SIGKILL", KillSig}]
    BY <1>2 DEF SendSignal, WorldType
<1>3. ASSUME Broadcast({}, sigPending)
      PROVE  /\ marked \subseteq marked' /\ marked' \subseteq conns
             /\ sigPending' \subseteq {"PIPE", "TERM", "HUP"}
    BY <1>3, PipeType DEF Broadcast, ItemType, Hears
<1>0. ASSUME ManualStart
      PROVE  /\ hold' \in 0..HoldoffTime
             /\ waitForManualStart' \in BOOLEAN /\ restartArmed' \in BOOLEAN
  <2>1. hold' = 0 \/ hold' = hold
      BY <1>0 DEF ManualStart
  <2>2. hold' \in 0..HoldoffTime
      BY <2>1 DEF PolicyType
  <2> QED
      BY <1>0, <2>2, Zenon DEF ManualStart, PolicyType
<1>4. CASE CmdRestart
  <2> USE <1>4 DEF CmdRestart
  <2>1. PolicyType'
      BY <1>0 DEF NextChar, PolicyType
  <2>2. ItemType' /\ WorldType'
      BY DEF NextChar, ItemType, WorldType, itemVars, ptyVars, sockVars
  <2> QED
      BY <1>1, <2>1, <2>2
<1>5. CASE CmdKill
  <2> USE <1>5 DEF CmdKill
  <2>1. PolicyType'
      BY <1>0 DEF NextChar, PolicyType
  <2>2. ItemType' /\ WorldType'
      BY <1>2, <1>3 DEF NextChar, ItemType, WorldType, itemVars, ptyVars,
                        sockVars
  <2> QED
      BY <1>1, <2>1, <2>2
<1>6. CASE CmdQuit
  <2> USE <1>6 DEF CmdQuit
  <2>1. PolicyType'
      BY DEF NextChar, PolicyType, policyVars
  <2>2. ItemType' /\ WorldType'
      BY DEF NextChar, ItemType, WorldType, itemVars, ptyVars, sockVars
  <2> QED
      BY <1>1, <2>1, <2>2
<1>7. CASE CmdLogout
  <2> USE <1>7 DEF CmdLogout
  <2>1. PolicyType'
      BY DEF NextChar, PolicyType, policyVars
  <2>2. reader \in conns
      BY DEF NextChar, Phases
  <2>3. ItemType' /\ WorldType'
      BY <2>2 DEF NextChar, ItemType, WorldType, itemVars, ptyVars, sockVars
  <2> QED
      BY <1>1, <2>1, <2>3
<1>8. CASE CmdToggle
  <2> USE <1>8 DEF CmdToggle
  <2>1. PolicyType'
      BY DEF NextChar, NextMode, PolicyType
  <2>2. ItemType' /\ WorldType'
      BY <1>3 DEF NextChar, ItemType, WorldType, itemVars, ptyVars, sockVars
  <2> QED
      BY <1>1, <2>1, <2>2
<1>9. CASE CmdText
  <2> USE <1>9 DEF CmdText
  <2>1. PolicyType'
      BY DEF NextChar, PolicyType, policyVars
  <2>2. ItemType' /\ WorldType'
      BY DEF NextChar, ItemType, WorldType, itemVars, ptyVars, sockVars
  <2> QED
      BY <1>1, <2>1, <2>2
<1>10. CASE ForwardInput
  <2> USE <1>10 DEF ForwardInput
  <2>1. LoopType'
      BY DEF LoopType
  <2>2. PolicyType'
      BY DEF PolicyType, policyVars, exitVars
  <2>3. ItemType' /\ WorldType'
      BY DEF ItemType, WorldType, ProcessItems, itemVars, ptyVars, sockVars,
             osVars
  <2> QED
      BY <2>1, <2>2, <2>3
<1> QED
    BY <1>4, <1>5, <1>6, <1>7, <1>8, <1>9, <1>10 DEF Command

\* waitpid and the deletion of the dead connections.
LEMMA HousekeepingType == ASSUME IInv, Housekeeping PROVE TypeOK'
<1> USE ConstantsAssumption, DisjointAssumption DEF IInv, TypeOK
<1>1. ASSUME NEW p \in Pids, ReapChild(p) PROVE TypeOK'
  <2> USE <1>1 DEF ReapChild
  <2>1. LoopType'
      BY DEF LoopType
  <2>2. PolicyType'
      BY DEF PolicyType, policyVars, exitVars
  <2>3. ItemType'
      BY DEF ItemType, itemVars, Broadcast, Hears, ProcessItems
  <2>4. sigPending' \subseteq {"PIPE", "TERM", "HUP"}
      BY PipeType DEF Broadcast
  <2>5. WorldType'
      BY <2>4 DEF WorldType, ptyVars, sockVars
  <2> QED
      BY <2>1, <2>2, <2>3, <2>5
<1>2. CASE ReapNothing
  <2> USE <1>2 DEF ReapNothing
  <2>1. LoopType' /\ ItemType'
      BY DEF LoopType, ItemType, itemVars
  <2>2. PolicyType'
      BY DEF PolicyType, policyVars, exitVars
  <2>3. WorldType'
      BY DEF WorldType, ptyVars, sockVars, osVars
  <2> QED
      BY <2>1, <2>2, <2>3
<1>3. CASE CleanUp
  <2> USE <1>3
  <2>1. LoopType'
      BY DEF CleanUp, EndIteration, LoopType
  <2>2. PolicyType'
      BY DEF CleanUp, PolicyType, policyVars, exitVars
  <2>3. ItemType'
      BY DEF CleanUp, Release, ItemType, Hears
  <2>4. sigPending' \subseteq {"PIPE", "TERM", "HUP"}
      BY PipeType DEF CleanUp
  <2>5. pend' \in [Pids \cup {InitPid} -> SUBSET {"SIGKILL", KillSig}]
      BY DEF CleanUp, KillGroups, WorldType
  <2>6. PICK dead, gone : Release(dead, gone)
      BY DEF CleanUp
  <2>7. /\ slave' \in [Items -> BOOLEAN] /\ out' \in [Items -> BOOLEAN]
        /\ peer' \in [Clients -> {"off", "open", "closed"}]
        /\ inbox' \in [Clients -> Seq(Chars \cup {"text"})]
      BY <2>6, EmptySeq DEF Release, WorldType
  <2>8. WorldType'
      BY <2>4, <2>5, <2>7 DEF CleanUp, WorldType
  <2> QED
      BY <2>1, <2>2, <2>3, <2>8
<1> QED
    BY <1>1, <1>2, <1>3 DEF Housekeeping

\* Starting a child, giving up, and the end.
LEMMA RestartType == ASSUME IInv, Restart \/ CloseAll PROVE TypeOK'
<1> USE ConstantsAssumption, DisjointAssumption DEF IInv, TypeOK
<1>1. ASSUME NEW i \in Items, NEW p \in Pids \cup {NoPid}, NewItem(i, p),
             NEW dead \in SUBSET {i}, Broadcast(dead, sigPending)
      PROVE  LoopType' /\ PolicyType' /\ ItemType'
             /\ sigPending' \subseteq {"PIPE", "TERM", "HUP"}
  <2> USE <1>1 DEF NewItem
  <2>1. LoopType'
      BY DEF EndIteration, LoopType
  <2>2. PolicyType'
    <3>1. hold' \in 0..HoldoffTime
        OBVIOUS
    <3> QED
        BY <3>1, Zenon DEF PolicyType, exitVars
  <2>3. ItemType'
      BY DEF ItemType, Broadcast, Hears
  <2>4. sigPending' \subseteq {"PIPE", "TERM", "HUP"}
      BY PipeType DEF Broadcast
  <2> QED
      BY <2>1, <2>2, <2>3, <2>4
<1>2. ASSUME NEW i \in Items, NEW p \in Pids, StartChild(i, p) PROVE TypeOK'
  <2>1. LoopType' /\ PolicyType' /\ ItemType'
        /\ sigPending' \subseteq {"PIPE", "TERM", "HUP"}
      BY <1>1, <1>2 DEF StartChild
  <2>2. WorldType'
      BY <1>2, <2>1 DEF StartChild, NewItem, WorldType, sockVars
  <2> QED
      BY <2>1, <2>2
<1>3. ASSUME NEW i \in Items, StartFails(i) PROVE TypeOK'
  <2>1. LoopType' /\ PolicyType' /\ ItemType'
        /\ sigPending' \subseteq {"PIPE", "TERM", "HUP"}
      BY <1>1, <1>3 DEF StartFails
  <2>2. WorldType'
      BY <1>3, <2>1 DEF StartFails, NewItem, WorldType, sockVars
  <2> QED
      BY <2>1, <2>2
<1>4. CASE OneshotExit \/ NoRestart
  <2> USE <1>4 DEF OneshotExit, NoRestart
  <2>1. LoopType' /\ ItemType'
      BY DEF EndIteration, LoopType, ItemType, itemVars
  <2>2. PolicyType'
      BY DEF PolicyType, policyVars, exitVars
  <2>3. WorldType'
      BY DEF WorldType, ptyVars, sockVars, osVars
  <2> QED
      BY <2>1, <2>2, <2>3
<1>5. CASE CloseAll
  <2> USE <1>5 DEF CloseAll
  <2>1. LoopType'
      BY DEF LoopType
  <2>2. PolicyType'
      BY DEF PolicyType, policyVars, exitVars
  <2>3. ItemType'
      BY DEF ItemType, Release
  <2>4. pend' \in [Pids \cup {InitPid} -> SUBSET {"SIGKILL", KillSig}]
      BY DEF KillGroups, WorldType
  <2>5. /\ slave' \in [Items -> BOOLEAN] /\ out' \in [Items -> BOOLEAN]
        /\ peer' \in [Clients -> {"off", "open", "closed"}]
        /\ inbox' \in [Clients -> Seq(Chars \cup {"text"})]
      BY EmptySeq DEF Release, WorldType
  <2>6. WorldType'
      BY <2>4, <2>5 DEF WorldType
  <2> QED
      BY <2>1, <2>2, <2>3, <2>6
<1> QED
    BY <1>2, <1>3, <1>4, <1>5 DEF Restart

\* What the world does.
LEMMA WorldStepType == ASSUME IInv, World PROVE TypeOK'
<1> USE ConstantsAssumption, DisjointAssumption DEF IInv, TypeOK
<1>1. LoopType' /\ ItemType'
  <2>1. UNCHANGED serverVars
      BY DEF World, Tick, ChildLeads, ChildExits, PidTaken, StrangerLeaves,
             ChildWrites, ChildClosesTty,
             ClientConnects, ClientCloses, ClientSends, SignalArrives
  <2> QED
      BY <2>1 DEF serverVars, loopVars, itemVars, LoopType, ItemType
<1>2. PolicyType'
  <2>1. UNCHANGED serverVars /\ (hold' = hold \/ Tick)
      BY DEF World, Tick, ChildLeads, ChildExits, PidTaken, StrangerLeaves,
             ChildWrites, ChildClosesTty,
             ClientConnects, ClientCloses, ClientSends, SignalArrives
  <2>2. hold' \in 0..HoldoffTime
      BY <2>1 DEF Tick, PolicyType
  <2> QED
      BY <2>1, <2>2 DEF serverVars, exitVars, PolicyType
<1>3. WorldType'
  <2>1. CASE Tick
      BY <2>1 DEF Tick, WorldType, ptyVars, sockVars, osVars
  <2>2. ASSUME NEW p \in Pids,
               \/ ChildLeads(p) \/ ChildExits(p)
               \/ PidTaken(p) \/ StrangerLeaves(p)
        PROVE  WorldType'
      BY <2>2 DEF ChildLeads, ChildExits, PidTaken, StrangerLeaves, WorldType,
                  ptyVars, sockVars
  <2>3. ASSUME NEW i \in Items, ChildWrites(i) \/ ChildClosesTty(i)
        PROVE  WorldType'
      BY <2>3 DEF ChildWrites, ChildClosesTty, WorldType, sockVars, osVars
  <2>4. ASSUME NEW c \in Clients, ClientConnects(c) \/ ClientCloses(c)
        PROVE  WorldType'
      BY <2>4 DEF ClientConnects, ClientCloses, WorldType, ptyVars, osVars
  <2>5. ASSUME NEW c \in Clients, NEW ch \in Chars \cup {"text"},
               ClientSends(c, ch)
        PROVE  WorldType'
    <3>1. Append(inbox[c], ch) \in Seq(Chars \cup {"text"})
        BY <2>5, AppendProperties DEF WorldType
    <3>2. inbox' \in [Clients -> Seq(Chars \cup {"text"})]
        BY <2>5, <3>1 DEF ClientSends, WorldType
    <3> QED
        BY <2>5, <3>2 DEF ClientSends, WorldType, ptyVars, osVars
  <2>6. ASSUME NEW s \in Signals, SignalArrives(s) PROVE WorldType'
      BY <2>6 DEF SignalArrives, WorldType, ptyVars, sockVars, osVars
  <2> QED
      BY <2>1, <2>2, <2>3, <2>4, <2>5, <2>6 DEF World, Clients
<1> QED
    BY <1>1, <1>2, <1>3

LEMMA StepType == ASSUME IInv, [Next]_vars PROVE TypeOK'
<1>1. CASE Server
    BY <1>1, SelectType, PassType, CommandType, HousekeepingType, RestartType
    DEF Server
<1>2. CASE World
    BY <1>2, WorldStepType
<1>3. CASE UNCHANGED vars
  <2> USE <1>3 DEF vars
  <2>1. LoopType' /\ ItemType'
      BY DEF IInv, TypeOK, LoopType, ItemType, loopVars, itemVars
  <2>2. PolicyType'
      BY DEF IInv, TypeOK, PolicyType, policyVars, exitVars
  <2>3. WorldType'
      BY DEF IInv, TypeOK, WorldType, ptyVars, sockVars, osVars
  <2> QED
      BY <2>1, <2>2, <2>3 DEF TypeOK
<1> QED
    BY <1>1, <1>2, <1>3 DEF Next, Gone

-----------------------------------------------------------------------------
(***************************************************************************)
(* The item and the processes of the child.                                *)
(***************************************************************************)
Lifecycle == OneItem /\ PidHeld /\ YoungHeld /\ RunningHeld /\ OneChild

(***************************************************************************)
(* Most steps leave the item, its terminal and the processes alone: they   *)
(* may mark an item whose terminal is closed, add pending signals, and     *)
(* move the program counter, but not away from the deletion pass.          *)
(***************************************************************************)
LEMMA Frame ==
    ASSUME IInv, TypeOK',
           ProcessItems' = ProcessItems,
           runningItem' = runningItem, pidOf' = pidOf,
           os' = os, slave' = slave,
           pc # "clean" \/ (pc' = pc /\ marked \subseteq marked'),
           ~Up => ~Up',
           \A i \in ProcessItems : i \in marked' => i \in marked \/ ~slave[i],
           \A p \in Pids : pend[p] \subseteq pend'[p]
    PROVE  Lifecycle'
<1> USE DEF IInv
<1>1. OneItem'
    BY DEF OneItem
<1>2. PidHeld'
    BY DEF PidHeld
<1>3. YoungHeld'
    BY DEF YoungHeld
<1>4. Running' \subseteq Running
    BY DEF Running
<1>5. RunningHeld'
    BY <1>4 DEF RunningHeld
<1>6. OneChild'
    BY <1>4 DEF OneChild
<1> QED
    BY <1>1, <1>2, <1>3, <1>5, <1>6 DEF Lifecycle

\* Sending a signal takes no pending signal away.
LEMMA SendSignalAdds ==
    ASSUME WorldType, SendSignal
    PROVE  \A p \in Pids : pend[p] \subseteq pend'[p]
<1>1. CASE runningItem = NoItem
    BY <1>1 DEF SendSignal
<1>2. CASE runningItem # NoItem
  <2>1. DOMAIN pend = Pids \cup {InitPid}
      BY DEF WorldType
  <2> QED
      BY <1>2, <2>1 DEF SendSignal
<1> QED
    BY <1>1, <1>2

LEMMA SelectLifecycle == ASSUME IInv, TypeOK', Select PROVE Lifecycle'
<1> USE DisjointAssumption DEF IInv, TypeOK
<1>1. PICK caught : HandleSignals(caught)
    BY DEF Select, SelectReady, SelectTimeout, SelectIntr
<1>2. pc = "select"
    BY DEF Select, SelectReady, SelectTimeout, SelectIntr
<1>3. \A i \in ProcessItems : i \in marked' => i \in marked
    BY <1>1 DEF HandleSignals, Broadcast, Hears, ProcessItems
<1>4. \A p \in Pids : pend[p] \subseteq pend'[p]
  <2>1. pend' = pend \/ SendSignal
      BY <1>1 DEF HandleSignals
  <2> QED
      BY <2>1, SendSignalAdds
<1>5. /\ ProcessItems' = ProcessItems /\ runningItem' = runningItem
      /\ pidOf' = pidOf /\ os' = os /\ slave' = slave
    BY <1>1 DEF HandleSignals, ProcessItems, itemVars, ptyVars
<1> QED
    BY <1>2, <1>3, <1>4, <1>5, Frame DEF Up

LEMMA PassLifecycle == ASSUME IInv, TypeOK', Pass PROVE Lifecycle'
<1> USE DisjointAssumption DEF IInv, TypeOK
<1>1. pc = "work"
    BY DEF Pass, Accept, ReadProcess, ReadEof, ReadLogger, ReadUser, Visit,
           ProbeBadFd, WorkDone
<1>2. /\ runningItem' = runningItem /\ pidOf' = pidOf
      /\ os' = os /\ slave' = slave /\ pend' = pend
    BY DEF Pass, Accept, ReadProcess, ReadEof, ReadLogger, ReadUser, Visit,
           ProbeBadFd, WorkDone, itemVars, ptyVars, osVars
<1>3. ProcessItems' = ProcessItems
  <2>1. ASSUME NEW port \in Ports, Accept(port)
        PROVE  ProcessItems' = ProcessItems
      BY <2>1 DEF Accept, Backlog, Peers, Clients, ProcessItems
  <2>2. conns' = conns \/ \E port \in Ports : Accept(port)
      BY DEF Pass, ReadProcess, ReadEof, ReadLogger, ReadUser, ProbeBadFd,
             WorkDone
  <2> QED
      BY <2>1, <2>2 DEF ProcessItems
<1>4. \A i \in ProcessItems : i \in marked' => i \in marked \/ ~slave[i]
  <2>1. ASSUME NEW port \in Ports, Accept(port), NEW i \in ProcessItems,
               i \in marked'
        PROVE  i \in marked
      BY <2>1 DEF Accept, Backlog, Peers, Clients, ProcessItems
  <2>2. ASSUME NEW j \in Items, ReadProcess(j), NEW i \in ProcessItems,
               i \in marked'
        PROVE  i \in marked \/ ~slave[i]
    <3>1. CASE out[j]
        BY <2>2, <3>1 DEF ReadProcess, Broadcast, Hears, ProcessItems
    <3>2. CASE ~out[j]
        BY <2>2, <3>2 DEF ReadProcess, Visit, Phases
    <3> QED
        BY <3>1, <3>2
  <2>3. ASSUME NEW c \in Clients,
               ReadEof(c) \/ ReadLogger(c) \/ ReadUser(c),
               NEW i \in ProcessItems, i \in marked'
        PROVE  i \in marked
      BY <2>3 DEF ReadEof, ReadLogger, ReadUser, ProcessItems
  <2>4. ASSUME ProbeBadFd \/ WorkDone PROVE marked' = marked
      BY <2>4 DEF ProbeBadFd, WorkDone
  <2> QED
      BY <2>1, <2>2, <2>3, <2>4 DEF Pass
<1> QED
    BY <1>1, <1>2, <1>3, <1>4, Frame DEF Up

LEMMA CommandLifecycle == ASSUME IInv, TypeOK', Command PROVE Lifecycle'
<1> USE DisjointAssumption DEF IInv, TypeOK
<1>1. pc = "input" /\ (pc' = "input" \/ pc' = "work")
    BY DEF Command, CmdRestart, CmdKill, CmdQuit, CmdLogout, CmdToggle,
           CmdText, NextChar, ForwardInput
<1>2. /\ conns' = conns /\ runningItem' = runningItem /\ pidOf' = pidOf
      /\ os' = os /\ slave' = slave
    BY DEF Command, CmdRestart, CmdKill, CmdQuit, CmdLogout, CmdToggle,
           CmdText, NextChar, ForwardInput, itemVars, ptyVars, osVars
<1>3. \A i \in ProcessItems : i \in marked' => i \in marked \/ ~slave[i]
  <2>1. CASE CmdKill \/ CmdToggle
      BY <2>1 DEF CmdKill, CmdToggle, Broadcast, Hears, ProcessItems
  <2>2. CASE CmdRestart \/ CmdQuit \/ CmdText
      BY <2>2 DEF CmdRestart, CmdQuit, CmdText
  <2>3. CASE CmdLogout
    <3>1. reader \in Users
        BY <2>3 DEF CmdLogout, NextChar, Phases
    <3> QED
        BY <2>3, <3>1 DEF CmdLogout, Clients, ProcessItems
  <2>4. CASE ForwardInput
      BY <2>4 DEF ForwardInput
  <2> QED
      BY <2>1, <2>2, <2>3, <2>4 DEF Command
<1>4. \A p \in Pids : pend[p] \subseteq pend'[p]
  <2>1. pend' = pend \/ SendSignal
      BY DEF Command, CmdRestart, CmdKill, CmdQuit, CmdLogout, CmdToggle,
             CmdText, ForwardInput, osVars
  <2> QED
      BY <2>1, SendSignalAdds
<1>5. ProcessItems' = ProcessItems
    BY <1>2 DEF ProcessItems
<1> QED
    BY <1>1, <1>2, <1>3, <1>4, <1>5, Frame DEF Up

LEMMA ReapLifecycle ==
    ASSUME IInv, TypeOK', NEW q \in Pids, ReapChild(q) PROVE Lifecycle'
<1> USE DisjointAssumption DEF IInv, TypeOK
<1>1. /\ conns' = conns /\ runningItem' = runningItem /\ pidOf' = pidOf
      /\ slave' = slave /\ pend' = pend /\ pc = "reap" /\ pc' = "clean"
      /\ os[q] = "zombie" /\ os' = [os EXCEPT ![q] = "free"]
    BY DEF ReapChild, itemVars, ptyVars
<1>2. \A i \in ProcessItems : i \in marked' <=> i \in marked \/ pidOf[i] = q
    BY DEF ReapChild, Broadcast, Hears, ProcessItems
<1>3. ProcessItems' = ProcessItems
    BY <1>1 DEF ProcessItems
<1>4. \A p \in Pids : p # q => os'[p] = os[p]
    BY <1>1 DEF WorldType
<1>5. os'[q] = "free"
    BY <1>1 DEF WorldType
<1>6. OneItem'
    BY <1>1, <1>3 DEF OneItem
<1>7. PidHeld'
    BY <1>1, <1>2, <1>3, <1>4 DEF PidHeld
<1>8. YoungHeld'
    BY <1>1, <1>2, <1>3, <1>4, <1>5 DEF YoungHeld
<1>9. Running' = Running
    BY <1>1, <1>4, <1>5 DEF Running
<1>10. RunningHeld'
  <2>1. \A p \in Running : \E i \in ProcessItems : pidOf[i] = p
      BY <1>1 DEF RunningHeld, Up
  <2> QED
      BY <2>1, <1>1, <1>3, <1>9 DEF RunningHeld
<1>11. OneChild'
    BY <1>9 DEF OneChild
<1> QED
    BY <1>6, <1>7, <1>8, <1>10, <1>11 DEF Lifecycle

(***************************************************************************)
(* The deletion of dead connections.  The item that is deleted is not that *)
(* of a young child, so the kill in its destructor reaches the child.      *)
(***************************************************************************)
LEMMA CleanUpLifecycle == ASSUME IInv, TypeOK', CleanUp PROVE Lifecycle'
<1> USE DisjointAssumption, ConstantsAssumption DEF IInv, TypeOK
<1> DEFINE dead == marked \cap Items
<1>1. /\ ProcessItems' = ProcessItems \ dead
      /\ \A i \in ProcessItems' : i \notin marked'
    BY DEF CleanUp, Hears, ProcessItems, ItemType, Clients
<1>2. /\ runningItem' = IF dead = {} THEN runningItem ELSE NoItem
      /\ KillGroups(dead) /\ os' = os /\ pc = "clean"
      /\ \A i \in Items \ dead : pidOf'[i] = pidOf[i] /\ slave'[i] = slave[i]
  <2>1. \E gone : Release(dead, gone)
      BY DEF CleanUp
  <2>2. \A i \in Items \ dead : pidOf'[i] = pidOf[i] /\ slave'[i] = slave[i]
      BY <2>1 DEF Release, WorldType
  <2> QED
      BY <2>2 DEF CleanUp
<1>3. dead \subseteq ProcessItems /\ ProcessItems \subseteq Items
    BY DEF ProcessItems, ItemType
<1>4. OneItem'
  <2>1. CASE dead = {}
      BY <1>1, <1>2, <2>1 DEF OneItem
  <2>2. CASE dead # {}
    <3>1. ProcessItems \subseteq dead
        BY <1>3, <2>2 DEF OneItem
    <3> QED
        BY <1>1, <1>2, <2>2, <3>1 DEF OneItem
  <2> QED
      BY <2>1, <2>2
<1>5. PidHeld'
    BY <1>1, <1>2, <1>3 DEF PidHeld
<1>6. YoungHeld'
    BY <1>1, <1>2, <1>3 DEF YoungHeld
<1>7. /\ Running' \subseteq Running
      /\ \A i \in dead : pidOf[i] \notin Running'
  <2>1. \A p \in Pids : pend'[p] = IF \E i \in dead : pidOf[i] # NoPid
                                                /\ Reached(p, pidOf[i])
                                   THEN pend[p] \cup {"SIGKILL"} ELSE pend[p]
      BY <1>2 DEF KillGroups, WorldType
  <2>2. Running' \subseteq Running
      BY <1>2, <2>1 DEF Running
  <2>3. ASSUME NEW i \in dead, pidOf[i] \in Running' PROVE FALSE
    <3>1. pidOf[i] \in Pids /\ os[pidOf[i]] = "alive"
        BY <1>2, <1>3, <2>2, <2>3 DEF Running, YoungHeld
    <3> QED
        BY <2>1, <2>3, <3>1 DEF Running, Reached
  <2> QED
      BY <2>2, <2>3
<1>8. RunningHeld'
  <2>1. \A p \in Running : \E i \in ProcessItems : pidOf[i] = p
      BY <1>2 DEF RunningHeld, Up
  <2> QED
      BY <2>1, <1>1, <1>2, <1>3, <1>7 DEF RunningHeld
<1>9. OneChild'
    BY <1>7 DEF OneChild
<1> QED
    BY <1>4, <1>5, <1>6, <1>8, <1>9 DEF Lifecycle

\* A new item is made when there is none, and so nothing runs.
LEMMA RestartLifecycle == ASSUME IInv, TypeOK', Restart PROVE Lifecycle'
<1> USE DisjointAssumption, ConstantsAssumption DEF IInv, TypeOK
<1>1. ASSUME NEW i \in Items, NEW p, NewItem(i, p)
      PROVE  /\ ProcessItems = {} /\ ProcessItems' = {i} /\ Running = {}
             /\ runningItem' = i /\ pend' = pend /\ pidOf'[i] = p
  <2>1. runningItem = NoItem
      BY <1>1 DEF NewItem, NeedsRestart
  <2>2. ProcessItems = {}
      BY <2>1 DEF OneItem
  <2>3. Running = {}
      BY <1>1, <2>2 DEF RunningHeld, NewItem, Up
  <2>4. ProcessItems' = {i}
      BY <1>1, <2>2 DEF NewItem, ProcessItems
  <2> QED
      BY <1>1, <2>2, <2>3, <2>4 DEF NewItem, ItemType
<1>2. ASSUME NEW i \in Items, NEW p \in Pids, StartChild(i, p)
      PROVE  Lifecycle'
  <2>1. /\ ProcessItems = {} /\ ProcessItems' = {i} /\ Running = {}
        /\ runningItem' = i /\ pend' = pend /\ pidOf'[i] = p
      BY <1>1, <1>2 DEF StartChild
  <2>2. os'[p] = "young" /\ slave'[i] = TRUE
        /\ \A q \in Pids : q # p => os'[q] = os[q]
      BY <1>2 DEF StartChild, WorldType
  <2>3. i \notin marked'
      BY <1>2 DEF StartChild, NewItem, Broadcast, Hears, ItemType
  <2>4. OneItem'
      BY <2>1 DEF OneItem
  <2>5. PidHeld' /\ YoungHeld'
      BY <2>1, <2>2, <2>3 DEF PidHeld, YoungHeld
  <2>6. Running' \subseteq {p}
      BY <2>1, <2>2 DEF Running
  <2>7. RunningHeld' /\ OneChild'
      BY <2>1, <2>6 DEF RunningHeld, OneChild
  <2> QED
      BY <2>4, <2>5, <2>7 DEF Lifecycle
<1>3. ASSUME NEW i \in Items, StartFails(i) PROVE Lifecycle'
  <2>1. /\ ProcessItems = {} /\ ProcessItems' = {i} /\ Running = {}
        /\ runningItem' = i /\ pend' = pend /\ pidOf'[i] = NoPid
      BY <1>1, <1>3 DEF StartFails
  <2>2. Running' = {}
      BY <1>3, <2>1 DEF StartFails, Running
  <2> QED
      BY <2>1, <2>2 DEF Lifecycle, OneItem, PidHeld, YoungHeld, RunningHeld,
                        OneChild
<1>4. CASE OneshotExit \/ NoRestart
  <2>1. /\ conns' = conns /\ marked' = marked /\ runningItem' = runningItem
        /\ pidOf' = pidOf /\ os' = os /\ slave' = slave /\ pend' = pend
        /\ pc = "restart"
      BY <1>4 DEF OneshotExit, NoRestart, itemVars, ptyVars, osVars
  <2>2. ProcessItems' = ProcessItems
      BY <2>1 DEF ProcessItems
  <2> QED
      BY <2>1, <2>2, Frame DEF Up
<1> QED
    BY <1>2, <1>3, <1>4 DEF Restart

\* At the end a young child may be missed by the kill; nothing else runs on.
LEMMA CloseLifecycle == ASSUME IInv, TypeOK', CloseAll PROVE Lifecycle'
<1> USE DisjointAssumption, ConstantsAssumption DEF IInv, TypeOK
<1>1. /\ ProcessItems' = {} /\ runningItem' = NoItem /\ os' = os
      /\ pc = "closing" /\ pc' = "exited" /\ KillGroups(ProcessItems)
    BY DEF CloseAll, ProcessItems
<1>2. OneItem' /\ PidHeld' /\ YoungHeld'
    BY <1>1 DEF OneItem, PidHeld, YoungHeld
<1>3. \A p \in Pids :
         pend'[p] = IF \E i \in ProcessItems : pidOf[i] # NoPid
                                               /\ Reached(p, pidOf[i])
                    THEN pend[p] \cup {"SIGKILL"} ELSE pend[p]
    BY <1>1 DEF KillGroups, WorldType
<1>4. Running' \subseteq Running
    BY <1>1, <1>3 DEF Running
<1>5. ASSUME NEW p \in Running' PROVE os[p] = "young"
  <2>1. PICK i \in ProcessItems : pidOf[i] = p
      BY <1>1, <1>4 DEF RunningHeld, Up
  <2> QED
      BY <1>1, <1>3, <2>1 DEF Running, Reached
<1>6. RunningHeld' /\ OneChild'
    BY <1>1, <1>4, <1>5 DEF RunningHeld, OneChild, Up
<1> QED
    BY <1>2, <1>6 DEF Lifecycle

LEMMA WorldLifecycle == ASSUME IInv, TypeOK', World PROVE Lifecycle'
<1> USE DisjointAssumption, ConstantsAssumption DEF IInv, TypeOK
<1>1. /\ pc' = pc /\ conns' = conns /\ marked' = marked
      /\ runningItem' = runningItem /\ pidOf' = pidOf
    BY DEF World, Tick, ChildLeads, ChildExits, PidTaken, StrangerLeaves,
             ChildWrites, ChildClosesTty,
           ClientConnects, ClientCloses, ClientSends, SignalArrives,
           serverVars, loopVars, itemVars
<1>2. ProcessItems' = ProcessItems /\ (Up' <=> Up)
    BY <1>1 DEF ProcessItems, Up
<1>3. OneItem'
    BY <1>1, <1>2 DEF OneItem
<1>4. ASSUME UNCHANGED <<os, slave, pend>> PROVE Lifecycle'
    BY <1>1, <1>2, <1>4, Frame
<1>5. ASSUME NEW p \in Pids, ChildLeads(p) PROVE Lifecycle'
  <2>1. /\ os[p] = "young" /\ slave' = slave /\ pend' = pend
        /\ \A q \in Pids : q # p => os'[q] = os[q]
        /\ \/ os'[p] = "alive" /\ \E i \in ProcessItems : pidOf[i] = p
           \/ os'[p] = "zombie"
      BY <1>5 DEF ChildLeads, WorldType, ptyVars
  <2>2. PidHeld' /\ YoungHeld'
      BY <1>1, <1>2, <2>1 DEF PidHeld, YoungHeld
  <2>3. Running' \subseteq Running
      BY <2>1 DEF Running
  <2>4. RunningHeld' /\ OneChild'
      BY <1>1, <1>2, <2>1, <2>3 DEF RunningHeld, OneChild, Running
  <2> QED
      BY <1>3, <2>2, <2>4 DEF Lifecycle
<1>6. ASSUME NEW p \in Pids, ChildExits(p) PROVE Lifecycle'
  <2>1. /\ os'[p] = "zombie" /\ slave' = slave
        /\ \A q \in Pids : q # p => os'[q] = os[q] /\ pend'[q] = pend[q]
      BY <1>6 DEF ChildExits, WorldType, ptyVars
  <2>2. PidHeld' /\ YoungHeld'
      BY <1>1, <1>2, <2>1 DEF PidHeld, YoungHeld
  <2>3. Running' \subseteq Running /\ p \notin Running'
      BY <2>1 DEF Running
  <2>4. RunningHeld' /\ OneChild'
      BY <1>1, <1>2, <2>1, <2>3 DEF RunningHeld, OneChild, Running
  <2> QED
      BY <1>3, <2>2, <2>4 DEF Lifecycle
<1>7. ASSUME NEW j \in Items, ChildClosesTty(j) PROVE Lifecycle'
  <2>1. /\ os[pidOf[j]] # "young" /\ os' = os /\ pend' = pend
        /\ \A i \in Items : i # j => slave'[i] = slave[i]
      BY <1>7 DEF ChildClosesTty, WorldType, osVars
  <2>2. PidHeld' /\ YoungHeld'
      BY <1>1, <1>2, <2>1 DEF PidHeld, YoungHeld, ProcessItems
  <2>3. Running' = Running
      BY <2>1 DEF Running
  <2>4. RunningHeld' /\ OneChild'
      BY <1>1, <1>2, <2>1, <2>3 DEF RunningHeld, OneChild
  <2> QED
      BY <1>3, <2>2, <2>4 DEF Lifecycle
<1>9. ASSUME NEW p \in Pids, PidTaken(p) \/ StrangerLeaves(p) PROVE Lifecycle'
  <2>1. /\ os[p] \in {"free", "stranger"} /\ os'[p] \in {"free", "stranger"}
        /\ slave' = slave
        /\ \A q \in Pids : q # p => os'[q] = os[q] /\ pend'[q] = pend[q]
      BY <1>9 DEF PidTaken, StrangerLeaves, WorldType, ptyVars
  <2>2. PidHeld' /\ YoungHeld'
      BY <1>1, <1>2, <2>1 DEF PidHeld, YoungHeld
  <2>3. Running' = Running
      BY <2>1 DEF Running
  <2>4. RunningHeld'
    <3>1. \A q \in Running : os'[q] = os[q]
        BY <2>1 DEF Running
    <3> QED
        BY <1>1, <1>2, <2>3, <3>1 DEF RunningHeld
  <2>5. OneChild'
      BY <2>3 DEF OneChild
  <2> QED
      BY <1>3, <2>2, <2>4, <2>5 DEF Lifecycle
<1>8. ASSUME \/ Tick \/ \E i \in Items : ChildWrites(i)
             \/ \E c \in Clients : \/ ClientConnects(c) \/ ClientCloses(c)
                                   \/ \E ch : ClientSends(c, ch)
             \/ \E s \in Signals : SignalArrives(s)
      PROVE  Lifecycle'
    BY <1>4, <1>8 DEF Tick, ChildWrites, ClientConnects, ClientCloses,
                      ClientSends, SignalArrives, ptyVars, osVars
<1> QED
    BY <1>5, <1>6, <1>7, <1>8, <1>9 DEF World, Clients

LEMMA StepLifecycle == ASSUME IInv, TypeOK', [Next]_vars PROVE Lifecycle'
<1>1. CASE ReapNothing \/ UNCHANGED vars
  <2>1. /\ conns' = conns /\ marked' = marked /\ runningItem' = runningItem
        /\ pidOf' = pidOf /\ os' = os /\ slave' = slave /\ pend' = pend
        /\ pc = "reap" \/ pc' = pc
      BY <1>1 DEF ReapNothing, vars, loopVars, itemVars, ptyVars, osVars
  <2>2. ProcessItems' = ProcessItems
      BY <2>1 DEF ProcessItems
  <2> QED
      BY <2>1, <2>2, Frame DEF Up
<1>2. CASE Housekeeping
    BY <1>1, <1>2, ReapLifecycle, CleanUpLifecycle DEF Housekeeping
<1> QED
    BY <1>1, <1>2, SelectLifecycle, PassLifecycle, CommandLifecycle,
       RestartLifecycle, CloseLifecycle, WorldLifecycle
    DEF Next, Server, Gone

-----------------------------------------------------------------------------
(***************************************************************************)
(* The phases of the loop and the shutdown.                                *)
(***************************************************************************)
Control == Phases /\ ShutdownHeld

LEMMA SelectControl == ASSUME IInv, Select PROVE Control'
<1> USE DEF IInv, TypeOK
<1>1. PICK caught \in SUBSET sigPending : HandleSignals(caught)
    BY DEF Select, SelectReady, SelectTimeout, SelectIntr
<1>2. /\ pc = "select" /\ conns' = conns /\ runningItem' = runningItem
      /\ out' = out /\ slave' = slave
    BY <1>1 DEF Select, SelectReady, SelectTimeout, SelectIntr, HandleSignals,
                itemVars, ptyVars
<1>3. shutdownServer' => shutdownServer \/ (terminated' /\ "TERM" \in caught)
    BY <1>1 DEF HandleSignals, exitVars
<1>4. terminated => terminated'
    BY <1>1 DEF HandleSignals, exitVars
<1>5. CASE SelectReady
  <2>1. pc' = "work" /\ ready' = "work" /\ todo' = Readable
      BY <1>5 DEF SelectReady
  <2>2. Phases'
      BY <1>2, <2>1, DisjointAssumption DEF Phases, Readable, ProcessItems
  <2>3. ShutdownHeld'
      BY <1>2, <1>3, <1>4, <2>1 DEF ShutdownHeld, LeavesLoop
  <2> QED
      BY <2>2, <2>3 DEF Control
<1>6. CASE SelectTimeout
  <2>1. pc' = "reap" /\ (sigPending = {} \/ "late" \in Faults)
      BY <1>6 DEF SelectTimeout
  <2>2. Phases'
      BY <2>1 DEF Phases
  <2>3. ShutdownHeld'
      BY <1>2, <1>3, <1>4, <2>1 DEF ShutdownHeld, LeavesLoop
  <2> QED
      BY <2>2, <2>3 DEF Control
<1>7. CASE SelectIntr
  <2>1. pc' = IF shutdownServer' THEN "closing" ELSE "select"
      BY <1>7 DEF SelectIntr, EndIteration
  <2>2. Phases'
      BY <2>1 DEF Phases
  <2>3. ShutdownHeld'
      BY <1>2, <1>3, <1>4, <2>1 DEF ShutdownHeld, LeavesLoop
  <2> QED
      BY <2>2, <2>3 DEF Control
<1> QED
    BY <1>5, <1>6, <1>7 DEF Select

LEMMA PassControl == ASSUME IInv, TypeOK', Pass PROVE Control'
<1> USE DisjointAssumption DEF IInv, TypeOK
<1>1. /\ pc = "work" /\ pc' \in {"work", "input", "reap", "aborted"}
      /\ todo' \subseteq todo /\ conns \subseteq conns'
      /\ runningItem' = runningItem /\ slave' = slave
      /\ shutdownServer' = shutdownServer /\ terminated' = terminated
      /\ pc' # "aborted" => ready' = ready
    BY DEF Pass, Accept, ReadProcess, ReadEof, ReadLogger, ReadUser, Visit,
           ProbeBadFd, WorkDone, itemVars, exitVars, ptyVars
<1>2. pc' = "input" => reader' \in conns' \cap Users
  <2>1. ASSUME NEW c \in Clients, ReadUser(c) PROVE reader' \in conns' \cap Users
      BY <2>1 DEF ReadUser, Visit, Phases, Clients
  <2>2. pc' = "input" => \E c \in Clients : ReadUser(c)
      BY <1>1 DEF Pass, Accept, ReadProcess, ReadEof, ReadLogger, ProbeBadFd,
                  WorkDone
  <2> QED
      BY <2>1, <2>2
<1>3. \A i \in todo' \cap Items : out'[i] \/ ~slave'[i]
  <2>1. ASSUME NEW i \in todo' \cap Items PROVE out'[i] = out[i]
    <3>1. CASE out' = out
        BY <3>1
    <3>2. ASSUME NEW j \in Items, ReadProcess(j) PROVE out'[i] = out[i]
        BY <2>1, <3>2 DEF ReadProcess, Visit, WorldType
    <3> QED
        BY <3>1, <3>2 DEF Pass, Accept, ReadEof, ReadLogger, ReadUser,
                          ProbeBadFd, WorkDone, ptyVars
  <2> QED
      BY <1>1, <2>1 DEF Phases
<1>4. Phases'
    BY <1>1, <1>2, <1>3 DEF Phases
<1>5. ShutdownHeld'
    BY <1>1 DEF ShutdownHeld, LeavesLoop, Phases
<1> QED
    BY <1>4, <1>5 DEF Control

LEMMA CommandControl == ASSUME IInv, Command PROVE Control'
<1> USE DEF IInv, TypeOK
<1>1. /\ pc = "input" /\ pc' \in {"work", "input"}
      /\ ready' = ready /\ todo' = todo /\ conns' = conns
      /\ runningItem' = runningItem /\ out' = out /\ slave' = slave
      /\ pc' = "input" => reader' = reader
      /\ terminated' = terminated
    BY DEF Command, CmdRestart, CmdKill, CmdQuit, CmdLogout, CmdToggle,
           CmdText, NextChar, ForwardInput, itemVars, ptyVars, exitVars
<1>2. shutdownServer' => shutdownServer \/ runningItem = NoItem
    BY DEF Command, CmdRestart, CmdKill, CmdQuit, CmdLogout, CmdToggle,
           CmdText, ForwardInput, exitVars
<1>3. Phases'
    BY <1>1 DEF Phases
<1>4. ShutdownHeld'
    BY <1>1, <1>2 DEF ShutdownHeld, LeavesLoop, Phases
<1> QED
    BY <1>3, <1>4 DEF Control

LEMMA LaterControl ==
    ASSUME IInv, Housekeeping \/ Restart \/ CloseAll PROVE Control'
<1> USE DEF IInv, TypeOK
<1>1. ASSUME (\E p \in Pids : ReapChild(p)) \/ ReapNothing PROVE Control'
  <2>1. /\ pc = "reap" /\ pc' = "clean" /\ ready' = ready
        /\ runningItem' = runningItem /\ terminated' = terminated
        /\ shutdownServer' = shutdownServer
      BY <1>1 DEF ReapChild, ReapNothing, itemVars, exitVars
  <2> QED
      BY <2>1 DEF Control, Phases, ShutdownHeld, LeavesLoop
<1>2. CASE CleanUp
  <2>1. /\ pc = "clean" /\ runningItem' \in {runningItem, NoItem}
        /\ terminated' = terminated /\ shutdownServer' = shutdownServer
        /\ IF ready = "timeout"
           THEN pc' = "restart"
           ELSE pc' = IF shutdownServer' THEN "closing" ELSE "select"
      BY <1>2 DEF CleanUp, EndIteration, exitVars
  <2> QED
      BY <2>1 DEF Control, Phases, ShutdownHeld, LeavesLoop
<1>3. CASE Restart
  <2>1. /\ pc = "restart" /\ terminated' = terminated
        /\ pc' = IF shutdownServer' THEN "closing" ELSE "select"
        /\ \/ shutdownServer' = shutdownServer
           \/ runningItem = NoItem /\ runningItem' = NoItem
      BY <1>3 DEF Restart, StartChild, StartFails, NewItem, OneshotExit,
                  NoRestart, NeedsRestart, EndIteration, itemVars, exitVars
  <2> QED
      BY <2>1 DEF Control, Phases, ShutdownHeld, LeavesLoop
<1>4. CASE CloseAll
  <2>1. pc' = "exited" /\ runningItem' = NoItem
      BY <1>4 DEF CloseAll
  <2> QED
      BY <2>1 DEF Control, Phases, ShutdownHeld, LeavesLoop
<1> QED
    BY <1>1, <1>2, <1>3, <1>4 DEF Housekeeping

LEMMA WorldControl == ASSUME IInv, World \/ UNCHANGED vars PROVE Control'
<1> USE DEF IInv, TypeOK
<1>1. /\ pc' = pc /\ ready' = ready /\ todo' = todo /\ reader' = reader
      /\ conns' = conns /\ runningItem' = runningItem
      /\ shutdownServer' = shutdownServer /\ terminated' = terminated
    BY DEF World, Tick, ChildLeads, ChildExits, PidTaken, StrangerLeaves,
             ChildWrites, ChildClosesTty,
           ClientConnects, ClientCloses, ClientSends, SignalArrives,
           serverVars, loopVars, itemVars, exitVars, vars
<1>2. ASSUME NEW i \in Items, out[i] \/ ~slave[i]
      PROVE  out'[i] \/ ~slave'[i]
    BY <1>2 DEF World, Tick, ChildLeads, ChildExits, PidTaken, StrangerLeaves,
           ChildWrites, ChildClosesTty, ClientConnects, ClientCloses, ClientSends,
           SignalArrives, ptyVars, vars, WorldType
<1> QED
    BY <1>1, <1>2 DEF Control, Phases, ShutdownHeld, LeavesLoop

-----------------------------------------------------------------------------
(***************************************************************************)
(* The inductive invariant and what follows from it.                       *)
(***************************************************************************)
LEMMA InitInv == Init => IInv
<1> SUFFICES ASSUME Init PROVE IInv
    OBVIOUS
<1>1. OneItem /\ PidHeld /\ YoungHeld
    BY DEF Init, OneItem, PidHeld, YoungHeld, ProcessItems
<1>2. OneChild /\ RunningHeld
    BY DEF Init, OneChild, RunningHeld, Running
<1>3. Phases /\ ShutdownHeld
    BY DEF Init, Phases, ShutdownHeld
<1> QED
    BY <1>1, <1>2, <1>3, InitType DEF IInv

LEMMA StepInv == IInv /\ [Next]_vars => IInv'
<1> SUFFICES ASSUME IInv, [Next]_vars PROVE IInv'
    OBVIOUS
<1>1. TypeOK'
    BY StepType
<1>2. Lifecycle'
    BY <1>1, StepLifecycle
<1>3. Control'
    BY <1>1, SelectControl, PassControl, CommandControl, LaterControl,
       WorldControl DEF Next, Server, Gone
<1> QED
    BY <1>1, <1>2, <1>3 DEF IInv, Lifecycle, Control

\* Every reachable state of procServ satisfies the inductive invariant.
THEOREM Inductive == Spec => []IInv
BY InitInv, StepInv, PTL DEF Spec

\* Every variable keeps its type, for any number of clients and processes;
\* in particular only connections in the list are ever marked.
THEOREM TypeCorrect == Spec => []TypeOK
<1>1. IInv => TypeOK
    BY DEF IInv
<1> QED
    BY <1>1, Inductive, PTL

\* There is at most one processClass object, the one _runningItem points to
\* (processFactory, ~processClass).
THEOREM SingleItem == Spec => []OneItem
<1>1. IInv => OneItem
    BY DEF IInv
<1> QED
    BY <1>1, Inductive, PTL

\* The pid that the kill command and SIGTERM signal is never one that was
\* given back to the kernel, so that no process which got it since is hit
\* (OnPollTimeout, processFactorySendSignal).
THEOREM PidNeverStale == Spec => []PidHeld
<1>1. IInv => PidHeld
    BY DEF IInv
<1> QED
    BY <1>1, Inductive, PTL

\* At most one child runs that was not sent SIGKILL, whatever order its exit,
\* the closing of its terminal and the housekeeping come in.
THEOREM SingleChild == Spec => []OneChild
<1>1. IInv => OneChild
    BY DEF IInv
<1> QED
    BY <1>1, Inductive, PTL

\* The quit command and the end of oneshot mode never take a child down
\* (processInput, main loop).
THEOREM QuitSparesChild == Spec => []ExitSparesChild
<1>1. IInv => ExitSparesChild
    BY DEF IInv, Phases, ShutdownHeld, ExitSparesChild
<1> QED
    BY <1>1, Inductive, PTL

-----------------------------------------------------------------------------
(***************************************************************************)
(* The refinement of Supervisor, on a platform whose pselect does not both *)
(* time out and run handlers, and in a build that does not check FD_ISSET. *)
(***************************************************************************)
Plain == "late" \notin Faults /\ "fortify" \notin Faults

LEMMA InitRefines == Init => Promise!Init
BY DEF Init, Promise!Init, Up

\* What the Supervisor sees stays as it is.
Unseen == /\ UNCHANGED <<shutdownServer, runningItem, restartMode,
                         waitForManualStart, restartArmed, firstRun, hold>>
          /\ Up' = Up
LEMMA UnseenStutters == ASSUME Unseen PROVE UNCHANGED Promise!vars
BY DEF Unseen, Promise!vars, Up

LEMMA SelectRefines ==
    ASSUME IInv, Plain, Select PROVE Promise!Terminate \/ Unseen
<1>1. PICK caught : HandleSignals(caught)
    BY DEF Select, SelectReady, SelectTimeout, SelectIntr
<1>2. /\ UNCHANGED <<runningItem, restartMode, waitForManualStart,
                     restartArmed, firstRun, hold>>
      /\ shutdownServer' = shutdownServer \/ shutdownServer' = TRUE
    BY <1>1 DEF HandleSignals, policyVars, itemVars, exitVars
<1>3. pc = "select" /\ pc' \in {"select", "work", "reap", "closing"}
    BY DEF Select, SelectReady, SelectTimeout, SelectIntr, EndIteration
<1>4. Up /\ Up'
    BY <1>3 DEF Up
<1>5. ~shutdownServer
    BY <1>3 DEF IInv, ShutdownHeld, LeavesLoop, Plain
<1>6. CASE shutdownServer' = shutdownServer
    BY <1>2, <1>4, <1>6 DEF Unseen
<1>7. CASE shutdownServer' = TRUE
    BY <1>2, <1>4, <1>5, <1>7 DEF Promise!Terminate
<1> QED
    BY <1>2, <1>6, <1>7

LEMMA PassRefines == ASSUME IInv, Plain, Pass PROVE Unseen
<1>1. UNCHANGED <<runningItem, policyVars, exitVars>>
    BY DEF Pass, Accept, ReadProcess, ReadEof, ReadLogger, ReadUser, Visit,
           ProbeBadFd, WorkDone, itemVars
<1>2. pc = "work" /\ pc' \in {"work", "input", "reap"}
    BY DEF Pass, Accept, ReadProcess, ReadEof, ReadLogger, ReadUser, Visit,
           ProbeBadFd, WorkDone, Plain
<1> QED
    BY <1>1, <1>2 DEF Unseen, policyVars, exitVars, Up

LEMMA CommandRefines ==
    ASSUME IInv, Command
    PROVE  Promise!Order \/ Promise!Quit \/ Promise!Toggle \/ Unseen
<1>1. pc = "input" /\ pc' \in {"work", "input"} /\ runningItem' = runningItem
    BY DEF Command, CmdRestart, CmdKill, CmdQuit, CmdLogout, CmdToggle,
           CmdText, NextChar, ForwardInput, itemVars
<1>2. Up /\ Up'
    BY <1>1 DEF Up
<1>3. CASE CmdRestart \/ CmdKill
  <2>1. UNCHANGED <<restartMode, firstRun, shutdownServer>> /\ ManualStart
      BY <1>3 DEF CmdRestart, CmdKill
  <2>2. CASE runningItem = NoItem
      BY <1>1, <1>2, <2>1, <2>2 DEF ManualStart, Promise!Order
  <2>3. CASE runningItem # NoItem
      BY <1>1, <1>2, <2>1, <2>3 DEF ManualStart, Unseen
  <2> QED
      BY <2>2, <2>3
<1>4. CASE CmdQuit
  <2>1. UNCHANGED policyVars
        /\ shutdownServer' = (shutdownServer \/ runningItem = NoItem)
      BY <1>4 DEF CmdQuit
  <2>2. shutdownServer \in BOOLEAN
      BY DEF IInv, TypeOK, PolicyType
  <2>3. CASE ~shutdownServer /\ runningItem = NoItem
      BY <1>1, <1>2, <2>1, <2>3 DEF Promise!Quit, policyVars
  <2>4. CASE shutdownServer \/ runningItem # NoItem
    <3>1. shutdownServer' = shutdownServer
        BY <2>1, <2>2, <2>4
    <3> QED
        BY <1>1, <1>2, <2>1, <3>1 DEF Unseen, policyVars
  <2> QED
      BY <2>3, <2>4
<1>5. CASE CmdToggle
  <2>1. /\ restartMode' = NextMode[restartMode]
        /\ firstRun' = (firstRun \/ restartMode = "norestart")
        /\ UNCHANGED <<waitForManualStart, restartArmed, hold, shutdownServer>>
      BY <1>5 DEF CmdToggle
  <2>2. /\ restartMode \in {"restart", "norestart", "oneshot"}
        /\ firstRun \in BOOLEAN
      BY DEF IInv, TypeOK, PolicyType
  <2>3. \/ restartMode = "restart"   /\ restartMode' = "norestart"
           /\ firstRun' = firstRun
        \/ restartMode = "norestart" /\ restartMode' = "oneshot"
           /\ firstRun' = TRUE
        \/ restartMode = "oneshot"   /\ restartMode' = "restart"
           /\ firstRun' = firstRun
    <3>1. CASE restartMode = "restart"
      <4>1. restartMode' = "norestart"
          BY <2>1, <3>1 DEF NextMode
      <4> QED
          BY <2>1, <2>2, <3>1, <4>1
    <3>2. CASE restartMode = "norestart"
      <4>1. restartMode' = "oneshot"
          BY <2>1, <3>2 DEF NextMode
      <4> QED
          BY <2>1, <2>2, <3>2, <4>1
    <3>3. CASE restartMode = "oneshot"
      <4>1. restartMode' = "restart"
          BY <2>1, <3>3 DEF NextMode
      <4> QED
          BY <2>1, <2>2, <3>3, <4>1
    <3> QED
        BY <2>2, <3>1, <3>2, <3>3
  <2> QED
      BY <1>1, <1>2, <2>1, <2>3 DEF Promise!Toggle
<1>6. CASE CmdLogout \/ CmdText \/ ForwardInput
  <2>1. UNCHANGED <<policyVars, shutdownServer>>
      BY <1>6 DEF CmdLogout, CmdText, ForwardInput, exitVars
  <2> QED
      BY <1>1, <1>2, <2>1 DEF Unseen, policyVars
<1> QED
    BY <1>3, <1>4, <1>5, <1>6 DEF Command

LEMMA HousekeepingRefines ==
    ASSUME IInv, Housekeeping PROVE Promise!ChildLost \/ Unseen
<1>1. UNCHANGED <<policyVars, shutdownServer>> /\ Up /\ Up'
    BY DEF Housekeeping, ReapChild, ReapNothing, CleanUp, EndIteration,
           exitVars, Up
<1>2. \/ runningItem' = runningItem
      \/ runningItem # NoItem /\ runningItem' = NoItem
    BY DEF Housekeeping, ReapChild, ReapNothing, CleanUp, itemVars
<1>3. CASE runningItem' = runningItem
    BY <1>1, <1>3 DEF Unseen, policyVars
<1>4. CASE runningItem # NoItem /\ runningItem' = NoItem
    BY <1>1, <1>4 DEF Promise!ChildLost, policyVars
<1> QED
    BY <1>2, <1>3, <1>4

LEMMA RestartRefines ==
    ASSUME IInv, Plain, Restart
    PROVE  Promise!Start \/ Promise!GiveUp \/ Unseen
<1>1. pc = "restart" /\ pc' \in {"select", "closing"}
    BY DEF Restart, StartChild, StartFails, NewItem, OneshotExit, NoRestart,
           EndIteration
<1>2. Up /\ Up' /\ ~shutdownServer
    BY <1>1 DEF Up, IInv, ShutdownHeld, LeavesLoop, Plain
<1>3. ASSUME NEW i \in Items, NEW p, NewItem(i, p) PROVE Promise!Start
  <2>1. /\ runningItem = NoItem /\ hold = 0 /\ ~waitForManualStart
        /\ ~(restartMode = "norestart" /\ restartArmed)
        /\ restartMode = "oneshot" => firstRun
      BY <1>3 DEF NewItem, NeedsRestart, OneshotOver
  <2>2. /\ runningItem' = i /\ hold' = HoldoffTime /\ restartArmed' = TRUE
        /\ firstRun' = FALSE
        /\ UNCHANGED <<restartMode, waitForManualStart, shutdownServer>>
      BY <1>3 DEF NewItem, exitVars
  <2>3. i # NoItem
      BY ConstantsAssumption
  <2>4. Promise!Due
      BY <1>2, <2>1 DEF Promise!Due
  <2> QED
      BY <1>2, <2>1, <2>2, <2>3, <2>4 DEF Promise!Start
<1>4. CASE OneshotExit
  <2>1. Promise!Due
      BY <1>2, <1>4 DEF OneshotExit, NeedsRestart, Promise!Due
  <2> QED
      BY <1>2, <1>4, <2>1 DEF OneshotExit, OneshotOver, policyVars, itemVars,
                              Promise!GiveUp
<1>5. CASE NoRestart
    BY <1>2, <1>5 DEF NoRestart, Unseen, policyVars, exitVars, itemVars
<1> QED
    BY <1>3, <1>4, <1>5 DEF Restart, StartChild, StartFails

LEMMA CloseRefines == ASSUME IInv, CloseAll PROVE Promise!GoDown
<1>1. Up /\ ~Up' /\ shutdownServer
    BY DEF CloseAll, Up, IInv, Phases
<1> QED
    BY <1>1 DEF CloseAll, Promise!GoDown, policyVars

LEMMA WorldRefines == ASSUME IInv, World PROVE Promise!Pause \/ Unseen
<1>1. CASE Tick
    BY <1>1 DEF Tick, Promise!Pause, serverVars, loopVars, exitVars, itemVars,
                Up
<1>2. CASE ~Tick
    BY <1>2 DEF World, ChildLeads, ChildExits, PidTaken, StrangerLeaves,
             ChildWrites, ChildClosesTty,
                ClientConnects, ClientCloses, ClientSends, SignalArrives,
                serverVars, loopVars, exitVars, itemVars, Unseen, Up
<1> QED
    BY <1>1, <1>2

\* The loop, with its housekeeping, signals and faults of fork, starts, stops
\* and gives up its child as the Supervisor does: only when due, in the mode
\* and with the orders given, after the hold-off, and never while stopping.
THEOREM Refinement == Plain => (Spec => ImplementsSupervisor)
<1> SUFFICES ASSUME Plain PROVE Spec => ImplementsSupervisor
    OBVIOUS
<1>1. IInv /\ [Next]_vars => [Promise!Next]_(Promise!vars)
  <2> SUFFICES ASSUME IInv, [Next]_vars
               PROVE  Promise!Next \/ UNCHANGED Promise!vars
      OBVIOUS
  <2>1. CASE Server
      BY <2>1, SelectRefines, PassRefines, CommandRefines,
         HousekeepingRefines, RestartRefines, CloseRefines, UnseenStutters
      DEF Server, Promise!Next
  <2>2. CASE World
      BY <2>2, WorldRefines, UnseenStutters DEF Promise!Next
  <2>3. CASE UNCHANGED vars
    <3>1. Unseen
        BY <2>3 DEF Unseen, vars, loopVars, policyVars, exitVars, itemVars, Up
    <3> QED
        BY <3>1, UnseenStutters
  <2> QED
      BY <2>1, <2>2, <2>3 DEF Next, Gone
<1> QED
    BY <1>1, InitRefines, Inductive, PTL
    DEF Spec, ImplementsSupervisor, Promise!Spec
=============================================================================
