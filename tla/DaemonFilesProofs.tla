------------------------- MODULE DaemonFilesProofs -------------------------
(***************************************************************************)
(* Proofs about DaemonFiles, for any number of launches.  A launch that    *)
(* had nobody beside it is the latest one, and all the others are over and *)
(* write and remove nothing; what remains is the order of the command's    *)
(* and the daemon's steps.                                                 *)
(***************************************************************************)
EXTENDS DaemonFiles, TLAPS

\* A command that has not been called has no server, and a server in the
\* foreground waits while it writes the PID file.
Paired ==
    \A l \in Launches :
        /\ command[l] = "idle" => server[l] = "none"
        /\ server[l] = "wait" <=> foreground[l] /\ ~CommandOver(l)
        /\ command[l] = "writing" => open["pid"][l] # None
        /\ server[l] = "writing" => open["info"][l] # None

\* While a launch runs that was alone all the time, the others are over.
Alone ==
    \A l \in Launches \ overlapped :
        l = last \/ ~Over(l) => l = last /\ \A k \in Launches \ {l} : Over(k)

\* The PID file, as the command and the daemon of the latest launch go on.
PidFile(l) ==
    /\ command[l] = "writing" /\ server[l] # "ended" => name["pid"] = open["pid"][l]
    /\ /\ command[l] = "over" /\ <<l, "pid">> \notin without
       /\ server[l] \notin {"none", "ended", "dead"}
       => Names("pid", l)
    /\ server[l] = "ended" /\ l \notin overtaken /\ <<l, "pid">> \notin stuck
       => name["pid"] = None

\* The info file, as its daemon goes on.
InfoFile(l) ==
    /\ server[l] = "writing" => name["info"] = open["info"][l]
    /\ server[l] = "up" /\ <<l, "info">> \notin without => Names("info", l)
    /\ server[l] \in {"tidy", "ended"} /\ <<l, "info">> \notin stuck
       => name["info"] = None

FilesInv ==
    /\ FilesTypeOK /\ Paired /\ Alone
    /\ \A l \in Launches \ overlapped : l = last => PidFile(l) /\ InfoFile(l)

-----------------------------------------------------------------------------
LEMMA InitFiles == Init => FilesInv
<1> SUFFICES ASSUME Init PROVE FilesInv
  OBVIOUS
<1>1. FilesTypeOK
  BY DEF Init, FilesTypeOK, Files
<1>2. Paired /\ Alone
  BY DEF Init, Paired, Alone, Over, CommandOver, ServerOver
<1>3. last \notin Launches
  BY DaemonAssumption DEF Init
<1> QED
  BY <1>1, <1>2, <1>3 DEF FilesInv

\* The operations on files keep to their types, and leave the other file alone.
LEMMA CreateTypes ==
    ASSUME FilesTypeOK, NEW f \in Files, NEW l \in Launches, Create(f, l)
    PROVE  /\ name' \in [Files -> Launches \cup {None}]
           /\ text' \in [Files -> [Launches -> Launches \cup {None}]]
           /\ open' \in [Files -> [Launches -> Launches \cup {None}]]
           /\ name'[f] = open'[f][l] /\ open'[f][l] # None
           /\ \A g \in Files \ {f} : /\ name'[g] = name[g]
                                     /\ text'[g] = text[g]
                                     /\ open'[g] = open[g]
<1> DEFINE inode == IF name[f] = None THEN l ELSE name[f]
<1>1. inode \in Launches /\ inode # None
  BY DaemonAssumption DEF FilesTypeOK
<1>2. /\ name' = [name EXCEPT ![f] = inode]
      /\ text' = [text EXCEPT ![f][inode] = None]
      /\ open' = [open EXCEPT ![f][l] = inode]
  BY DEF Create
<1> HIDE DEF inode
<1> QED
  BY <1>1, <1>2 DEF FilesTypeOK

\* A text that cannot be written is remembered.
LEMMA FinishTypes ==
    ASSUME FilesTypeOK, NEW f \in Files, NEW l \in Launches, NEW ok \in BOOLEAN,
           Finish(f, l, ok), open[f][l] # None
    PROVE  /\ name' \in [Files -> Launches \cup {None}]
           /\ text' \in [Files -> [Launches -> Launches \cup {None}]]
           /\ open' \in [Files -> [Launches -> Launches \cup {None}]]
           /\ name' = name
           /\ \A g \in Files \ {f} : text'[g] = text[g] /\ open'[g] = open[g]
           /\ without' \subseteq Launches \X Files /\ without \subseteq without'
           /\ \A k \in Launches, g \in Files \ {f} :
                 <<k, g>> \in without' => <<k, g>> \in without
           /\ <<l, f>> \notin without' => text'[f][open[f][l]] = l
<1>1. CASE ok
  BY <1>1 DEF Finish, FilesTypeOK
<1>2. CASE ~ok
  BY <1>2 DEF Finish, FilesTypeOK
<1> QED
  BY <1>1, <1>2

\* So is a name that cannot be removed.
LEMMA UnlinkTypes ==
    ASSUME FilesTypeOK, NEW f \in Files, NEW l \in Launches, NEW ok \in BOOLEAN,
           Unlink(f, l, ok)
    PROVE  /\ name' \in [Files -> Launches \cup {None}]
           /\ text' = text /\ open' = open
           /\ \A g \in Files \ {f} : name'[g] = name[g]
           /\ stuck' \subseteq Launches \X Files /\ stuck \subseteq stuck'
           /\ <<l, f>> \notin stuck' => name'[f] = None
<1>1. CASE ok
  BY <1>1 DEF Unlink, FilesTypeOK
<1>2. CASE ~ok
  BY <1>2 DEF Unlink, FilesTypeOK
<1> QED
  BY <1>1, <1>2

\* Whoever does a step beside the latest launch would not be over.
LEMMA Actor ==
    ASSUME FilesInv, NEW l \in Launches, ~Over(l),
           NEW k \in Launches \ overlapped, k = last
    PROVE  k = l
BY DEF FilesInv, Alone

LEMMA StaysAlone ==
    ASSUME FilesInv, NEW l \in Launches, ~Over(l), UNCHANGED <<overlapped, last>>,
           \A k \in Launches \ {l} : command'[k] = command[k] /\ server'[k] = server[k]
    PROVE  Alone'
<1> SUFFICES ASSUME NEW k \in Launches \ overlapped, k = last \/ ~Over(k)'
             PROVE  k = last /\ \A j \in Launches \ {k} : Over(j)'
  BY DEF Alone
<1>1. k = last \/ ~Over(k)
  BY DEF Over, CommandOver, ServerOver
<1>2. k = last /\ \A j \in Launches \ {k} : Over(j)
  BY <1>1 DEF FilesInv, Alone
<1> QED
  BY <1>2 DEF Over, CommandOver, ServerOver

LEMMA LaunchFiles ==
    ASSUME FilesInv, NEW l \in Launches, Launch(l)
    PROVE  FilesInv'
<1> DEFINE active == {k \in Launches : ~Over(k)}
<1>1. PICK fg \in BOOLEAN :
         /\ foreground' = [foreground EXCEPT ![l] = fg]
         /\ server' = [server EXCEPT ![l] = IF fg THEN "wait" ELSE "start"]
  BY DEF Launch
<1>2. /\ command[l] = "idle" /\ command' = [command EXCEPT ![l] = "pidfile"]
      /\ overlapped' = overlapped \cup (IF active = {} THEN {} ELSE active \cup {l})
      /\ last' = l
      /\ UNCHANGED <<exclusive, toOutput, name, text, open, without, stuck, overtaken>>
  BY DEF Launch, fileVars, settings
<1>3. FilesTypeOK'
  BY <1>1, <1>2 DEF FilesInv, FilesTypeOK
<1>4. Paired'
  BY <1>1, <1>2 DEF FilesInv, FilesTypeOK, Paired, CommandOver
<1>5. \A k \in Launches \ {l} : Over(k)' = Over(k)
  BY <1>1, <1>2 DEF FilesInv, FilesTypeOK, Over, CommandOver, ServerOver
<1>6. Over(l)
  BY <1>2 DEF FilesInv, Paired, Over, CommandOver, ServerOver
<1>7. Alone'
  <2> SUFFICES ASSUME NEW k \in Launches \ overlapped', k = l \/ ~Over(k)'
               PROVE  k = l /\ \A j \in Launches \ {k} : Over(j)'
    BY <1>2 DEF Alone
  <2>1. k = l
    BY <1>2, <1>5
  <2>2. active = {}
    BY <1>2, <2>1
  <2> QED
    BY <1>5, <2>1, <2>2
<1>8. PidFile(l)' /\ InfoFile(l)'
  BY <1>1, <1>2 DEF FilesInv, FilesTypeOK, PidFile, InfoFile
<1> QED
  BY <1>2, <1>3, <1>4, <1>7, <1>8 DEF FilesInv

LEMMA LaunchFailsFiles ==
    ASSUME FilesInv, NEW l \in Launches, LaunchFails(l)
    PROVE  FilesInv'
<1>1. /\ command[l] = "idle" /\ command' = [command EXCEPT ![l] = "over"]
      /\ UNCHANGED <<exclusive, toOutput, server, foreground, name, text, open,
                     overlapped, without, stuck, overtaken, last>>
  BY DEF LaunchFails, fileVars, histVars, settings
<1>2. server[l] = "none"
  BY <1>1 DEF FilesInv, Paired
<1>3. FilesTypeOK'
  BY <1>1 DEF FilesInv, FilesTypeOK
<1>4. Paired'
  BY <1>1 DEF FilesInv, FilesTypeOK, Paired, CommandOver
<1>5. \A k \in Launches : Over(k)' = Over(k)
  BY <1>1 DEF FilesInv, FilesTypeOK, Over, CommandOver, ServerOver
<1>6. Alone'
  BY <1>1, <1>5 DEF FilesInv, Alone
<1>7. ASSUME NEW k \in Launches \ overlapped, k = last
      PROVE  PidFile(k)' /\ InfoFile(k)'
  BY <1>1, <1>2, <1>7 DEF FilesInv, FilesTypeOK, PidFile, InfoFile, Names
<1> QED
  BY <1>1, <1>3, <1>4, <1>6, <1>7 DEF FilesInv

\* The command's part of the work.
LEMMA CommandFiles ==
    ASSUME FilesInv, NEW l \in Launches,
           OpenPid(l) \/ OpenPidFails(l) \/ WritePid(l)
    PROVE  FilesInv'
<1>1. ~Over(l) /\ command[l] \in {"pidfile", "writing"}
  BY DEF OpenPid, OpenPidFails, WritePid, Over, CommandOver
<1>2. UNCHANGED <<exclusive, toOutput, foreground, overlapped, stuck, last>>
  BY DEF OpenPid, OpenPidFails, WritePid, settings
<1>3. "pid" \in Files /\ "info" \in Files /\ "pid" # "info"
  BY DEF Files
<1>4. CASE OpenPid(l)
  <2>1. /\ command' = [command EXCEPT ![l] = "writing"]
        /\ command[l] = "pidfile"
        /\ Create("pid", l)
        /\ overtaken' = IF server[l] = "ended" THEN overtaken \cup {l} ELSE overtaken
        /\ UNCHANGED <<server, without>>
    BY <1>4 DEF OpenPid
  <2>2. FilesTypeOK'
    BY <1>2, <1>3, <2>1, CreateTypes DEF FilesInv, FilesTypeOK
  <2>3. Paired'
    <3>1. /\ \A k \in Launches \ {l} : open'["pid"][k] = open["pid"][k]
          /\ open'["info"] = open["info"] /\ open'["pid"][l] # None
      <4>1. open'["info"] = open["info"] /\ open'["pid"][l] # None
        BY <1>3, <2>1, CreateTypes DEF FilesInv
      <4>2. \A k \in Launches \ {l} : open'["pid"][k] = open["pid"][k]
        BY <1>3, <2>1 DEF Create, FilesInv, FilesTypeOK
      <4> QED
        BY <4>1, <4>2
    <3> QED
      BY <1>2, <2>1, <3>1 DEF FilesInv, FilesTypeOK, Paired, CommandOver
  <2>4. Alone'
    BY <1>1, <1>2, <2>1, StaysAlone DEF FilesInv, FilesTypeOK
  <2>5. ASSUME NEW k \in Launches \ overlapped, k = last
        PROVE  PidFile(k)' /\ InfoFile(k)'
    <3>1. k = l
      BY <1>1, <2>5, Actor
    <3>2. name'["pid"] = open'["pid"][l]
      BY <1>3, <2>1, CreateTypes DEF FilesInv
    <3>3. /\ name'["info"] = name["info"] /\ text'["info"] = text["info"]
          /\ open'["info"] = open["info"]
      BY <1>3, <2>1, CreateTypes DEF FilesInv
    <3>4. PidFile(l)'
      BY <1>2, <2>1, <3>2 DEF FilesInv, FilesTypeOK, PidFile
    <3>5. InfoFile(l)'
      BY <1>2, <2>1, <2>5, <3>1, <3>3 DEF FilesInv, InfoFile, Names
    <3> QED
      BY <3>1, <3>4, <3>5
  <2> QED
    BY <1>2, <2>2, <2>3, <2>4, <2>5 DEF FilesInv
<1>5. CASE OpenPidFails(l) \/ WritePid(l)
  <2>1. /\ command' = [command EXCEPT ![l] = "over"]
        /\ server' = [server EXCEPT ![l] = IF foreground[l] THEN "info" ELSE @]
        /\ UNCHANGED overtaken
    BY <1>5 DEF OpenPidFails, WritePid, GoesOn
  <2>2. /\ name' = name /\ text'["info"] = text["info"]
        /\ open'["info"] = open["info"]
        /\ \A k \in Launches \ {l} : open'["pid"][k] = open["pid"][k]
        /\ FilesTypeOK'
        /\ without \subseteq without'
        /\ \A k \in Launches : <<k, "info">> \in without' => <<k, "info">> \in without
        /\ <<l, "pid">> \notin without' =>
              /\ command[l] = "writing" /\ text'["pid"][open["pid"][l]] = l
    <3>1. CASE OpenPidFails(l)
      <4>1. /\ without' = without \cup {<<l, "pid">>}
            /\ UNCHANGED <<name, text, open>>
        BY <3>1 DEF OpenPidFails, fileVars
      <4> QED
        BY <1>2, <1>3, <2>1, <4>1 DEF FilesInv, FilesTypeOK
    <3>2. CASE WritePid(l)
      <4>1. PICK ok \in BOOLEAN : Finish("pid", l, ok)
        BY <3>2 DEF WritePid
      <4>2. command[l] = "writing" /\ open["pid"][l] # None
        BY <3>2 DEF WritePid, FilesInv, Paired
      <4>3. /\ name' \in [Files -> Launches \cup {None}]
            /\ text' \in [Files -> [Launches -> Launches \cup {None}]]
            /\ open' \in [Files -> [Launches -> Launches \cup {None}]]
            /\ name' = name
            /\ text'["info"] = text["info"] /\ open'["info"] = open["info"]
            /\ without' \subseteq Launches \X Files /\ without \subseteq without'
            /\ \A k \in Launches : <<k, "info">> \in without' => <<k, "info">> \in without
            /\ <<l, "pid">> \notin without' => text'["pid"][open["pid"][l]] = l
        BY <1>3, <4>1, <4>2, FinishTypes DEF FilesInv
      <4>4. FilesTypeOK'
        BY <1>2, <2>1, <4>3 DEF FilesInv, FilesTypeOK
      <4>5. \A k \in Launches \ {l} : open'["pid"][k] = open["pid"][k]
        BY <1>3, <4>1 DEF Finish, FilesInv, FilesTypeOK
      <4> QED
        BY <4>2, <4>3, <4>4, <4>5
    <3> QED
      BY <1>5, <3>1, <3>2
  <2>3. Paired'
    BY <1>1, <1>2, <2>1, <2>2 DEF FilesInv, FilesTypeOK, Paired, CommandOver
  <2>4. Alone'
    BY <1>1, <1>2, <2>1, StaysAlone DEF FilesInv, FilesTypeOK
  <2>5. ASSUME NEW k \in Launches \ overlapped, k = last
        PROVE  PidFile(k)' /\ InfoFile(k)'
    <3>1. k = l
      BY <1>1, <2>5, Actor
    <3>2. PidFile(l) /\ InfoFile(l)
      BY <2>5, <3>1 DEF FilesInv
    <3>3. foreground[l] => server[l] = "wait"
      BY <1>1 DEF FilesInv, Paired, CommandOver
    <3>4. command[l] = "writing" => open["pid"][l] # None
      BY DEF FilesInv, Paired
    <3>5. PidFile(l)'
      BY <1>2, <2>1, <2>2, <3>2, <3>3, <3>4 DEF FilesInv, FilesTypeOK, PidFile, Names
    <3>6. InfoFile(l)'
      BY <1>2, <2>1, <2>2, <3>2, <3>3 DEF FilesInv, FilesTypeOK, InfoFile, Names
    <3> QED
      BY <3>1, <3>5, <3>6
  <2> QED
    BY <1>2, <2>2, <2>3, <2>4, <2>5 DEF FilesInv
<1> QED
  BY <1>4, <1>5

\* The server's part.
LEMMA ServerFiles ==
    ASSUME FilesInv, NEW l \in Launches, Server(l)
    PROVE  FilesInv'
<1>1. ~Over(l)
  BY DEF Server, Redirect, OpenInfo, OpenInfoFails, WriteInfo, OpenLogFile,
         CloseSockets, UnlinkInfo, UnlinkPid, ServerDies, Over, ServerOver
<1>2. UNCHANGED <<exclusive, toOutput, foreground, overlapped, overtaken, last>>
  BY DEF Server, Redirect, OpenInfo, OpenInfoFails, WriteInfo, OpenLogFile,
         CloseSockets, UnlinkInfo, UnlinkPid, ServerDies, histVars, settings
<1>3. "pid" \in Files /\ "info" \in Files /\ "pid" # "info"
  BY DEF Files
<1>4. SUFFICES /\ FilesTypeOK' /\ Paired'
               /\ \A k \in Launches \ {l} : command'[k] = command[k] /\ server'[k] = server[k]
               /\ l \notin overlapped /\ l = last => PidFile(l)' /\ InfoFile(l)'
  <2>1. Alone'
    BY <1>1, <1>2, <1>4, StaysAlone
  <2>2. ASSUME NEW k \in Launches \ overlapped, k = last
        PROVE  PidFile(k)' /\ InfoFile(k)'
    BY <1>1, <1>4, <2>2, Actor
  <2> QED
    BY <1>2, <1>4, <2>1, <2>2 DEF FilesInv
<1>5. l \notin overlapped /\ l = last => PidFile(l) /\ InfoFile(l)
  BY DEF FilesInv
<1>6. CASE Redirect(l)
  <2>1. /\ server[l] = "start" /\ server' = [server EXCEPT ![l] = "info"]
        /\ UNCHANGED <<command, name, text, open, without, stuck>>
    BY <1>6 DEF Redirect, fileVars, histVars
  <2>2. FilesTypeOK' /\ Paired'
    BY <1>2, <2>1 DEF FilesInv, FilesTypeOK, Paired, CommandOver
  <2> QED
    BY <1>2, <1>5, <2>1, <2>2 DEF FilesInv, FilesTypeOK, PidFile, InfoFile, Names
<1>7. CASE OpenInfo(l)
  <2>1. /\ server[l] = "info" /\ server' = [server EXCEPT ![l] = "writing"]
        /\ Create("info", l) /\ UNCHANGED <<command, without, stuck>>
    BY <1>7 DEF OpenInfo, histVars
  <2>2. /\ name'["info"] = open'["info"][l] /\ open'["info"][l] # None
        /\ name'["pid"] = name["pid"] /\ text'["pid"] = text["pid"]
        /\ open'["pid"] = open["pid"]
    BY <1>3, <2>1, CreateTypes DEF FilesInv
  <2>3. FilesTypeOK'
    BY <1>2, <1>3, <2>1, CreateTypes DEF FilesInv, FilesTypeOK
  <2>4. Paired'
    <3>1. \A k \in Launches \ {l} : open'["info"][k] = open["info"][k]
      BY <1>3, <2>1 DEF Create, FilesInv, FilesTypeOK
    <3> QED
      BY <1>2, <2>1, <2>2, <3>1 DEF FilesInv, FilesTypeOK, Paired, CommandOver
  <2>5. \A k \in Launches \ {l} : command'[k] = command[k] /\ server'[k] = server[k]
    BY <2>1 DEF FilesInv, FilesTypeOK
  <2>6. PidFile(l) => PidFile(l)'
    BY <1>2, <2>1, <2>2 DEF FilesInv, FilesTypeOK, PidFile, Names
  <2>7. InfoFile(l)'
    BY <2>1, <2>2 DEF FilesInv, FilesTypeOK, InfoFile
  <2> QED
    BY <1>5, <2>3, <2>4, <2>5, <2>6, <2>7
<1>8. CASE OpenInfoFails(l)
  <2>1. /\ server[l] = "info" /\ server' = [server EXCEPT ![l] = "up"]
        /\ without' = without \cup {<<l, "info">>}
        /\ UNCHANGED <<command, name, text, open, stuck>>
    BY <1>8 DEF OpenInfoFails, fileVars
  <2>2. FilesTypeOK' /\ Paired'
    BY <1>2, <1>3, <2>1 DEF FilesInv, FilesTypeOK, Paired, CommandOver
  <2> QED
    BY <1>2, <1>5, <2>1, <2>2 DEF FilesInv, FilesTypeOK, PidFile, InfoFile, Names
<1>9. CASE WriteInfo(l)
  <2>0. PICK ok \in BOOLEAN : Finish("info", l, ok)
    BY <1>9 DEF WriteInfo
  <2>1. /\ server[l] = "writing" /\ server' = [server EXCEPT ![l] = "up"]
        /\ open["info"][l] # None
        /\ UNCHANGED <<command, stuck>>
    BY <1>9 DEF WriteInfo, FilesInv, Paired
  <2>2. /\ name' \in [Files -> Launches \cup {None}]
        /\ text' \in [Files -> [Launches -> Launches \cup {None}]]
        /\ open' \in [Files -> [Launches -> Launches \cup {None}]]
        /\ name' = name
        /\ text'["pid"] = text["pid"] /\ open'["pid"] = open["pid"]
        /\ without' \subseteq Launches \X Files
        /\ <<l, "pid">> \in without => <<l, "pid">> \in without'
        /\ <<l, "info">> \notin without' => text'["info"][open["info"][l]] = l
    BY <1>3, <2>0, <2>1, FinishTypes DEF FilesInv
  <2>3. FilesTypeOK'
    BY <1>2, <2>1, <2>2 DEF FilesInv, FilesTypeOK
  <2>4. Paired'
    <3>1. \A k \in Launches \ {l} : open'["info"][k] = open["info"][k]
      BY <1>3, <2>0 DEF Finish, FilesInv, FilesTypeOK
    <3> QED
      BY <1>2, <2>1, <2>2, <3>1 DEF FilesInv, FilesTypeOK, Paired, CommandOver
  <2>5. \A k \in Launches \ {l} : command'[k] = command[k] /\ server'[k] = server[k]
    BY <2>1 DEF FilesInv, FilesTypeOK
  <2>6. PidFile(l) => PidFile(l)'
    BY <1>2, <2>1, <2>2 DEF FilesInv, FilesTypeOK, PidFile, Names
  <2>7. InfoFile(l) => InfoFile(l)'
    BY <2>1, <2>2 DEF FilesInv, FilesTypeOK, InfoFile, Names
  <2> QED
    BY <1>5, <2>3, <2>4, <2>5, <2>6, <2>7
<1>10. CASE OpenLogFile(l)
  BY <1>2, <1>5, <1>10 DEF OpenLogFile, fileVars, histVars, FilesInv, FilesTypeOK,
     Paired, CommandOver, PidFile, InfoFile, Names
<1>11. CASE CloseSockets(l)
  <2>1. /\ server[l] = "up" /\ server' = [server EXCEPT ![l] = "closed"]
        /\ UNCHANGED <<command, name, text, open, without, stuck>>
    BY <1>11 DEF CloseSockets, fileVars, histVars
  <2>2. FilesTypeOK' /\ Paired'
    BY <1>2, <2>1 DEF FilesInv, FilesTypeOK, Paired, CommandOver
  <2> QED
    BY <1>2, <1>5, <2>1, <2>2 DEF FilesInv, FilesTypeOK, PidFile, InfoFile, Names
<1>12. CASE UnlinkInfo(l)
  <2>0. PICK ok \in BOOLEAN : Unlink("info", l, ok)
    BY <1>12 DEF UnlinkInfo
  <2>1. /\ server[l] = "closed" /\ server' = [server EXCEPT ![l] = "tidy"]
        /\ UNCHANGED <<command, without>>
    BY <1>12 DEF UnlinkInfo
  <2>2. /\ name' \in [Files -> Launches \cup {None}]
        /\ name'["pid"] = name["pid"]
        /\ text' = text /\ open' = open
        /\ stuck' \subseteq Launches \X Files /\ stuck \subseteq stuck'
        /\ <<l, "info">> \notin stuck' => name'["info"] = None
    BY <1>3, <2>0, UnlinkTypes DEF FilesInv
  <2>3. FilesTypeOK' /\ Paired'
    BY <1>2, <2>1, <2>2 DEF FilesInv, FilesTypeOK, Paired, CommandOver
  <2> QED
    BY <1>2, <1>5, <2>1, <2>2, <2>3 DEF FilesInv, FilesTypeOK, PidFile, InfoFile, Names
<1>13. CASE UnlinkPid(l)
  <2>0. PICK ok \in BOOLEAN : Unlink("pid", l, ok)
    BY <1>13 DEF UnlinkPid
  <2>1. /\ server[l] = "tidy" /\ server' = [server EXCEPT ![l] = "ended"]
        /\ UNCHANGED <<command, without>>
    BY <1>13 DEF UnlinkPid
  <2>2. /\ name' \in [Files -> Launches \cup {None}]
        /\ name'["info"] = name["info"]
        /\ text' = text /\ open' = open
        /\ stuck' \subseteq Launches \X Files /\ stuck \subseteq stuck'
        /\ <<l, "pid">> \notin stuck' => name'["pid"] = None
    BY <1>3, <2>0, UnlinkTypes DEF FilesInv
  <2>3. FilesTypeOK' /\ Paired'
    BY <1>2, <2>1, <2>2 DEF FilesInv, FilesTypeOK, Paired, CommandOver
  <2> QED
    BY <1>2, <1>5, <2>1, <2>2, <2>3 DEF FilesInv, FilesTypeOK, PidFile, InfoFile, Names
<1>14. CASE ServerDies(l)
  <2>1. /\ ~ServerOver(l) /\ server' = [server EXCEPT ![l] = "dead"]
        /\ command' = [command EXCEPT ![l] = IF foreground[l] THEN "over" ELSE @]
        /\ UNCHANGED <<name, text, open, without, stuck>>
    BY <1>14 DEF ServerDies, fileVars, histVars
  <2>2. command[l] # "idle"
    BY <2>1 DEF ServerOver, FilesInv, Paired
  <2>3. FilesTypeOK' /\ Paired'
    BY <1>2, <2>1, <2>2 DEF FilesInv, FilesTypeOK, Paired, CommandOver, ServerOver
  <2> QED
    BY <1>2, <1>5, <2>1, <2>3
    DEF FilesInv, FilesTypeOK, PidFile, InfoFile, Names, ServerOver
<1> QED
  BY <1>6, <1>7, <1>8, <1>9, <1>10, <1>11, <1>12, <1>13, <1>14 DEF Server

LEMMA NextFiles == FilesInv /\ [Next]_vars => FilesInv'
<1> SUFFICES ASSUME FilesInv, [Next]_vars PROVE FilesInv'
  OBVIOUS
<1>1. CASE UNCHANGED vars
  BY <1>1 DEF vars, settings, fileVars, histVars, FilesInv, FilesTypeOK, Paired, Alone, Over,
              CommandOver, ServerOver, PidFile, InfoFile, Names
<1>2. ASSUME NEW l \in Launches, Command(l) PROVE FilesInv'
  BY <1>2, LaunchFiles, LaunchFailsFiles, CommandFiles DEF Command
<1> QED
  BY <1>1, <1>2, ServerFiles DEF Next

\* The invariant about the files.
THEOREM FilesInductive == Spec => []FilesInv
BY InitFiles, NextFiles, PTL DEF Spec

\* When the command has returned the PID file names the daemon, and a server
\* in its main loop has an info file that names it.
THEOREM DaemonAnnounced == Spec => []Announced
<1>1. FilesInv => Announced
  <2> SUFFICES ASSUME FilesInv, NEW l \in Launches \ overlapped
               PROVE  /\ /\ command[l] = "over" /\ <<l, "pid">> \notin without
                         /\ server[l] \in {"start", "info", "writing", "up", "closed"}
                         => Names("pid", l)
                      /\ server[l] = "up" /\ <<l, "info">> \notin without
                         => Names("info", l)
    BY DEF Announced
  <2>1. CASE ServerOver(l)
    BY <2>1 DEF ServerOver
  <2>2. CASE ~ServerOver(l)
    <3>1. l = last
      BY <2>2 DEF FilesInv, Alone, Over
    <3> QED
      BY <3>1 DEF FilesInv, PidFile, InfoFile
  <2> QED
    BY <2>1, <2>2
<1> QED
  BY <1>1, FilesInductive, PTL

\* A server that has ended in order has removed its files.
THEOREM FilesRemoved == Spec => []CleanedUp
<1>1. FilesInv => CleanedUp
  BY DEF FilesInv, CleanedUp, PidFile, InfoFile
<1> QED
  BY <1>1, FilesInductive, PTL

-----------------------------------------------------------------------------
(* Descriptors of a server whose caller has left it all of 0 to 2.         *)

FullStd == StdSets = {{0, 1, 2}}

\* Which descriptors are open: with a log file or without, and with the
\* /dev/null that the daemon is going to use or without.
Layout(kind, log, null) ==
    [d \in FD |-> IF d \in {0, 1, 2} THEN kind
                  ELSE IF d = 3 THEN "listener"
                  ELSE IF d = 4 /\ log THEN "log"
                  ELSE IF null /\ d = (IF log THEN 5 ELSE 4) THEN "null"
                  ELSE "closed"]

FdInv ==
    /\ fds \in [Launches -> [FD -> Objects]]
    /\ logFD \in [Launches -> {-1, 1, 4}]
    /\ \A l \in Launches :
          /\ logFD[l] = 1 => toOutput
          /\ logFD[l] = 4 => ~toOutput
          /\ toOutput /\ server[l] \in {"start", "wait", "info", "writing", "up"}
                => logFD[l] = 1
          /\ server[l] = "start" =>
                ~foreground[l] /\ fds[l] = Layout("terminal", logFD[l] = 4, TRUE)
          /\ server[l] \in {"wait", "info", "writing", "up"} =>
                fds[l] = Layout(IF foreground[l] THEN "terminal" ELSE "null",
                                logFD[l] = 4, FALSE)

LEMMA Lowest ==
    ASSUME NEW t, NEW d \in FD, t[d] = "closed",
           \A e \in FD : e < d => t[e] # "closed"
    PROVE  LowestFree(t) = d
<1>1. \E c \in FD : t[c] = "closed" /\ \A e \in FD : t[e] = "closed" => c <= e
  BY DEF FD
<1>2. /\ LowestFree(t) \in FD /\ t[LowestFree(t)] = "closed"
      /\ \A e \in FD : t[e] = "closed" => LowestFree(t) <= e
  BY <1>1 DEF LowestFree
<1> QED
  BY <1>2 DEF FD

LEMMA LayoutType ==
    ASSUME NEW kind \in {"terminal", "null"}, NEW log \in BOOLEAN, NEW null \in BOOLEAN
    PROVE  Layout(kind, log, null) \in [FD -> Objects]
BY DEF Layout, Objects

\* The first descriptor after the listener and the log file.
LEMMA NextFree ==
    ASSUME NEW kind \in {"terminal", "null"}, NEW log \in BOOLEAN
    PROVE  LowestFree(Layout(kind, log, FALSE)) = IF log THEN 5 ELSE 4
<1> DEFINE t == Layout(kind, log, FALSE)  d == IF log THEN 5 ELSE 4
<1>1. d \in FD /\ t[d] = "closed" /\ \A e \in FD : e < d => t[e] # "closed"
  BY DEF Layout, FD
<1> QED
  BY <1>1, Lowest

\* The listener gets descriptor 3.
LEMMA ListenerLayout ==
    WithListener({0, 1, 2}) = Layout("terminal", FALSE, FALSE)
<1> DEFINE t == [d \in FD |-> IF d \in {0, 1, 2} THEN "terminal" ELSE "closed"]
<1>1. 3 \in FD /\ t[3] = "closed" /\ \A e \in FD : e < 3 => t[e] # "closed"
  BY DEF FD
<1>2. LowestFree(t) = 3
  BY <1>1, Lowest
<1>3. WithListener({0, 1, 2}) = [t EXCEPT ![3] = "listener"]
  BY <1>2 DEF WithListener, Opened
<1>4. [t EXCEPT ![3] = "listener"]
         = [d \in FD |-> IF d = 3 THEN "listener" ELSE t[d]]
  OBVIOUS
<1>5. \A d \in FD : (IF d = 3 THEN "listener" ELSE t[d])
                       = Layout("terminal", FALSE, FALSE)[d]
  BY DEF Layout
<1>6. Layout("terminal", FALSE, FALSE)
         = [d \in FD |-> Layout("terminal", FALSE, FALSE)[d]]
  BY DEF Layout
<1> QED
  BY <1>3, <1>4, <1>5, <1>6

\* The log file gets 4, the first time and every time; standard output stays 1.
LogFD(ok) == IF toOutput THEN 1 ELSE IF ok THEN 4 ELSE -1

LEMMA LogLayout ==
    ASSUME NEW kind \in {"terminal", "null"}, NEW old \in {-1, 1, 4}, NEW ok \in BOOLEAN,
           toOutput \in BOOLEAN
    PROVE  /\ Reopened(Layout(kind, old = 4, FALSE), old, ok)
                  = Layout(kind, LogFD(ok) = 4, FALSE)
           /\ ReopenedFD(Layout(kind, old = 4, FALSE), old, ok) = LogFD(ok)
<1> DEFINE t == Layout(kind, FALSE, FALSE)
<1>1. LogClosed(Layout(kind, old = 4, FALSE), old) = t
  <2>1. CASE old \in {-1, 1}
    <3>1. (old = 4) = FALSE
      BY <2>1
    <3>2. \A u : LogClosed(u, old) = u
      BY <2>1 DEF LogClosed
    <3> QED
      BY <3>1, <3>2
  <2>2. CASE old = 4
    BY <2>2 DEF LogClosed, Closed, Layout, FD
  <2> QED
    BY <2>1, <2>2
<1>2. LowestFree(t) = 4
  BY NextFree
<1>3. [t EXCEPT ![4] = "log"] = Layout(kind, TRUE, FALSE)
  <2>1. [t EXCEPT ![4] = "log"] = [d \in FD |-> IF d = 4 THEN "log" ELSE t[d]]
    BY DEF Layout
  <2>2. \A d \in FD : (IF d = 4 THEN "log" ELSE t[d]) = Layout(kind, TRUE, FALSE)[d]
    BY DEF Layout
  <2>3. Layout(kind, TRUE, FALSE) = [d \in FD |-> Layout(kind, TRUE, FALSE)[d]]
    BY DEF Layout
  <2> QED
    BY <2>1, <2>2, <2>3
<1> HIDE DEF t
<1>4. CASE toOutput
  <2>1. (LogFD(ok) = 4) = FALSE
    BY <1>4 DEF LogFD
  <2> QED
    BY <1>1, <1>4, <2>1 DEF Reopened, ReopenedFD, LogFD, t
<1>5. CASE ~toOutput /\ ok
  <2>1. (LogFD(ok) = 4) = TRUE
    BY <1>5 DEF LogFD
  <2> QED
    BY <1>1, <1>2, <1>3, <1>5, <2>1 DEF Reopened, ReopenedFD, Opened, LogFD
<1>6. CASE ~toOutput /\ ~ok
  <2>1. (LogFD(ok) = 4) = FALSE
    BY <1>6 DEF LogFD
  <2> QED
    BY <1>1, <1>6, <2>1 DEF Reopened, ReopenedFD, LogFD, t
<1> QED
  BY <1>4, <1>5, <1>6

\* /dev/null is behind the others.
LEMMA NullLayout ==
    ASSUME NEW log \in BOOLEAN
    PROVE  /\ Opened(Layout("terminal", log, FALSE), "null") = Layout("terminal", log, TRUE)
           /\ (CHOOSE d \in FD : Layout("terminal", log, TRUE)[d] = "null")
                 = IF log THEN 5 ELSE 4
<1> DEFINE t == Layout("terminal", log, TRUE)  fh == IF log THEN 5 ELSE 4
<1>1. [Layout("terminal", log, FALSE) EXCEPT ![fh] = "null"] = t
  <2> DEFINE u == Layout("terminal", log, FALSE)
  <2>1. [u EXCEPT ![fh] = "null"] = [d \in FD |-> IF d = fh THEN "null" ELSE u[d]]
    BY DEF Layout
  <2>2. \A d \in FD : (IF d = fh THEN "null" ELSE u[d]) = t[d]
    BY DEF Layout
  <2>3. t = [d \in FD |-> t[d]]
    BY DEF Layout
  <2> QED
    BY <2>1, <2>2, <2>3
<1>2. \A d \in FD : t[d] = "null" <=> d = fh
  BY DEF Layout, FD
<1>3. fh \in FD
  BY DEF FD
<1> HIDE DEF t, fh
<1>4. (CHOOSE d \in FD : t[d] = "null") = fh
  BY <1>2, <1>3
<1>5. LowestFree(Layout("terminal", log, FALSE)) = fh
  BY NextFree DEF fh
<1> QED
  BY <1>1, <1>4, <1>5 DEF Opened, t, fh

\* After the redirection /dev/null is behind 0 to 2 and nowhere else.
LEMMA RedirectedLayout ==
    ASSUME NEW log \in BOOLEAN
    PROVE  Redirected(Layout("terminal", log, TRUE), IF log THEN 5 ELSE 4)
              = Layout("null", log, FALSE)
<1> DEFINE fh == IF log THEN 5 ELSE 4
           t0 == Closed(Layout("terminal", log, TRUE), {0, 1, 2})
           t1 == [t0 EXCEPT ![0] = "null"]
           t2 == [t1 EXCEPT ![1] = "null"]
           t3 == [t2 EXCEPT ![2] = "null"]
<1>1. /\ t0 \in [FD -> Objects]
      /\ t0[0] = "closed" /\ t0[1] = "closed" /\ t0[2] = "closed"
      /\ t0[fh] = "null" /\ fh \in FD /\ fh \notin {0, 1, 2}
      /\ 0 \in FD /\ 1 \in FD /\ 2 \in FD
  BY DEF Closed, Layout, FD, Objects
<1>2. /\ \A d \in FD \ {0, 1, 2, fh} : t0[d] = Layout("null", log, FALSE)[d]
      /\ Layout("null", log, FALSE)[fh] = "closed"
      /\ \A d \in {0, 1, 2} : d \in FD /\ Layout("null", log, FALSE)[d] = "null"
      /\ Layout("null", log, FALSE) = [d \in FD |-> Layout("null", log, FALSE)[d]]
  BY <1>1 DEF Closed, Layout
<1> HIDE DEF t0, fh
<1>3. /\ \A e \in FD : ~(e < 0)
      /\ \A e \in FD : e < 1 => e = 0
      /\ \A e \in FD : e < 2 => e = 0 \/ e = 1
  BY DEF FD
<1>4. LowestFree(t0) = 0
  BY <1>1, <1>3, Lowest
<1>5. /\ t1 \in [FD -> Objects] /\ t1[fh] = "null"
      /\ t1[0] = "null" /\ t1[1] = "closed" /\ t1[2] = "closed"
  BY <1>1 DEF Objects
<1>6. Duped(t0, fh) = t1
  BY <1>1, <1>4 DEF Duped, Opened
<1> HIDE DEF t1
<1>7. LowestFree(t1) = 1
  BY <1>1, <1>3, <1>5, Lowest
<1>8. /\ t2 \in [FD -> Objects] /\ t2[fh] = "null"
      /\ t2[0] = "null" /\ t2[1] = "null" /\ t2[2] = "closed"
  BY <1>1, <1>5 DEF Objects
<1>9. Duped(t1, fh) = t2
  BY <1>5, <1>7 DEF Duped, Opened
<1> HIDE DEF t2
<1>10. LowestFree(t2) = 2
  BY <1>1, <1>3, <1>8, Lowest
<1>11. Duped(t2, fh) = t3
  BY <1>8, <1>10 DEF Duped, Opened
<1>12. /\ \A d \in {0, 1, 2} : t3[d] = "null"
       /\ \A d \in FD \ {0, 1, 2} : t3[d] = t0[d]
  BY <1>1, <1>8 DEF t1, t2
<1> HIDE DEF t3
<1>13. Closed(t3, {fh}) = Layout("null", log, FALSE)
  <2>1. \A d \in FD : (IF d \in {fh} THEN "closed" ELSE t3[d])
                          = Layout("null", log, FALSE)[d]
    BY <1>1, <1>2, <1>12
  <2> QED
    BY <1>2, <2>1 DEF Closed
<1> QED
  BY <1>6, <1>9, <1>11, <1>13 DEF Redirected, t0, fh

-----------------------------------------------------------------------------
LEMMA InitFd == Init => FdInv
BY DEF Init, FdInv, Objects

LEMMA NextFd == FullStd /\ FilesInv /\ FdInv /\ [Next]_vars => FdInv'
<1> SUFFICES ASSUME FullStd, FilesInv, FdInv, [Next]_vars PROVE FdInv'
  OBVIOUS
<1>1. ASSUME NEW l \in Launches, Launch(l) PROVE FdInv'
  <2>1. PICK fg \in BOOLEAN, ok \in BOOLEAN, std \in StdSets :
           LET t == Reopened(WithListener(std), -1, ok)
           IN  /\ foreground' = [foreground EXCEPT ![l] = fg]
               /\ server' = [server EXCEPT ![l] = IF fg THEN "wait" ELSE "start"]
               /\ logFD' = [logFD EXCEPT ![l] = ReopenedFD(WithListener(std), -1, ok)]
               /\ fds' = [fds EXCEPT ![l] = IF fg THEN t ELSE Opened(t, "null")]
    BY <1>1 DEF Launch
  <2>2. WithListener(std) = Layout("terminal", FALSE, FALSE)
    BY ListenerLayout DEF FullStd
  <2> DEFINE log == LogFD(ok) = 4
  <2>t. log \in BOOLEAN /\ LogFD(ok) \in {-1, 1, 4}
    BY DEF LogFD
  <2>3. /\ Reopened(WithListener(std), -1, ok) = Layout("terminal", log, FALSE)
        /\ ReopenedFD(WithListener(std), -1, ok) = LogFD(ok)
    <3>1. (-1 = 4) = FALSE /\ toOutput \in BOOLEAN
      BY DEF FilesInv, FilesTypeOK
    <3> QED
      BY <2>2, <3>1, LogLayout
  <2> HIDE DEF log
  <2>4. Opened(Layout("terminal", log, FALSE), "null") = Layout("terminal", log, TRUE)
    BY <2>t, NullLayout
  <2>5. fds' = [fds EXCEPT ![l] = Layout("terminal", log, ~fg)]
    <3>1. CASE fg
      BY <2>1, <2>3, <3>1
    <3>2. CASE ~fg
      BY <2>1, <2>3, <2>4, <3>2
    <3> QED
      BY <3>1, <3>2
  <2>6. Layout("terminal", log, ~fg) \in [FD -> Objects]
    BY <2>t, LayoutType
  <2>7. logFD' = [logFD EXCEPT ![l] = LogFD(ok)]
    BY <2>1, <2>3
  <2>8. /\ fds' \in [Launches -> [FD -> Objects]]
        /\ logFD' \in [Launches -> {-1, 1, 4}]
    BY <2>t, <2>5, <2>6, <2>7 DEF FdInv
  <2>9. (logFD'[l] = 4) = log /\ logFD'[l] = LogFD(ok)
    BY <2>7 DEF FdInv, log
  <2>10. ASSUME NEW k \in Launches
         PROVE  /\ server'[k] = "start" =>
                      /\ ~foreground'[k]
                      /\ fds'[k] = Layout("terminal", logFD'[k] = 4, TRUE)
                /\ server'[k] \in {"wait", "info", "writing", "up"} =>
                      fds'[k] = Layout(IF foreground'[k] THEN "terminal" ELSE "null",
                                       logFD'[k] = 4, FALSE)
    <3>1. CASE k = l
      <4>1. fds'[k] = Layout("terminal", logFD'[k] = 4, ~fg)
        BY <2>5, <2>9, <3>1 DEF FdInv
      <4>2. /\ foreground'[k] = fg
            /\ server'[k] = IF fg THEN "wait" ELSE "start"
        BY <2>1, <3>1 DEF FilesInv, FilesTypeOK
      <4> QED
        BY <4>1, <4>2
    <3>2. CASE k # l
      <4>1. /\ server[k] = "start" =>
                  ~foreground[k] /\ fds[k] = Layout("terminal", logFD[k] = 4, TRUE)
            /\ server[k] \in {"wait", "info", "writing", "up"} =>
                  fds[k] = Layout(IF foreground[k] THEN "terminal" ELSE "null",
                                  logFD[k] = 4, FALSE)
        BY DEF FdInv
      <4>2. /\ fds'[k] = fds[k] /\ logFD'[k] = logFD[k]
            /\ server'[k] = server[k] /\ foreground'[k] = foreground[k]
        BY <2>1, <2>5, <2>7, <3>2 DEF FdInv, FilesInv, FilesTypeOK
      <4> QED
        BY <4>1, <4>2, Zenon
    <3> QED
      BY <3>1, <3>2
  <2>11. ASSUME NEW k \in Launches
         PROVE  /\ logFD'[k] = 1 => toOutput'
                /\ logFD'[k] = 4 => ~toOutput'
                /\ toOutput' /\ server'[k] \in {"start", "wait", "info", "writing", "up"}
                      => logFD'[k] = 1
    <3>0. toOutput' = toOutput
      BY <1>1 DEF Launch, settings
    <3>1. CASE k = l
      BY <2>9, <3>0, <3>1 DEF LogFD
    <3>2. CASE k # l
      BY <2>1, <2>7, <3>0, <3>2 DEF FdInv, FilesInv, FilesTypeOK
    <3> QED
      BY <3>1, <3>2
  <2> QED
    BY <2>8, <2>10, <2>11 DEF FdInv
<1>2. ASSUME NEW l \in Launches, Redirect(l) PROVE FdInv'
  <2> DEFINE log == logFD[l] = 4
  <2>1. /\ server[l] = "start" /\ server' = [server EXCEPT ![l] = "info"]
        /\ fds' = [fds EXCEPT ![l] =
                      Redirected(@, CHOOSE d \in FD : fds[l][d] = "null")]
        /\ UNCHANGED <<foreground, logFD, toOutput>>
    BY <1>2 DEF Redirect, settings
  <2>2. fds[l] = Layout("terminal", log, TRUE) /\ ~foreground[l]
    BY <2>1 DEF FdInv
  <2>3. log \in BOOLEAN
    OBVIOUS
  <2> HIDE DEF log
  <2>4. (CHOOSE d \in FD : fds[l][d] = "null") = IF log THEN 5 ELSE 4
    BY <2>2, <2>3, NullLayout
  <2>5. Redirected(fds[l], CHOOSE d \in FD : fds[l][d] = "null")
           = Layout("null", log, FALSE)
    BY <2>2, <2>3, <2>4, RedirectedLayout
  <2>6. fds' = [fds EXCEPT ![l] = Layout("null", log, FALSE)]
    BY <2>1, <2>5
  <2>7. Layout("null", log, FALSE) \in [FD -> Objects]
    BY <2>3, LayoutType
  <2>8. fds'[l] = Layout("null", logFD'[l] = 4, FALSE) /\ server'[l] = "info"
    BY <2>1, <2>6 DEF FdInv, FilesInv, FilesTypeOK, log
  <2>9. /\ fds' \in [Launches -> [FD -> Objects]]
        /\ logFD' \in [Launches -> {-1, 1, 4}]
    BY <2>1, <2>6, <2>7 DEF FdInv
  <2>10. \A k \in Launches \ {l} : fds'[k] = fds[k] /\ server'[k] = server[k]
    BY <2>1, <2>6 DEF FdInv, FilesInv, FilesTypeOK
  <2>11. ASSUME NEW k \in Launches
         PROVE  /\ server'[k] = "start" =>
                      /\ ~foreground'[k]
                      /\ fds'[k] = Layout("terminal", logFD'[k] = 4, TRUE)
                /\ server'[k] \in {"wait", "info", "writing", "up"} =>
                      fds'[k] = Layout(IF foreground'[k] THEN "terminal" ELSE "null",
                                       logFD'[k] = 4, FALSE)
    <3>1. CASE k = l
      BY <2>1, <2>2, <2>8, <3>1
    <3>2. CASE k # l
      <4>1. /\ server[k] = "start" =>
                  ~foreground[k] /\ fds[k] = Layout("terminal", logFD[k] = 4, TRUE)
            /\ server[k] \in {"wait", "info", "writing", "up"} =>
                  fds[k] = Layout(IF foreground[k] THEN "terminal" ELSE "null",
                                  logFD[k] = 4, FALSE)
        BY DEF FdInv
      <4>2. /\ fds'[k] = fds[k] /\ logFD' = logFD
            /\ server'[k] = server[k] /\ foreground' = foreground
        BY <2>1, <2>10, <3>2
      <4> QED
        BY <4>1, <4>2, Zenon
    <3> QED
      BY <3>1, <3>2
  <2>12. \A k \in Launches :
            /\ logFD'[k] = 1 => toOutput'
            /\ logFD'[k] = 4 => ~toOutput'
            /\ toOutput' /\ server'[k] \in {"start", "wait", "info", "writing", "up"}
                  => logFD'[k] = 1
    BY <2>1, <2>10 DEF FdInv
  <2> QED
    BY <2>9, <2>11, <2>12 DEF FdInv
<1>3. ASSUME NEW l \in Launches, OpenLogFile(l) PROVE FdInv'
  <2> DEFINE kind == IF foreground[l] THEN "terminal" ELSE "null"
  <2>1. PICK ok \in BOOLEAN :
           /\ fds' = [fds EXCEPT ![l] = Reopened(@, logFD[l], ok)]
           /\ logFD' = [logFD EXCEPT ![l] = ReopenedFD(fds[l], @, ok)]
    BY <1>3 DEF OpenLogFile
  <2>2. server[l] = "up" /\ UNCHANGED <<server, foreground, toOutput>>
    BY <1>3 DEF OpenLogFile, settings
  <2>3. fds[l] = Layout(kind, logFD[l] = 4, FALSE) /\ logFD[l] \in {-1, 1, 4}
    BY <2>2 DEF FdInv
  <2>4. kind \in {"terminal", "null"}
    OBVIOUS
  <2> HIDE DEF kind
  <2>5. /\ Reopened(fds[l], logFD[l], ok) = Layout(kind, LogFD(ok) = 4, FALSE)
        /\ ReopenedFD(fds[l], logFD[l], ok) = LogFD(ok)
    <3>1. logFD[l] \in {-1, 1, 4} /\ toOutput \in BOOLEAN
      BY <2>3 DEF FilesInv, FilesTypeOK
    <3>2. /\ Reopened(Layout(kind, logFD[l] = 4, FALSE), logFD[l], ok)
                = Layout(kind, LogFD(ok) = 4, FALSE)
          /\ ReopenedFD(Layout(kind, logFD[l] = 4, FALSE), logFD[l], ok) = LogFD(ok)
      BY <2>4, <3>1, LogLayout
    <3> QED
      BY <2>3, <3>2, Zenon
  <2>6. /\ fds' = [fds EXCEPT ![l] = Layout(kind, LogFD(ok) = 4, FALSE)]
        /\ logFD' = [logFD EXCEPT ![l] = LogFD(ok)]
    BY <2>1, <2>5
  <2>7. Layout(kind, LogFD(ok) = 4, FALSE) \in [FD -> Objects]
    BY <2>4, LayoutType
  <2>8. logFD'[l] = LogFD(ok) /\ LogFD(ok) \in {-1, 1, 4}
    BY <2>6 DEF FdInv, LogFD
  <2>9. fds'[l] = Layout(kind, logFD'[l] = 4, FALSE)
    BY <2>6, <2>8 DEF FdInv
  <2>10. /\ fds' \in [Launches -> [FD -> Objects]]
         /\ logFD' \in [Launches -> {-1, 1, 4}]
    BY <2>6, <2>7, <2>8 DEF FdInv
  <2>11. \A k \in Launches \ {l} : fds'[k] = fds[k] /\ logFD'[k] = logFD[k]
    BY <2>6 DEF FdInv
  <2>12. \A k \in Launches :
            /\ logFD'[k] = 1 => toOutput'
            /\ logFD'[k] = 4 => ~toOutput'
            /\ toOutput' /\ server'[k] \in {"start", "wait", "info", "writing", "up"}
                  => logFD'[k] = 1
    <3>1. /\ logFD'[l] = 1 => toOutput
          /\ logFD'[l] = 4 => ~toOutput
          /\ toOutput => logFD'[l] = 1
      BY <2>8 DEF LogFD
    <3>2. \A k \in Launches \ {l} :
             /\ logFD[k] = 1 => toOutput
             /\ logFD[k] = 4 => ~toOutput
             /\ toOutput /\ server[k] \in {"start", "wait", "info", "writing", "up"}
                   => logFD[k] = 1
      BY DEF FdInv
    <3> QED
      BY <2>2, <2>11, <3>1, <3>2
  <2>13. ASSUME NEW k \in Launches
         PROVE  /\ server'[k] = "start" =>
                      /\ ~foreground'[k]
                      /\ fds'[k] = Layout("terminal", logFD'[k] = 4, TRUE)
                /\ server'[k] \in {"wait", "info", "writing", "up"} =>
                      fds'[k] = Layout(IF foreground'[k] THEN "terminal" ELSE "null",
                                       logFD'[k] = 4, FALSE)
    <3>1. CASE k = l
      BY <2>2, <2>9, <3>1 DEF kind
    <3>2. CASE k # l
      <4>1. /\ server[k] = "start" =>
                  ~foreground[k] /\ fds[k] = Layout("terminal", logFD[k] = 4, TRUE)
            /\ server[k] \in {"wait", "info", "writing", "up"} =>
                  fds[k] = Layout(IF foreground[k] THEN "terminal" ELSE "null",
                                  logFD[k] = 4, FALSE)
        BY DEF FdInv
      <4>2. /\ fds'[k] = fds[k] /\ logFD'[k] = logFD[k]
            /\ server' = server /\ foreground' = foreground
        BY <2>2, <2>11, <3>2
      <4> QED
        BY <4>1, <4>2, Zenon
    <3> QED
      BY <3>1, <3>2
  <2> QED
    BY <2>10, <2>12, <2>13 DEF FdInv
<1>4. ASSUME NEW l \in Launches, CloseSockets(l) PROVE FdInv'
  BY <1>4, ZenonT(40) DEF CloseSockets, settings, FdInv, FilesInv, FilesTypeOK, Objects
<1>5. CASE UNCHANGED <<fds, logFD, foreground, toOutput>>
           /\ \A k \in Launches :
                 /\ server'[k] = "start" => server[k] = "start"
                 /\ server'[k] \in {"wait", "info", "writing", "up"} =>
                       server[k] \in {"wait", "info", "writing", "up"}
  BY <1>5 DEF FdInv
<1>6. ASSUME NEW l \in Launches, OpenPidFails(l) \/ WritePid(l) PROVE FdInv'
  <2>1. foreground[l] => server[l] = "wait"
    BY <1>6 DEF OpenPidFails, WritePid, CommandOver, FilesInv, Paired
  <2> QED
    BY <1>5, <1>6, <2>1
    DEF OpenPidFails, WritePid, GoesOn, settings, fdVars, FilesInv, FilesTypeOK
<1>7. ASSUME NEW l \in Launches,
             \/ LaunchFails(l) \/ OpenPid(l) \/ OpenInfo(l) \/ OpenInfoFails(l)
             \/ WriteInfo(l) \/ UnlinkInfo(l) \/ UnlinkPid(l) \/ ServerDies(l)
      PROVE  FdInv'
  BY <1>5, <1>7
  DEF LaunchFails, OpenPid, OpenInfo, OpenInfoFails, WriteInfo, UnlinkInfo, UnlinkPid,
      ServerDies, settings, fdVars, FilesInv, FilesTypeOK
<1>8. CASE UNCHANGED vars
  BY <1>5, <1>8 DEF vars, settings, fdVars
<1> QED
  BY <1>1, <1>2, <1>3, <1>4, <1>6, <1>7, <1>8 DEF Next, Command, Server

\* The invariant about the descriptors, for a caller that leaves 0 to 2 open.
THEOREM DescriptorsInductive == Spec => [](FullStd => FdInv)
<1>1. FilesInv /\ (FullStd => FdInv) /\ [Next]_vars => (FullStd => FdInv)'
  BY NextFd DEF FullStd
<1>2. Init => (FullStd => FdInv)
  BY InitFd
<1> QED
  BY <1>1, <1>2, FilesInductive, PTL DEF Spec

\* Every variable keeps to its type.
THEOREM TypeCorrect == Spec => [](FullStd => TypeOK)
<1>1. FilesInv /\ (FullStd => FdInv) => (FullStd => TypeOK)
  <2>1. -1 \in FD \cup {-1} /\ 1 \in FD \cup {-1} /\ 4 \in FD \cup {-1}
    BY DEF FD
  <2> QED
    BY <2>1 DEF FilesInv, FdInv, TypeOK
<1> QED
  BY <1>1, FilesInductive, DescriptorsInductive, PTL

\* The redirection costs a daemon its terminal and nothing else.
THEOREM Redirection == Spec => [](FullStd => DescriptorsKept)
<1>1. FilesInv /\ FdInv => DescriptorsKept
  <2> SUFFICES ASSUME FilesInv, FdInv, NEW l \in Launches, server[l] \in {"info", "writing", "up"}
               PROVE
        /\ \A d \in 0..2 : fds[l][d] = IF foreground[l] THEN "terminal" ELSE "null"
        /\ \E d \in FD : fds[l][d] = "listener"
        /\ {d \in FD : fds[l][d] = "log"} = {logFD[l]} \ (IF toOutput THEN {1} ELSE {-1})
        /\ \A d \in FD \ (0..2) : fds[l][d] \notin {"terminal", "null"}
    BY DEF DescriptorsKept
  <2> DEFINE kind == IF foreground[l] THEN "terminal" ELSE "null"
  <2>1. /\ fds[l] = Layout(kind, logFD[l] = 4, FALSE)
        /\ toOutput => logFD[l] = 1
        /\ ~toOutput => logFD[l] \in {-1, 4}
    BY DEF FdInv
  <2>2. kind \in {"terminal", "null"}
    OBVIOUS
  <2> HIDE DEF kind
  <2>3. 0..2 = {0, 1, 2} /\ 3 \in FD /\ 4 \in FD /\ -1 \notin FD /\ {0, 1, 2} \subseteq FD
    BY DEF FD
  <2>4. /\ \A d \in {0, 1, 2} : fds[l][d] = kind
        /\ fds[l][3] = "listener"
        /\ \A d \in FD \ {0, 1, 2} : fds[l][d] \notin {"terminal", "null"}
    BY <2>1, <2>2, <2>3 DEF Layout
  <2>5. \A d \in FD : fds[l][d] = "log" <=> d = 4 /\ logFD[l] = 4
    BY <2>1, <2>2 DEF Layout
  <2>6. {d \in FD : fds[l][d] = "log"} = {logFD[l]} \ (IF toOutput THEN {1} ELSE {-1})
    <3>1. CASE ~toOutput /\ logFD[l] = 4
      BY <2>3, <2>5, <3>1
    <3>2. CASE ~toOutput /\ logFD[l] = -1
      BY <2>3, <2>5, <3>2
    <3>3. CASE toOutput /\ logFD[l] = 1
      BY <2>5, <3>3
    <3> QED
      BY <2>1, <3>1, <3>2, <3>3
  <2> QED
    BY <2>3, <2>4, <2>6 DEF kind
<1>2. FilesInv /\ (FullStd => FdInv) => (FullStd => DescriptorsKept)
  BY <1>1
<1> QED
  BY <1>2, FilesInductive, DescriptorsInductive, PTL

=============================================================================
