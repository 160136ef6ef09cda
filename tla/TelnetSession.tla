--------------------------- MODULE TelnetSession ---------------------------
(***************************************************************************)
(* One console connection, byte by byte: what a telnet client writes to    *)
(* the socket, the pieces in which clientItem::readFromFd reads it, the    *)
(* state machine of libtelnet.c that takes commands and subnegotiations    *)
(* out of it, and what the server writes in return.                        *)
(*                                                                         *)
(* telnet_init is called without flags and the library built without zlib, *)
(* so that line ends are not translated, nothing is compressed and         *)
(* TELNET_STATE_EOL is never entered; allocations do not fail.             *)
(*                                                                         *)
(* A byte is a string: the name of its meaning, where it has one.  A text  *)
(* may well hold the bytes that are called "IAC" or "SE".                  *)
(*                                                                         *)
(* A definition named ...Bug is a faulty variant of the one it precedes.   *)
(***************************************************************************)
EXTENDS Naturals, Sequences, SequencesExt

CONSTANTS
    Bytes,       \* all of them, or those that occur
    Options, Supported,  \* see TelnetNegotiate
    Environ,     \* the option whose subnegotiations the library parses
    MCCP1,       \* the option of the old compression protocol, 85
    BufferMax,   \* the largest buffer for a subnegotiation: 16384
    Inputs,      \* what the client may send of its own accord: see Typed, ...
    Outputs,     \* texts that the server has for the client
    MaxInputs, MaxAsks, MaxOutputs,  \* bounds: how often that happens,
    MaxSent,                         \* and in all
    CutWrites    \* a write may time out (SO_SNDTIMEO) with a part written

Negotiations == {"WILL", "WONT", "DO", "DONT"}

\* IAC is an option, 255, that nobody uses: my_telopts does not list it.
ASSUME BytesAssumption ==
    /\ Negotiations \cup {"IAC", "SB", "SE", "NOP"} \subseteq Bytes
    /\ Options \subseteq Bytes \ {"IAC"}
    /\ Inputs \subseteq [bytes : Seq(Bytes), text : Seq(Bytes)]
    /\ Outputs \subseteq Seq(Bytes)

ASSUME SupportedAssumption ==
    Supported \subseteq {"us", "him"} \X Options /\ IsFiniteSet(Supported)

ASSUME BoundsAssumption ==
    /\ {BufferMax, MaxInputs, MaxAsks, MaxOutputs, MaxSent} \subseteq Nat
    /\ CutWrites \in BOOLEAN

VARIABLES
    readonly,
    socket,      \* bytes that the client has written and nobody has read
    buffer,      \* what the current call of _process works on
    i, start,    \* its variables
    state,       \* telnet->state
    sbTelopt,    \* telnet->sb_telopt
    bufferPos,   \* telnet->buffer_pos
    q,           \* telnet->q
    peerQ,       \* the client's side of the negotiation
    toPeer,      \* bytes that the server has written
    owedInput,   \* text typed that has not reached processInput
    strayInput,  \* what reached processInput and was not owed
    owedOutput, strayOutput,   \* the same of text for the client
    inputs, asks, outputs      \* how much has been sent

clientVars == <<peerQ, asks>>
inVars     == <<owedInput, strayInput, inputs>>
outVars    == <<owedOutput, strayOutput, outputs>>
parserVars == <<buffer, i, start, state, sbTelopt, bufferPos>>
vars == <<readonly, socket, parserVars, q, clientVars, toPeer, inVars, outVars>>

-----------------------------------------------------------------------------
(* Bytes *)

\* telnet_send: the byte IAC is sent twice.
Escape(text) ==
    FlattenSeq([k \in DOMAIN text |->
                   IF text[k] = "IAC" THEN <<"IAC", "IAC">> ELSE <<text[k]>>])

CommandOf(verbs, word) == IF word = "yes" THEN verbs[1] ELSE verbs[2]
Offer   == <<"WILL", "WONT">>
Request == <<"DO", "DONT">>
Command(link, verbs, word) == <<"IAC", CommandOf(verbs, word), link[2]>>

\* _send_negotiate: of its own side the server says WILL, of the client's DO.
FromServer(link, word) ==
    Command(link, IF link[1] = "us" THEN Offer ELSE Request, word)
FromPeer(link, word) ==
    Command(link, IF link[1] = "us" THEN Request ELSE Offer, word)

\* The link that a command of the client, or of the server, is about.
ClientMeans(command, option) ==
    <<IF command \in {"WILL", "WONT"} THEN "him" ELSE "us", option>>
ServerMeans(command, option) ==
    <<IF command \in {"WILL", "WONT"} THEN "us" ELSE "him", option>>
Means(speaker, command, option) ==
    IF speaker = "client" THEN ClientMeans(command, option)
                          ELSE ServerMeans(command, option)
WordOf(command) == IF command \in {"WILL", "DO"} THEN "yes" ELSE "no"

(***************************************************************************)
(* What a client sends: text, a command that asks for nothing, or a        *)
(* subnegotiation.  Each is a record of its bytes and of what should reach *)
(* the child: nothing of a subnegotiation, as long as the buffer has room; *)
(* the byte that finds it full is lost, and the library takes what follows *)
(* for text.                                                               *)
(***************************************************************************)
Typed(text) == [bytes |-> Escape(text), text |-> text]
Nop == [bytes |-> <<"IAC", "NOP">>, text |-> <<>>]
Sub(option, content, last) ==
    [bytes |-> <<"IAC", "SB", option>> \o Escape(content) \o <<"IAC", last>>,
     text  |-> SubSeq(content, BufferMax + 2, Len(content))]
OldCompress == [bytes |-> <<"IAC", "SB", MCCP1, "WILL", "SE">>, text |-> <<>>]

-----------------------------------------------------------------------------
(* The negotiation as messages *)

(***************************************************************************)
(* Read from the start of the grammar, the byte at k is a command with an  *)
(* option behind it: the bytes IAC right in front of it, which make up     *)
(* pairs if they are text, are odd in number.                              *)
(***************************************************************************)
IsCommand(bytes, k) ==
    /\ bytes[k] \in Negotiations /\ k < Len(bytes)
    /\ \E n \in 1..(k - 1) :
          /\ n % 2 = 1
          /\ \A j \in (k - n)..(k - 1) : bytes[j] = "IAC"
          /\ n < k - 1 => bytes[k - n - 1] # "IAC"

\* The words that the bytes of a speaker say about a link.
WordsAbout(link, bytes, speaker) ==
    LET words[k \in 0..Len(bytes)] ==
          IF k = 0 THEN <<>>
          ELSE IF IsCommand(bytes, k)
                  /\ Means(speaker, bytes[k], bytes[k + 1]) = link
          THEN Append(words[k - 1], WordOf(bytes[k]))
          ELSE words[k - 1]
    IN  words[Len(bytes)]

Links == {"us", "him"} \X Options

\* What the state machine remembers of the bytes it has taken.
Begun == CASE state \in Negotiations -> <<"IAC", state>>
           [] state \in {"IAC", "SB_DATA_IAC"} -> <<"IAC">>
           [] OTHER -> <<>>

Unread == Begun \o SubSeq(buffer, i, Len(buffer)) \o socket

N == INSTANCE TelnetNegotiate WITH
        toPeer <- [l \in Links |-> WordsAbout(l, toPeer, "server")],
        toServer <- [l \in Links |-> WordsAbout(l, Unread, "client")]

TypeOK ==
    /\ readonly \in BOOLEAN
    /\ {socket, buffer, toPeer, owedInput, strayInput, owedOutput, strayOutput}
          \subseteq Seq(Bytes)
    /\ i \in 1..(Len(buffer) + 1) /\ start \in 1..(Len(buffer) + 2)
    /\ state \in {"DATA", "IAC", "SB", "SB_DATA", "SB_DATA_IAC"} \cup Negotiations
    /\ sbTelopt \in Bytes \cup {"NONE"} /\ bufferPos \in 0..BufferMax
    /\ q \in [Links -> N!QStates] /\ peerQ \in [Links -> N!QStates]
    /\ inputs \in 0..MaxInputs /\ asks \in 0..MaxAsks /\ outputs \in 0..MaxOutputs

Init ==
    /\ readonly \in BOOLEAN
    /\ q = [l \in Links |-> N!Opening(l).state]
    /\ peerQ = [l \in Links |-> "NO"]
    /\ toPeer = FlattenSeq(SetToSeq({FromServer(l, "yes") : l \in Supported}))
    /\ socket = <<>> /\ buffer = <<>> /\ i = 1 /\ start = 1
    /\ state = "DATA" /\ sbTelopt = "NONE" /\ bufferPos = 0
    /\ owedInput = <<>> /\ strayInput = <<>>
    /\ owedOutput = <<>> /\ strayOutput = <<>>
    /\ inputs = 0 /\ asks = 0 /\ outputs = 0

-----------------------------------------------------------------------------
(* Writing *)

(***************************************************************************)
(* writeToFd, for each piece that the library hands over: a write is whole *)
(* or, when it has timed out, a part; what is left is forgotten.           *)
(***************************************************************************)
Written(pieces) ==
    IF CutWrites
    THEN {FlattenSeq([k \in DOMAIN pieces |-> SubSeq(pieces[k], 1, n[k])]) :
             n \in {f \in [DOMAIN pieces -> 0..3] :
                       \A k \in DOMAIN pieces : f[k] <= Len(pieces[k])}}
    ELSE {FlattenSeq(pieces)}

Write(pieces) == \E bytes \in Written(pieces) : toPeer' = toPeer \o bytes

MoreToSend == inputs + asks + outputs < MaxSent

\* _process is calling processInput, which may toggle or kill, and tells all
\* clients of it before it returns: the one whose input it is among them.
InProcessInput ==
    /\ buffer # <<>>
    /\ \/ state = "DATA" /\ start < i /\ (i <= Len(buffer) => buffer[i] = "IAC")
       \/ state = "IAC" /\ i <= Len(buffer) /\ buffer[i] = "IAC"

\* Faulty: telnet_send leaves IAC as it is.
SendOutputBug ==
    /\ buffer = <<>> \/ InProcessInput
    /\ outputs < MaxOutputs /\ MoreToSend
    /\ \E text \in Outputs :
          /\ Write(<<text>>)
          /\ owedOutput' = owedOutput \o text
    /\ outputs' = outputs + 1
    /\ UNCHANGED <<readonly, socket, parserVars, q, clientVars, inVars, strayOutput>>

\* clientItem::Send of the child's output, or of a message, through telnet_send.
SendOutput ==
    /\ buffer = <<>> \/ InProcessInput
    /\ outputs < MaxOutputs /\ MoreToSend
    /\ \E text \in Outputs :
          /\ Write([k \in DOMAIN text |-> Escape(<<text[k]>>)])
          /\ owedOutput' = owedOutput \o text
    /\ outputs' = outputs + 1
    /\ UNCHANGED <<readonly, socket, parserVars, q, clientVars, inVars, strayOutput>>

-----------------------------------------------------------------------------
(* Reading: clientItem::readFromFd and _process *)

\* Faulty: what was begun is forgotten between two reads.
ReadBug ==
    /\ ~readonly /\ buffer = <<>>
    /\ \E n \in DOMAIN socket :
          /\ buffer' = SubSeq(socket, 1, n)
          /\ socket' = SubSeq(socket, n + 1, Len(socket))
    /\ state' = "DATA"
    /\ UNCHANGED <<readonly, i, start, sbTelopt, bufferPos, q, clientVars, toPeer,
                   inVars, outVars>>

Read ==
    /\ ~readonly /\ buffer = <<>>
    /\ \E n \in DOMAIN socket :
          /\ buffer' = SubSeq(socket, 1, n)
          /\ socket' = SubSeq(socket, n + 1, Len(socket))
    /\ UNCHANGED <<readonly, i, start, state, sbTelopt, bufferPos, q, clientVars,
                   toPeer, inVars, outVars>>

\* What a log client says is read and thrown away.
ReadReadonly ==
    /\ readonly /\ socket # <<>>
    /\ socket' = <<>> /\ owedInput' = <<>>
    /\ UNCHANGED <<readonly, parserVars, q, clientVars, toPeer, strayInput, inputs,
                   outVars>>

\* TELNET_EV_DATA: telnet_eh calls processInput.
ProcessInput(text) ==
    /\ IF IsPrefix(text, owedInput)
       THEN /\ owedInput' = SubSeq(owedInput, Len(text) + 1, Len(owedInput))
            /\ strayInput' = strayInput
       ELSE strayInput' = strayInput \o text /\ owedInput' = owedInput
    /\ inputs' = inputs

\* The bytes that wait to be passed on; none if start is ahead of i, since
\* processInput takes the size for a negative number.
Passed == SubSeq(buffer, start, i - 1)

\* One byte is dealt with; what comes next begins behind it, or does not.
Take   == i <= Len(buffer) /\ i' = i + 1
         /\ UNCHANGED <<readonly, socket, buffer, clientVars, outVars>>
Skip   == start' = i + 1
Remain == start' = start

InData ==
    /\ Take /\ Remain /\ state = "DATA"
    /\ IF buffer[i] = "IAC"
       THEN state' = "IAC" /\ ProcessInput(Passed)
       ELSE UNCHANGED <<state, inVars>>
    /\ UNCHANGED <<sbTelopt, bufferPos, q, toPeer>>

\* The state behind IAC and a byte.
AfterIac(byte) ==
    IF byte \in Negotiations \cup {"SB"} THEN byte ELSE "DATA"

InIac ==
    /\ Take /\ state = "IAC"
    /\ state' = AfterIac(buffer[i])
    /\ IF state' = "DATA" THEN Skip ELSE Remain
    /\ IF buffer[i] = "IAC" THEN ProcessInput(<<"IAC">>) ELSE UNCHANGED inVars
    /\ UNCHANGED <<sbTelopt, bufferPos, q, toPeer>>

InNegotiation ==
    /\ Take /\ Skip /\ state \in Negotiations /\ state' = "DATA"
    /\ LET l == ClientMeans(state, buffer[i])
           o == N!Negotiated(l, q[l], WordOf(state))
       IN  /\ q' = [q EXCEPT ![l] = o.state]
           /\ Write([k \in DOMAIN o.said |-> FromServer(l, o.said[k])])
    /\ UNCHANGED <<sbTelopt, bufferPos, inVars>>

InSb ==
    /\ Take /\ Remain /\ state = "SB" /\ state' = "SB_DATA"
    /\ sbTelopt' = buffer[i] /\ bufferPos' = 0
    /\ UNCHANGED <<q, toPeer, inVars>>

\* Faulty: the size of the buffer is not looked at.
BufferByteBug ==
    Remain /\ state' = "SB_DATA" /\ bufferPos' = bufferPos + 1

\* _buffer_byte: a byte that finds the buffer full ends the subnegotiation.
BufferByte ==
    IF bufferPos = BufferMax
    THEN Skip /\ state' = "DATA" /\ bufferPos' = bufferPos
    ELSE Remain /\ state' = "SB_DATA" /\ bufferPos' = bufferPos + 1

InSbData ==
    /\ Take /\ state = "SB_DATA"
    /\ \/ /\ buffer[i] = "IAC"
          /\ Remain /\ state' = "SB_DATA_IAC" /\ bufferPos' = bufferPos
       \/ /\ buffer[i] = "WILL" /\ sbTelopt = MCCP1
          /\ start' = i + 2 /\ state' = "DATA" /\ bufferPos' = bufferPos
       \/ /\ buffer[i] # "IAC" /\ ~(buffer[i] = "WILL" /\ sbTelopt = MCCP1)
          /\ BufferByte
    /\ UNCHANGED <<sbTelopt, q, toPeer, inVars>>

(***************************************************************************)
(* _subnegotiate returns non-zero when it has parsed the variables of an   *)
(* environment (which only it knows); the caller then hands the rest of    *)
(* the buffer to telnet_recv, which is the same as going on with it.  In   *)
(* the last case that leaves out the byte behind IAC.                      *)
(***************************************************************************)
Subnegotiate == IF sbTelopt = Environ THEN BOOLEAN ELSE {FALSE}

InSbDataIac ==
    /\ Take /\ state = "SB_DATA_IAC"
    /\ \/ /\ buffer[i] = "SE"
          /\ Skip /\ state' = "DATA" /\ bufferPos' = bufferPos
       \/ buffer[i] = "IAC" /\ BufferByte
       \/ /\ buffer[i] \notin {"SE", "IAC"}
          /\ Skip /\ bufferPos' = bufferPos
          /\ \E parsed \in Subnegotiate :
                state' = IF parsed THEN "IAC" ELSE AfterIac(buffer[i])
    /\ UNCHANGED <<sbTelopt, q, toPeer, inVars>>

\* Faulty: passes on what is left whatever it is.
EndOfBufferBug ==
    /\ buffer # <<>> /\ i > Len(buffer)
    /\ buffer' = <<>> /\ i' = 1 /\ start' = 1
    /\ ProcessInput(Passed)
    /\ UNCHANGED <<readonly, socket, state, sbTelopt, bufferPos, q, clientVars,
                   toPeer, outVars>>

\* The end of _process: what is left is passed on, unless it is a command.
EndOfBuffer ==
    /\ buffer # <<>> /\ i > Len(buffer)
    /\ buffer' = <<>> /\ i' = 1 /\ start' = 1
    /\ IF state = "DATA" THEN ProcessInput(Passed) ELSE UNCHANGED inVars
    /\ UNCHANGED <<readonly, socket, state, sbTelopt, bufferPos, q, clientVars,
                   toPeer, outVars>>

Process == \/ InData \/ InIac \/ InNegotiation \/ InSb \/ InSbData
           \/ InSbDataIac \/ EndOfBuffer

-----------------------------------------------------------------------------
(* The client, external.  What it does while _process runs commutes with   *)
(* that: the two only share the far ends of channels.  So it acts between  *)
(* two calls.                                                              *)

PeerTypes ==
    /\ buffer = <<>>
    /\ inputs < MaxInputs /\ MoreToSend /\ inputs' = inputs + 1
    /\ \E unit \in Inputs : /\ socket' = socket \o unit.bytes
                            /\ owedInput' = owedInput \o unit.text
    /\ UNCHANGED <<readonly, parserVars, q, clientVars, toPeer, strayInput, outVars>>

PeerSays(l, outcome) ==
    /\ peerQ' = [peerQ EXCEPT ![l] = outcome.state]
    /\ socket' = socket \o FlattenSeq([k \in DOMAIN outcome.said |->
                                          FromPeer(l, outcome.said[k])])

\* A bound: it asks before it types; its answers still meet what it types.
PeerAsks ==
    /\ buffer = <<>> /\ inputs = 0
    /\ asks < MaxAsks /\ MoreToSend /\ asks' = asks + 1
    /\ \E l \in Links : \E o \in N!PeerRequests(peerQ[l]) : PeerSays(l, o)
    /\ UNCHANGED <<readonly, parserVars, q, toPeer, inVars, outVars>>

PeerSees(text) ==
    /\ IF IsPrefix(text, owedOutput)
       THEN /\ owedOutput' = SubSeq(owedOutput, Len(text) + 1, Len(owedOutput))
            /\ strayOutput' = strayOutput
       ELSE strayOutput' = strayOutput \o text /\ owedOutput' = owedOutput
    /\ UNCHANGED <<socket, peerQ>>

PeerHas(n) == Len(toPeer) >= n /\ toPeer' = SubSeq(toPeer, n + 1, Len(toPeer))

PeerReads ==
    /\ buffer = <<>>
    /\ \/ PeerHas(1) /\ toPeer[1] # "IAC" /\ PeerSees(<<toPeer[1]>>)
       \/ PeerHas(2) /\ toPeer[1] = "IAC" /\ toPeer[2] \notin Negotiations
                     /\ PeerSees(IF toPeer[2] = "IAC" THEN <<"IAC">> ELSE <<>>)
       \/ /\ PeerHas(3) /\ toPeer[1] = "IAC" /\ toPeer[2] \in Negotiations
          /\ LET l == ServerMeans(toPeer[2], toPeer[3])
             IN  IF l \in Links
                 THEN \E o \in N!PeerOutcomes(peerQ[l], WordOf(toPeer[2])) : PeerSays(l, o)
                 ELSE UNCHANGED <<socket, peerQ>>
          /\ UNCHANGED <<owedOutput, strayOutput>>
    /\ UNCHANGED <<readonly, parserVars, q, asks, inVars, outputs>>

-----------------------------------------------------------------------------
Server == Read \/ ReadReadonly \/ Process

Next == Server \/ SendOutput \/ PeerTypes \/ PeerAsks \/ PeerReads

\* The server and the client read what there is; nobody need write.
Spec == Init /\ [][Next]_vars /\ WF_vars(Server) /\ WF_vars(PeerReads)

-----------------------------------------------------------------------------
(* Properties *)

Idle == socket = <<>> /\ buffer = <<>> /\ state = "DATA"

(***************************************************************************)
(* However the client's bytes are cut into reads, processInput gets what   *)
(* was typed, in order and nothing else: no byte of a command or of a      *)
(* subnegotiation that fits the buffer.  (_process, libtelnet.c:974;       *)
(* clientItem::readFromFd.)                                                *)
(***************************************************************************)
InputIntact == strayInput = <<>> /\ (Idle => owedInput = <<>>)

(***************************************************************************)
(* The client sees the text that was sent to it, also where it holds the   *)
(* byte IAC and where answers of the negotiation come in between.          *)
(* (telnet_send, libtelnet.c:1333; clientItem::Send.)                      *)
(***************************************************************************)
OutputIntact == strayOutput = <<>> /\ (toPeer = <<>> => owedOutput = <<>>)

(***************************************************************************)
(* The bytes amount to the exchange of messages of TelnetNegotiate: no     *)
(* command is lost, made up or taken for another because of where a read   *)
(* ended, or of the text and subnegotiations around it.                    *)
(***************************************************************************)
Negotiates == N!Spec

\* What the negotiation comes to (see TelnetNegotiate).
Agreed == N!Agreed

(***************************************************************************)
(* When the client asks for nothing more the exchange comes to an end: no  *)
(* answer is answered for ever, and of a user nothing is left unanswered.  *)
(***************************************************************************)
Settles ==
    <>[](/\ Idle /\ toPeer = <<>>
         /\ ~readonly => \A l \in Links : q[l] \in {"NO", "YES"})
=============================================================================
