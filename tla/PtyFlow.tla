------------------------------ MODULE PtyFlow ------------------------------
(***************************************************************************)
(* The terminal between the server and one child: what clients type is     *)
(* read from their sockets, searched for the kill command, cleaned of      *)
(* ignored characters and written to the pty (clientItem::processInput,    *)
(* processClass::Send); what the child writes is read from the pty and     *)
(* sent to all (processClass::readFromFd).  The pty holds only so much in  *)
(* either direction, and its descriptor blocks: ProcServ assumes that the  *)
(* write returns, this module looks at when it does.  What comes when is   *)
(* decided by the main loop, whose passes are here as well.                *)
(*                                                                         *)
(* The life of one child is modelled, to the deletion of its item.  A      *)
(* child that is dead has closed its terminal and can be waited for; that  *)
(* the one may come before the other is looked at in ProcServ.             *)
(* A definition named ...Bug is a faulty variant of the one it precedes.   *)
(***************************************************************************)
EXTENDS Naturals, Sequences

CONSTANTS
    Users,       \* clients of the control port, connected all the time
    Chars,       \* what they type, of {"a", "b", "nul", "kill"}
    Ignored,     \* ignChars, {} if it is NULL
    InCap,       \* characters the terminal holds for the child
    OutCap,      \* characters the terminal holds for the server
    MaxTyped,    \* bound: characters typed in all
    MaxOutput,   \* bound: characters the child writes in all
    Reader       \* does the child read whatever else it does, "always", or
                 \* only when it is not writing, "between writes"

\* The process item, among the connections that may be ready.
Pty == "pty"

ASSUME FlowAssumption ==
    /\ Pty \notin Users
    /\ Chars \subseteq {"a", "b", "nul", "kill"}
    /\ Ignored \subseteq Chars
    /\ InCap \in Nat \ {0} /\ OutCap \in Nat \ {0}
    /\ MaxTyped \in Nat /\ MaxOutput \in Nat
    /\ Reader \in {"always", "between writes"}

VARIABLES
    pc,        \* "poll": at pselect, "pass": among the ready connections,
               \* "write": in the write of buf2, "reap": at OnPollTimeout
    todo,      \* ready connections that the pass has still to come to
    listed,    \* is the process item in the list
    buf,       \* what the write still has to put into the terminal
    inbox,     \* what each user has typed and the server has not read
    toChild,   \* what the terminal holds for the child
    toServer,  \* what the terminal holds for the server: output, numbered
    child,     \* "runs", "writes" (in a write of its own) or "dead"
    typed,     \* bound: how much has been typed
    output,    \* bound: how many characters the child has begun to write
    taken,     \* history: what the server read of clients
    got,       \* history: what the child read
    heard      \* history: what was sent to each user

loopVars  == <<pc, todo, listed>>
worldVars == <<child, typed, output, got>>
vars == <<loopVars, buf, inbox, toChild, toServer, worldVars, taken, heard>>

Text == Seq(Chars)

TypeOK ==
    /\ pc \in {"poll", "pass", "write", "reap"}
    /\ todo \subseteq Users \cup {Pty}
    /\ listed \in BOOLEAN
    /\ buf \in Text /\ toChild \in Text /\ taken \in Text /\ got \in Text
    /\ inbox \in [Users -> Text]
    /\ toServer \in Seq(1..MaxOutput) /\ Len(toServer) <= OutCap
    /\ Len(toChild) <= InCap
    /\ child \in {"runs", "writes", "dead"}
    /\ typed \in 0..MaxTyped /\ output \in 0..MaxOutput
    /\ heard \in [Users -> Seq(1..MaxOutput)]

Init ==
    /\ pc = "poll" /\ todo = {} /\ listed = TRUE
    /\ buf = <<>>
    /\ inbox = [u \in Users |-> <<>>]
    /\ toChild = <<>> /\ toServer = <<>>
    /\ child = "runs"
    /\ typed = 0 /\ output = 0
    /\ taken = <<>> /\ got = <<>>
    /\ heard = [u \in Users |-> <<>>]

-----------------------------------------------------------------------------
\* The loop that throws characters out: what is kept of the first i ones.
Without(text, chars) ==
    LET kept[i \in 0..Len(text)] ==
          IF i = 0 THEN <<>>
          ELSE IF text[i] \in chars THEN kept[i - 1]
          ELSE Append(kept[i - 1], text[i])
    IN  kept[Len(text)]

\* Faulty: nothing is thrown out.
SanitizedBug(text) == text

(***************************************************************************)
(* The working copy that processClass::Send writes.  With ignChars set,    *)
(* index() also finds a NUL, at the end of ignChars.  Without, strncpy     *)
(* copies up to the first NUL and fills up with NULs.                      *)
(***************************************************************************)
Sanitized(text) ==
    IF Ignored # {}
    THEN Without(text, Ignored \cup {"nul"})
    ELSE [i \in 1..Len(text) |->
            IF \E j \in 1..i : text[j] = "nul" THEN "nul" ELSE text[i]]

Kills(text) == \E i \in 1..Len(text) : text[i] = "kill" /\ "kill" \in Ignored

\* What pselect reports: the end of the terminal counts as something to read.
Ready ==
    {u \in Users : inbox[u] # <<>>}
    \cup {x \in {Pty} : listed /\ (toServer # <<>> \/ child = "dead")}

\* pselect returns because something is ready, or times out.
Poll ==
    /\ pc = "poll"
    /\ todo' = Ready
    /\ pc' = IF Ready = {} THEN "reap" ELSE "pass"
    /\ UNCHANGED <<listed, buf, inbox, toChild, toServer, worldVars, taken,
                   heard>>

\* The turn of x in the pass.
Visit(x) ==
    /\ pc = "pass" /\ x \in todo
    /\ todo' = todo \ {x}
    /\ UNCHANGED <<listed, toChild, typed, output, got>>

\* Faulty: only the first character is compared with the command.
TakeInputBug(u) ==
    /\ Visit(u)
    /\ inbox' = [inbox EXCEPT ![u] = <<>>]
    /\ taken' = taken \o inbox[u]
    /\ child' = IF Kills(<<Head(inbox[u])>>) THEN "dead" ELSE child
    /\ IF listed THEN pc' = "write" /\ buf' = Sanitized(inbox[u])
                 ELSE UNCHANGED <<pc, buf>>
    /\ UNCHANGED <<toServer, heard>>

\* readFromFd and processInput of a client: commands first, then the text,
\* which is for nobody if there is no process item.
TakeInput(u) ==
    /\ Visit(u)
    /\ inbox' = [inbox EXCEPT ![u] = <<>>]
    /\ taken' = taken \o inbox[u]
    /\ child' = IF Kills(inbox[u]) THEN "dead" ELSE child
    /\ IF listed THEN pc' = "write" /\ buf' = Sanitized(inbox[u])
                 ELSE UNCHANGED <<pc, buf>>
    /\ UNCHANGED <<toServer, heard>>

\* Faulty: a full terminal loses the character.
WriteSomeBug ==
    /\ pc = "write" /\ child # "dead" /\ buf # <<>>
    /\ toChild' = IF Len(toChild) < InCap THEN Append(toChild, Head(buf))
                                          ELSE toChild
    /\ buf' = Tail(buf)
    /\ UNCHANGED <<loopVars, inbox, toServer, worldVars, taken, heard>>

\* The write goes on as long as there is room; else it blocks.
WriteSome ==
    /\ pc = "write" /\ child # "dead" /\ buf # <<>>
    /\ Len(toChild) < InCap
    /\ toChild' = Append(toChild, Head(buf)) /\ buf' = Tail(buf)
    /\ UNCHANGED <<loopVars, inbox, toServer, worldVars, taken, heard>>

\* Faulty: a write that fails is tried again.
WriteReturnsBug ==
    /\ pc = "write" /\ buf = <<>>
    /\ pc' = "pass" /\ buf' = <<>>
    /\ UNCHANGED <<todo, listed, inbox, toChild, toServer, worldVars, taken,
                   heard>>

\* It returns when all is written, or fails when the child is gone.
WriteReturns ==
    /\ pc = "write" /\ (buf = <<>> \/ child = "dead")
    /\ pc' = "pass" /\ buf' = <<>>
    /\ UNCHANGED <<todo, listed, inbox, toChild, toServer, worldVars, taken,
                   heard>>

\* The first k characters of the output are sent to all.
SendToAll(k) ==
    heard' = [u \in Users |-> heard[u] \o SubSeq(toServer, 1, k)]

\* Faulty: the terminal is flushed, as after a read of all it holds.
TakeOutputBug ==
    /\ Visit(Pty)
    /\ IF toServer = <<>> THEN UNCHANGED <<heard, toServer>>
       ELSE \E k \in 1..Len(toServer) : SendToAll(k) /\ toServer' = <<>>
    /\ UNCHANGED <<pc, buf, inbox, child, taken>>

\* readFromFd of the process item: one read, which gives what it likes of
\* the output.  At the end of the terminal the item is marked; the child is
\* dead then, so that OnPollTimeout deletes the item in any case.
TakeOutput ==
    /\ Visit(Pty)
    /\ IF toServer = <<>> THEN UNCHANGED <<heard, toServer>>
       ELSE \E k \in 1..Len(toServer) :
               /\ SendToAll(k)
               /\ toServer' = SubSeq(toServer, k + 1, Len(toServer))
    /\ UNCHANGED <<pc, buf, inbox, child, taken>>

PassDone ==
    /\ pc = "pass" /\ todo = {}
    /\ pc' = "reap"
    /\ UNCHANGED <<todo, listed, buf, inbox, toChild, toServer, worldVars,
                   taken, heard>>

(***************************************************************************)
(* OnPollTimeout: once waitpid reports the child its item is marked and    *)
(* deleted, and the terminal closed with everything that is left in it.    *)
(***************************************************************************)
Reap ==
    /\ pc = "reap"
    /\ pc' = "poll"
    /\ IF child = "dead"
       THEN listed' = FALSE /\ toServer' = <<>> /\ toChild' = <<>>
       ELSE UNCHANGED <<listed, toServer, toChild>>
    /\ UNCHANGED <<todo, buf, inbox, worldVars, taken, heard>>

-----------------------------------------------------------------------------
\* Users and the child.
serverVars == <<loopVars, buf, taken, heard>>

Type(u, c) ==
    /\ typed < MaxTyped
    /\ inbox' = [inbox EXCEPT ![u] = Append(@, c)] /\ typed' = typed + 1
    /\ UNCHANGED <<serverVars, toChild, toServer, child, output, got>>

ChildReads ==
    /\ child = "runs" \/ (child = "writes" /\ Reader = "always")
    /\ toChild # <<>>
    /\ got' = Append(got, Head(toChild)) /\ toChild' = Tail(toChild)
    /\ UNCHANGED <<serverVars, inbox, toServer, child, typed, output>>

ChildWrites ==
    /\ child = "runs" /\ output < MaxOutput
    /\ child' = "writes" /\ output' = output + 1
    /\ UNCHANGED <<serverVars, inbox, toChild, toServer, typed, got>>

\* The child's write blocks until there is room.
ChildPuts ==
    /\ child = "writes" /\ Len(toServer) < OutCap
    /\ child' = "runs" /\ toServer' = Append(toServer, output)
    /\ UNCHANGED <<serverVars, inbox, toChild, typed, output, got>>

ChildDies ==
    /\ child # "dead" /\ child' = "dead"
    /\ UNCHANGED <<serverVars, inbox, toChild, toServer, typed, output, got>>

-----------------------------------------------------------------------------
Server == \/ Poll \/ PassDone \/ Reap
          \/ (\E u \in Users : TakeInput(u)) \/ TakeOutput
          \/ WriteSome \/ WriteReturns

Next ==
    \/ Server
    \/ ChildReads \/ ChildWrites \/ ChildPuts \/ ChildDies
    \/ \E u \in Users, c \in Chars : Type(u, c)

(***************************************************************************)
(* The server takes a step whenever it can: it has one thread, and only    *)
(* the write to the terminal blocks.  Of the child it is assumed that it   *)
(* reads what there is for it, unless it cannot, and that a write with     *)
(* room returns.                                                           *)
(***************************************************************************)
ServerFairness == WF_vars(Server)

ChildFairness == WF_vars(ChildReads) /\ WF_vars(ChildPuts)

Spec == Init /\ [][Next]_vars /\ ServerFairness /\ ChildFairness

-----------------------------------------------------------------------------
\* No ignored character ever reaches the child.
Shielded ==
    \A s \in {buf, toChild, got} : \A i \in 1..Len(s) : s[i] \notin Ignored

\* Everything else that clients typed reaches the child, once and in order,
\* as long as it lives (NULs apart, which telnet clients send after a CR).
Delivered ==
    child # "dead" =>
        Without(got \o toChild \o buf, {"nul"})
            = Without(taken, Ignored \cup {"nul"})

\* A character is heard in its place: nothing before it was lost, repeated or
\* put in another order.
Heard(n, u) == Len(heard[u]) >= n /\ heard[u][n] = n
InTerminal(n) == \E i \in 1..Len(toServer) : toServer[i] = n

\* What the child has written reaches every client, whole and in order, also
\* if it comes while the server is in a write to the terminal; unless the
\* child has died and its item is gone.
OutputForwarded ==
    \A n \in 1..MaxOutput, u \in Users :
        InTerminal(n) ~> ~listed \/ Heard(n, u)

\* Also what it wrote before it died.
LastWordsHeard ==
    \A n \in 1..MaxOutput, u \in Users : InTerminal(n) ~> Heard(n, u)

\* The server gets back to its loop from every write to the terminal.
WriteEnds == pc = "write" ~> pc # "write"

\* A kill command ends the child.
KillHeeded ==
    \A u \in Users : Kills(inbox[u]) ~> child = "dead"
=============================================================================
