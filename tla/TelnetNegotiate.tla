-------------------------- MODULE TelnetNegotiate --------------------------
(***************************************************************************)
(* How procServ and a telnet client agree on options, message by message:  *)
(* the Q method of RFC 1143 as libtelnet.c implements it, driven by the    *)
(* constructor of clientItem (clientFactory.cc).                           *)
(*                                                                         *)
(* An option has two sides: "us" is what the server may do (it says WILL   *)
(* or WONT, the client DO or DONT), "him" what the client may do (it says  *)
(* WILL or WONT, the server DO or DONT).  A side of an option is a link.   *)
(* WILL and DO are the word "yes", WONT and DONT the word "no"; which of   *)
(* the two is meant follows from the direction and the side.               *)
(*                                                                         *)
(* The links do not influence each other, so each has channels of its own: *)
(* a real connection, which keeps the order across links too, does no more *)
(* than this specification allows (module TelnetSession).                  *)
(*                                                                         *)
(* A definition named ...Bug is a faulty variant of the one it precedes.   *)
(***************************************************************************)
EXTENDS Naturals, Sequences

CONSTANTS
    Options,     \* the telnet options that may be spoken of
    Supported    \* the links that my_telopts lists

Sides == {"us", "him"}
Links == Sides \X Options
Words == {"yes", "no"}

\* Q_NO, Q_YES, ...: what libtelnet keeps for a link.
QStates == {"NO", "YES", "WANTNO", "WANTYES", "WANTNO_OP", "WANTYES_OP"}

VARIABLES
    readonly,   \* a log client: the server throws away what it sends
    q,          \* the server's RFC 1143 state of each link
    peerQ,      \* the client's
    toPeer,     \* words on their way to the client, by link
    toServer    \* and to the server

vars == <<readonly, q, peerQ, toPeer, toServer>>

TypeOK ==
    /\ readonly \in BOOLEAN
    /\ q \in [Links -> QStates]
    /\ peerQ \in [Links -> {"NO", "YES", "WANTNO", "WANTYES"}]
    /\ toPeer \in [Links -> Seq(Words)]
    /\ toServer \in [Links -> Seq(Words)]

-----------------------------------------------------------------------------
(* libtelnet *)

\* What becomes of a link, and what is said to the client.
Outcome(state, said) == [state |-> state, said |-> said]

\* _check_telopt: may the link be switched on at all?
CheckTelopt(l) == l \in Supported

\* Faulty: the answer to the server's own request is not noticed.
EnabledBug(l, state) ==
    CASE state = "NO" -> IF CheckTelopt(l) THEN Outcome("YES", <<"yes">>)
                                           ELSE Outcome("NO", <<"no">>)
      [] OTHER -> Outcome(state, <<>>)

\* _negotiate, for WILL and DO.
Enabled(l, state) ==
    CASE state = "NO" -> IF CheckTelopt(l) THEN Outcome("YES", <<"yes">>)
                                           ELSE Outcome("NO", <<"no">>)
      [] state = "WANTNO"     -> Outcome("NO", <<>>)
      [] state = "WANTYES_OP" -> Outcome("WANTNO", <<"no">>)
      [] OTHER                -> Outcome("YES", <<>>)

\* Faulty: a request to stop is obeyed and not answered.
DisabledBug(l, state) == Outcome("NO", <<>>)

(***************************************************************************)
(* _negotiate, for WONT and DONT.  With a queued request ("WANTNO_OP") the *)
(* library wants the option again but says so only on its own side: the    *)
(* case of WONT lacks the DO.  procServ never gets there (NeverQueued).    *)
(***************************************************************************)
Disabled(l, state) ==
    CASE state = "YES"       -> Outcome("NO", <<"no">>)
      [] state = "WANTNO_OP" ->
            Outcome("WANTYES", IF l[1] = "us" THEN <<"yes">> ELSE <<>>)
      [] OTHER               -> Outcome("NO", <<>>)

Negotiated(l, state, word) ==
    IF word = "yes" THEN Enabled(l, state) ELSE Disabled(l, state)

\* telnet_negotiate with WILL or DO, the only way procServ calls it.
Requested(state) ==
    CASE state = "NO"         -> Outcome("WANTYES", <<"yes">>)
      [] state = "WANTNO"     -> Outcome("WANTNO_OP", <<>>)
      [] state = "WANTYES_OP" -> Outcome("WANTYES", <<>>)
      [] OTHER                -> Outcome(state, <<>>)

\* clientItem::clientItem goes through my_telopts and asks for every link.
Opening(l) == IF l \in Supported THEN Requested("NO") ELSE Outcome("NO", <<>>)

-----------------------------------------------------------------------------
(* The client, external: it answers as RFC 1143 demands, may refuse what   *)
(* it is offered, and asks for changes whenever nothing is outstanding.    *)

PeerOutcomes(state, word) ==
    CASE word = "yes" /\ state = "NO" ->
            {Outcome("YES", <<"yes">>), Outcome("NO", <<"no">>)}
      [] word = "yes" /\ state = "WANTNO" -> {Outcome("NO", <<>>)}
      [] word = "yes" /\ state \in {"YES", "WANTYES"} -> {Outcome("YES", <<>>)}
      [] word = "no" /\ state = "YES" -> {Outcome("NO", <<"no">>)}
      [] word = "no" /\ state # "YES" -> {Outcome("NO", <<>>)}

PeerRequests(state) ==
    CASE state = "NO"  -> {Outcome("WANTYES", <<"yes">>)}
      [] state = "YES" -> {Outcome("WANTNO", <<"no">>)}
      [] OTHER         -> {}

-----------------------------------------------------------------------------
Init ==
    /\ readonly \in BOOLEAN
    /\ q = [l \in Links |-> Opening(l).state]
    /\ toPeer = [l \in Links |-> Opening(l).said]
    /\ peerQ = [l \in Links |-> "NO"]
    /\ toServer = [l \in Links |-> <<>>]

\* telnet_recv has the last byte of a command.
ServerReceives(l) ==
    /\ ~readonly /\ toServer[l] # <<>>
    /\ LET o == Negotiated(l, q[l], Head(toServer[l]))
       IN  /\ q' = [q EXCEPT ![l] = o.state]
           /\ toPeer' = [toPeer EXCEPT ![l] = @ \o o.said]
    /\ toServer' = [toServer EXCEPT ![l] = Tail(@)]
    /\ UNCHANGED <<readonly, peerQ>>

\* clientItem::readFromFd of a log client: nobody looks at what was read.
ServerIgnores ==
    /\ readonly
    /\ toServer' = [l \in Links |-> <<>>]
    /\ UNCHANGED <<readonly, q, peerQ, toPeer>>

PeerReceives(l) ==
    /\ toPeer[l] # <<>>
    /\ \E o \in PeerOutcomes(peerQ[l], Head(toPeer[l])) :
          /\ peerQ' = [peerQ EXCEPT ![l] = o.state]
          /\ toServer' = [toServer EXCEPT ![l] = @ \o o.said]
    /\ toPeer' = [toPeer EXCEPT ![l] = Tail(@)]
    /\ UNCHANGED <<readonly, q>>

PeerAsks(l) ==
    /\ \E o \in PeerRequests(peerQ[l]) :
          /\ peerQ' = [peerQ EXCEPT ![l] = o.state]
          /\ toServer' = [toServer EXCEPT ![l] = @ \o o.said]
    /\ UNCHANGED <<readonly, q, toPeer>>

Next ==
    \/ ServerIgnores
    \/ \E l \in Links : ServerReceives(l) \/ PeerReceives(l) \/ PeerAsks(l)

Spec == Init /\ [][Next]_vars

-----------------------------------------------------------------------------
(* Properties *)

(***************************************************************************)
(* When no word is on its way both sides think the same of every link, and *)
(* neither waits for an answer, whatever requests have crossed or been     *)
(* refused.  (_negotiate, libtelnet.c:366.)                                *)
(***************************************************************************)
Agreed ==
    ~readonly =>
        \A l \in Links : toPeer[l] = <<>> /\ toServer[l] = <<>> =>
            q[l] = peerQ[l] /\ q[l] \in {"NO", "YES"}

(***************************************************************************)
(* No client, a log client included, is ever made to believe that a link   *)
(* is on that my_telopts does not list.  (_check_telopt, libtelnet.c:262.) *)
(***************************************************************************)
OnlySupported == \A l \in Links : "YES" \in {q[l], peerQ[l]} => l \in Supported

(***************************************************************************)
(* The server never gets into the states in which the library has a change *)
(* of mind queued, so that the DO it then forgets (libtelnet.c:441) is     *)
(* never missed, and there is never more than one word of it under way: no *)
(* exchange of answers to answers.                                         *)
(***************************************************************************)
NeverQueued ==
    \A l \in Links : q[l] \in {"NO", "YES", "WANTYES"} /\ Len(toPeer[l]) <= 1
=============================================================================
