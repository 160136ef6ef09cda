----------------------- MODULE TelnetNegotiateProofs -----------------------
(***************************************************************************)
(* Proofs about TelnetNegotiate, for any set of options and any set of     *)
(* supported links.  The argument is a table: of all combinations of the   *)
(* two ends' states and the words between them only those of Row occur,    *)
(* and every step leads from a row to a row.                               *)
(***************************************************************************)
EXTENDS TelnetNegotiate, SequenceTheorems, TLAPS

Yes == <<"yes">>
No  == <<"no">>

\* A link that is off, or is being asked for by the client alone.
IdleRow(s, said, p, heard) ==
    \/ s = "NO" /\ said = <<>> /\ p = "NO" /\ heard = <<>>
    \/ s = "NO" /\ said = <<>> /\ p = "WANTYES" /\ heard = Yes
    \/ s = "NO" /\ said = No /\ p = "WANTYES" /\ heard = <<>>

\* A supported link: the server has asked and waits for the answer.
AskedRow(s, said, p, heard) ==
    /\ s = "WANTYES"
    /\ \/ said = Yes /\ p = "NO" /\ heard = <<>>
       \/ said = Yes /\ p = "WANTYES" /\ heard = Yes
       \/ said = <<>> /\ p = "NO" /\ heard = No
       \/ said = <<>> /\ p = "WANTNO" /\ heard = <<"yes", "no">>
       \/ said = <<>> /\ p = "WANTYES" /\ heard = <<"no", "yes">>
       \/ said = <<>> /\ p = "YES" /\ heard = Yes

\* The link is on, or the client is switching it on or off.
OnRow(s, said, p, heard) ==
    \/ s = "YES" /\ said = Yes /\ p = "WANTYES" /\ heard = <<>>
    \/ s = "YES" /\ said = <<>> /\ p = "WANTNO" /\ heard = No
    \/ s = "YES" /\ said = <<>> /\ p = "YES" /\ heard = <<>>
    \/ s = "NO" /\ said = No /\ p = "WANTNO" /\ heard = <<>>

Row(l, s, said, p, heard) ==
    IF l \in Supported
    THEN \/ s = "NO" /\ said = <<>> /\ p = "NO" /\ heard = <<>>
         \/ s = "NO" /\ said = <<>> /\ p = "WANTYES" /\ heard = Yes
         \/ AskedRow(s, said, p, heard) \/ OnRow(s, said, p, heard)
    ELSE IdleRow(s, said, p, heard)

\* A log client is only ever told what the constructor says.
ReadonlyRow(l, s, said, p) ==
    /\ s = Opening(l).state
    /\ said \in {<<>>, Opening(l).said}
    /\ p = "YES" => l \in Supported

IInv ==
    /\ TypeOK
    /\ \A l \in Links :
          IF readonly THEN ReadonlyRow(l, q[l], toPeer[l], peerQ[l])
                      ELSE Row(l, q[l], toPeer[l], peerQ[l], toServer[l])

\* Two words said one after the other.
LEMMA Pair ==
    ASSUME NEW x \in Words, NEW y \in Words
    PROVE  <<x>> \o <<y>> = <<x, y>>
<1> DEFINE one == <<x>>  two == <<y>>  both == <<x, y>>
<1>1. one \in Seq(Words) /\ two \in Seq(Words) /\ both \in Seq(Words)
  OBVIOUS
<1>2. /\ Len(one) = 1 /\ one[1] = x /\ Len(two) = 1 /\ two[1] = y
      /\ Len(both) = 2 /\ both[1] = x /\ both[2] = y
  OBVIOUS
<1> HIDE DEF one, two, both
<1>3. /\ one \o two \in Seq(Words) /\ Len(one \o two) = Len(one) + Len(two)
      /\ \A i \in 1 .. Len(one) + Len(two) :
            (one \o two)[i] = IF i <= Len(one) THEN one[i] ELSE two[i - Len(one)]
  BY <1>1, ConcatProperties
<1>4. Len(one \o two) = 2 /\ (one \o two)[1] = x /\ (one \o two)[2] = y
  BY <1>2, <1>3
<1>5. \A i \in 1..Len(both) : (one \o two)[i] = both[i]
  BY <1>2, <1>4
<1>6. one \o two = both
  BY <1>1, <1>2, <1>3, <1>4, <1>5, SeqEqual
<1> QED
  BY <1>6 DEF one, two, both

\* Adding at the end and taking from the front, for the words that occur.
LEMMA WordSeqs ==
    /\ <<>> \o <<>> = <<>> /\ <<>> \o Yes = Yes /\ <<>> \o No = No
    /\ Yes \o <<>> = Yes /\ No \o <<>> = No
    /\ Yes \o No = <<"yes", "no">> /\ No \o Yes = <<"no", "yes">>
    /\ Head(Yes) = "yes" /\ Head(No) = "no"
    /\ Tail(Yes) = <<>> /\ Tail(No) = <<>>
    /\ Head(<<"yes", "no">>) = "yes" /\ Tail(<<"yes", "no">>) = No
    /\ Head(<<"no", "yes">>) = "no" /\ Tail(<<"no", "yes">>) = Yes
    /\ Yes # <<>> /\ No # <<>> /\ Yes # No
    /\ <<"yes", "no">> # <<>> /\ <<"no", "yes">> # <<>>
<1>0. Yes \in Seq(Words) /\ No \in Seq(Words) /\ <<>> \in Seq(Words)
  BY DEF Yes, No, Words
<1>1. <<>> \o <<>> = <<>> /\ <<>> \o Yes = Yes /\ <<>> \o No = No
  BY <1>0, ConcatEmptySeq
<1>2. Yes \o <<>> = Yes /\ No \o <<>> = No
  BY <1>0, ConcatEmptySeq
<1>3. Yes \o No = <<"yes", "no">> /\ No \o Yes = <<"no", "yes">>
  BY Pair DEF Yes, No, Words
<1>5. Head(Yes) = "yes" /\ Head(No) = "no"
  BY DEF Yes, No
<1>6. Tail(Yes) = <<>> /\ Tail(No) = <<>>
  BY DEF Yes, No
<1>7. Head(<<"yes", "no">>) = "yes" /\ Head(<<"no", "yes">>) = "no"
  OBVIOUS
<1>8. Tail(<<"yes", "no">>) = No
  BY DEF Yes, No
<1>9. Tail(<<"no", "yes">>) = Yes
  BY DEF Yes, No
<1>10. Yes # <<>> /\ No # <<>> /\ Yes # No
  BY DEF Yes, No
<1>11. <<"yes", "no">> # <<>> /\ <<"no", "yes">> # <<>>
  OBVIOUS
<1> QED
  BY <1>1, <1>2, <1>3, <1>5, <1>6, <1>7, <1>8, <1>9, <1>10, <1>11

\* Every word that arrives at the server leads from a row to a row.
LEMMA ServerRow ==
    ASSUME NEW l \in Links, NEW s, NEW said, NEW p, NEW heard,
           Row(l, s, said, p, heard), heard # <<>>
    PROVE  LET o == Negotiated(l, s, Head(heard))
           IN  Row(l, o.state, said \o o.said, p, Tail(heard))
<1>1. CASE l \in Supported
  BY <1>1, WordSeqs
  DEF Row, AskedRow, OnRow, Negotiated, Enabled, Disabled, CheckTelopt, Outcome,
      Yes, No
<1>2. CASE l \notin Supported
  BY <1>2, WordSeqs
  DEF Row, IdleRow, Negotiated, Enabled, Disabled, CheckTelopt, Outcome, Yes, No
<1> QED
  BY <1>1, <1>2

\* What the client does, spelled out.
LEMMA PeerTable ==
    ASSUME NEW p \in {"NO", "YES", "WANTNO", "WANTYES"}, NEW w \in Words, NEW o
    PROVE  /\ o \in PeerOutcomes(p, w) =>
                 \/ p = "NO" /\ w = "yes" /\ o.state = "YES" /\ o.said = Yes
                 \/ p = "NO" /\ w = "yes" /\ o.state = "NO" /\ o.said = No
                 \/ p = "WANTNO" /\ w = "yes" /\ o.state = "NO" /\ o.said = <<>>
                 \/ p \in {"YES", "WANTYES"} /\ w = "yes" /\ o.state = "YES"
                                             /\ o.said = <<>>
                 \/ p = "YES" /\ w = "no" /\ o.state = "NO" /\ o.said = No
                 \/ p # "YES" /\ w = "no" /\ o.state = "NO" /\ o.said = <<>>
           /\ o \in PeerRequests(p) =>
                 \/ p = "NO" /\ o.state = "WANTYES" /\ o.said = Yes
                 \/ p = "YES" /\ o.state = "WANTNO" /\ o.said = No
<1>1. \A s, t : Outcome(s, t).state = s /\ Outcome(s, t).said = t
  BY DEF Outcome
<1>2. ASSUME w = "yes", o \in PeerOutcomes(p, w)
      PROVE  \/ p = "NO" /\ o.state = "YES" /\ o.said = Yes
             \/ p = "NO" /\ o.state = "NO" /\ o.said = No
             \/ p = "WANTNO" /\ o.state = "NO" /\ o.said = <<>>
             \/ p \in {"YES", "WANTYES"} /\ o.state = "YES" /\ o.said = <<>>
  <2>1. CASE p = "NO"
    <3>1. PeerOutcomes(p, w) = {Outcome("YES", Yes), Outcome("NO", No)}
      BY <1>2, <2>1 DEF PeerOutcomes, Yes, No
    <3> QED
      BY <1>1, <1>2, <2>1, <3>1
  <2>2. CASE p = "WANTNO"
    <3>1. PeerOutcomes(p, w) = {Outcome("NO", <<>>)}
      BY <1>2, <2>2 DEF PeerOutcomes
    <3> QED
      BY <1>1, <1>2, <2>2, <3>1
  <2>3. CASE p \in {"YES", "WANTYES"}
    <3>1. PeerOutcomes(p, w) = {Outcome("YES", <<>>)}
      BY <1>2, <2>3 DEF PeerOutcomes
    <3> QED
      BY <1>1, <1>2, <2>3, <3>1
  <2> QED
    BY <2>1, <2>2, <2>3
<1>3. ASSUME w = "no", o \in PeerOutcomes(p, w)
      PROVE  /\ o.state = "NO"
             /\ p = "YES" => o.said = No
             /\ p # "YES" => o.said = <<>>
  <2>1. CASE p = "YES"
    <3>1. PeerOutcomes(p, w) = {Outcome("NO", No)}
      BY <1>3, <2>1 DEF PeerOutcomes, No
    <3> QED
      BY <1>1, <1>3, <2>1, <3>1
  <2>2. CASE p # "YES"
    <3>1. PeerOutcomes(p, w) = {Outcome("NO", <<>>)}
      BY <1>3, <2>2 DEF PeerOutcomes
    <3> QED
      BY <1>1, <1>3, <2>2, <3>1
  <2> QED
    BY <2>1, <2>2
<1>4. ASSUME o \in PeerRequests(p)
      PROVE  \/ p = "NO" /\ o.state = "WANTYES" /\ o.said = Yes
             \/ p = "YES" /\ o.state = "WANTNO" /\ o.said = No
  <2>1. CASE p = "NO"
    <3>1. PeerRequests(p) = {Outcome("WANTYES", Yes)}
      BY <2>1 DEF PeerRequests, Yes
    <3> QED
      BY <1>1, <1>4, <2>1, <3>1
  <2>2. CASE p = "YES"
    <3>1. PeerRequests(p) = {Outcome("WANTNO", No)}
      BY <2>2 DEF PeerRequests, No
    <3> QED
      BY <1>1, <1>4, <2>2, <3>1
  <2>3. CASE p \notin {"NO", "YES"}
    BY <1>4, <2>3 DEF PeerRequests
  <2> QED
    BY <2>1, <2>2, <2>3
<1> QED
  BY <1>2, <1>3, <1>4 DEF Words

\* So does every answer of the client.
LEMMA PeerRow ==
    ASSUME NEW l \in Links, NEW s, NEW said, NEW p, NEW heard,
           Row(l, s, said, p, heard), said # <<>>,
           p \in {"NO", "YES", "WANTNO", "WANTYES"}, Head(said) \in Words,
           NEW o \in PeerOutcomes(p, Head(said))
    PROVE  Row(l, s, Tail(said), o.state, heard \o o.said)
<1>1. CASE l \in Supported
  BY <1>1, WordSeqs, PeerTable, SMTT(30) DEF Row, AskedRow, OnRow
<1>2. CASE l \notin Supported
  BY <1>2, WordSeqs, PeerTable DEF Row, IdleRow
<1> QED
  BY <1>1, <1>2

\* And so does every request of the client.
LEMMA AskRow ==
    ASSUME NEW l \in Links, NEW s, NEW said, NEW p, NEW heard,
           Row(l, s, said, p, heard),
           p \in {"NO", "YES", "WANTNO", "WANTYES"}, NEW o \in PeerRequests(p)
    PROVE  Row(l, s, said, o.state, heard \o o.said)
<1>0. "yes" \in Words
  BY DEF Words
<1>1. CASE l \in Supported
  <2>1. CASE p = "NO" /\ o.state = "WANTYES" /\ o.said = Yes
    BY <1>1, <2>1, WordSeqs DEF Row, AskedRow, OnRow, Yes, No
  <2>2. CASE p = "YES" /\ o.state = "WANTNO" /\ o.said = No
    BY <1>1, <2>2, WordSeqs DEF Row, AskedRow, OnRow, Yes, No
  <2> QED
    BY <1>0, <2>1, <2>2, PeerTable
<1>2. CASE l \notin Supported
  BY <1>0, <1>2, WordSeqs, PeerTable DEF Row, IdleRow
<1> QED
  BY <1>1, <1>2

\* What the operators return is of the right type.
LEMMA OutcomeTypes ==
    /\ \A l \in Links, s \in QStates, w \in Words :
          /\ Negotiated(l, s, w).state \in QStates
          /\ Negotiated(l, s, w).said \in Seq(Words)
    /\ \A p \in {"NO", "YES", "WANTNO", "WANTYES"}, w \in Words :
          \A o \in PeerOutcomes(p, w) \cup PeerRequests(p) :
             /\ o.state \in {"NO", "YES", "WANTNO", "WANTYES"}
             /\ o.said \in Seq(Words)
    /\ \A l \in Links :
          /\ Opening(l).state = IF l \in Supported THEN "WANTYES" ELSE "NO"
          /\ Opening(l).said = IF l \in Supported THEN Yes ELSE <<>>
    /\ Yes \in Seq(Words) /\ <<>> \in Seq(Words)
<1>1. /\ <<"yes">> \in Seq(Words) /\ <<"no">> \in Seq(Words)
      /\ <<>> \in Seq(Words)
  BY DEF Words
<1>2. ASSUME NEW l \in Links, NEW s \in QStates, NEW w \in Words
      PROVE  /\ Negotiated(l, s, w).state \in QStates
             /\ Negotiated(l, s, w).said \in Seq(Words)
  BY <1>1 DEF Negotiated, Enabled, Disabled, Outcome, QStates
<1>3. ASSUME NEW p \in {"NO", "YES", "WANTNO", "WANTYES"}, NEW w \in Words,
             NEW o \in PeerOutcomes(p, w) \cup PeerRequests(p)
      PROVE  /\ o.state \in {"NO", "YES", "WANTNO", "WANTYES"}
             /\ o.said \in Seq(Words)
  BY <1>1, <1>3, PeerTable, ZenonT(40) DEF Yes, No
<1>4. ASSUME NEW l \in Links
      PROVE  /\ Opening(l).state = IF l \in Supported THEN "WANTYES" ELSE "NO"
             /\ Opening(l).said = IF l \in Supported THEN Yes ELSE <<>>
  BY DEF Opening, Requested, Outcome, Yes
<1> QED
  BY <1>1, <1>2, <1>3, <1>4 DEF Yes

-----------------------------------------------------------------------------
LEMMA InitIInv == Init => IInv
<1> SUFFICES ASSUME Init PROVE IInv
  OBVIOUS
<1>1. TypeOK
  BY OutcomeTypes DEF Init, TypeOK, QStates
<1>2. ASSUME NEW l \in Links
      PROVE  IF readonly THEN ReadonlyRow(l, q[l], toPeer[l], peerQ[l])
                         ELSE Row(l, q[l], toPeer[l], peerQ[l], toServer[l])
  BY OutcomeTypes DEF Init, ReadonlyRow, Row, IdleRow, AskedRow
<1> QED
  BY <1>1, <1>2 DEF IInv

\* The invariant, said of one link.
LinkInv(l) ==
    IF readonly THEN ReadonlyRow(l, q[l], toPeer[l], peerQ[l])
                ELSE Row(l, q[l], toPeer[l], peerQ[l], toServer[l])

\* A link that a step does not touch keeps its row.
LEMMA Untouched ==
    ASSUME NEW l \in Links, LinkInv(l), readonly' = readonly,
           q'[l] = q[l], toPeer'[l] = toPeer[l], peerQ'[l] = peerQ[l],
           toServer'[l] = toServer[l] \/ readonly
    PROVE  LinkInv(l)'
BY DEF LinkInv

LEMMA ServerReceivesStep ==
    ASSUME IInv, NEW l \in Links, ServerReceives(l)
    PROVE  IInv'
<1> DEFINE o == Negotiated(l, q[l], Head(toServer[l]))
<1>1. /\ q[l] \in QStates /\ toServer[l] \in Seq(Words) /\ toPeer[l] \in Seq(Words)
      /\ toServer[l] # <<>> /\ ~readonly
  BY DEF IInv, TypeOK, ServerReceives
<1>2. Head(toServer[l]) \in Words /\ Tail(toServer[l]) \in Seq(Words)
  BY <1>1
<1>3. o.state \in QStates /\ o.said \in Seq(Words)
  BY <1>1, <1>2, OutcomeTypes
<1> HIDE DEF o
<1>4. /\ q' = [q EXCEPT ![l] = o.state]
      /\ toPeer' = [toPeer EXCEPT ![l] = @ \o o.said]
      /\ toServer' = [toServer EXCEPT ![l] = Tail(@)]
      /\ UNCHANGED <<readonly, peerQ>>
  BY DEF ServerReceives, o
<1>5. TypeOK'
  <2>1. toPeer[l] \o o.said \in Seq(Words)
    BY <1>1, <1>3, ConcatProperties
  <2> QED
    BY <1>2, <1>3, <1>4, <2>1 DEF IInv, TypeOK
<1>6. ASSUME NEW k \in Links PROVE LinkInv(k)'
  <2>1. CASE k = l
    <3>1. Row(l, o.state, toPeer[l] \o o.said, peerQ[l], Tail(toServer[l]))
      BY <1>1, ServerRow DEF IInv, o
    <3> QED
      BY <1>1, <1>4, <2>1, <3>1 DEF IInv, TypeOK, LinkInv
  <2>2. CASE k # l
    BY <1>4, <2>2, Untouched DEF IInv, TypeOK, LinkInv
  <2> QED
    BY <2>1, <2>2
<1> QED
  BY <1>5, <1>6 DEF IInv, LinkInv

LEMMA PeerReceivesStep ==
    ASSUME IInv, NEW l \in Links, PeerReceives(l)
    PROVE  IInv'
<1>1. /\ peerQ[l] \in {"NO", "YES", "WANTNO", "WANTYES"}
      /\ toServer[l] \in Seq(Words) /\ toPeer[l] \in Seq(Words)
      /\ toPeer[l] # <<>>
  BY DEF IInv, TypeOK, PeerReceives
<1>2. Head(toPeer[l]) \in Words /\ Tail(toPeer[l]) \in Seq(Words)
  BY <1>1
<1>3. PICK o \in PeerOutcomes(peerQ[l], Head(toPeer[l])) :
         /\ peerQ' = [peerQ EXCEPT ![l] = o.state]
         /\ toServer' = [toServer EXCEPT ![l] = @ \o o.said]
  BY DEF PeerReceives
<1>4. toPeer' = [toPeer EXCEPT ![l] = Tail(@)] /\ UNCHANGED <<readonly, q>>
  BY DEF PeerReceives
<1>5. o.state \in {"NO", "YES", "WANTNO", "WANTYES"} /\ o.said \in Seq(Words)
  BY <1>1, <1>2, OutcomeTypes
<1>6. TypeOK'
  <2>1. toServer[l] \o o.said \in Seq(Words)
    BY <1>1, <1>5, ConcatProperties
  <2> QED
    BY <1>2, <1>3, <1>4, <1>5, <2>1 DEF IInv, TypeOK
<1>7. ASSUME NEW k \in Links PROVE LinkInv(k)'
  <2>1. CASE k = l /\ readonly
    <3>1. toPeer[l] = Yes /\ l \in Supported /\ q[l] = Opening(l).state
      BY <1>1, <2>1, OutcomeTypes DEF IInv, ReadonlyRow
    <3>2. toPeer'[l] = <<>> /\ q'[l] = Opening(l).state
      BY <1>4, <3>1, WordSeqs DEF IInv, TypeOK
    <3> QED
      BY <1>4, <2>1, <3>1, <3>2 DEF LinkInv, ReadonlyRow
  <2>2. CASE k = l /\ ~readonly
    <3>1. Row(l, q[l], Tail(toPeer[l]), o.state, toServer[l] \o o.said)
      BY <1>1, <1>2, <2>2, PeerRow DEF IInv
    <3> QED
      BY <1>3, <1>4, <2>2, <3>1 DEF IInv, TypeOK, LinkInv
  <2>3. CASE k # l
    BY <1>3, <1>4, <2>3, Untouched DEF IInv, TypeOK, LinkInv
  <2> QED
    BY <2>1, <2>2, <2>3
<1> QED
  BY <1>6, <1>7 DEF IInv, LinkInv

LEMMA PeerAsksStep ==
    ASSUME IInv, NEW l \in Links, PeerAsks(l)
    PROVE  IInv'
<1>1. /\ peerQ[l] \in {"NO", "YES", "WANTNO", "WANTYES"}
      /\ toServer[l] \in Seq(Words)
  BY DEF IInv, TypeOK
<1>2. PICK o \in PeerRequests(peerQ[l]) :
         /\ peerQ' = [peerQ EXCEPT ![l] = o.state]
         /\ toServer' = [toServer EXCEPT ![l] = @ \o o.said]
  BY DEF PeerAsks
<1>3. UNCHANGED <<readonly, q, toPeer>>
  BY DEF PeerAsks
<1>4. /\ o.state \in {"NO", "YES", "WANTNO", "WANTYES"} /\ o.said \in Seq(Words)
      /\ o.state # "YES"
  <2>1. "yes" \in Words
    BY DEF Words
  <2> QED
    BY <1>1, <2>1, OutcomeTypes, PeerTable
<1>5. TypeOK'
  <2>1. toServer[l] \o o.said \in Seq(Words)
    BY <1>1, <1>4, ConcatProperties
  <2> QED
    BY <1>2, <1>3, <1>4, <2>1 DEF IInv, TypeOK
<1>6. ASSUME NEW k \in Links PROVE LinkInv(k)'
  <2>1. CASE k = l /\ readonly
    BY <1>2, <1>3, <1>4, <2>1 DEF IInv, TypeOK, LinkInv, ReadonlyRow
  <2>2. CASE k = l /\ ~readonly
    <3>1. Row(l, q[l], toPeer[l], o.state, toServer[l] \o o.said)
      BY <1>1, <2>2, AskRow DEF IInv
    <3> QED
      BY <1>2, <1>3, <2>2, <3>1 DEF IInv, TypeOK, LinkInv
  <2>3. CASE k # l
    BY <1>2, <1>3, <2>3, Untouched DEF IInv, TypeOK, LinkInv
  <2> QED
    BY <2>1, <2>2, <2>3
<1> QED
  BY <1>5, <1>6 DEF IInv, LinkInv

LEMMA NextIInv == IInv /\ [Next]_vars => IInv'
<1> SUFFICES ASSUME IInv, [Next]_vars PROVE IInv'
  OBVIOUS
<1>1. CASE ServerIgnores
  <2>1. /\ readonly' = readonly /\ readonly
        /\ q' = q /\ peerQ' = peerQ /\ toPeer' = toPeer
        /\ toServer' = [l \in Links |-> <<>>]
    BY <1>1 DEF ServerIgnores
  <2>2. TypeOK'
    BY <2>1, OutcomeTypes DEF IInv, TypeOK
  <2> QED
    BY <2>1, <2>2 DEF IInv
<1>2. CASE \E l \in Links : ServerReceives(l) \/ PeerReceives(l) \/ PeerAsks(l)
  BY <1>2, ServerReceivesStep, PeerReceivesStep, PeerAsksStep
<1>3. CASE UNCHANGED vars
  BY <1>3 DEF vars, IInv, TypeOK
<1> QED
  BY <1>1, <1>2, <1>3 DEF Next

\* The invariant that the others follow from.
THEOREM Inductive == Spec => []IInv
BY InitIInv, NextIInv, PTL DEF Spec

\* Every state and every word is one that libtelnet knows.
THEOREM TypeCorrect == Spec => []TypeOK
<1>1. IInv => TypeOK
  BY DEF IInv
<1> QED
  BY <1>1, Inductive, PTL

\* When nothing is under way, both ends agree on every option.
THEOREM Agreement == Spec => []Agreed
<1>1. IInv => Agreed
  <2> SUFFICES ASSUME IInv, ~readonly, NEW l \in Links,
                      toPeer[l] = <<>>, toServer[l] = <<>>
               PROVE  q[l] = peerQ[l] /\ q[l] \in {"NO", "YES"}
    BY DEF Agreed
  <2>1. Row(l, q[l], <<>>, peerQ[l], <<>>)
    BY DEF IInv
  <2> QED
    BY <2>1, WordSeqs DEF Row, IdleRow, AskedRow, OnRow
<1> QED
  BY <1>1, Inductive, PTL

\* No end believes in an option that procServ does not support.
THEOREM SupportedOnly == Spec => []OnlySupported
<1>1. IInv => OnlySupported
  <2> SUFFICES ASSUME IInv, NEW l \in Links, q[l] = "YES" \/ peerQ[l] = "YES",
                      l \notin Supported
               PROVE  FALSE
    BY DEF OnlySupported
  <2>1. CASE readonly
    BY <2>1, OutcomeTypes DEF IInv, ReadonlyRow
  <2>2. CASE ~readonly
    BY <2>2 DEF IInv, Row, IdleRow
  <2> QED
    BY <2>1, <2>2
<1> QED
  BY <1>1, Inductive, PTL

\* Nothing is ever queued, and no answers to answers pile up.
THEOREM QueueFree == Spec => []NeverQueued
<1>1. IInv => NeverQueued
  <2> SUFFICES ASSUME IInv, NEW l \in Links
               PROVE  /\ q[l] \in {"NO", "YES", "WANTYES"}
                      /\ Len(toPeer[l]) <= 1
    BY DEF NeverQueued
  <2>1. /\ q[l] \in {"NO", "YES", "WANTYES"}
        /\ toPeer[l] \in {<<>>, Yes, No}
    <3>1. CASE readonly
      BY <3>1, OutcomeTypes DEF IInv, ReadonlyRow
    <3>2. CASE ~readonly
      BY <3>2 DEF IInv, Row, IdleRow, AskedRow, OnRow
    <3> QED
      BY <3>1, <3>2
  <2>2. Len(<<>>) = 0 /\ Len(Yes) = 1 /\ Len(No) = 1
    BY DEF Yes, No
  <2>3. Len(toPeer[l]) \in {0, 1}
    BY <2>1, <2>2
  <2>4. \A n \in {0, 1} : n <= 1
    OBVIOUS
  <2> QED
    BY <2>1, <2>3, <2>4
<1> QED
  BY <1>1, Inductive, PTL

=============================================================================
