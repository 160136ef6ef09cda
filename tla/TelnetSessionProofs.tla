------------------------ MODULE TelnetSessionProofs ------------------------
(***************************************************************************)
(* Proofs about TelnetSession.                                             *)
(*                                                                         *)
(* 1. What the state machine of _process makes of one byte (Fed, Heard)    *)
(*    and of a text (Decodes), and that texts, commands and                *)
(*    subnegotiations decode to what they stand for.                       *)
(* 2. What the client has typed reaches processInput (InputCorrect): what  *)
(*    there is to read always decodes to what is owed (Wire).              *)
(* 3. What the server sends reaches the client (OutputCorrect): the same   *)
(*    in the other direction (OutInv).                                     *)
(* 4. Which words the bytes say (WordsAbout), and that they are the same   *)
(*    whether one reads the grammar from its start or the state machine.   *)
(* 5. Each step of the bytes is a step of TelnetNegotiate, or none         *)
(*    (Negotiation), so that what is proved there is true here             *)
(*    (Agreement).                                                         *)
(***************************************************************************)
EXTENDS TelnetSession, SequenceTheorems, FiniteSetTheorems, TLAPS

\* What may be on the wire, and what may be typed.
Text == Seq(Bytes)

\* Induction over the naturals, stated for a set: among the numbers that are
\* missing from T there would be a least one.
LEMMA SetInduction ==
    ASSUME NEW T, 0 \in T, \A n \in Nat : n \in T => n + 1 \in T
    PROVE  \A n \in Nat : n \in T
<1> DEFINE R == OpToRel(<, Nat)
<1> SUFFICES ASSUME Nat \ T # {} PROVE FALSE
  OBVIOUS
<1>1. PICK x \in Nat \ T : \A y \in Nat \ T : <<y, x>> \notin R
  BY NatLessThanWellFounded, WFMin
<1>2. x # 0 /\ x - 1 \in Nat /\ x - 1 < x
  OBVIOUS
<1>3. x - 1 \in Nat \ T
  BY <1>2
<1>4. <<x - 1, x>> \in R
  BY <1>2 DEF OpToRel
<1> QED
  BY <1>1, <1>3, <1>4

\* The recursive function in FlattenSeq, defined up to n.
Joined(seqs, n, flatten) ==
    flatten = [k \in 1..n |-> IF k = 1 THEN seqs[k] ELSE flatten[k - 1] \o seqs[k]]

\* There is such a function for every n: what FlattenSeq chooses exists.
LEMMA JoinedExists ==
    ASSUME NEW seqs
    PROVE  \A n \in Nat : \E flatten : Joined(seqs, n, flatten)
<1> DEFINE T == {n \in Nat : \E flatten : Joined(seqs, n, flatten)}
<1>1. 0 \in T
  <2> DEFINE g == [k \in 1..0 |-> <<>>]
  <2>1. Joined(seqs, 0, g)
    BY DEF Joined
  <2> QED
    BY <2>1
<1>2. ASSUME NEW n \in Nat, n \in T PROVE n + 1 \in T
  <2>1. PICK g : Joined(seqs, n, g)
    BY <1>2
  <2> DEFINE h == [k \in 1..(n + 1) |-> IF k <= n THEN g[k] ELSE
                      IF k = 1 THEN seqs[k] ELSE g[k - 1] \o seqs[k]]
             E(k) == IF k = 1 THEN seqs[k] ELSE h[k - 1] \o seqs[k]
  <2>2. ASSUME NEW k \in 1..(n + 1) PROVE h[k] = E(k)
    <3>1. CASE k = n + 1 /\ k # 1
      <4>1. k - 1 \in 1..(n + 1) /\ k - 1 <= n /\ ~(k <= n) /\ k # 1
        BY <3>1
      <4>2. h[k - 1] = g[k - 1] /\ h[k] = g[k - 1] \o seqs[k]
        BY <4>1
      <4>3. E(k) = h[k - 1] \o seqs[k]
        BY <4>1
      <4> HIDE DEF h, E
      <4> QED
        BY <4>2, <4>3, Zenon
    <3>2. CASE k = n + 1 /\ k = 1
      BY <3>2
    <3>3. CASE k \in 1..n
      <4>1. k <= n /\ (k # 1 => k - 1 \in 1..n /\ k - 1 <= n)
        BY <3>3
      <4>2. h[k] = g[k] /\ (k # 1 => h[k - 1] = g[k - 1])
        BY <4>1
      <4>3. g[k] = IF k = 1 THEN seqs[k] ELSE g[k - 1] \o seqs[k]
        BY <3>3, <2>1, Zenon DEF Joined
      <4> HIDE DEF h
      <4> QED
        BY <4>2, <4>3, Zenon
    <3> QED
      BY <3>1, <3>2, <3>3
  <2>3. h = [k \in 1..(n + 1) |-> E(k)]
    BY <2>2
  <2>4. Joined(seqs, n + 1, h)
    BY <2>3, Zenon DEF Joined
  <2> QED
    BY <2>4
<1> HIDE DEF T
<1>3. \A n \in Nat : n \in T
  BY <1>1, <1>2, SetInduction
<1> QED
  BY <1>3 DEF T

\* The sequences joined one by one.
Flattens(seqs, g) ==
    /\ g[0] = <<>>
    /\ \A k \in 1..Len(seqs) : g[k] = g[k - 1] \o seqs[k]
    /\ \A k \in 0..Len(seqs) : g[k] \in Text
    /\ FlattenSeq(seqs) = g[Len(seqs)]

\* FlattenSeq is computed by such steps.
LEMMA FlattenSteps ==
    ASSUME NEW seqs \in Seq(Text)
    PROVE  \E g : Flattens(seqs, g)
<1> DEFINE n == Len(seqs)
           P(f) == f = [k \in 1..Len(seqs) |->
                          IF k = 1 THEN seqs[k] ELSE f[k - 1] \o seqs[k]]
           flatten == CHOOSE f : P(f)
           g == [k \in 0..n |-> IF k = 0 THEN <<>> ELSE flatten[k]]
<1>0. n \in Nat /\ (n = 0 => seqs = <<>>) /\ \A k \in 1..n : seqs[k] \in Text
  BY ElementOfSeq
<1>1. \E f : P(f)
  BY <1>0, JoinedExists, Zenon DEF Joined
<1>2. P(flatten)
  BY <1>1, Zenon
<1>3. FlattenSeq(seqs) = IF n = 0 THEN seqs ELSE flatten[n]
  BY Zenon DEF FlattenSeq
<1> HIDE DEF flatten
<1>4. ASSUME NEW k \in 1..n
      PROVE  flatten[k] = IF k = 1 THEN seqs[k] ELSE flatten[k - 1] \o seqs[k]
  BY <1>2, Zenon
<1> HIDE DEF n
<1>5. g[0] = <<>>
  BY <1>0
<1>6. ASSUME NEW k \in 1..n PROVE g[k] = g[k - 1] \o seqs[k]
  <2>1. CASE k = 1
    <3>1. g[k] = seqs[k] /\ g[k - 1] = <<>>
      BY <2>1, <1>4, <1>0
    <3>2. <<>> \o seqs[k] = seqs[k]
      BY <1>0, ConcatEmptySeq DEF Text
    <3> QED
      BY <3>1, <3>2
  <2>2. CASE k # 1
    <3>1. k \in 0..n /\ k - 1 \in 0..n /\ k # 0 /\ k - 1 # 0
      BY <2>2, <1>0
    <3>2. g[k] = flatten[k] /\ g[k - 1] = flatten[k - 1]
      BY <3>1
    <3>3. flatten[k] = flatten[k - 1] \o seqs[k]
      BY <1>4, <2>2
    <3> HIDE DEF g
    <3> QED
      BY <3>2, <3>3
  <2> QED
    BY <2>1, <2>2
<1>7. g[n] = FlattenSeq(seqs)
  BY <1>0, <1>3
<1> HIDE DEF g
<1> DEFINE T == {k \in Nat : k <= n => g[k] \in Text}
<1>8. 0 \in T
  BY <1>5, EmptySeq DEF Text
<1>9. ASSUME NEW k \in Nat, k \in T PROVE k + 1 \in T
  <2>1. CASE k + 1 <= n
    <3>1. k + 1 \in 1..n /\ (k + 1) - 1 = k
      BY <1>0, <2>1
    <3>2. g[k + 1] = g[(k + 1) - 1] \o seqs[k + 1]
      BY <1>6, <3>1
    <3>3. g[k] \in Text /\ seqs[k + 1] \in Text
      BY <1>9, <1>0, <2>1, <3>1
    <3>4. g[k + 1] \in Text
      BY <3>1, <3>2, <3>3, ConcatProperties DEF Text
    <3> QED
      BY <3>4
  <2>2. CASE ~(k + 1 <= n)
    BY <2>2
  <2> QED
    BY <2>1, <2>2
<1> HIDE DEF T
<1>10. \A k \in Nat : k \in T
  BY <1>8, <1>9, SetInduction
<1>11. \A k \in 0..n : g[k] \in Text
  BY <1>0, <1>10 DEF T
<1>12. Flattens(seqs, g)
  BY <1>5, <1>6, <1>7, <1>11, Zenon DEF Flattens, n
<1> QED
  BY <1>12

\* Texts are joined to a text.
LEMMA FlattenType ==
    ASSUME NEW seqs \in Seq(Text)
    PROVE  FlattenSeq(seqs) \in Text
<1>1. Len(seqs) \in 0..Len(seqs)
  BY LenProperties
<1> QED
  BY <1>1, FlattenSteps DEF Flattens

\* Nothing, and a single text, are joined to what they are.
LEMMA FlattenShort ==
    /\ FlattenSeq(<<>>) = <<>>
    /\ \A x \in Text : FlattenSeq(<<x>>) = x
<1>1. <<>> \in Seq(Text) /\ Len(<<>>) = 0
  OBVIOUS
<1>2. FlattenSeq(<<>>) = <<>>
  BY <1>1, FlattenSteps DEF Flattens
<1>3. ASSUME NEW x \in Text PROVE FlattenSeq(<<x>>) = x
  <2> DEFINE s == <<x>>
  <2>1. s \in Seq(Text) /\ Len(s) = 1 /\ s[1] = x
    OBVIOUS
  <2> HIDE DEF s
  <2>2. PICK g : Flattens(s, g)
    BY <2>1, FlattenSteps
  <2>3. g[0] = <<>> /\ g[1] = g[1 - 1] \o s[1] /\ FlattenSeq(s) = g[1]
    BY <2>1, <2>2 DEF Flattens
  <2>4. <<>> \o x = x
    BY ConcatEmptySeq DEF Text
  <2>5. FlattenSeq(s) = x
    <3>1. 1 - 1 = 0
      OBVIOUS
    <3> QED
      BY <2>1, <2>3, <2>4, <3>1, Zenon
  <2> QED
    BY <2>5 DEF s
<1> QED
  BY <1>2, <1>3

\* TELNET_STATE_...
Places ==
    {"DATA", "IAC", "SB", "SB_DATA", "SB_DATA_IAC"} \cup Negotiations

\* What the state machine is in: its state and what it knows of a
\* subnegotiation.
Parsers == [state : Places, option : Bytes \cup {"NONE"}, pos : 0..BufferMax]

\* Where the client's own reader can be, which knows no subnegotiations,
Plain == {d \in Parsers : d.state \in {"DATA", "IAC"} \cup Negotiations}
\* where the server's is outside of a negotiation,
Quiet == {d \in Parsers : d.state \notin Negotiations}
\* and outside of a subnegotiation too.
Texts == {d \in Parsers : d.state \in {"DATA", "IAC"}}

\* _buffer_byte.
Stored(d) ==
    IF d.pos = BufferMax THEN [d EXCEPT !.state = "DATA"]
    ELSE [state |-> "SB_DATA", option |-> d.option, pos |-> d.pos + 1]

\* _process, for one byte: what becomes of the state machine,
Fed(d, b) ==
    CASE d.state = "DATA" -> [d EXCEPT !.state = IF b = "IAC" THEN "IAC" ELSE "DATA"]
      [] d.state = "IAC" -> [d EXCEPT !.state = AfterIac(b)]
      [] d.state \in Negotiations -> [d EXCEPT !.state = "DATA"]
      [] d.state = "SB" -> [state |-> "SB_DATA", option |-> b, pos |-> 0]
      [] d.state = "SB_DATA" -> IF b = "IAC" THEN [d EXCEPT !.state = "SB_DATA_IAC"]
                                ELSE Stored(d)
      [] d.state = "SB_DATA_IAC" ->
            IF b = "IAC" THEN Stored(d)
            ELSE [d EXCEPT !.state = IF b = "SE" THEN "DATA" ELSE AfterIac(b)]

\* and the text that the byte stands for.
Heard(d, b) ==
    IF (d.state = "DATA" /\ b # "IAC") \/ (d.state = "IAC" /\ b = "IAC") THEN <<b>> ELSE <<>>

\* The bytes after which the library does what RFC 854 says.  The others: an
\* option that is none, a subnegotiation about IAC, the old compression protocol
\* (the run telnet_mccp) and an environment that ends in the middle.
Regular(d, b) ==
    /\ d.state \in Negotiations => b \in Options
    /\ d.state = "SB" => b # "IAC"
    /\ d.state = "SB_DATA" /\ d.option = MCCP1 => b # "WILL"
    /\ d.state = "SB_DATA_IAC" /\ d.option = Environ => b \in {"SE", "IAC"}

\* From where, through which bytes, with which text, to where.
Runs(D) == D \X Text \X Text \X D

\* R holds the empty runs and each of its runs with a regular byte in front.
Closed(D, R) ==
    /\ \A d \in D : <<d, <<>>, <<>>, d>> \in R
    /\ \A d \in D, b \in Bytes, r \in Text, t \in Text, e \in D :
          Regular(d, b) /\ Fed(d, b) \in D /\ <<Fed(d, b), r, t, e>> \in R
             => <<d, <<b>> \o r, Heard(d, b) \o t, e>> \in R

\* Fed with bytes the state machine goes from d to e, all within D, and passes
\* text on: this is so of the runs that every closed set has.
Decodes(D, d, bytes, text, e) ==
    /\ <<d, bytes, text, e>> \in Runs(D)
    /\ \A R \in SUBSET Runs(D) : Closed(D, R) => <<d, bytes, text, e>> \in R

\* A byte is a text.
LEMMA HeardType ==
    ASSUME NEW d, NEW b \in Bytes
    PROVE  Heard(d, b) \in Text /\ <<b>> \in Text
BY DEF Heard, Text

\* A byte leaves the state machine in one of its states.
LEMMA FedType ==
    ASSUME NEW d \in Parsers, NEW b \in Bytes
    PROVE  Fed(d, b) \in Parsers
<1>1. BufferMax \in Nat
  BY BoundsAssumption
<1>2. AfterIac(b) \in Places
  BY DEF AfterIac, Places
<1>3. Stored(d) \in Parsers
  <2>1. CASE d.pos = BufferMax
    BY <2>1 DEF Stored, Parsers, Places
  <2>2. CASE d.pos # BufferMax
    <3>1. d.pos + 1 \in 0..BufferMax
      BY <1>1, <2>2 DEF Parsers
    <3>2. [state |-> "SB_DATA", option |-> d.option, pos |-> d.pos + 1] \in Parsers
      BY <3>1 DEF Parsers, Places
    <3> QED
      BY <2>2, <3>2 DEF Stored
  <2> QED
    BY <2>1, <2>2
<1>4. "DATA" \in Places /\ "IAC" \in Places /\ "SB_DATA" \in Places /\ "SB_DATA_IAC" \in Places
  BY DEF Places
<1>5. d.state \in Places
  BY DEF Parsers
<1>6. \A p \in Places : [d EXCEPT !.state = p] \in Parsers
  BY DEF Parsers
<1>7. [state |-> "SB_DATA", option |-> b, pos |-> 0] \in Parsers
  BY <1>1, <1>4 DEF Parsers
<1>8. CASE d.state = "DATA"
  BY <1>8, <1>4, <1>6 DEF Fed
<1>9. CASE d.state = "IAC"
  <2>1. Fed(d, b) = [d EXCEPT !.state = AfterIac(b)]
    BY <1>9 DEF Fed, Negotiations
  <2> QED
    BY <2>1, <1>2, <1>6
<1>10. CASE d.state \in Negotiations
  BY <1>10, <1>4, <1>6 DEF Fed, Negotiations
<1>11. CASE d.state = "SB"
  BY <1>11, <1>7 DEF Fed, Negotiations
<1>12. CASE d.state = "SB_DATA"
  BY <1>12, <1>3, <1>4, <1>6 DEF Fed, Negotiations
<1>13. CASE d.state = "SB_DATA_IAC"
  BY <1>13, <1>2, <1>3, <1>4, <1>6 DEF Fed, Negotiations
<1> QED
  BY <1>5, <1>8, <1>9, <1>10, <1>11, <1>12, <1>13 DEF Places

\* A text with a byte in front of it.
LEMMA FirstByte ==
    ASSUME NEW b \in Bytes, NEW r \in Text
    PROVE  /\ <<b>> \o r \in Text /\ <<b>> \o r # <<>>
           /\ Len(<<b>> \o r) = Len(r) + 1
           /\ (<<b>> \o r)[1] = b /\ Head(<<b>> \o r) = b
           /\ Tail(<<b>> \o r) = r
<1>2. /\ <<b>> \o r \in Text /\ Len(<<b>> \o r) = Len(r) + 1
      /\ (<<b>> \o r)[1] = b
  BY DEF Text
<1>3. <<b>> \o r # <<>>
  BY <1>2 DEF Text
<1>4. Tail(<<b>> \o r) = r
  BY DEF Text
<1>5. Head(<<b>> \o r) = b
  BY <1>2, <1>3
<1> QED
  BY <1>2, <1>3, <1>4, <1>5

\* Without input nothing happens.
LEMMA DecodesNothing ==
    ASSUME NEW D, NEW d \in D
    PROVE  Decodes(D, d, <<>>, <<>>, d)
<1>1. <<>> \in Text
  BY DEF Text
<1>2. <<d, <<>>, <<>>, d>> \in Runs(D)
  BY <1>1 DEF Runs
<1> QED
  BY <1>2 DEF Decodes, Closed

\* One more regular byte in front.
LEMMA DecodesByte ==
    ASSUME NEW D, NEW d \in D, NEW b \in Bytes, Regular(d, b), Fed(d, b) \in D,
           NEW r, NEW t, NEW e, Decodes(D, Fed(d, b), r, t, e)
    PROVE  Decodes(D, d, <<b>> \o r, Heard(d, b) \o t, e)
<1>1. r \in Text /\ t \in Text /\ e \in D
  BY DEF Decodes, Runs
<1>2. <<b>> \o r \in Text /\ Heard(d, b) \o t \in Text
  <2>1. Heard(d, b) \in Text
    BY HeardType
  <2> QED
    BY <1>1, <2>1, FirstByte, ConcatProperties DEF Text
<1>3. <<d, <<b>> \o r, Heard(d, b) \o t, e>> \in Runs(D)
  BY <1>1, <1>2 DEF Runs
<1>4. ASSUME NEW R \in SUBSET Runs(D), Closed(D, R)
      PROVE  <<d, <<b>> \o r, Heard(d, b) \o t, e>> \in R
  <2>1. <<Fed(d, b), r, t, e>> \in R
    BY <1>4 DEF Decodes
  <2> QED
    BY <1>1, <1>4, <2>1 DEF Closed
<1> QED
  BY <1>3, <1>4 DEF Decodes

\* What goes through with one more byte in front is true of all that decodes.
LEMMA DecodesInduction ==
    ASSUME NEW D, NEW R, Closed(D, R \cap {x \in Runs(D) : Decodes(D, x[1], x[2], x[3], x[4])})
    PROVE  \A d, bytes, text, e : Decodes(D, d, bytes, text, e) => <<d, bytes, text, e>> \in R
<1> DEFINE Q == R \cap {x \in Runs(D) : Decodes(D, x[1], x[2], x[3], x[4])}
<1> SUFFICES ASSUME NEW d, NEW bytes, NEW text, NEW e, Decodes(D, d, bytes, text, e)
             PROVE  <<d, bytes, text, e>> \in Q
  OBVIOUS
<1>1. Q \in SUBSET Runs(D)
  OBVIOUS
<1> HIDE DEF Q
<1> QED
  BY <1>1 DEF Decodes, Q

\* Two texts joined are a text.
LEMMA TextConcat ==
    ASSUME NEW a \in Text, NEW b \in Text
    PROVE  a \o b \in Text
BY ConcatProperties DEF Text

\* It does not matter which of three texts are joined first,
LEMMA TextAssociative ==
    ASSUME NEW a \in Text, NEW b \in Text, NEW c \in Text
    PROVE  (a \o b) \o c = a \o (b \o c)
BY DEF Text

\* nor when a byte is put in front,
LEMMA ByteAssociative ==
    ASSUME NEW b \in Bytes, NEW r \in Text, NEW more \in Text
    PROVE  (<<b>> \o r) \o more = <<b>> \o (r \o more)
<1> DEFINE x == <<b>>
<1>1. x \in Text
  BY HeardType
<1> HIDE DEF x
<1>2. (x \o r) \o more = x \o (r \o more)
  BY <1>1, TextAssociative
<1> QED
  BY <1>2 DEF x

\* or the text it stands for.
LEMMA HeardAssociative ==
    ASSUME NEW d, NEW b \in Bytes, NEW t \in Text, NEW rest \in Text
    PROVE  (Heard(d, b) \o t) \o rest = Heard(d, b) \o (t \o rest)
<1> DEFINE y == Heard(d, b)
<1>1. y \in Text
  BY HeardType
<1> HIDE DEF y
<1>2. (y \o t) \o rest = y \o (t \o rest)
  BY <1>1, TextAssociative
<1> QED
  BY <1>2 DEF y

\* Nothing is added by the empty text.
LEMMA TextEmpty ==
    ASSUME NEW a \in Text
    PROVE  a \o <<>> = a /\ <<>> \o a = a /\ <<>> \in Text
BY ConcatEmptySeq, EmptySeq DEF Text

\* What decodes has the right types.
LEMMA DecodesType ==
    ASSUME NEW D, NEW d, NEW bytes, NEW text, NEW e, Decodes(D, d, bytes, text, e)
    PROVE  d \in D /\ bytes \in Text /\ text \in Text /\ e \in D
BY DEF Decodes, Runs

\* What decodes is nothing, or has a first byte and a rest that decodes.
LEMMA DecodesInverse ==
    ASSUME NEW D, NEW d, NEW bytes, NEW text, NEW e, Decodes(D, d, bytes, text, e)
    PROVE  \/ bytes = <<>> /\ text = <<>> /\ e = d
           \/ \E b \in Bytes, r \in Text, u \in Text :
                 /\ bytes = <<b>> \o r /\ text = Heard(d, b) \o u
                 /\ Regular(d, b) /\ Fed(d, b) \in D /\ Decodes(D, Fed(d, b), r, u, e)
<1> DEFINE Inv(f, by, te, g) ==
              \/ by = <<>> /\ te = <<>> /\ g = f
              \/ \E b \in Bytes, r \in Text, u \in Text :
                    /\ by = <<b>> \o r /\ te = Heard(f, b) \o u
                    /\ Regular(f, b) /\ Fed(f, b) \in D /\ Decodes(D, Fed(f, b), r, u, g)
           R == {x \in Runs(D) : Inv(x[1], x[2], x[3], x[4])}
           Q == R \cap {x \in Runs(D) : Decodes(D, x[1], x[2], x[3], x[4])}
<1>1. ASSUME NEW f \in D PROVE <<f, <<>>, <<>>, f>> \in Q
  <2>1. Inv(f, <<>>, <<>>, f)
    OBVIOUS
  <2>2. Decodes(D, f, <<>>, <<>>, f)
    BY DecodesNothing
  <2>3. <<f, <<>>, <<>>, f>> \in Runs(D)
    BY <2>2 DEF Decodes
  <2> HIDE DEF Inv
  <2> QED
    BY <2>1, <2>2, <2>3
<1>2. ASSUME NEW f \in D, NEW b \in Bytes, NEW r \in Text, NEW t \in Text, NEW g \in D,
             Regular(f, b), Fed(f, b) \in D, <<Fed(f, b), r, t, g>> \in Q
      PROVE  <<f, <<b>> \o r, Heard(f, b) \o t, g>> \in Q
  <2>1. Decodes(D, Fed(f, b), r, t, g)
    BY <1>2
  <2>2. Decodes(D, f, <<b>> \o r, Heard(f, b) \o t, g)
    BY <1>2, <2>1, DecodesByte
  <2>3. Inv(f, <<b>> \o r, Heard(f, b) \o t, g)
    BY <1>2, <2>1
  <2>4. <<f, <<b>> \o r, Heard(f, b) \o t, g>> \in Runs(D)
    BY <2>2 DEF Decodes
  <2> HIDE DEF Inv
  <2> QED
    BY <2>2, <2>3, <2>4
<1> HIDE DEF Q
<1>3. Closed(D, Q)
  BY <1>1, <1>2 DEF Closed
<1> USE DEF Q
<1> HIDE DEF R
<1>4. <<d, bytes, text, e>> \in R
  BY <1>3, DecodesInduction
<1>5. Inv(d, bytes, text, e)
  <2> HIDE DEF Inv
  <2> QED
    BY <1>4 DEF R
<1> QED
  BY <1>5

\* The first byte b has been taken.
DecodesOn(D, d, b, r, text, e) ==
    /\ Regular(d, b) /\ Fed(d, b) \in D
    /\ \E u \in Text : Decodes(D, Fed(d, b), r, u, e) /\ text = Heard(d, b) \o u

\* Where the first byte is known, there is just one such rest.
LEMMA DecodesFirst ==
    ASSUME NEW D, NEW d, NEW b \in Bytes, NEW r \in Text, NEW text, NEW e,
           Decodes(D, d, <<b>> \o r, text, e)
    PROVE  DecodesOn(D, d, b, r, text, e)
<1> DEFINE bytes == <<b>> \o r
<1>1. bytes # <<>> /\ Head(bytes) = b /\ Tail(bytes) = r
  BY FirstByte
<1>2. ASSUME NEW c \in Bytes, NEW s \in Text, bytes = <<c>> \o s
      PROVE  b = c /\ r = s
  <2>1. Head(<<c>> \o s) = c /\ Tail(<<c>> \o s) = s
    BY FirstByte
  <2> HIDE DEF bytes
  <2> QED
    BY <1>1, <1>2, <2>1, Zenon
<1>3. Decodes(D, d, bytes, text, e)
  OBVIOUS
<1> HIDE DEF bytes
<1>4. PICK c \in Bytes, s \in Text, u \in Text :
         /\ bytes = <<c>> \o s /\ text = Heard(d, c) \o u
         /\ Regular(d, c) /\ Fed(d, c) \in D /\ Decodes(D, Fed(d, c), s, u, e)
  BY <1>1, <1>3, DecodesInverse, Zenon
<1>5. b = c /\ r = s
  BY <1>2, <1>4
<1> QED
  BY <1>4, <1>5, Zenon DEF DecodesOn

\* One more byte in front of bytes that are followed by more.
LEMMA DecodesByteFurther ==
    ASSUME NEW D, NEW d \in D, NEW b \in Bytes, Regular(d, b), Fed(d, b) \in D,
           NEW r \in Text, NEW t \in Text, NEW more \in Text, NEW rest \in Text, NEW e,
           Decodes(D, Fed(d, b), r \o more, t \o rest, e)
    PROVE  Decodes(D, d, (<<b>> \o r) \o more, (Heard(d, b) \o t) \o rest, e)
<1> DEFINE x == r \o more
           y == t \o rest
<1>1. Decodes(D, Fed(d, b), x, y, e)
  OBVIOUS
<1>2. Decodes(D, d, <<b>> \o x, Heard(d, b) \o y, e)
  <2> HIDE DEF x, y
  <2> QED
    BY <1>1, DecodesByte
<1>3. (<<b>> \o r) \o more = <<b>> \o x /\ (Heard(d, b) \o t) \o rest = Heard(d, b) \o y
  <2>1. (<<b>> \o r) \o more = <<b>> \o (r \o more)
    BY ByteAssociative
  <2>2. (Heard(d, b) \o t) \o rest = Heard(d, b) \o (t \o rest)
    BY HeardAssociative
  <2> QED
    BY <2>1, <2>2, Zenon
<1> HIDE DEF x, y
<1> QED
  BY <1>2, <1>3, Zenon

\* Where one text ends another one may follow.
LEMMA DecodesConcat ==
    ASSUME NEW D, NEW d, NEW bytes, NEW text, NEW e, Decodes(D, d, bytes, text, e),
           NEW more, NEW rest, NEW f, Decodes(D, e, more, rest, f)
    PROVE  Decodes(D, d, bytes \o more, text \o rest, f)
<1> DEFINE Goes(g, by, te, h) ==
              h = e => Decodes(D, g, by \o more, te \o rest, f)
           R == {x \in Runs(D) : Goes(x[1], x[2], x[3], x[4])}
           Q == R \cap {x \in Runs(D) : Decodes(D, x[1], x[2], x[3], x[4])}
<1>0. more \in Text /\ rest \in Text
  BY DecodesType
<1>1. ASSUME NEW g \in D PROVE <<g, <<>>, <<>>, g>> \in Q
  <2>1. Goes(g, <<>>, <<>>, g)
    BY <1>0, TextEmpty
  <2>2. Decodes(D, g, <<>>, <<>>, g)
    BY DecodesNothing
  <2>3. <<g, <<>>, <<>>, g>> \in Runs(D)
    BY <2>2 DEF Decodes
  <2> HIDE DEF Goes
  <2> QED
    BY <2>1, <2>2, <2>3
<1>2. ASSUME NEW g \in D, NEW b \in Bytes, NEW r \in Text, NEW t \in Text, NEW h \in D,
             Regular(g, b), Fed(g, b) \in D, <<Fed(g, b), r, t, h>> \in Q
      PROVE  <<g, <<b>> \o r, Heard(g, b) \o t, h>> \in Q
  <2>1. Decodes(D, Fed(g, b), r, t, h) /\ Goes(Fed(g, b), r, t, h)
    <3> HIDE DEF Goes
    <3> QED
      BY <1>2
  <2>2. Decodes(D, g, <<b>> \o r, Heard(g, b) \o t, h)
    BY <1>2, <2>1, DecodesByte
  <2>3. Goes(g, <<b>> \o r, Heard(g, b) \o t, h)
    <3> SUFFICES ASSUME h = e
                 PROVE  Decodes(D, g, (<<b>> \o r) \o more, (Heard(g, b) \o t) \o rest, f)
      OBVIOUS
    <3>1. Decodes(D, Fed(g, b), r \o more, t \o rest, f)
      BY <2>1
    <3> QED
      BY <1>0, <1>2, <3>1, DecodesByteFurther
  <2>4. <<g, <<b>> \o r, Heard(g, b) \o t, h>> \in Runs(D)
    BY <2>2 DEF Decodes
  <2> HIDE DEF Goes
  <2> QED
    BY <2>2, <2>3, <2>4
<1> HIDE DEF Q
<1>3. Closed(D, Q)
  BY <1>1, <1>2 DEF Closed
<1> USE DEF Q
<1> HIDE DEF R
<1>4. <<d, bytes, text, e>> \in R
  BY <1>3, DecodesInduction
<1>5. Goes(d, bytes, text, e)
  <2> HIDE DEF Goes
  <2> QED
    BY <1>4 DEF R
<1> QED
  BY <1>5

\* With more states allowed the same decodes.
LEMMA DecodesMore ==
    ASSUME NEW D, NEW E, D \subseteq E,
           NEW d, NEW bytes, NEW text, NEW e, Decodes(D, d, bytes, text, e)
    PROVE  Decodes(E, d, bytes, text, e)
<1> DEFINE R == {x \in Runs(D) : Decodes(E, x[1], x[2], x[3], x[4])}
           Q == R \cap {x \in Runs(D) : Decodes(D, x[1], x[2], x[3], x[4])}
<1>1. ASSUME NEW g \in D PROVE <<g, <<>>, <<>>, g>> \in Q
  <2>1. Decodes(D, g, <<>>, <<>>, g) /\ Decodes(E, g, <<>>, <<>>, g)
    BY DecodesNothing
  <2>2. <<g, <<>>, <<>>, g>> \in Runs(D)
    BY <2>1 DEF Decodes
  <2> QED
    BY <2>1, <2>2
<1>2. ASSUME NEW g \in D, NEW b \in Bytes, NEW r \in Text, NEW t \in Text, NEW h \in D,
             Regular(g, b), Fed(g, b) \in D, <<Fed(g, b), r, t, h>> \in Q
      PROVE  <<g, <<b>> \o r, Heard(g, b) \o t, h>> \in Q
  <2>1. Decodes(D, Fed(g, b), r, t, h) /\ Decodes(E, Fed(g, b), r, t, h)
    BY <1>2
  <2>2. Decodes(D, g, <<b>> \o r, Heard(g, b) \o t, h)
    BY <1>2, <2>1, DecodesByte
  <2>3. Decodes(E, g, <<b>> \o r, Heard(g, b) \o t, h)
    <3>1. g \in E /\ Fed(g, b) \in E
      BY <1>2
    <3> QED
      BY <1>2, <2>1, <3>1, DecodesByte
  <2>4. <<g, <<b>> \o r, Heard(g, b) \o t, h>> \in Runs(D)
    BY <2>2 DEF Decodes
  <2> QED
    BY <2>2, <2>3, <2>4
<1> HIDE DEF Q
<1>3. Closed(D, Q)
  BY <1>1, <1>2 DEF Closed
<1> USE DEF Q
<1> HIDE DEF R
<1>4. <<d, bytes, text, e>> \in R
  BY <1>3, DecodesInduction
<1> QED
  BY <1>4 DEF R

\* A single byte decodes.
LEMMA DecodesOne ==
    ASSUME NEW D, NEW d \in D, NEW b \in Bytes, Regular(d, b), Fed(d, b) \in D
    PROVE  Decodes(D, d, <<b>>, Heard(d, b), Fed(d, b))
<1>1. Decodes(D, Fed(d, b), <<>>, <<>>, Fed(d, b))
  BY DecodesNothing
<1>2. Decodes(D, d, <<b>> \o <<>>, Heard(d, b) \o <<>>, Fed(d, b))
  BY <1>1, DecodesByte
<1> DEFINE x == <<b>>  y == Heard(d, b)
<1>3. x \in Text /\ y \in Text
  BY HeardType
<1>4. Decodes(D, d, x \o <<>>, y \o <<>>, Fed(d, b))
  BY <1>2
<1>5. Decodes(D, d, x, y, Fed(d, b))
  <2> HIDE DEF x, y
  <2> QED
    BY <1>3, <1>4, TextEmpty, Zenon
<1> QED
  BY <1>5

\* No bytes, no text.
LEMMA DecodesNone ==
    ASSUME NEW D, NEW d, NEW text, NEW e, Decodes(D, d, <<>>, text, e)
    PROVE  text = <<>> /\ e = d
<1> DEFINE none == <<>>
<1>1. \A b \in Bytes, r \in Text : none # <<b>> \o r
  BY FirstByte
<1>2. Decodes(D, d, none, text, e)
  OBVIOUS
<1> HIDE DEF none
<1>3. \/ none = <<>> /\ text = <<>> /\ e = d
      \/ \E b \in Bytes, r \in Text, u \in Text :
            /\ none = <<b>> \o r /\ text = Heard(d, b) \o u
            /\ Regular(d, b) /\ Fed(d, b) \in D /\ Decodes(D, Fed(d, b), r, u, e)
  BY <1>2, DecodesInverse, Zenon
<1> QED
  BY <1>1, <1>3, Zenon

\* A byte as telnet_send writes it.
Doubled(b) == IF b = "IAC" THEN <<"IAC", "IAC">> ELSE <<b>>

\* A byte in front of one or two.
LEMMA Tuples ==
    ASSUME NEW a \in Bytes, NEW b \in Bytes
    PROVE  /\ <<a>> \o <<b>> = <<a, b>>
           /\ \A c \in Bytes : <<a>> \o <<b, c>> = <<a, b, c>>
<1>1. <<a>> \o <<b>> = <<a, b>>
  <2> DEFINE s == <<b>>  t == <<a, b>>  u == <<a>> \o s
  <2>1. s \in Text /\ Len(s) = 1 /\ s[1] = b /\ t \in Text /\ Len(t) = 2 /\ t[1] = a /\ t[2] = b
    BY DEF Text
  <2> HIDE DEF s, t
  <2>2. /\ u \in Text /\ Len(u) = 1 + Len(s)
        /\ \A n \in 1..(1 + Len(s)) : u[n] = IF n <= 1 THEN a ELSE s[n - 1]
    <3> DEFINE f == <<a>>
    <3>1. f \in Seq(Bytes) /\ s \in Seq(Bytes) /\ Len(f) = 1 /\ f[1] = a
      BY <2>1 DEF Text
    <3> HIDE DEF f
    <3>2. /\ f \o s \in Seq(Bytes) /\ Len(f \o s) = Len(f) + Len(s)
          /\ \A n \in 1..(Len(f) + Len(s)) :
                (f \o s)[n] = IF n <= Len(f) THEN f[n] ELSE s[n - Len(f)]
      BY <3>1, ConcatProperties
    <3>3. f \o s = u
      BY DEF f
    <3> HIDE DEF u
    <3> QED
      BY <3>1, <3>2, <3>3 DEF Text
  <2> HIDE DEF u
  <2>3. u = t
    BY <2>1, <2>2, SeqEqual DEF Text
  <2> QED
    BY <2>3 DEF s, t, u
<1>2. ASSUME NEW c \in Bytes PROVE <<a>> \o <<b, c>> = <<a, b, c>>
  <2> DEFINE s == <<b, c>>  t == <<a, b, c>>  u == <<a>> \o s
  <2>1. /\ s \in Text /\ Len(s) = 2 /\ s[1] = b /\ s[2] = c
        /\ t \in Text /\ Len(t) = 3 /\ t[1] = a /\ t[2] = b /\ t[3] = c
    BY DEF Text
  <2> HIDE DEF s, t
  <2>2. /\ u \in Text /\ Len(u) = 1 + Len(s)
        /\ \A n \in 1..(1 + Len(s)) : u[n] = IF n <= 1 THEN a ELSE s[n - 1]
    <3> DEFINE f == <<a>>
    <3>1. f \in Seq(Bytes) /\ s \in Seq(Bytes) /\ Len(f) = 1 /\ f[1] = a
      BY <2>1 DEF Text
    <3> HIDE DEF f
    <3>2. /\ f \o s \in Seq(Bytes) /\ Len(f \o s) = Len(f) + Len(s)
          /\ \A n \in 1..(Len(f) + Len(s)) :
                (f \o s)[n] = IF n <= Len(f) THEN f[n] ELSE s[n - Len(f)]
      BY <3>1, ConcatProperties
    <3>3. f \o s = u
      BY DEF f
    <3> HIDE DEF u
    <3> QED
      BY <3>1, <3>2, <3>3 DEF Text
  <2> HIDE DEF u
  <2>3. u = t
    <3>1. \A n \in 1..3 : n \in {1, 2, 3}
      OBVIOUS
    <3>2. \A n \in 1..Len(u) : u[n] = t[n]
      BY <2>1, <2>2, <3>1
    <3> QED
      BY <2>1, <2>2, <3>2, SeqEqual DEF Text
  <2> QED
    BY <2>3 DEF s, t, u
<1> QED
  BY <1>1, <1>2

\* That is a text.
LEMMA DoubledText ==
    ASSUME NEW b \in Bytes
    PROVE  Doubled(b) \in Text
BY DEF Doubled, Text

\* A byte that telnet_send writes is text again for the reader.
LEMMA DoubledTyped ==
    ASSUME NEW D, NEW d \in D, d \in Parsers, d.state = "DATA",
           [d EXCEPT !.state = "IAC"] \in D, NEW b \in Bytes
    PROVE  Decodes(D, d, Doubled(b), <<b>>, d)
<1> DEFINE m == [d EXCEPT !.state = "IAC"]
<1>0. d = [d EXCEPT !.state = "DATA"]
  BY DEF Parsers
<1>1. CASE b # "IAC"
  <2>1. Fed(d, b) = d /\ Heard(d, b) = <<b>> /\ Regular(d, b)
    BY <1>0, <1>1 DEF Fed, Heard, Regular, Negotiations
  <2> QED
    BY <1>1, <2>1, DecodesOne DEF Doubled
<1>2. CASE b = "IAC"
  <2>1. Fed(d, b) = m /\ Heard(d, b) = <<>> /\ Regular(d, b)
    BY <1>0, <1>2 DEF Fed, Heard, Regular, Negotiations
  <2>2. m.state = "IAC" /\ m = [m EXCEPT !.state = "IAC"] /\ [m EXCEPT !.state = "DATA"] = d
    BY <1>0 DEF Parsers
  <2> HIDE DEF m
  <2>3. Fed(m, b) = d /\ Heard(m, b) = <<b>> /\ Regular(m, b)
    BY <1>2, <2>2 DEF Fed, Heard, Regular, Negotiations, AfterIac
  <2>4. m \in D
    BY DEF m
  <2>5. Decodes(D, m, <<b>>, <<b>>, d)
    BY <2>3, <2>4, DecodesOne
  <2>6. Decodes(D, d, <<b>> \o <<b>>, <<>> \o <<b>>, d)
    BY <2>1, <2>4, <2>5, DecodesByte
  <2>7. <<b>> \o <<b>> = Doubled(b) /\ <<>> \o <<b>> = <<b>>
    <3>1. <<b>> \in Text
      BY DEF Text
    <3>2. <<b>> \o <<b>> = <<b, b>>
      BY Tuples
    <3> QED
      BY <1>2, <3>1, <3>2, TextEmpty DEF Doubled
  <2> QED
    BY <2>6, <2>7, Zenon
<1> QED
  BY <1>1, <1>2

\* The first k bytes are the first k - 1 and one more.
LEMMA Taken ==
    ASSUME NEW text \in Text, NEW k \in 1..Len(text)
    PROVE  /\ text[k] \in Bytes
           /\ SubSeq(text, 1, k) = SubSeq(text, 1, k - 1) \o <<text[k]>>
           /\ SubSeq(text, 1, k) \in Text
<1>1. text \in Seq(Bytes) /\ text[k] \in Bytes
  BY ElementOfSeq DEF Text
<1>2. SubSeq(text, 1, k) \in Text
  BY <1>1, SubSeqProperties DEF Text
<1>3. SubSeq(text, 1, k) = SubSeq(text, 1, k - 1) \o <<text[k]>>
  BY <1>1
<1> QED
  BY <1>1, <1>2, <1>3

\* telnet_send deals with one byte after the other.
LEMMA EscapeSteps ==
    ASSUME NEW text \in Text
    PROVE  \E g : /\ g[0] = <<>>
                  /\ \A k \in 1..Len(text) : g[k] = g[k - 1] \o Doubled(text[k])
                  /\ \A k \in 0..Len(text) : g[k] \in Text
                  /\ Escape(text) = g[Len(text)]
<1> DEFINE seqs == [k \in DOMAIN text |->
                      IF text[k] = "IAC" THEN <<"IAC", "IAC">> ELSE <<text[k]>>]
<1>1. /\ Len(text) \in Nat /\ DOMAIN text = 1..Len(text)
      /\ \A k \in 1..Len(text) : text[k] \in Bytes
  BY ElementOfSeq DEF Text
<1>2. \A k \in 1..Len(text) : seqs[k] = Doubled(text[k]) /\ Doubled(text[k]) \in Text
  BY <1>1, DoubledText DEF Doubled
<1>3. DOMAIN seqs = 1..Len(text)
  BY <1>1
<1>4. Escape(text) = FlattenSeq(seqs)
  BY Zenon DEF Escape
<1>5. seqs \in Seq(Text) /\ Len(seqs) = Len(text)
  <2>1. seqs = [k \in 1..Len(text) |-> Doubled(text[k])]
    BY <1>1 DEF Doubled
  <2>2. seqs \in [1..Len(text) -> Text]
    BY <1>2, <2>1
  <2> HIDE DEF seqs
  <2> QED
    BY <1>1, <1>3, <2>2
<1> HIDE DEF seqs
<1>6. PICK g : Flattens(seqs, g)
  BY <1>5, FlattenSteps
<1>7. /\ g[0] = <<>>
      /\ \A k \in 1..Len(text) : g[k] = g[k - 1] \o seqs[k]
      /\ \A k \in 0..Len(text) : g[k] \in Text
      /\ Escape(text) = g[Len(text)]
  BY <1>4, <1>5, <1>6 DEF Flattens
<1>8. \A k \in 1..Len(text) : g[k] = g[k - 1] \o Doubled(text[k])
  BY <1>2, <1>7, Zenon
<1> QED
  BY <1>7, <1>8

\* A text that telnet_send writes is the same text for the reader.
LEMMA EscapeDecodes ==
    ASSUME NEW D, NEW d \in D, d \in Parsers, d.state = "DATA",
           [d EXCEPT !.state = "IAC"] \in D, NEW text \in Text
    PROVE  Decodes(D, d, Escape(text), text, d)
<1>1. PICK g : /\ g[0] = <<>>
               /\ \A k \in 1..Len(text) : g[k] = g[k - 1] \o Doubled(text[k])
               /\ \A k \in 0..Len(text) : g[k] \in Text
               /\ Escape(text) = g[Len(text)]
  BY EscapeSteps
<1>2. /\ text \in Seq(Bytes) /\ Len(text) \in Nat /\ SubSeq(text, 1, 0) = <<>>
      /\ SubSeq(text, 1, Len(text)) = text
  BY DEF Text
<1> DEFINE Good(k) == Decodes(D, d, g[k], SubSeq(text, 1, k), d)
           T == {k \in Nat : k <= Len(text) => Good(k)}
<1>3. 0 \in T
  <2>1. Decodes(D, d, <<>>, <<>>, d)
    BY DecodesNothing
  <2>2. Good(0)
    BY <1>1, <1>2, <2>1, Zenon
  <2> HIDE DEF Good
  <2> QED
    BY <2>2
<1>4. ASSUME NEW k \in Nat, k \in T PROVE k + 1 \in T
  <2> SUFFICES ASSUME k + 1 <= Len(text) PROVE Good(k + 1)
    OBVIOUS
  <2>1. k <= Len(text) /\ k + 1 \in 1..Len(text) /\ (k + 1) - 1 = k
    BY <1>2
  <2>2. Good(k)
    <3> HIDE DEF Good
    <3> QED
      BY <1>4, <2>1
  <2> DEFINE b == text[k + 1]
  <2>3. b \in Bytes /\ SubSeq(text, 1, k + 1) = SubSeq(text, 1, k) \o <<b>>
    <3>1. /\ text[k + 1] \in Bytes
          /\ SubSeq(text, 1, k + 1) = SubSeq(text, 1, (k + 1) - 1) \o <<text[k + 1]>>
      BY <2>1, Taken
    <3> QED
      BY <2>1, <3>1, Zenon
  <2>4. g[k + 1] = g[k] \o Doubled(b)
    <3>1. g[k + 1] = g[(k + 1) - 1] \o Doubled(b)
      BY <1>1, <2>1
    <3> QED
      BY <2>1, <3>1, Zenon
  <2> HIDE DEF b
  <2>5. Decodes(D, d, Doubled(b), <<b>>, d)
    BY <2>3, DoubledTyped
  <2> DEFINE old == SubSeq(text, 1, k)
             new == <<b>>
  <2>6. Decodes(D, d, g[k], old, d) /\ Decodes(D, d, Doubled(b), new, d)
    BY <2>2, <2>5
  <2>7. Decodes(D, d, g[k] \o Doubled(b), old \o new, d)
    <3> HIDE DEF old, new
    <3> QED
      BY <2>6, DecodesConcat
  <2> QED
    BY <2>3, <2>4, <2>7, Zenon
<1> HIDE DEF T
<1>5. \A k \in Nat : k \in T
  BY <1>3, <1>4, SetInduction
<1>6. Good(Len(text))
  <2> HIDE DEF Good
  <2> QED
    BY <1>2, <1>5 DEF T
<1> QED
  BY <1>1, <1>2, <1>6, Zenon

\* In a subnegotiation such a byte is stored, or is what finds the buffer full.
LEMMA DoubledStored ==
    ASSUME NEW d \in Parsers, d.state = "SB_DATA", NEW b \in Bytes,
           d.option = MCCP1 => b # "WILL"
    PROVE  Decodes(Quiet, d, Doubled(b), <<>>, Stored(d)) /\ Stored(d) \in Quiet
<1>1. d \in Quiet
  BY DEF Quiet, Negotiations
<1>2. Stored(d) \in Quiet
  <2>1. Stored(d) \in Parsers
    <3>1. [d EXCEPT !.state = "SB_DATA"] = d
      BY DEF Parsers
    <3>2. \E c \in Bytes : c # "IAC"
      BY BytesAssumption
    <3>3. PICK c \in Bytes : c # "IAC"
      BY <3>2
    <3>4. Fed(d, c) = Stored(d)
      BY <3>3 DEF Fed, Negotiations
    <3> QED
      BY <3>4, FedType
  <2>2. Stored(d).state \in {"DATA", "SB_DATA"}
    BY DEF Stored, Parsers
  <2> QED
    BY <2>1, <2>2 DEF Quiet, Negotiations
<1>3. CASE b # "IAC"
  <2>1. Fed(d, b) = Stored(d) /\ Heard(d, b) = <<>> /\ Regular(d, b)
    BY <1>3 DEF Fed, Heard, Regular, Negotiations
  <2> QED
    BY <1>1, <1>2, <1>3, <2>1, DecodesOne DEF Doubled
<1>4. CASE b = "IAC"
  <2> DEFINE m == [d EXCEPT !.state = "SB_DATA_IAC"]
  <2>1. Fed(d, b) = m /\ Heard(d, b) = <<>> /\ Regular(d, b)
    BY <1>4 DEF Fed, Heard, Regular, Negotiations
  <2>2. m.state = "SB_DATA_IAC" /\ Stored(m) = Stored(d) /\ m \in Quiet
    BY DEF Stored, Parsers, Quiet, Negotiations, Places
  <2> HIDE DEF m
  <2>3. Fed(m, b) = Stored(d) /\ Heard(m, b) = <<>> /\ Regular(m, b)
    BY <1>4, <2>2 DEF Fed, Heard, Regular, Negotiations
  <2>4. Decodes(Quiet, m, <<b>>, <<>>, Stored(d))
    BY <1>2, <2>2, <2>3, DecodesOne
  <2>5. Decodes(Quiet, d, <<b>> \o <<b>>, <<>> \o <<>>, Stored(d))
    BY <1>1, <2>1, <2>2, <2>4, DecodesByte
  <2>6. <<b>> \o <<b>> = Doubled(b) /\ <<>> \o <<>> = <<>>
    BY <1>4, Tuples DEF Doubled
  <2>7. Decodes(Quiet, d, Doubled(b), <<>>, Stored(d))
    BY <2>5, <2>6, Zenon
  <2> QED
    BY <1>2, <2>7
<1> QED
  BY <1>3, <1>4

\* In a subnegotiation with k bytes; behind it if that is too many.
Inside(option, k) ==
    IF k <= BufferMax THEN [state |-> "SB_DATA", option |-> option, pos |-> k]
                      ELSE [state |-> "DATA", option |-> option, pos |-> BufferMax]

\* The content of a subnegotiation goes into the buffer, and is taken for text
\* from the second byte on that has no room there.
LEMMA ContentDecodes ==
    ASSUME NEW option \in Bytes, NEW content \in Text,
           option = MCCP1 => \A k \in 1..Len(content) : content[k] # "WILL"
    PROVE  Decodes(Quiet, Inside(option, 0), Escape(content),
                   SubSeq(content, BufferMax + 2, Len(content)),
                   Inside(option, Len(content)))
<1>0. BufferMax \in Nat
  BY BoundsAssumption
<1>1. PICK g : /\ g[0] = <<>>
               /\ \A k \in 1..Len(content) : g[k] = g[k - 1] \o Doubled(content[k])
               /\ \A k \in 0..Len(content) : g[k] \in Text
               /\ Escape(content) = g[Len(content)]
  BY EscapeSteps
<1>2. content \in Seq(Bytes) /\ Len(content) \in Nat
  BY DEF Text
<1> DEFINE P(k) == Inside(option, k)
           X(k) == SubSeq(content, BufferMax + 2, k)
           Good(k) == Decodes(Quiet, P(0), g[k], X(k), P(k))
           T == {k \in Nat : k <= Len(content) => Good(k)}
<1>3. \A k \in Nat : P(k) \in Quiet
  BY <1>0 DEF Inside, Quiet, Parsers, Places, Negotiations
<1>4. \A k \in Nat : k <= BufferMax + 1 => X(k) = <<>>
  BY <1>0, <1>2
<1>5. 0 \in T
  <2>1. Decodes(Quiet, P(0), <<>>, <<>>, P(0))
    BY <1>3, DecodesNothing
  <2>2. X(0) = <<>>
    BY <1>0, <1>4
  <2> HIDE DEF P, X
  <2>3. Good(0)
    BY <1>1, <2>1, <2>2, Zenon
  <2> HIDE DEF Good
  <2> QED
    BY <2>3
<1>6. ASSUME NEW k \in Nat, k \in T PROVE k + 1 \in T
  <2> SUFFICES ASSUME k + 1 <= Len(content) PROVE Good(k + 1)
    OBVIOUS
  <2>1. k <= Len(content) /\ k + 1 \in 1..Len(content) /\ (k + 1) - 1 = k
    BY <1>2
  <2>2. Good(k)
    <3> HIDE DEF Good
    <3> QED
      BY <1>6, <2>1
  <2> DEFINE b == content[k + 1]
  <2>3. b \in Bytes /\ (option = MCCP1 => b # "WILL")
    BY <1>2, <2>1, ElementOfSeq
  <2>4. g[k + 1] = g[k] \o Doubled(b)
    <3>1. g[k + 1] = g[(k + 1) - 1] \o Doubled(b)
      BY <1>1, <2>1
    <3> QED
      BY <2>1, <3>1, Zenon
  <2>5. P(k) \in Quiet /\ P(k + 1) \in Quiet /\ P(k) \in Parsers
    BY <1>3 DEF Quiet
  <2>6. \E u : Decodes(Quiet, P(k), Doubled(b), u, P(k + 1)) /\ X(k + 1) = X(k) \o u
    <3>1. CASE k <= BufferMax
      <4>1. P(k).state = "SB_DATA" /\ P(k).option = option
        BY <3>1 DEF Inside
      <4>2. Stored(P(k)) = P(k + 1)
        <5> DEFINE d == [state |-> "SB_DATA", option |-> option, pos |-> k]
        <5>1. P(k) = d /\ d.pos = k
          BY <3>1 DEF Inside
        <5>2. CASE k = BufferMax
          <6>1. [d EXCEPT !.state = "DATA"]
                   = [state |-> "DATA", option |-> option, pos |-> BufferMax]
            BY <5>2
          <6>2. ~(k + 1 <= BufferMax)
            BY <1>0, <5>2
          <6> QED
            BY <5>1, <5>2, <6>1, <6>2 DEF Stored, Inside
        <5>3. CASE k # BufferMax
          <6>1. d.option = option /\ d.pos = k
            OBVIOUS
          <6>2. k + 1 <= BufferMax
            BY <1>0, <3>1, <5>3
          <6> QED
            BY <5>1, <5>3, <6>1, <6>2 DEF Stored, Inside
        <5> QED
          BY <5>2, <5>3
      <4> HIDE DEF P, b
      <4>3. Decodes(Quiet, P(k), Doubled(b), <<>>, P(k + 1))
        BY <2>3, <2>5, <4>1, <4>2, DoubledStored
      <4>4. X(k) = <<>> /\ X(k + 1) = <<>> /\ <<>> \o <<>> = <<>>
        <5>1. k + 1 <= BufferMax + 1 /\ k <= BufferMax + 1
          BY <1>0, <3>1
        <5> QED
          BY <1>4, <5>1
      <4> HIDE DEF X
      <4> QED
        BY <4>3, <4>4, Zenon
    <3>2. CASE k > BufferMax
      <4>1. P(k).state = "DATA" /\ P(k + 1) = P(k)
        BY <1>0, <3>2 DEF Inside
      <4>2. [P(k) EXCEPT !.state = "IAC"] \in Quiet
        BY <2>5 DEF Quiet, Parsers, Places, Negotiations
      <4>3. X(k + 1) = X(k) \o <<b>>
        BY <1>0, <1>2, <2>1, <3>2
      <4> HIDE DEF P, b, X
      <4>4. Decodes(Quiet, P(k), Doubled(b), <<b>>, P(k + 1))
        BY <2>3, <2>5, <4>1, <4>2, DoubledTyped
      <4> QED
        BY <4>3, <4>4
    <3> QED
      BY <1>0, <3>1, <3>2
  <2> HIDE DEF b, P, X
  <2>7. PICK u : Decodes(Quiet, P(k), Doubled(b), u, P(k + 1)) /\ X(k + 1) = X(k) \o u
    BY <2>6
  <2>8. Decodes(Quiet, P(0), g[k] \o Doubled(b), X(k) \o u, P(k + 1))
    BY <2>2, <2>7, DecodesConcat
  <2> QED
    BY <2>4, <2>7, <2>8, Zenon
<1> HIDE DEF T
<1>7. \A k \in Nat : k \in T
  BY <1>5, <1>6, SetInduction
<1>8. Good(Len(content))
  <2> HIDE DEF Good
  <2> QED
    BY <1>2, <1>7 DEF T
<1> QED
  BY <1>1, <1>8, Zenon

\* Two bytes, one by one,
LEMMA DecodesTwo ==
    ASSUME NEW D, NEW d \in D, NEW a \in Bytes, NEW b \in Bytes,
           Regular(d, a), Fed(d, a) \in D, Heard(d, a) = <<>>,
           NEW e, e = Fed(Fed(d, a), b), Regular(Fed(d, a), b), e \in D,
           Heard(Fed(d, a), b) = <<>>
    PROVE  Decodes(D, d, <<a, b>>, <<>>, e)
<1> DEFINE m == Fed(d, a)
<1>1. Decodes(D, m, <<b>>, <<>>, e)
  <2> HIDE DEF m
  <2>1. m \in D /\ Regular(m, b) /\ Fed(m, b) \in D /\ e = Fed(m, b) /\ Heard(m, b) = <<>>
    BY DEF m
  <2> QED
    BY <2>1, DecodesOne
<1>2. Decodes(D, d, <<a>> \o <<b>>, <<>> \o <<>>, e)
  BY <1>1, DecodesByte
<1>3. <<a>> \o <<b>> = <<a, b>> /\ <<>> \o <<>> = <<>>
  BY Tuples
<1> QED
  BY <1>2, <1>3, Zenon

\* and three.
LEMMA DecodesThree ==
    ASSUME NEW D, NEW d \in D, NEW a \in Bytes, NEW b \in Bytes, NEW c \in Bytes,
           Regular(d, a), Fed(d, a) \in D, Heard(d, a) = <<>>,
           NEW e, Decodes(D, Fed(d, a), <<b, c>>, <<>>, e)
    PROVE  Decodes(D, d, <<a, b, c>>, <<>>, e)
<1> DEFINE r == <<b, c>>
<1>1. Decodes(D, Fed(d, a), r, <<>>, e)
  OBVIOUS
<1>2. <<a>> \o r = <<a, b, c>>
  BY Tuples, Zenon
<1>4. <<>> \o <<>> = <<>>
  OBVIOUS
<1> HIDE DEF r
<1>3. Decodes(D, d, <<a>> \o r, <<>> \o <<>>, e)
  BY <1>1, DecodesByte
<1> QED
  BY <1>2, <1>3, <1>4, Zenon

\* A negotiation is no text and leaves the reader where it was.
LEMMA CommandDecodes ==
    ASSUME NEW D, D \in {Parsers, Plain}, NEW d \in D, d.state = "DATA",
           NEW c \in Negotiations, NEW option \in Options
    PROVE  Decodes(D, d, <<"IAC", c, option>>, <<>>, d)
<1> DEFINE m == [d EXCEPT !.state = "IAC"]
           n == [d EXCEPT !.state = c]
<1>0. "IAC" \in Bytes /\ c \in Bytes /\ option \in Bytes
  BY BytesAssumption
<1>1. d \in Parsers /\ d = [d EXCEPT !.state = "DATA"]
  <2>1. d \in Parsers
    BY DEF Plain
  <2> QED
    BY <2>1 DEF Parsers
<1>2. m.state = "IAC" /\ n.state = c /\ [m EXCEPT !.state = c] = n /\ [n EXCEPT !.state = "DATA"] = d
  BY <1>1 DEF Parsers
<1>3. m \in D /\ n \in D
  BY <1>1 DEF Plain, Parsers, Places
<1>4. Fed(d, "IAC") = m /\ Heard(d, "IAC") = <<>> /\ Regular(d, "IAC")
  BY DEF Fed, Heard, Regular, Negotiations
<1> HIDE DEF m, n
<1>5. Fed(m, c) = n /\ Heard(m, c) = <<>> /\ Regular(m, c)
  <2>1. c # "IAC" /\ AfterIac(c) = c
    BY DEF AfterIac, Negotiations
  <2>2. m.state \notin Negotiations /\ m.state \notin {"DATA", "SB", "SB_DATA", "SB_DATA_IAC"}
    BY <1>2 DEF Negotiations
  <2>3. Fed(m, c) = [m EXCEPT !.state = AfterIac(c)]
    BY <1>2, <2>2 DEF Fed
  <2>4. Heard(m, c) = <<>>
    BY <2>1, <2>2 DEF Heard
  <2>5. Regular(m, c)
    BY <2>2 DEF Regular
  <2> QED
    BY <1>2, <2>1, <2>3, <2>4, <2>5
<1>6. Fed(n, option) = d /\ Heard(n, option) = <<>> /\ Regular(n, option)
  <2>1. n.state \in Negotiations
        /\ n.state \notin {"DATA", "IAC", "SB", "SB_DATA", "SB_DATA_IAC"}
    BY <1>2 DEF Negotiations
  <2>2. Fed(n, option) = [n EXCEPT !.state = "DATA"]
    BY <2>1 DEF Fed
  <2>3. Heard(n, option) = <<>>
    BY <2>1 DEF Heard
  <2>4. Regular(n, option)
    BY <2>1 DEF Regular
  <2> QED
    BY <1>2, <2>2, <2>3, <2>4
<1>7. Decodes(D, m, <<c, option>>, <<>>, d)
  BY <1>0, <1>3, <1>5, <1>6, DecodesTwo
<1> QED
  BY <1>0, <1>3, <1>4, <1>7, DecodesThree

\* Subnegotiations that the library takes for what they are: IAC at the end is
\* followed by SE or another command of one byte (by SE behind the variables of
\* an environment), and the option of the old compression protocol is not used in
\* the old way.
WellFormed(option, content, last) ==
    /\ option # "IAC" /\ last \notin Negotiations \cup {"SB", "IAC"}
    /\ option = MCCP1 => \A k \in 1..Len(content) : content[k] # "WILL"
    /\ option = Environ => last = "SE"

\* The premise of what follows: what a client may send of its own accord.
Units ==
    {Typed(text) : text \in Text} \cup {Nop}
       \cup {Sub(s[1], s[2], s[3]) :
                s \in {x \in Bytes \X Text \X Bytes : WellFormed(x[1], x[2], x[3])}}

\* A well-formed subnegotiation is no text, as long as there is room for it.
LEMMA SubDecodes ==
    ASSUME NEW d \in Parsers, d.state = "DATA",
           NEW option \in Bytes, NEW content \in Text, NEW last \in Bytes,
           WellFormed(option, content, last)
    PROVE  \E e \in Parsers :
              e.state = "DATA" /\ Decodes(Quiet, d, Sub(option, content, last).bytes,
                                          Sub(option, content, last).text, e)
<1>0. {"IAC", "SB", "SE"} \subseteq Bytes /\ BufferMax \in Nat
  BY BytesAssumption, BoundsAssumption
<1> DEFINE m == [d EXCEPT !.state = "IAC"]
           n == [d EXCEPT !.state = "SB"]
           p == Inside(option, 0)
<1>1. d \in Quiet /\ m \in Quiet /\ n \in Quiet /\ p \in Quiet
  BY <1>0 DEF Quiet, Parsers, Places, Negotiations, Inside
<1>2. m.state = "IAC" /\ n.state = "SB" /\ [m EXCEPT !.state = "SB"] = n
  BY DEF Parsers
<1>3. p = [state |-> "SB_DATA", option |-> option, pos |-> 0]
  BY <1>0 DEF Inside
<1>4. Fed(d, "IAC") = m /\ Heard(d, "IAC") = <<>> /\ Regular(d, "IAC")
  BY DEF Fed, Heard, Regular, Negotiations
<1> HIDE DEF m, n
<1>5. Fed(m, "SB") = n /\ Heard(m, "SB") = <<>> /\ Regular(m, "SB")
  BY <1>2 DEF Fed, Heard, Regular, Negotiations, AfterIac
<1>6. Fed(n, option) = p /\ Heard(n, option) = <<>> /\ Regular(n, option)
  BY <1>2, <1>3 DEF Fed, Heard, Regular, Negotiations, WellFormed
<1> HIDE DEF p
<1> DEFINE A == <<"IAC", "SB", option>>
           E == Escape(content)
           L == <<"IAC", last>>
           X == SubSeq(content, BufferMax + 2, Len(content))
           f == Inside(option, Len(content))
<1>7. Decodes(Quiet, d, A, <<>>, p)
  <2>1. Decodes(Quiet, m, <<"SB", option>>, <<>>, p)
    BY <1>0, <1>1, <1>5, <1>6, DecodesTwo
  <2> QED
    BY <1>0, <1>1, <1>4, <2>1, DecodesThree
<1>8. Decodes(Quiet, p, E, X, f)
  BY ContentDecodes DEF WellFormed, p
<1>9. \E e \in Parsers : e.state = "DATA" /\ Decodes(Quiet, f, L, <<>>, e)
  <2>0. f \in Quiet /\ f \in Parsers
    BY <1>8, DecodesType DEF Quiet
  <2> DEFINE e == [f EXCEPT !.state = "DATA"]
  <2>1. e \in Quiet /\ e \in Parsers /\ e.state = "DATA"
    BY <2>0 DEF Quiet, Parsers, Places, Negotiations
  <2>2. last # "IAC" /\ AfterIac(last) = "DATA"
    BY DEF WellFormed, AfterIac
  <2>3. CASE f.state = "SB_DATA"
    <3> DEFINE k == [f EXCEPT !.state = "SB_DATA_IAC"]
    <3>1. /\ k.state = "SB_DATA_IAC" /\ [k EXCEPT !.state = "DATA"] = e /\ k.option = option
          /\ k \in Quiet
      <4>1. f.option = option
        BY DEF Inside
      <4> HIDE DEF f
      <4> QED
        BY <2>0, <4>1 DEF Quiet, Parsers, Places, Negotiations
    <3>2. Fed(f, "IAC") = k /\ Heard(f, "IAC") = <<>> /\ Regular(f, "IAC")
      <4> HIDE DEF f
      <4> QED
        BY <2>3 DEF Fed, Heard, Regular, Negotiations
    <3> HIDE DEF k, f, e
    <3>3. Fed(k, last) = e /\ Heard(k, last) = <<>> /\ Regular(k, last)
      BY <2>2, <3>1 DEF Fed, Heard, Regular, Negotiations, WellFormed
    <3> QED
      BY <1>0, <2>0, <2>1, <3>1, <3>2, <3>3, DecodesTwo
  <2>4. CASE f.state = "DATA"
    <3> DEFINE k == [f EXCEPT !.state = "IAC"]
    <3>1. k.state = "IAC" /\ [k EXCEPT !.state = "DATA"] = e /\ k \in Quiet
      <4> HIDE DEF f
      <4> QED
        BY <2>0 DEF Quiet, Parsers, Places, Negotiations
    <3>2. Fed(f, "IAC") = k /\ Heard(f, "IAC") = <<>> /\ Regular(f, "IAC")
      <4> HIDE DEF f
      <4> QED
        BY <2>4 DEF Fed, Heard, Regular, Negotiations
    <3> HIDE DEF k, f, e
    <3>3. Fed(k, last) = e /\ Heard(k, last) = <<>> /\ Regular(k, last)
      BY <2>2, <3>1 DEF Fed, Heard, Regular, Negotiations
    <3> QED
      BY <1>0, <2>0, <2>1, <3>1, <3>2, <3>3, DecodesTwo
  <2> QED
    BY <2>3, <2>4 DEF Inside
<1>10. PICK e \in Parsers : e.state = "DATA" /\ Decodes(Quiet, f, L, <<>>, e)
  BY <1>9
<1>11. Sub(option, content, last).bytes = (A \o E) \o L /\ Sub(option, content, last).text = X
  BY DEF Sub
<1>12. X \in Text
  BY <1>8, DecodesType
<1> HIDE DEF A, E, L, X, f
<1>13. Decodes(Quiet, d, A \o E, <<>> \o X, f)
  BY <1>7, <1>8, DecodesConcat
<1>14. Decodes(Quiet, d, A \o E, X, f)
  BY <1>12, <1>13, TextEmpty, Zenon
<1> DEFINE AE == A \o E
<1>15. Decodes(Quiet, d, AE \o L, X \o <<>>, e)
  <2>1. Decodes(Quiet, d, AE, X, f)
    BY <1>14
  <2> HIDE DEF AE
  <2> QED
    BY <1>10, <2>1, DecodesConcat
<1>16. Decodes(Quiet, d, (A \o E) \o L, X, e)
  BY <1>12, <1>15, TextEmpty, Zenon
<1> QED
  BY <1>10, <1>11, <1>16, Zenon

\* Whatever a client sends of its own accord decodes to what it has typed.
LEMMA UnitDecodes ==
    ASSUME NEW d \in Parsers, d.state = "DATA", NEW unit \in Units
    PROVE  \E e \in Parsers :
              e.state = "DATA" /\ Decodes(Quiet, d, unit.bytes, unit.text, e)
<1>1. d \in Quiet /\ [d EXCEPT !.state = "IAC"] \in Quiet
  BY DEF Quiet, Parsers, Places, Negotiations
<1>2. ASSUME NEW text \in Text, unit = Typed(text)
      PROVE  Decodes(Quiet, d, unit.bytes, unit.text, d)
  <2>1. unit.bytes = Escape(text) /\ unit.text = text
    BY <1>2 DEF Typed
  <2> QED
    BY <1>1, <2>1, EscapeDecodes
<1>3. ASSUME unit = Nop PROVE Decodes(Quiet, d, unit.bytes, unit.text, d)
  <2>1. unit.bytes = <<"IAC", "NOP">> /\ unit.text = <<>>
    BY <1>3 DEF Nop
  <2> DEFINE m == [d EXCEPT !.state = "IAC"]
  <2>2. m.state = "IAC" /\ [m EXCEPT !.state = "DATA"] = d
    BY DEF Parsers
  <2>3. Fed(d, "IAC") = m /\ Heard(d, "IAC") = <<>> /\ Regular(d, "IAC")
    BY DEF Fed, Heard, Regular, Negotiations
  <2> HIDE DEF m
  <2>4. Fed(m, "NOP") = d /\ Heard(m, "NOP") = <<>> /\ Regular(m, "NOP")
    BY <2>2 DEF Fed, Heard, Regular, Negotiations, AfterIac
  <2>5. "IAC" \in Bytes /\ "NOP" \in Bytes /\ m \in Quiet
    BY <1>1, BytesAssumption DEF m
  <2>6. Decodes(Quiet, d, <<"IAC", "NOP">>, <<>>, d)
    BY <1>1, <2>3, <2>4, <2>5, DecodesTwo
  <2> QED
    BY <2>1, <2>6, Zenon
<1>4. ASSUME NEW s \in {x \in Bytes \X Text \X Bytes : WellFormed(x[1], x[2], x[3])},
             unit = Sub(s[1], s[2], s[3])
      PROVE  \E e \in Parsers :
                e.state = "DATA" /\ Decodes(Quiet, d, unit.bytes, unit.text, e)
  <2>1. s[1] \in Bytes /\ s[2] \in Text /\ s[3] \in Bytes /\ WellFormed(s[1], s[2], s[3])
    OBVIOUS
  <2> QED
    BY <1>4, <2>1, SubDecodes
<1> QED
  BY <1>2, <1>3, <1>4 DEF Units

-----------------------------------------------------------------------------
\* The state machine,
Cur  == [state |-> state, option |-> sbTelopt, pos |-> bufferPos]
\* what it has yet to read,
Rest == SubSeq(buffer, i, Len(buffer)) \o socket
\* and the text that it has read and not passed on.
Pending == IF state = "DATA" THEN SubSeq(buffer, start, i - 1) ELSE <<>>

\* The client has no queue.
PeerStates == {"NO", "YES", "WANTNO", "WANTYES"}

\* What there is to read decodes to what is owed, less what is pending, and ends
\* in the state for text: no command is cut off for good.  Between two calls of
\* _process nothing is pending, and a log client's bytes are never in a buffer.
Wire ==
    /\ \E text, e : /\ e.state = "DATA" /\ Decodes(Parsers, Cur, Rest, text, e)
                    /\ owedInput = Pending \o text
    /\ strayInput = <<>>
    /\ state = "DATA" => start <= i
    /\ buffer = <<>> => i = 1 /\ start = 1
    /\ readonly => state = "DATA" /\ buffer = <<>>

\* The inductive invariant of what comes from the client.
IInv == TypeOK /\ peerQ \in [Links -> PeerStates] /\ Wire

\* A text may be taken off the front of what it begins,
LEMMA Cut ==
    ASSUME NEW a \in Text, NEW b \in Text
    PROVE  /\ IsPrefix(a, a \o b)
           /\ SubSeq(a \o b, Len(a) + 1, Len(a \o b)) = b
<1> DEFINE ab == a \o b
<1>1. a \in Seq(Bytes) /\ b \in Seq(Bytes) /\ Len(a) \in Nat /\ Len(b) \in Nat
  BY DEF Text
<1>2. ab \in Seq(Bytes) /\ Len(ab) = Len(a) + Len(b)
  BY <1>1, ConcatProperties
<1>3. SubSeq(ab, 1, Len(a)) = a
  BY <1>1
<1>4. SubSeq(a, 1, Len(a)) = a
  BY <1>1, SubSeqFull
<1>5. SubSeq(ab, Len(a) + 1, Len(ab)) = b
  BY <1>1
<1> HIDE DEF ab
<1>6. IsPrefix(a, ab)
  BY <1>1, <1>2, <1>3, <1>4 DEF IsPrefix
<1> QED
  BY <1>5, <1>6 DEF ab

\* as ProcessInput does
LEMMA Passes ==
    ASSUME NEW text \in Text, NEW rest \in Text, owedInput = text \o rest,
           ProcessInput(text)
    PROVE  owedInput' = rest /\ strayInput' = strayInput /\ inputs' = inputs
BY Cut DEF ProcessInput

\* and the client with what it sees.
LEMMA Sees ==
    ASSUME NEW text \in Text, NEW rest \in Text, owedOutput = text \o rest,
           PeerSees(text)
    PROVE  owedOutput' = rest /\ strayOutput' = strayOutput /\ UNCHANGED <<socket, peerQ>>
BY Cut DEF PeerSees

\* What follows from the types.
LEMMA TypesOf ==
    ASSUME TypeOK
    PROVE  /\ socket \in Text /\ buffer \in Text /\ toPeer \in Text
           /\ owedInput \in Text /\ strayInput \in Text
           /\ owedOutput \in Text /\ strayOutput \in Text
           /\ Cur \in Parsers /\ Rest \in Text
           /\ i \in Nat /\ start \in Nat /\ Len(buffer) \in Nat
           /\ 1 <= i /\ i <= Len(buffer) + 1 /\ 1 <= start /\ start <= Len(buffer) + 2
<1>1. /\ socket \in Text /\ buffer \in Text /\ toPeer \in Text
      /\ owedInput \in Text /\ strayInput \in Text
      /\ owedOutput \in Text /\ strayOutput \in Text
  BY DEF TypeOK, Text
<1>2. Len(buffer) \in Nat
  BY <1>1 DEF Text
<1>3. /\ i \in Nat /\ start \in Nat
      /\ 1 <= i /\ i <= Len(buffer) + 1 /\ 1 <= start /\ start <= Len(buffer) + 2
  BY <1>2 DEF TypeOK
<1>4. Cur \in Parsers
  BY DEF TypeOK, Cur, Parsers, Places
<1>5. SubSeq(buffer, i, Len(buffer)) \in Text
  <2>1. \A k \in i..Len(buffer) : buffer[k] \in Bytes
    BY <1>1, <1>2, <1>3, ElementOfSeq DEF Text
  <2> QED
    BY <1>2, <1>3, <2>1, SubSeqProperties DEF Text
<1>6. Rest \in Text
  BY <1>1, <1>5, TextConcat DEF Rest
<1> QED
  BY <1>1, <1>2, <1>3, <1>4, <1>6

\* What is passed on is a text.
LEMMA PendingText ==
    ASSUME TypeOK
    PROVE  Pending \in Text /\ Passed \in Text
<1>1. \A k \in start..(i - 1) : buffer[k] \in Bytes
  BY TypesOf, ElementOfSeq DEF Text
<1>2. SubSeq(buffer, start, i - 1) \in Text
  BY TypesOf, <1>1, SubSeqProperties DEF Text
<1> QED
  BY <1>2, TextEmpty DEF Pending, Passed

\* The next byte is the first of what there is to read.
LEMMA RestFirst ==
    ASSUME TypeOK, i <= Len(buffer)
    PROVE  /\ buffer[i] \in Bytes
           /\ SubSeq(buffer, i + 1, Len(buffer)) \o socket \in Text
           /\ Rest = <<buffer[i]>> \o (SubSeq(buffer, i + 1, Len(buffer)) \o socket)
<1> DEFINE r == SubSeq(buffer, i + 1, Len(buffer))
           b == buffer[i]
<1>0. buffer \in Seq(Bytes) /\ i \in 1..Len(buffer) /\ Len(buffer) \in i..Len(buffer)
  BY TypesOf DEF Text
<1>1. b \in Bytes
  BY <1>0, ElementOfSeq
<1>2. SubSeq(buffer, i, Len(buffer)) = <<b>> \o r
  BY <1>0, SubSeqRecursiveFirst
<1>3. r \in Text
  <2>1. \A k \in (i + 1)..Len(buffer) : buffer[k] \in Bytes
    BY <1>0, TypesOf, ElementOfSeq
  <2> QED
    BY TypesOf, <2>1, SubSeqProperties DEF Text
<1> HIDE DEF r, b
<1>4. socket \in Text /\ r \o socket \in Text
  BY <1>3, TypesOf, TextConcat
<1>5. (<<b>> \o r) \o socket = <<b>> \o (r \o socket)
  BY <1>1, <1>3, <1>4, ByteAssociative
<1>6. Rest = <<b>> \o (r \o socket)
  BY <1>2, <1>5, Zenon DEF Rest
<1> QED
  BY <1>1, <1>4, <1>6 DEF r, b

\* What there is to read behind the next byte.
Ahead == SubSeq(buffer, i + 1, Len(buffer)) \o socket

\* That decodes to u, from where the next byte leads.
Owes(u) ==
    /\ u \in Text
    /\ \E e : e.state = "DATA" /\ Decodes(Parsers, Fed(Cur, buffer[i]), Ahead, u, e)
    /\ owedInput = Pending \o (Heard(Cur, buffer[i]) \o u)

\* The next byte is regular and stands for the next of what is owed.
LEMMA NextByte ==
    ASSUME IInv, i <= Len(buffer)
    PROVE  /\ buffer[i] \in Bytes /\ Cur \in Parsers /\ Cur.state = state
           /\ Cur.option = sbTelopt /\ Cur.pos = bufferPos
           /\ Regular(Cur, buffer[i]) /\ Fed(Cur, buffer[i]) \in Parsers
           /\ \E u : Owes(u)
<1>1. TypeOK /\ Wire
  BY DEF IInv
<1> DEFINE b == buffer[i]
<1>2. b \in Bytes /\ Ahead \in Text /\ Rest = <<b>> \o Ahead
  BY <1>1, RestFirst DEF Ahead
<1> HIDE DEF b
<1>3. PICK text, e : /\ e.state = "DATA" /\ Decodes(Parsers, Cur, Rest, text, e)
                     /\ owedInput = Pending \o text
  BY <1>1 DEF Wire
<1>4. Decodes(Parsers, Cur, <<b>> \o Ahead, text, e)
  BY <1>2, <1>3, Zenon
<1>5. /\ Regular(Cur, b) /\ Fed(Cur, b) \in Parsers
      /\ \E u \in Text : Decodes(Parsers, Fed(Cur, b), Ahead, u, e) /\ text = Heard(Cur, b) \o u
  <2> DEFINE c == Cur  r == Ahead
  <2>1. Decodes(Parsers, c, <<b>> \o r, text, e) /\ b \in Bytes /\ r \in Text
    BY <1>2, <1>4
  <2>2. /\ Regular(c, b) /\ Fed(c, b) \in Parsers
        /\ \E u \in Text : Decodes(Parsers, Fed(c, b), r, u, e) /\ text = Heard(c, b) \o u
    <3> HIDE DEF c, r
    <3>1. DecodesOn(Parsers, c, b, r, text, e)
      BY <2>1, DecodesFirst
    <3> QED
      BY <3>1, Zenon DEF DecodesOn
  <2> QED
    BY <2>2
<1>6. PICK u \in Text : Decodes(Parsers, Fed(Cur, b), Ahead, u, e) /\ text = Heard(Cur, b) \o u
  BY <1>5
<1>7. owedInput = Pending \o (Heard(Cur, b) \o u)
  BY <1>3, <1>6, Zenon
<1>8. Owes(u)
  BY <1>3, <1>6, <1>7 DEF Owes, b
<1>9. Cur \in Parsers /\ Cur.state = state /\ Cur.option = sbTelopt /\ Cur.pos = bufferPos
  BY <1>1, TypesOf DEF Cur
<1> QED
  BY <1>2, <1>5, <1>8, <1>9 DEF b

\* A step that does to the state machine what Fed says keeps Wire, if it passes
\* on what is owed.
LEMMA WireStep ==
    ASSUME IInv, Take, Cur' = Fed(Cur, buffer[i]), strayInput' = strayInput,
           state' = "DATA" => start' <= i',
           NEW u, Owes(u), owedInput' = Pending' \o u
    PROVE  Wire'
<1>1. TypeOK /\ Wire
  BY DEF IInv
<1>2. /\ i <= Len(buffer) /\ i' = i + 1 /\ buffer' = buffer /\ socket' = socket
      /\ readonly' = readonly
  BY DEF Take
<1>3. buffer # <<>>
  BY <1>1, <1>2, TypesOf DEF Text
<1>4. Rest' = Ahead
  BY <1>2 DEF Rest, Ahead
<1>5. PICK e : e.state = "DATA" /\ Decodes(Parsers, Fed(Cur, buffer[i]), Ahead, u, e)
  BY DEF Owes
<1>6. Decodes(Parsers, Cur', Rest', u, e)
  BY <1>4, <1>5, Zenon
<1> QED
  BY <1>1, <1>2, <1>3, <1>5, <1>6 DEF Wire

\* Outside of text nothing is pending.
LEMMA PendingNone ==
    ASSUME IInv, state # "DATA"
    PROVE  Pending = <<>>
BY DEF Pending

\* The types after a byte is taken.
LEMMA TakeTypes ==
    ASSUME TypeOK, Take, Skip \/ Remain, Cur' \in Parsers,
           q' \in [Links -> N!QStates], UNCHANGED <<outVars, clientVars>>,
           toPeer' \in Text, owedInput' \in Text, strayInput' \in Text, inputs' = inputs
    PROVE  TypeOK'
<1>1. /\ i <= Len(buffer) /\ i' = i + 1 /\ buffer' = buffer /\ socket' = socket
      /\ readonly' = readonly
  BY DEF Take
<1>2. i' \in 1..(Len(buffer) + 1) /\ start' \in 1..(Len(buffer) + 2)
  BY <1>1, TypesOf DEF Skip, Remain
<1>3. /\ state' \in Places /\ sbTelopt' \in Bytes \cup {"NONE"}
      /\ bufferPos' \in 0..BufferMax
  <2>1. /\ Cur'.state = state' /\ Cur'.option = sbTelopt' /\ Cur'.pos = bufferPos'
    BY DEF Cur
  <2> QED
    BY <2>1 DEF Parsers
<1> QED
  BY <1>1, <1>2, <1>3 DEF TypeOK, Places, outVars, clientVars, Text

\* Fed and Heard case by case.
LEMMA FedTable ==
    ASSUME NEW d, NEW b
    PROVE  /\ d.state = "DATA" /\ b = "IAC" =>
                Fed(d, b) = [d EXCEPT !.state = "IAC"] /\ Heard(d, b) = <<>>
           /\ d.state = "DATA" /\ b # "IAC" =>
                Fed(d, b) = [d EXCEPT !.state = "DATA"] /\ Heard(d, b) = <<b>>
           /\ d.state = "IAC" =>
                /\ Fed(d, b) = [d EXCEPT !.state = AfterIac(b)]
                /\ Heard(d, b) = IF b = "IAC" THEN <<"IAC">> ELSE <<>>
           /\ d.state \in Negotiations =>
                Fed(d, b) = [d EXCEPT !.state = "DATA"] /\ Heard(d, b) = <<>>
           /\ d.state = "SB" =>
                /\ Fed(d, b) = [state |-> "SB_DATA", option |-> b, pos |-> 0]
                /\ Heard(d, b) = <<>>
           /\ d.state = "SB_DATA" /\ b = "IAC" =>
                Fed(d, b) = [d EXCEPT !.state = "SB_DATA_IAC"] /\ Heard(d, b) = <<>>
           /\ d.state = "SB_DATA" /\ b # "IAC" =>
                Fed(d, b) = Stored(d) /\ Heard(d, b) = <<>>
           /\ d.state = "SB_DATA_IAC" /\ b = "IAC" =>
                Fed(d, b) = Stored(d) /\ Heard(d, b) = <<>>
           /\ d.state = "SB_DATA_IAC" /\ b = "SE" =>
                Fed(d, b) = [d EXCEPT !.state = "DATA"] /\ Heard(d, b) = <<>>
           /\ d.state = "SB_DATA_IAC" /\ b \notin {"IAC", "SE"} =>
                Fed(d, b) = [d EXCEPT !.state = AfterIac(b)] /\ Heard(d, b) = <<>>
<1>1. CASE d.state = "DATA"
  BY <1>1 DEF Fed, Heard, Negotiations
<1>2. CASE d.state = "IAC"
  BY <1>2 DEF Fed, Heard, Negotiations
<1>3. CASE d.state \in Negotiations
  BY <1>3 DEF Fed, Heard, Negotiations
<1>4. CASE d.state = "SB"
  BY <1>4 DEF Fed, Heard, Negotiations
<1>5. CASE d.state = "SB_DATA"
  BY <1>5 DEF Fed, Heard, Negotiations
<1>6. CASE d.state = "SB_DATA_IAC"
  BY <1>6 DEF Fed, Heard, Negotiations
<1> QED
  BY <1>1, <1>2, <1>3, <1>4, <1>5, <1>6

\* A byte of text, or the IAC that ends it: what is pending is passed on.
LEMMA InDataStep == ASSUME IInv, InData PROVE IInv' /\ Cur' = Fed(Cur, buffer[i])
<1>1. /\ i <= Len(buffer) /\ TypeOK /\ Wire /\ state = "DATA" /\ start <= i
      /\ Take /\ Remain /\ UNCHANGED <<sbTelopt, bufferPos, q, toPeer, peerQ>>
      /\ i' = i + 1 /\ buffer' = buffer /\ start' = start
      /\ UNCHANGED <<outVars, clientVars>>
  BY DEF InData, Take, IInv, Wire, clientVars, Remain
<1>2. /\ buffer[i] \in Bytes /\ Cur \in Parsers /\ Cur.state = state
      /\ Cur.option = sbTelopt /\ Cur.pos = bufferPos
      /\ Regular(Cur, buffer[i]) /\ Fed(Cur, buffer[i]) \in Parsers
  BY <1>1, NextByte
<1>3. PICK u : Owes(u)
  BY <1>1, NextByte
<1>4. Pending = Passed /\ Pending \in Text /\ u \in Text
  BY <1>1, <1>3, PendingText DEF Pending, Passed, Owes
<1>5. CASE buffer[i] = "IAC"
  <2>1. state' = "IAC" /\ ProcessInput(Passed)
    BY <1>5 DEF InData
  <2>2. Cur' = Fed(Cur, buffer[i]) /\ Heard(Cur, buffer[i]) = <<>>
    <3>1. Fed(Cur, buffer[i]) = [Cur EXCEPT !.state = "IAC"] /\ Heard(Cur, buffer[i]) = <<>>
      BY <1>1, <1>2, <1>5, FedTable
    <3>2. Cur' = [Cur EXCEPT !.state = "IAC"]
      BY <1>1, <2>1 DEF Cur
    <3> QED
      BY <3>1, <3>2
  <2>3. owedInput = Passed \o u
    <3>1. owedInput = Pending \o (<<>> \o u)
      BY <1>3, <2>2 DEF Owes
    <3> QED
      BY <1>4, <3>1, TextEmpty, Zenon
  <2>4. owedInput' = u /\ strayInput' = strayInput /\ inputs' = inputs
    BY <1>4, <2>1, <2>3, Passes
  <2>5. Pending' = <<>> /\ owedInput' = Pending' \o u
    <3>1. Pending' = <<>>
      BY <2>1 DEF Pending
    <3> QED
      BY <1>4, <2>4, <3>1, TextEmpty, Zenon
  <2>6. Wire'
    BY <1>1, <1>3, <2>1, <2>2, <2>4, <2>5, WireStep
  <2>7. TypeOK'
    BY <1>1, <1>2, <1>4, <2>2, <2>4, TakeTypes, TypesOf DEF TypeOK
  <2> QED
    BY <1>1, <2>2, <2>6, <2>7 DEF IInv
<1>6. CASE buffer[i] # "IAC"
  <2>1. state' = "DATA" /\ UNCHANGED inVars
    BY <1>1, <1>6 DEF InData
  <2>2. Cur' = Fed(Cur, buffer[i]) /\ Heard(Cur, buffer[i]) = <<buffer[i]>>
    BY <1>1, <1>2, <1>6, <2>1 DEF Fed, Heard, Cur
  <2>3. Pending' = Pending \o <<buffer[i]>>
    <3>1. Pending = SubSeq(buffer, start, i - 1) /\ Pending' = SubSeq(buffer, start, i)
      <4>1. i' - 1 = i
        BY <1>1, TypesOf
      <4> QED
        BY <1>1, <2>1, <4>1 DEF Pending
    <3>2. buffer \in Seq(Bytes) /\ start \in 1..Len(buffer) /\ i \in start..Len(buffer)
      BY <1>1, TypesOf DEF Text
    <3> QED
      BY <3>1, <3>2, SubSeqRecursiveSecond
  <2>4. owedInput' = Pending' \o u
    <3>1. owedInput = Pending \o (<<buffer[i]>> \o u)
      BY <1>3, <2>2 DEF Owes
    <3> DEFINE x == <<buffer[i]>>
    <3>2. x \in Text
      BY <1>2, HeardType
    <3> HIDE DEF x
    <3>3. (Pending \o x) \o u = Pending \o (x \o u)
      BY <1>4, <3>2, TextAssociative
    <3>4. owedInput' = owedInput
      BY <2>1 DEF inVars
    <3> QED
      BY <2>3, <3>1, <3>3, <3>4, Zenon DEF x
  <2>5. Wire'
    <3>1. start' <= i' /\ strayInput' = strayInput
      BY <1>1, <2>1, TypesOf DEF inVars
    <3> QED
      BY <1>1, <1>3, <2>2, <2>4, <3>1, WireStep
  <2>6. TypeOK'
    BY <1>1, <1>2, <2>1, <2>2, TakeTypes, TypesOf DEF TypeOK, inVars
  <2> QED
    BY <1>1, <2>2, <2>5, <2>6 DEF IInv
<1> QED
  BY <1>5, <1>6

\* After a byte that is no text nothing is pending.
LEMMA PendingAfter ==
    ASSUME IInv, Take, Skip \/ (Remain /\ state' # "DATA")
    PROVE  Pending' = <<>> /\ (state' = "DATA" => start' <= i')
<1>1. TypeOK /\ i' = i + 1 /\ i' - 1 = i /\ buffer' = buffer
  BY TypesOf DEF IInv, Take
<1>2. CASE Skip
  <2>1. start' = i + 1 /\ start' <= i'
    BY <1>1, <1>2, TypesOf DEF Skip
  <2>2. SubSeq(buffer, i + 1, i) = <<>>
    BY <1>1, TypesOf, SubSeqEmpty
  <2> QED
    BY <1>1, <2>1, <2>2 DEF Pending
<1>3. CASE state' # "DATA"
  BY <1>3 DEF Pending
<1> QED
  BY <1>2, <1>3

\* A byte that stands for no text keeps Wire.
LEMMA SilentStep ==
    ASSUME IInv, Take, state # "DATA", Skip \/ (Remain /\ state' # "DATA"),
           Cur' = Fed(Cur, buffer[i]), Heard(Cur, buffer[i]) = <<>>, UNCHANGED inVars
    PROVE  Wire'
<1>1. PICK u : Owes(u)
  BY NextByte DEF Take
<1>2. u \in Text /\ owedInput = Pending \o (<<>> \o u)
  BY <1>1 DEF Owes
<1>3. Pending = <<>>
  BY DEF Pending
<1>4. owedInput = u /\ Pending' = <<>> /\ owedInput' = owedInput
  <2>1. <<>> \o u = u
    BY <1>2, TextEmpty
  <2>2. owedInput' = owedInput
    BY DEF inVars
  <2> QED
    BY <1>2, <1>3, <2>1, <2>2, PendingAfter, Zenon
<1>5. owedInput' = Pending' \o u
  <2>1. <<>> \o u = u
    BY <1>2, TextEmpty
  <2> QED
    BY <1>4, <2>1, Zenon
<1>6. strayInput' = strayInput /\ (state' = "DATA" => start' <= i')
  BY PendingAfter DEF inVars
<1> QED
  BY <1>1, <1>5, <1>6, WireStep

\* The byte behind IAC: a second IAC is text.
LEMMA InIacStep == ASSUME IInv, InIac PROVE IInv' /\ Cur' = Fed(Cur, buffer[i])
<1>1. /\ TypeOK /\ Take /\ state = "IAC" /\ state' = AfterIac(buffer[i])
      /\ (Skip \/ (Remain /\ state' # "DATA")) /\ i <= Len(buffer)
      /\ UNCHANGED <<sbTelopt, bufferPos, q, toPeer, outVars, clientVars>>
  BY DEF IInv, InIac, Take
<1>2. /\ buffer[i] \in Bytes /\ Cur.state = state /\ Fed(Cur, buffer[i]) \in Parsers
  BY <1>1, NextByte
<1>3. /\ Fed(Cur, buffer[i]) = [Cur EXCEPT !.state = AfterIac(buffer[i])]
      /\ Heard(Cur, buffer[i]) = IF buffer[i] = "IAC" THEN <<"IAC">> ELSE <<>>
  BY <1>1, <1>2, FedTable
<1>4. Cur' = Fed(Cur, buffer[i])
  <2>1. Cur' = [Cur EXCEPT !.state = AfterIac(buffer[i])]
    BY <1>1 DEF Cur
  <2> QED
    BY <1>3, <2>1
<1>5. owedInput' \in Text /\ strayInput' \in Text /\ inputs' = inputs /\ Wire'
  <2>1. CASE buffer[i] # "IAC"
    <3>1. UNCHANGED inVars
      BY <2>1 DEF InIac
    <3>2. Wire'
      BY <1>1, <1>3, <1>4, <2>1, <3>1, SilentStep
    <3> QED
      BY <1>1, <3>1, <3>2, TypesOf DEF inVars
  <2>2. CASE buffer[i] = "IAC"
    <3>1. ProcessInput(<<"IAC">>)
      BY <2>2 DEF InIac
    <3>2. PICK u : Owes(u)
      BY <1>1, NextByte
    <3> DEFINE x == <<"IAC">>
    <3>3. x \in Text /\ u \in Text
      BY <3>2, BytesAssumption DEF Owes, Text
    <3>4. owedInput = <<>> \o (x \o u)
      <4>1. Pending = <<>>
        BY <1>1 DEF Pending
      <4>2. owedInput = Pending \o (x \o u)
        BY <1>3, <2>2, <3>2 DEF Owes
      <4> QED
        BY <4>1, <4>2, Zenon
    <3>5. ProcessInput(x)
      BY <3>1
    <3> HIDE DEF x
    <3>6. owedInput = x \o u
      <4>1. x \o u \in Text
        BY <3>3, TextConcat
      <4>2. <<>> \o (x \o u) = x \o u
        BY <4>1, TextEmpty
      <4> QED
        BY <3>4, <4>2, Zenon
    <3>7. owedInput' = u /\ strayInput' = strayInput /\ inputs' = inputs
      BY <3>3, <3>5, <3>6, Passes
    <3>8. Pending' = <<>> /\ (state' = "DATA" => start' <= i')
      BY <1>1, PendingAfter
    <3>9. owedInput' = Pending' \o u
      <4>1. <<>> \o u = u
        BY <3>3, TextEmpty
      <4> QED
        BY <3>7, <3>8, <4>1, Zenon
    <3>10. Wire'
      BY <1>1, <1>4, <3>2, <3>7, <3>8, <3>9, WireStep
    <3> QED
      BY <1>1, <3>3, <3>7, <3>10, TypesOf
  <2> QED
    BY <2>1, <2>2
<1>6. TypeOK'
  BY <1>1, <1>2, <1>4, <1>5, TakeTypes, TypesOf DEF TypeOK
<1> QED
  BY <1>1, <1>4, <1>5, <1>6 DEF IInv, clientVars

\* The option of a subnegotiation.
LEMMA InSbStep == ASSUME IInv, InSb PROVE IInv' /\ Cur' = Fed(Cur, buffer[i])
<1>1. /\ TypeOK /\ Take /\ state = "SB" /\ state' = "SB_DATA" /\ i <= Len(buffer)
      /\ sbTelopt' = buffer[i] /\ bufferPos' = 0 /\ Remain
      /\ UNCHANGED <<q, toPeer, inVars, outVars, clientVars>>
  BY DEF IInv, InSb, Take
<1>2. Cur.state = state /\ Fed(Cur, buffer[i]) \in Parsers
  BY <1>1, NextByte
<1>3. /\ Fed(Cur, buffer[i]) = [state |-> "SB_DATA", option |-> buffer[i], pos |-> 0]
      /\ Heard(Cur, buffer[i]) = <<>>
  BY <1>1, <1>2, FedTable
<1>4. Cur' = Fed(Cur, buffer[i])
  BY <1>1, <1>3 DEF Cur
<1>5. Wire'
  BY <1>1, <1>3, <1>4, SilentStep
<1>6. TypeOK'
  BY <1>1, <1>2, <1>4, TakeTypes, TypesOf DEF TypeOK, inVars
<1> QED
  BY <1>1, <1>4, <1>5, <1>6 DEF IInv, clientVars

\* BufferByte does what Stored says.
LEMMA BufferByteStores ==
    ASSUME TypeOK, BufferByte, sbTelopt' = sbTelopt
    PROVE  Cur' = Stored(Cur) /\ (Skip \/ (Remain /\ state' # "DATA"))
<1>1. Cur.pos = bufferPos /\ Cur.option = sbTelopt
  BY DEF Cur
<1>2. CASE bufferPos = BufferMax
  <2>1. Skip /\ state' = "DATA" /\ bufferPos' = bufferPos
    BY <1>2 DEF BufferByte
  <2>2. Cur' = [Cur EXCEPT !.state = "DATA"]
    BY <2>1 DEF Cur
  <2> QED
    BY <1>1, <1>2, <2>1, <2>2 DEF Stored
<1>3. CASE bufferPos # BufferMax
  <2>1. Remain /\ state' = "SB_DATA" /\ bufferPos' = bufferPos + 1
    BY <1>3 DEF BufferByte
  <2>2. Cur' = [state |-> "SB_DATA", option |-> Cur.option, pos |-> Cur.pos + 1]
    BY <1>1, <2>1 DEF Cur
  <2> QED
    BY <1>1, <1>3, <2>1, <2>2 DEF Stored
<1> QED
  BY <1>2, <1>3

\* A byte of a subnegotiation.
LEMMA InSbDataStep == ASSUME IInv, InSbData PROVE IInv' /\ Cur' = Fed(Cur, buffer[i])
<1>1. /\ TypeOK /\ Take /\ state = "SB_DATA" /\ i <= Len(buffer)
      /\ UNCHANGED <<sbTelopt, q, toPeer, inVars, outVars, clientVars>>
  BY DEF IInv, InSbData, Take
<1>2. /\ Cur.state = state /\ Cur.option = sbTelopt
      /\ Regular(Cur, buffer[i]) /\ Fed(Cur, buffer[i]) \in Parsers
  BY <1>1, NextByte
<1>3. ~(buffer[i] = "WILL" /\ sbTelopt = MCCP1)
  BY <1>1, <1>2 DEF Regular
<1>4. /\ Cur' = Fed(Cur, buffer[i]) /\ Heard(Cur, buffer[i]) = <<>>
      /\ Skip \/ (Remain /\ state' # "DATA")
  <2>1. CASE buffer[i] = "IAC"
    <3>1. Remain /\ state' = "SB_DATA_IAC" /\ bufferPos' = bufferPos
      BY <1>3, <2>1 DEF InSbData
    <3>2. Cur' = [Cur EXCEPT !.state = "SB_DATA_IAC"]
      BY <1>1, <3>1 DEF Cur
    <3>3. Fed(Cur, buffer[i]) = [Cur EXCEPT !.state = "SB_DATA_IAC"]
          /\ Heard(Cur, buffer[i]) = <<>>
      BY <1>1, <1>2, <2>1, FedTable
    <3> QED
      BY <3>1, <3>2, <3>3
  <2>2. CASE buffer[i] # "IAC"
    <3>1. BufferByte
      BY <1>3, <2>2 DEF InSbData
    <3>2. Fed(Cur, buffer[i]) = Stored(Cur) /\ Heard(Cur, buffer[i]) = <<>>
      BY <1>1, <1>2, <2>2, FedTable
    <3> QED
      BY <1>1, <3>1, <3>2, BufferByteStores
  <2> QED
    BY <2>1, <2>2
<1>5. Wire'
  BY <1>1, <1>4, SilentStep
<1>6. TypeOK'
  BY <1>1, <1>2, <1>4, TakeTypes, TypesOf DEF TypeOK, inVars
<1> QED
  BY <1>1, <1>4, <1>5, <1>6 DEF IInv, clientVars

\* A byte behind IAC in a subnegotiation.
LEMMA InSbDataIacStep == ASSUME IInv, InSbDataIac PROVE IInv' /\ Cur' = Fed(Cur, buffer[i])
<1>1. /\ TypeOK /\ Take /\ state = "SB_DATA_IAC" /\ i <= Len(buffer)
      /\ UNCHANGED <<sbTelopt, q, toPeer, inVars, outVars, clientVars>>
  BY DEF IInv, InSbDataIac, Take
<1>2. /\ Cur.state = state /\ Cur.option = sbTelopt
      /\ Regular(Cur, buffer[i]) /\ Fed(Cur, buffer[i]) \in Parsers
  BY <1>1, NextByte
<1>3. sbTelopt = Environ => buffer[i] \in {"SE", "IAC"}
  BY <1>1, <1>2 DEF Regular
<1>4. /\ Cur' = Fed(Cur, buffer[i]) /\ Heard(Cur, buffer[i]) = <<>>
      /\ Skip \/ (Remain /\ state' # "DATA")
  <2>1. CASE buffer[i] = "SE"
    <3>1. Skip /\ state' = "DATA" /\ bufferPos' = bufferPos
      BY <2>1 DEF InSbDataIac
    <3>2. Cur' = [Cur EXCEPT !.state = "DATA"]
      BY <1>1, <3>1 DEF Cur
    <3>3. Fed(Cur, buffer[i]) = [Cur EXCEPT !.state = "DATA"]
          /\ Heard(Cur, buffer[i]) = <<>>
      BY <1>1, <1>2, <2>1, FedTable
    <3> QED
      BY <3>1, <3>2, <3>3
  <2>2. CASE buffer[i] = "IAC"
    <3>1. BufferByte
      BY <2>2 DEF InSbDataIac
    <3>2. Fed(Cur, buffer[i]) = Stored(Cur) /\ Heard(Cur, buffer[i]) = <<>>
      BY <1>1, <1>2, <2>2, FedTable
    <3> QED
      BY <1>1, <3>1, <3>2, BufferByteStores
  <2>3. CASE buffer[i] \notin {"SE", "IAC"}
    <3>1. Skip /\ state' = AfterIac(buffer[i]) /\ bufferPos' = bufferPos
      BY <1>3, <2>3 DEF InSbDataIac, Subnegotiate
    <3>2. Cur' = [Cur EXCEPT !.state = AfterIac(buffer[i])]
      BY <1>1, <3>1 DEF Cur
    <3>3. Fed(Cur, buffer[i]) = [Cur EXCEPT !.state = AfterIac(buffer[i])]
          /\ Heard(Cur, buffer[i]) = <<>>
      BY <1>1, <1>2, <2>3, FedTable
    <3> QED
      BY <3>1, <3>2, <3>3
  <2> QED
    BY <2>1, <2>2, <2>3
<1>5. Wire'
  BY <1>1, <1>4, SilentStep
<1>6. TypeOK'
  BY <1>1, <1>2, <1>4, TakeTypes, TypesOf DEF TypeOK, inVars
<1> QED
  BY <1>1, <1>4, <1>5, <1>6 DEF IInv, clientVars

\* What is said in answer: nothing, or one word.
Said == {<<>>, <<"yes">>, <<"no">>}

\* A word about a link is three bytes, from which link and word can be told.
LEMMA Commands ==
    ASSUME NEW l \in Links, NEW w \in {"yes", "no"}
    PROVE  /\ \E c \in Negotiations : /\ FromServer(l, w) = <<"IAC", c, l[2]>>
                                      /\ ServerMeans(c, l[2]) = l /\ WordOf(c) = w
           /\ \E c \in Negotiations : /\ FromPeer(l, w) = <<"IAC", c, l[2]>>
                                      /\ ClientMeans(c, l[2]) = l /\ WordOf(c) = w
           /\ l[2] \in Options
           /\ FromServer(l, w) \in Text /\ FromPeer(l, w) \in Text
<1>1. l[1] \in {"us", "him"} /\ l[2] \in Options /\ l = <<l[1], l[2]>>
  BY DEF Links
<1>2. \E c \in Negotiations : /\ FromServer(l, w) = <<"IAC", c, l[2]>>
                              /\ ServerMeans(c, l[2]) = l /\ WordOf(c) = w
  <2> DEFINE c == CommandOf(IF l[1] = "us" THEN Offer ELSE Request, w)
  <2>1. c \in Negotiations /\ WordOf(c) = w
    BY <1>1 DEF CommandOf, Offer, Request, Negotiations, WordOf
  <2>2. ServerMeans(c, l[2]) = l
    BY <1>1 DEF CommandOf, Offer, Request, ServerMeans
  <2>3. FromServer(l, w) = <<"IAC", c, l[2]>>
    BY DEF FromServer, Command
  <2> QED
    BY <2>1, <2>2, <2>3
<1>3. \E c \in Negotiations : /\ FromPeer(l, w) = <<"IAC", c, l[2]>>
                              /\ ClientMeans(c, l[2]) = l /\ WordOf(c) = w
  <2> DEFINE c == CommandOf(IF l[1] = "us" THEN Request ELSE Offer, w)
  <2>1. c \in Negotiations /\ WordOf(c) = w
    BY <1>1 DEF CommandOf, Offer, Request, Negotiations, WordOf
  <2>2. ClientMeans(c, l[2]) = l
    BY <1>1 DEF CommandOf, Offer, Request, ClientMeans
  <2>3. FromPeer(l, w) = <<"IAC", c, l[2]>>
    BY DEF FromPeer, Command
  <2> QED
    BY <2>1, <2>2, <2>3
<1>4. \A c \in Negotiations : <<"IAC", c, l[2]>> \in Text
  <2>1. "IAC" \in Bytes /\ l[2] \in Bytes /\ Negotiations \subseteq Bytes
    BY <1>1, BytesAssumption
  <2> QED
    BY <2>1 DEF Text
<1> QED
  BY <1>1, <1>2, <1>3, <1>4

\* The types of what _negotiate does,
LEMMA NegotiatedTable ==
    ASSUME NEW l, NEW s \in N!QStates, NEW w
    PROVE  N!Negotiated(l, s, w).state \in N!QStates /\ N!Negotiated(l, s, w).said \in Said
<1>1. CASE w = "yes"
  BY <1>1 DEF N!Negotiated, N!Enabled, N!Outcome, N!QStates, Said
<1>2. CASE w # "yes"
  BY <1>2 DEF N!Negotiated, N!Disabled, N!Outcome, N!QStates, Said
<1> QED
  BY <1>1, <1>2

\* and of what the client does.
LEMMA PeerTable ==
    ASSUME NEW p \in PeerStates, NEW w \in {"yes", "no"},
           NEW o \in N!PeerOutcomes(p, w) \cup N!PeerRequests(p)
    PROVE  o.state \in PeerStates /\ o.said \in Said
<1>0. \A s, t : N!Outcome(s, t).state = s /\ N!Outcome(s, t).said = t
  BY DEF N!Outcome
<1>1. CASE o \in N!PeerRequests(p)
  <2>1. CASE p = "NO"
    BY <1>0, <1>1, <2>1 DEF N!PeerRequests, PeerStates, Said
  <2>2. CASE p = "YES"
    BY <1>0, <1>1, <2>2 DEF N!PeerRequests, PeerStates, Said
  <2>3. CASE p \notin {"YES", "NO"}
    BY <1>1, <2>3 DEF N!PeerRequests
  <2> QED
    BY <2>1, <2>2, <2>3
<1>2. CASE o \in N!PeerOutcomes(p, w)
  <2>1. CASE w = "yes" /\ p = "NO"
    <3>1. N!PeerOutcomes(p, w) = {N!Outcome("YES", <<"yes">>), N!Outcome("NO", <<"no">>)}
      BY <2>1 DEF N!PeerOutcomes
    <3> QED
      BY <1>0, <1>2, <3>1 DEF PeerStates, Said
  <2>2. CASE w = "yes" /\ p = "WANTNO"
    <3>1. N!PeerOutcomes(p, w) = {N!Outcome("NO", <<>>)}
      BY <2>2 DEF N!PeerOutcomes
    <3> QED
      BY <1>0, <1>2, <3>1 DEF PeerStates, Said
  <2>3. CASE w = "yes" /\ p \in {"YES", "WANTYES"}
    <3>1. N!PeerOutcomes(p, w) = {N!Outcome("YES", <<>>)}
      BY <2>3 DEF N!PeerOutcomes
    <3> QED
      BY <1>0, <1>2, <3>1 DEF PeerStates, Said
  <2>4. CASE w = "no" /\ p = "YES"
    <3>1. N!PeerOutcomes(p, w) = {N!Outcome("NO", <<"no">>)}
      BY <2>4 DEF N!PeerOutcomes
    <3> QED
      BY <1>0, <1>2, <3>1 DEF PeerStates, Said
  <2>5. CASE w = "no" /\ p # "YES"
    <3>1. N!PeerOutcomes(p, w) = {N!Outcome("NO", <<>>)}
      BY <2>5 DEF N!PeerOutcomes
    <3> QED
      BY <1>0, <1>2, <3>1 DEF PeerStates, Said
  <2> QED
    BY <2>1, <2>2, <2>3, <2>4, <2>5 DEF PeerStates
<1> QED
  BY <1>1, <1>2

\* What somebody says of a link, as pieces and joined.
LEMMA Spoken ==
    ASSUME NEW l \in Links, NEW said \in Said
    PROVE  /\ [k \in DOMAIN said |-> FromServer(l, said[k])] \in Seq(Text)
           /\ [k \in DOMAIN said |-> FromPeer(l, said[k])] \in Seq(Text)
           /\ said = <<>> =>
                 /\ FlattenSeq([k \in DOMAIN said |-> FromServer(l, said[k])]) = <<>>
                 /\ FlattenSeq([k \in DOMAIN said |-> FromPeer(l, said[k])]) = <<>>
           /\ \A w \in {"yes", "no"} : said = <<w>> =>
                 /\ FlattenSeq([k \in DOMAIN said |-> FromServer(l, said[k])]) = FromServer(l, w)
                 /\ FlattenSeq([k \in DOMAIN said |-> FromPeer(l, said[k])]) = FromPeer(l, w)
<1> DEFINE s == [k \in DOMAIN said |-> FromServer(l, said[k])]
           p == [k \in DOMAIN said |-> FromPeer(l, said[k])]
<1>1. CASE said = <<>>
  <2>1. s = <<>> /\ p = <<>>
    BY <1>1
  <2>2. <<>> \in Seq(Text) /\ \A w : said # <<w>>
    BY <1>1
  <2> HIDE DEF s, p
  <2>3. FlattenSeq(s) = <<>> /\ FlattenSeq(p) = <<>>
    BY <2>1, FlattenShort
  <2> QED
    BY <2>1, <2>2, <2>3 DEF s, p
<1>2. ASSUME NEW w \in {"yes", "no"}, said = <<w>>
      PROVE  /\ s \in Seq(Text) /\ p \in Seq(Text)
             /\ FlattenSeq(s) = FromServer(l, w) /\ FlattenSeq(p) = FromPeer(l, w)
  <2> DEFINE a == FromServer(l, w)  b == FromPeer(l, w)
  <2>1. s = <<a>> /\ p = <<b>>
    <3>1. DOMAIN said = {1} /\ said[1] = w
      BY <1>2
    <3>2. s = [k \in {1} |-> a] /\ p = [k \in {1} |-> b]
      BY <3>1
    <3> HIDE DEF s, p, a, b
    <3> QED
      BY <3>2
  <2>2. a \in Text /\ b \in Text
    BY Commands
  <2> HIDE DEF s, p, a, b
  <2>3. FlattenSeq(s) = a /\ FlattenSeq(p) = b
    BY <2>1, <2>2, FlattenShort
  <2>4. s \in Seq(Text) /\ p \in Seq(Text)
    BY <2>1, <2>2
  <2> QED
    BY <2>3, <2>4 DEF a, b
<1>3. CASE said # <<>>
  <2>1. PICK w \in {"yes", "no"} : said = <<w>>
    BY <1>3 DEF Said
  <2>2. \A v : said = <<v>> => v = w
    BY <2>1
  <2> HIDE DEF s, p
  <2> QED
    BY <1>2, <1>3, <2>1, <2>2 DEF s, p
<1> QED
  BY <1>1, <1>3

\* What is written of texts is a text, cut off or not.
LEMMA WrittenType ==
    ASSUME NEW pieces \in Seq(Text), NEW bytes \in Written(pieces)
    PROVE  bytes \in Text
<1>1. CASE ~CutWrites
  <2>1. bytes = FlattenSeq(pieces)
    BY <1>1 DEF Written
  <2> QED
    BY <2>1, FlattenType
<1>2. CASE CutWrites
  <2>1. PICK n \in [DOMAIN pieces -> 0..3] :
           /\ \A k \in DOMAIN pieces : n[k] <= Len(pieces[k])
           /\ bytes = FlattenSeq([k \in DOMAIN pieces |-> SubSeq(pieces[k], 1, n[k])])
    BY <1>2 DEF Written
  <2> DEFINE cut == [k \in DOMAIN pieces |-> SubSeq(pieces[k], 1, n[k])]
  <2>2. DOMAIN pieces = 1..Len(pieces) /\ Len(pieces) \in Nat
    OBVIOUS
  <2>3. ASSUME NEW k \in DOMAIN pieces PROVE cut[k] \in Text
    <3>1. pieces[k] \in Seq(Bytes) /\ n[k] \in Int /\ n[k] <= Len(pieces[k])
      <4>1. k \in 1..Len(pieces)
        BY <2>2
      <4>2. pieces[k] \in Text
        BY <4>1, ElementOfSeq
      <4>3. n[k] \in 0..3 /\ n[k] <= Len(pieces[k])
        BY <2>1
      <4> QED
        BY <4>2, <4>3 DEF Text
    <3> DEFINE s == pieces[k]  m == n[k]
    <3>2. s \in Seq(Bytes) /\ m \in Int /\ m <= Len(s)
      BY <3>1
    <3> HIDE DEF s, m
    <3>3. \A j \in 1..m : s[j] \in Bytes
      BY <3>2, ElementOfSeq
    <3>4. SubSeq(s, 1, m) \in Seq(Bytes)
      BY <3>2, <3>3, SubSeqProperties
    <3> QED
      BY <3>4 DEF s, m, Text
  <2>4. cut \in Seq(Text)
    <3>1. cut \in [1..Len(pieces) -> Text]
      BY <2>2, <2>3
    <3> HIDE DEF cut
    <3> QED
      BY <2>2, <3>1
  <2> HIDE DEF cut
  <2>5. FlattenSeq(cut) \in Text
    BY <2>4, FlattenType
  <2> QED
    BY <2>1, <2>5, Zenon DEF cut
<1> QED
  BY <1>1, <1>2

\* So the client still has a text to read.
LEMMA WriteType ==
    ASSUME TypeOK, NEW pieces \in Seq(Text), Write(pieces)
    PROVE  toPeer' \in Text
<1>1. PICK bytes \in Written(pieces) : toPeer' = toPeer \o bytes
  BY DEF Write
<1>2. bytes \in Text /\ toPeer \in Text
  BY WrittenType, TypesOf
<1> QED
  BY <1>1, <1>2, TextConcat

\* The option of a negotiation: the answer is written.
LEMMA InNegotiationStep == ASSUME IInv, InNegotiation PROVE IInv' /\ Cur' = Fed(Cur, buffer[i])
<1>1. /\ TypeOK /\ Take /\ Skip /\ state \in Negotiations /\ state' = "DATA"
      /\ i <= Len(buffer)
      /\ UNCHANGED <<sbTelopt, bufferPos, inVars, outVars, clientVars>>
  BY DEF IInv, InNegotiation, Take
<1>2. /\ buffer[i] \in Bytes /\ Cur.state = state
      /\ Regular(Cur, buffer[i]) /\ Fed(Cur, buffer[i]) \in Parsers
  BY <1>1, NextByte
<1>3. Cur' = Fed(Cur, buffer[i]) /\ Heard(Cur, buffer[i]) = <<>>
  <2>1. Cur' = [Cur EXCEPT !.state = "DATA"]
    BY <1>1 DEF Cur
  <2> QED
    BY <1>1, <1>2, <2>1, FedTable
<1>4. Wire'
  <2>1. state # "DATA"
    BY <1>1 DEF Negotiations
  <2> QED
    BY <1>1, <1>3, <2>1, SilentStep
<1> DEFINE l == ClientMeans(state, buffer[i])
           o == N!Negotiated(l, q[l], WordOf(state))
           pieces == [k \in DOMAIN o.said |-> FromServer(l, o.said[k])]
<1>5. l \in Links
  <2>1. buffer[i] \in Options
    BY <1>1, <1>2 DEF Regular
  <2> QED
    BY <2>1 DEF Links, ClientMeans
<1>6. q \in [Links -> N!QStates] /\ q[l] \in N!QStates
  BY <1>1, <1>5 DEF TypeOK
<1>7. o.state \in N!QStates /\ o.said \in Said
  BY <1>6, NegotiatedTable
<1>8. q' = [q EXCEPT ![l] = o.state] /\ Write(pieces)
  BY DEF InNegotiation
<1>9. q' \in [Links -> N!QStates]
  <2> HIDE DEF o, l
  <2> QED
    BY <1>6, <1>7, <1>8
<1>10. toPeer' \in Text
  <2>1. pieces \in Seq(Text)
    <3> HIDE DEF o, l
    <3> QED
      BY <1>5, <1>7, Spoken
  <2> HIDE DEF pieces
  <2> QED
    BY <1>1, <1>8, <2>1, WriteType
<1>11. TypeOK'
  BY <1>1, <1>2, <1>3, <1>9, <1>10, TakeTypes, TypesOf DEF inVars
<1> QED
  BY <1>1, <1>3, <1>4, <1>11 DEF IInv, clientVars

\* The end of a read: pending text is passed on, and what was begun remembered.
LEMMA EndOfBufferStep == ASSUME IInv, EndOfBuffer PROVE IInv' /\ Rest' = Rest /\ Cur' = Cur
<1>1. /\ TypeOK /\ Wire /\ buffer # <<>> /\ i > Len(buffer)
      /\ buffer' = <<>> /\ i' = 1 /\ start' = 1
      /\ UNCHANGED <<readonly, socket, state, sbTelopt, bufferPos, q, clientVars,
                     toPeer, outVars>>
  BY DEF IInv, EndOfBuffer
<1>2. PICK text, e : /\ e.state = "DATA" /\ Decodes(Parsers, Cur, Rest, text, e)
                     /\ owedInput = Pending \o text
  BY <1>1 DEF Wire
<1>3. text \in Text /\ Pending \in Text
  BY <1>1, <1>2, DecodesType, PendingText
<1>4. Rest' = Rest /\ Cur' = Cur
  <2>1. SubSeq(buffer, i, Len(buffer)) = <<>>
    BY <1>1, TypesOf, SubSeqEmpty
  <2>2. SubSeq(buffer', i', Len(buffer')) = <<>>
    BY <1>1
  <2> QED
    BY <1>1, <2>1, <2>2 DEF Rest, Cur
<1>5. Pending' = <<>>
  <2>1. SubSeq(buffer', start', i' - 1) = <<>>
    BY <1>1
  <2> QED
    BY <2>1 DEF Pending
<1>6. owedInput' = text /\ strayInput' = strayInput /\ inputs' = inputs
  <2>1. CASE state = "DATA"
    <3>1. ProcessInput(Passed) /\ Pending = Passed
      BY <2>1 DEF EndOfBuffer, Pending, Passed
    <3>2. owedInput = Passed \o text /\ Passed \in Text
      BY <1>2, <1>3, <3>1
    <3> QED
      BY <1>3, <3>1, <3>2, Passes
  <2>2. CASE state # "DATA"
    <3>1. Pending = <<>> /\ UNCHANGED inVars
      BY <2>2 DEF Pending, EndOfBuffer
    <3>2. owedInput = text
      <4>1. <<>> \o text = text
        BY <1>3, TextEmpty
      <4> QED
        BY <1>2, <3>1, <4>1, Zenon
    <3> QED
      BY <3>1, <3>2 DEF inVars
  <2> QED
    BY <2>1, <2>2
<1>7. owedInput' = Pending' \o text
  <2>1. <<>> \o text = text
    BY <1>3, TextEmpty
  <2> QED
    BY <1>5, <1>6, <2>1, Zenon
<1>8. Decodes(Parsers, Cur', Rest', text, e)
  BY <1>2, <1>4, Zenon
<1>9. readonly' => state' = "DATA"
  BY <1>1 DEF Wire
<1>10. Wire'
  <2>1. \E t, f : /\ f.state = "DATA" /\ Decodes(Parsers, Cur', Rest', t, f)
                  /\ owedInput' = Pending' \o t
    BY <1>2, <1>7, <1>8
  <2>2. strayInput' = <<>>
    BY <1>1, <1>6 DEF Wire
  <2>3. i' = 1 /\ start' = 1 /\ buffer' = <<>> /\ start' <= i'
    BY <1>1
  <2> QED
    BY <1>9, <2>1, <2>2, <2>3 DEF Wire
<1>11. TypeOK'
  <2>1. buffer' \in Text /\ Len(buffer') = 0 /\ owedInput' \in Text /\ strayInput' \in Text
    BY <1>1, <1>3, <1>6, TextEmpty, TypesOf
  <2>2. i' \in 1..(Len(buffer') + 1) /\ start' \in 1..(Len(buffer') + 2)
    BY <1>1, <2>1
  <2> QED
    BY <1>1, <1>6, <2>1, <2>2 DEF TypeOK, Text, outVars, clientVars
<1> QED
  BY <1>1, <1>4, <1>10, <1>11 DEF IInv, clientVars

\* A read, wherever it ends, changes nothing of what there is to read.
LEMMA ReadStep == ASSUME IInv, Read PROVE IInv' /\ Rest' = Rest /\ Cur' = Cur
<1>1. /\ TypeOK /\ Wire /\ ~readonly /\ buffer = <<>>
      /\ UNCHANGED <<readonly, i, start, state, sbTelopt, bufferPos, q, clientVars,
                     toPeer, inVars, outVars>>
  BY DEF IInv, Read
<1>2. PICK n \in DOMAIN socket : /\ buffer' = SubSeq(socket, 1, n)
                                 /\ socket' = SubSeq(socket, n + 1, Len(socket))
  BY DEF Read
<1>3. i = 1 /\ start = 1 /\ i' = 1 /\ start' = 1
  BY <1>1 DEF Wire
<1>4. socket \in Seq(Bytes) /\ n \in 1..Len(socket) /\ Len(socket) \in Nat
  BY <1>1, <1>2, TypesOf DEF Text
<1>5. buffer' \in Text /\ Len(buffer') = n /\ socket' \in Text
  BY <1>2, <1>4, SubSeqProperties, ElementOfSeq DEF Text
<1>6. buffer' \o socket' = socket
  <2>1. 1 \in 1..(Len(socket) + 1) /\ n \in (1 - 1)..Len(socket) /\ Len(socket) \in n..Len(socket)
    BY <1>4
  <2>2. SubSeq(socket, 1, n) \o SubSeq(socket, n + 1, Len(socket)) = SubSeq(socket, 1, Len(socket))
    BY <1>4, <2>1, ConcatAdjacentSubSeq
  <2>3. SubSeq(socket, 1, Len(socket)) = socket
    BY <1>4, SubSeqFull
  <2> QED
    BY <1>2, <2>2, <2>3
<1>7. Rest' = Rest /\ Cur' = Cur
  <2>1. SubSeq(buffer, i, Len(buffer)) = <<>>
    BY <1>1, <1>3
  <2>2. Rest = socket
    <3>1. <<>> \o socket = socket
      BY <1>1, TypesOf, TextEmpty
    <3> QED
      BY <2>1, <3>1 DEF Rest
  <2>3. SubSeq(buffer', i', Len(buffer')) = buffer'
    BY <1>3, <1>5, SubSeqFull DEF Text
  <2>4. Rest' = socket
    BY <1>6, <2>3 DEF Rest
  <2> QED
    BY <1>1, <2>2, <2>4 DEF Cur
<1>8. Pending = <<>> /\ Pending' = <<>>
  <2>1. SubSeq(buffer, start, i - 1) = <<>> /\ SubSeq(buffer', start', i' - 1) = <<>>
    BY <1>3, <1>5, SubSeqEmpty
  <2> QED
    BY <2>1 DEF Pending
<1>9. Wire'
  <2>1. PICK text, e : /\ e.state = "DATA" /\ Decodes(Parsers, Cur, Rest, text, e)
                       /\ owedInput = Pending \o text
    BY <1>1 DEF Wire
  <2>2. Decodes(Parsers, Cur', Rest', text, e) /\ owedInput' = Pending' \o text
    <3>1. owedInput' = owedInput
      BY <1>1 DEF inVars
    <3> QED
      BY <1>7, <1>8, <2>1, <3>1, Zenon
  <2>3. strayInput' = <<>> /\ start' <= i' /\ ~readonly'
    BY <1>1, <1>3 DEF Wire, inVars
  <2> QED
    BY <1>3, <2>1, <2>2, <2>3 DEF Wire
<1>10. TypeOK'
  <2>1. i' \in 1..(Len(buffer') + 1) /\ start' \in 1..(Len(buffer') + 2)
    BY <1>3, <1>4, <1>5
  <2> QED
    BY <1>1, <1>5, <2>1 DEF TypeOK, Text, outVars, inVars, clientVars
<1> QED
  BY <1>1, <1>7, <1>9, <1>10 DEF IInv, clientVars

\* What a log client has sent is gone, and nobody owes it.
LEMMA ReadReadonlyStep == ASSUME IInv, ReadReadonly PROVE IInv' /\ Rest' = <<>> /\ Cur'.state = "DATA"
<1>1. /\ TypeOK /\ Wire /\ readonly /\ socket' = <<>> /\ owedInput' = <<>>
      /\ UNCHANGED <<readonly, parserVars, q, clientVars, toPeer, strayInput, inputs,
                     outVars>>
  BY DEF IInv, ReadReadonly
<1>2. state = "DATA" /\ buffer = <<>> /\ i = 1 /\ start = 1
  BY <1>1 DEF Wire
<1>3. /\ state' = "DATA" /\ buffer' = <<>> /\ i' = 1 /\ start' = 1
      /\ sbTelopt' = sbTelopt /\ bufferPos' = bufferPos
  BY <1>1, <1>2 DEF parserVars
<1>4. Rest' = <<>> /\ Pending' = <<>> /\ Cur' = Cur
  <2>1. SubSeq(buffer', i', Len(buffer')) = <<>> /\ SubSeq(buffer', start', i' - 1) = <<>>
    BY <1>3
  <2>2. <<>> \o <<>> = <<>>
    OBVIOUS
  <2> QED
    BY <1>1, <1>2, <1>3, <2>1, <2>2 DEF Rest, Pending, Cur
<1>5. Cur \in Parsers /\ Cur.state = "DATA"
  BY <1>1, <1>2, TypesOf DEF Cur
<1>6. Decodes(Parsers, Cur', Rest', <<>>, Cur) /\ owedInput' = Pending' \o <<>>
  <2>1. Decodes(Parsers, Cur, <<>>, <<>>, Cur)
    BY <1>5, DecodesNothing
  <2>2. <<>> \o <<>> = <<>>
    OBVIOUS
  <2> QED
    BY <1>1, <1>4, <2>1, <2>2, Zenon
<1>7. Wire'
  <2>1. strayInput' = <<>>
    BY <1>1 DEF Wire
  <2>2. start' <= i'
    BY <1>3
  <2> QED
    BY <1>3, <1>5, <1>6, <2>1, <2>2 DEF Wire
<1>8. TypeOK'
  BY <1>1, <1>3, TextEmpty, EmptySeq DEF TypeOK, Text, outVars, clientVars
<1> QED
  BY <1>1, <1>4, <1>5, <1>7, <1>8 DEF IInv, clientVars

\* Output leaves the input alone.
LEMMA SendOutputStep == ASSUME IInv, SendOutput PROVE IInv'
<1>1. /\ TypeOK /\ Wire /\ outputs < MaxOutputs /\ outputs' = outputs + 1
      /\ UNCHANGED <<readonly, socket, parserVars, q, clientVars, inVars, strayOutput>>
  BY DEF IInv, SendOutput
<1>2. PICK text \in Outputs : /\ Write([k \in DOMAIN text |-> Escape(<<text[k]>>)])
                              /\ owedOutput' = owedOutput \o text
  BY DEF SendOutput
<1>3. text \in Seq(Bytes)
  BY BytesAssumption
<1> DEFINE pieces == [k \in DOMAIN text |-> Escape(<<text[k]>>)]
<1>4. pieces \in Seq(Text)
  <2>1. ASSUME NEW k \in DOMAIN text PROVE pieces[k] \in Text
    <3> DEFINE b == text[k]  s == <<b>>
    <3>1. b \in Bytes
      <4>1. k \in 1..Len(text)
        BY <1>3
      <4> QED
        BY <1>3, <4>1, ElementOfSeq
    <3>2. s \in Text
      BY <3>1 DEF Text
    <3>3. pieces[k] = Escape(s)
      OBVIOUS
    <3> HIDE DEF b, s
    <3>4. Escape(s) \in Text
      <4>1. Len(s) \in 0..Len(s)
        BY <3>2 DEF Text
      <4> QED
        BY <3>2, <4>1, EscapeSteps
    <3> QED
      BY <3>3, <3>4, Zenon
  <2>2. DOMAIN text = 1..Len(text) /\ Len(text) \in Nat
    BY <1>3
  <2>3. pieces \in [1..Len(text) -> Text]
    BY <2>1, <2>2
  <2> HIDE DEF pieces
  <2> QED
    BY <2>2, <2>3
<1>5. toPeer' \in Text
  <2>1. Write(pieces)
    BY <1>2
  <2> HIDE DEF pieces
  <2> QED
    BY <1>1, <1>4, <2>1, WriteType
<1>6. owedOutput' \in Text
  <2>1. text \in Text /\ owedOutput \in Text
    BY <1>1, <1>3, TypesOf DEF Text
  <2> QED
    BY <1>2, <2>1, TextConcat
<1>7. TypeOK'
  <2>1. outputs' \in 0..MaxOutputs
    <3>1. outputs \in 0..MaxOutputs /\ MaxOutputs \in Nat
      BY <1>1, BoundsAssumption DEF TypeOK
    <3> QED
      BY <1>1, <3>1
  <2> QED
    BY <1>1, <1>5, <1>6, <2>1 DEF TypeOK, Text, inVars, clientVars, parserVars
<1>8. Wire'
  BY <1>1 DEF Wire, Cur, Rest, Pending, parserVars, inVars
<1> QED
  BY <1>1, <1>7, <1>8 DEF IInv, clientVars

\* What is sent by somebody in between leads back to where it began.
Whole(D, bytes, text) ==
    \A d \in D : d.state = "DATA" =>
        \E e : e.state = "DATA" /\ Decodes(D, d, bytes, text, e)

\* More is owed when the client sends what decodes to it.
LEMMA SocketGrows ==
    ASSUME IInv, UNCHANGED <<readonly, parserVars, strayInput>>,
           NEW more, NEW rest, Whole(Parsers, more, rest),
           socket' = socket \o more, owedInput' = owedInput \o rest
    PROVE  Wire'
<1>1. /\ TypeOK /\ Wire
      /\ readonly' = readonly /\ buffer' = buffer /\ i' = i /\ start' = start
      /\ state' = state /\ sbTelopt' = sbTelopt /\ bufferPos' = bufferPos
      /\ strayInput' = strayInput
  BY DEF IInv, parserVars
<1>2. PICK text, e : /\ e.state = "DATA" /\ Decodes(Parsers, Cur, Rest, text, e)
                     /\ owedInput = Pending \o text
  BY <1>1 DEF Wire
<1>3. e \in Parsers /\ text \in Text
  BY <1>2, DecodesType
<1>4. PICK f : f.state = "DATA" /\ Decodes(Parsers, e, more, rest, f)
  BY <1>2, <1>3 DEF Whole
<1>5. more \in Text /\ rest \in Text
  BY <1>4, DecodesType
<1>6. Cur' = Cur /\ Pending' = Pending
  BY <1>1 DEF Cur, Pending
<1>7. Rest' = Rest \o more
  <2> DEFINE a == SubSeq(buffer, i, Len(buffer))
  <2>1. a \in Text
    <3>1. \A k \in i..Len(buffer) : buffer[k] \in Bytes
      BY <1>1, TypesOf, ElementOfSeq DEF Text
    <3> QED
      BY <1>1, TypesOf, <3>1, SubSeqProperties DEF Text
  <2>2. Rest = a \o socket /\ Rest' = a \o (socket \o more)
    BY <1>1 DEF Rest
  <2>3. socket \in Text
    BY <1>1, TypesOf
  <2> HIDE DEF a
  <2>4. (a \o socket) \o more = a \o (socket \o more)
    BY <1>5, <2>1, <2>3, TextAssociative
  <2> QED
    BY <2>2, <2>4, Zenon
<1>8. Decodes(Parsers, Cur', Rest', text \o rest, f)
  <2>1. Decodes(Parsers, Cur, Rest \o more, text \o rest, f)
    BY <1>2, <1>4, DecodesConcat
  <2> QED
    BY <1>6, <1>7, <2>1, Zenon
<1>9. owedInput' = Pending' \o (text \o rest)
  <2>1. Pending \in Text
    BY <1>1, PendingText
  <2>2. (Pending \o text) \o rest = Pending \o (text \o rest)
    BY <1>3, <1>5, <2>1, TextAssociative
  <2> QED
    BY <1>2, <1>6, <2>2, Zenon
<1>10. \E t, g : /\ g.state = "DATA" /\ Decodes(Parsers, Cur', Rest', t, g)
                 /\ owedInput' = Pending' \o t
  BY <1>4, <1>8, <1>9
<1>11. /\ strayInput' = <<>> /\ (state' = "DATA" => start' <= i')
       /\ buffer' = <<>> => i' = 1 /\ start' = 1
       /\ readonly' => state' = "DATA" /\ buffer' = <<>>
  BY <1>1 DEF Wire
<1> QED
  BY <1>10, <1>11 DEF Wire

\* What the client sends of its own accord may come at any time.
LEMMA UnitWhole ==
    ASSUME NEW unit \in Units
    PROVE  Whole(Parsers, unit.bytes, unit.text)
<1> SUFFICES ASSUME NEW d \in Parsers, d.state = "DATA"
             PROVE  \E e : e.state = "DATA" /\ Decodes(Parsers, d, unit.bytes, unit.text, e)
  BY DEF Whole
<1>1. PICK e \in Parsers : e.state = "DATA" /\ Decodes(Quiet, d, unit.bytes, unit.text, e)
  BY UnitDecodes
<1>2. Quiet \subseteq Parsers
  BY DEF Quiet
<1>3. Decodes(Parsers, d, unit.bytes, unit.text, e)
  BY <1>1, <1>2, DecodesMore
<1> QED
  BY <1>1, <1>3

\* The same of what is said about a link, by either side.
LEMMA SpokenWhole ==
    ASSUME NEW D, D \in {Parsers, Plain}, NEW l \in Links, NEW said \in Said
    PROVE  /\ Whole(D, FlattenSeq([k \in DOMAIN said |-> FromServer(l, said[k])]), <<>>)
           /\ Whole(D, FlattenSeq([k \in DOMAIN said |-> FromPeer(l, said[k])]), <<>>)
<1> DEFINE s == FlattenSeq([k \in DOMAIN said |-> FromServer(l, said[k])])
           p == FlattenSeq([k \in DOMAIN said |-> FromPeer(l, said[k])])
<1>1. ASSUME said = <<>> PROVE Whole(D, s, <<>>) /\ Whole(D, p, <<>>)
  <2>1. s = <<>> /\ p = <<>>
    BY <1>1, Spoken
  <2> HIDE DEF s, p
  <2>2. \A d \in D : Decodes(D, d, <<>>, <<>>, d)
    BY DecodesNothing
  <2> QED
    BY <2>1, <2>2 DEF Whole
<1>2. ASSUME NEW w \in {"yes", "no"}, said = <<w>>
      PROVE  Whole(D, s, <<>>) /\ Whole(D, p, <<>>)
  <2>1. s = FromServer(l, w) /\ p = FromPeer(l, w)
    BY <1>2, Spoken
  <2>2. PICK c \in Negotiations : FromServer(l, w) = <<"IAC", c, l[2]>>
    BY Commands
  <2>3. PICK a \in Negotiations : FromPeer(l, w) = <<"IAC", a, l[2]>>
    BY Commands
  <2>4. l[2] \in Options
    BY Commands
  <2>5. ASSUME NEW d \in D, d.state = "DATA"
        PROVE  Decodes(D, d, s, <<>>, d) /\ Decodes(D, d, p, <<>>, d)
    <3>1. /\ Decodes(D, d, <<"IAC", c, l[2]>>, <<>>, d)
          /\ Decodes(D, d, <<"IAC", a, l[2]>>, <<>>, d)
      BY <2>4, <2>5, CommandDecodes
    <3> HIDE DEF s, p
    <3> QED
      BY <2>1, <2>2, <2>3, <3>1, Zenon
  <2> HIDE DEF s, p
  <2> QED
    BY <2>5 DEF Whole
<1>3. said = <<>> \/ \E w \in {"yes", "no"} : said = <<w>>
  BY DEF Said
<1> HIDE DEF s, p
<1>4. Whole(D, s, <<>>) /\ Whole(D, p, <<>>)
  BY <1>1, <1>2, <1>3
<1> QED
  BY <1>4 DEF s, p

\* What is said about a link is a text.
LEMMA SpokenText ==
    ASSUME NEW l \in Links, NEW said \in Said
    PROVE  /\ FlattenSeq([k \in DOMAIN said |-> FromServer(l, said[k])]) \in Text
           /\ FlattenSeq([k \in DOMAIN said |-> FromPeer(l, said[k])]) \in Text
BY Spoken, FlattenType

\* The client sends something.
LEMMA PeerTypesStep ==
    ASSUME Inputs \subseteq Units, IInv, PeerTypes
    PROVE  IInv'
<1>1. /\ TypeOK /\ inputs < MaxInputs /\ inputs' = inputs + 1
      /\ UNCHANGED <<readonly, parserVars, q, clientVars, toPeer, strayInput, outVars>>
  BY DEF IInv, PeerTypes
<1>2. PICK unit \in Inputs : socket' = socket \o unit.bytes /\ owedInput' = owedInput \o unit.text
  BY DEF PeerTypes
<1>3. unit \in Units
  OBVIOUS
<1>4. Whole(Parsers, unit.bytes, unit.text)
  BY <1>3, UnitWhole
<1>5. Wire'
  BY <1>1, <1>2, <1>4, SocketGrows
<1>6. TypeOK'
  <2>1. unit \in [bytes : Seq(Bytes), text : Seq(Bytes)]
    BY BytesAssumption
  <2>2. unit.bytes \in Text /\ unit.text \in Text
    BY <2>1 DEF Text
  <2>3. socket' \in Text /\ owedInput' \in Text
    BY <1>1, <1>2, <2>2, TypesOf, TextConcat
  <2>4. inputs' \in 0..MaxInputs
    <3>1. inputs \in 0..MaxInputs /\ MaxInputs \in Nat
      BY <1>1, BoundsAssumption DEF TypeOK
    <3> QED
      BY <1>1, <3>1
  <2> QED
    BY <1>1, <2>3, <2>4 DEF TypeOK, Text, outVars, clientVars, parserVars
<1> QED
  BY <1>1, <1>5, <1>6 DEF IInv, clientVars

\* A step in which the client speaks about a link.
LEMMA PeerSaysStep ==
    ASSUME IInv, NEW l \in Links, NEW outcome, outcome.state \in PeerStates,
           outcome.said \in Said, PeerSays(l, outcome),
           UNCHANGED <<readonly, parserVars, inVars>>
    PROVE  /\ Wire' /\ socket' \in Text /\ peerQ' \in [Links -> PeerStates]
           /\ peerQ' \in [Links -> N!QStates]
<1> DEFINE said == outcome.said
           p == FlattenSeq([k \in DOMAIN said |-> FromPeer(l, said[k])])
<1>1. TypeOK /\ peerQ \in [Links -> PeerStates]
  BY DEF IInv
<1>2. socket' = socket \o p /\ peerQ' = [peerQ EXCEPT ![l] = outcome.state]
  BY DEF PeerSays
<1>3. p \in Text /\ Whole(Parsers, p, <<>>)
  <2> HIDE DEF said
  <2>1. said \in Said
    BY DEF said
  <2> QED
    BY <2>1, SpokenText, SpokenWhole
<1> HIDE DEF p
<1>4. owedInput' = owedInput \o <<>> /\ strayInput' = strayInput
  BY <1>1, TypesOf, TextEmpty DEF inVars
<1>5. Wire'
  BY <1>2, <1>3, <1>4, SocketGrows
<1>6. socket' \in Text
  BY <1>1, <1>2, <1>3, TypesOf, TextConcat
<1>7. peerQ' \in [Links -> PeerStates]
  BY <1>1, <1>2
<1>8. PeerStates \subseteq N!QStates
  BY DEF PeerStates, N!QStates
<1> QED
  BY <1>5, <1>6, <1>7, <1>8

\* The client asks for an option.
LEMMA PeerAsksStep == ASSUME IInv, PeerAsks PROVE IInv'
<1>1. /\ TypeOK /\ peerQ \in [Links -> PeerStates] /\ asks < MaxAsks /\ asks' = asks + 1
      /\ UNCHANGED <<readonly, parserVars, q, toPeer, inVars, outVars>>
  BY DEF IInv, PeerAsks
<1>2. PICK l \in Links : \E o \in N!PeerRequests(peerQ[l]) : PeerSays(l, o)
  BY DEF PeerAsks
<1>3. PICK o \in N!PeerRequests(peerQ[l]) : PeerSays(l, o)
  BY <1>2
<1>4. o.state \in PeerStates /\ o.said \in Said
  <2>1. peerQ[l] \in PeerStates /\ "yes" \in {"yes", "no"}
    BY <1>1
  <2> QED
    BY <1>3, <2>1, PeerTable
<1>5. /\ Wire' /\ socket' \in Text /\ peerQ' \in [Links -> PeerStates]
      /\ peerQ' \in [Links -> N!QStates]
  BY <1>1, <1>3, <1>4, PeerSaysStep
<1>6. asks' \in 0..MaxAsks
  <2>1. asks \in 0..MaxAsks /\ MaxAsks \in Nat
    BY <1>1, BoundsAssumption DEF TypeOK
  <2> QED
    BY <1>1, <2>1
<1>7. TypeOK'
  BY <1>1, <1>5, <1>6 DEF TypeOK, Text, inVars, outVars, parserVars
<1> QED
  BY <1>5, <1>7 DEF IInv

\* The types after the client has seen a text,
LEMMA PeerSeesTypes ==
    ASSUME TypeOK, NEW text \in Text, PeerSees(text)
    PROVE  owedOutput' \in Text /\ strayOutput' \in Text /\ UNCHANGED <<socket, peerQ>>
<1>1. owedOutput \in Text /\ strayOutput \in Text
  BY TypesOf
<1>2. CASE IsPrefix(text, owedOutput)
  <2>1. /\ owedOutput' = SubSeq(owedOutput, Len(text) + 1, Len(owedOutput))
        /\ strayOutput' = strayOutput
    BY <1>2 DEF PeerSees
  <2>2. owedOutput \in Seq(Bytes) /\ Len(text) \in Nat /\ Len(owedOutput) \in Nat
    BY <1>1 DEF Text
  <2>3. \A k \in (Len(text) + 1)..Len(owedOutput) : owedOutput[k] \in Bytes
    BY <2>2, ElementOfSeq
  <2>4. SubSeq(owedOutput, Len(text) + 1, Len(owedOutput)) \in Seq(Bytes)
    BY <2>2, <2>3, SubSeqProperties
  <2> QED
    BY <1>1, <2>1, <2>4 DEF PeerSees, Text
<1>3. CASE ~IsPrefix(text, owedOutput)
  <2>1. strayOutput' = strayOutput \o text /\ owedOutput' = owedOutput
    BY <1>3 DEF PeerSees
  <2> QED
    BY <1>1, <2>1, TextConcat DEF PeerSees
<1> QED
  BY <1>2, <1>3

\* or taken some bytes.
LEMMA PeerHasTypes ==
    ASSUME TypeOK, NEW n \in Nat, PeerHas(n)
    PROVE  toPeer' \in Text /\ \A k \in 1..n : toPeer[k] \in Bytes
<1>1. toPeer \in Seq(Bytes) /\ Len(toPeer) \in Nat /\ n <= Len(toPeer)
      /\ toPeer' = SubSeq(toPeer, n + 1, Len(toPeer))
  BY TypesOf DEF PeerHas, Text
<1>2. \A k \in 1..Len(toPeer) : toPeer[k] \in Bytes
  BY <1>1, ElementOfSeq
<1>3. SubSeq(toPeer, n + 1, Len(toPeer)) \in Seq(Bytes)
  <2>1. \A k \in (n + 1)..Len(toPeer) : toPeer[k] \in Bytes
    BY <1>1, <1>2
  <2> QED
    BY <1>1, <2>1, SubSeqProperties
<1> QED
  BY <1>1, <1>2, <1>3 DEF Text

\* The client reads text, or a command and answers it.
LEMMA PeerReadsStep == ASSUME IInv, PeerReads PROVE IInv'
<1>1. /\ TypeOK /\ Wire /\ peerQ \in [Links -> PeerStates]
      /\ UNCHANGED <<readonly, parserVars, q, asks, inVars, outputs>>
  BY DEF IInv, PeerReads
<1>2. ASSUME NEW text \in Text, PeerSees(text), toPeer' \in Text PROVE IInv'
  <2>1. owedOutput' \in Text /\ strayOutput' \in Text /\ UNCHANGED <<socket, peerQ>>
    BY <1>1, <1>2, PeerSeesTypes
  <2>2. TypeOK'
    BY <1>1, <1>2, <2>1 DEF TypeOK, Text, inVars, parserVars
  <2>3. Wire'
    BY <1>1, <2>1 DEF Wire, Cur, Rest, Pending, parserVars, inVars
  <2> QED
    BY <1>1, <2>1, <2>2, <2>3 DEF IInv
<1>3. CASE PeerHas(1) /\ toPeer[1] # "IAC" /\ PeerSees(<<toPeer[1]>>)
  <2>1. toPeer' \in Text /\ toPeer[1] \in Bytes
    BY <1>1, <1>3, PeerHasTypes
  <2>2. <<toPeer[1]>> \in Text
    BY <2>1, HeardType
  <2> QED
    BY <1>2, <1>3, <2>1, <2>2
<1>4. CASE /\ PeerHas(2) /\ toPeer[1] = "IAC" /\ toPeer[2] \notin Negotiations
           /\ PeerSees(IF toPeer[2] = "IAC" THEN <<"IAC">> ELSE <<>>)
  <2>1. toPeer' \in Text
    BY <1>1, <1>4, PeerHasTypes
  <2>2. (IF toPeer[2] = "IAC" THEN <<"IAC">> ELSE <<>>) \in Text
    BY BytesAssumption DEF Text
  <2> QED
    BY <1>2, <1>4, <2>1, <2>2
<1>5. CASE /\ PeerHas(3) /\ toPeer[1] = "IAC" /\ toPeer[2] \in Negotiations
           /\ LET l == ServerMeans(toPeer[2], toPeer[3])
              IN  IF l \in Links
                  THEN \E o \in N!PeerOutcomes(peerQ[l], WordOf(toPeer[2])) : PeerSays(l, o)
                  ELSE UNCHANGED <<socket, peerQ>>
           /\ UNCHANGED <<owedOutput, strayOutput>>
  <2> DEFINE l == ServerMeans(toPeer[2], toPeer[3])
  <2>1. toPeer' \in Text
    BY <1>1, <1>5, PeerHasTypes
  <2>2. CASE l \notin Links
    <3>1. UNCHANGED <<socket, peerQ>>
      BY <1>5, <2>2
    <3>2. TypeOK'
      BY <1>1, <1>5, <2>1, <3>1 DEF TypeOK, Text, inVars, parserVars
    <3>3. Wire'
      BY <1>1, <3>1 DEF Wire, Cur, Rest, Pending, parserVars, inVars
    <3> QED
      BY <1>1, <3>1, <3>2, <3>3 DEF IInv
  <2>3. CASE l \in Links
    <3>1. PICK o \in N!PeerOutcomes(peerQ[l], WordOf(toPeer[2])) : PeerSays(l, o)
      BY <1>5, <2>3
    <3>2. peerQ[l] \in PeerStates /\ WordOf(toPeer[2]) \in {"yes", "no"}
      BY <1>1, <2>3 DEF WordOf
    <3>3. o.state \in PeerStates /\ o.said \in Said
      BY <3>1, <3>2, PeerTable
    <3> HIDE DEF l
    <3>4. /\ Wire' /\ socket' \in Text /\ peerQ' \in [Links -> PeerStates]
          /\ peerQ' \in [Links -> N!QStates]
      BY <1>1, <2>3, <3>1, <3>3, PeerSaysStep
    <3>5. TypeOK'
      BY <1>1, <1>5, <2>1, <3>4 DEF TypeOK, Text, inVars, parserVars
    <3> QED
      BY <3>4, <3>5 DEF IInv
  <2> QED
    BY <2>2, <2>3
<1> QED
  BY <1>3, <1>4, <1>5 DEF PeerReads

-----------------------------------------------------------------------------
\* What the constructor of clientItem asks for.
Greetings == {FromServer(l, "yes") : l \in Supported}

\* They are sent one by one, each of them once.
LEMMA GreetingsSeq ==
    /\ SetToSeq(Greetings) \in Seq(Greetings)
    /\ \A j, k \in 1..Len(SetToSeq(Greetings)) :
          SetToSeq(Greetings)[j] = SetToSeq(Greetings)[k] => j = k
    /\ \A x \in Greetings :
          \E k \in 1..Len(SetToSeq(Greetings)) : SetToSeq(Greetings)[k] = x
<1> DEFINE F == [l \in Supported |-> FromServer(l, "yes")]
           n == Cardinality(Greetings)
           seq == SetToSeq(Greetings)
<1>1. F \in Surjection(Supported, Greetings)
  <2>1. F \in [Supported -> Greetings] /\ \A x \in Greetings : \E l \in Supported : F[l] = x
    BY DEF Greetings
  <2> QED
    BY <2>1 DEF Surjection
<1>2. IsFiniteSet(Greetings)
  <2> HIDE DEF F
  <2> QED
    BY <1>1, FS_Surjection, SupportedAssumption
<1>3. n \in Nat /\ ExistsBijection(1..n, Greetings)
  BY <1>2, FS_CardinalityType
<1> HIDE DEF n
<1>4. \E f \in [1..n -> Greetings] : IsInjective(f)
  BY <1>3 DEF ExistsBijection, Bijection, Injection
<1>5. seq = CHOOSE f \in [1..n -> Greetings] : IsInjective(f)
  BY Zenon DEF SetToSeq, n
<1>6. seq \in [1..n -> Greetings] /\ IsInjective(seq)
  <2> HIDE DEF seq
  <2> QED
    BY <1>4, <1>5
<1> HIDE DEF seq
<1>7. seq \in Injection(1..n, Greetings)
  BY <1>6 DEF Injection
<1>8. seq \in Surjection(1..n, Greetings)
  <2>1. Cardinality(1..n) = n
    BY <1>3, FS_Interval
  <2> QED
    BY <1>2, <1>7, <2>1, FS_Injection DEF n
<1>9. seq \in Seq(Greetings) /\ Len(seq) = n
  BY <1>3, <1>6
<1>10. \A j, k \in 1..Len(seq) : seq[j] = seq[k] => j = k
  BY <1>6, <1>9 DEF IsInjective
<1>11. \A x \in Greetings : \E k \in 1..Len(seq) : seq[k] = x
  BY <1>8, <1>9 DEF Surjection
<1> QED
  BY <1>9, <1>10, <1>11 DEF seq

\* Together they are a text.
LEMMA GreetingsText ==
    /\ SetToSeq(Greetings) \in Seq(Text)
    /\ FlattenSeq(SetToSeq(Greetings)) \in Text
<1>1. Greetings \subseteq Text
  <2>1. \A l \in Supported : l \in Links
    BY SupportedAssumption DEF Links
  <2> QED
    BY <2>1, Commands DEF Greetings
<1>2. SetToSeq(Greetings) \in Seq(Text)
  BY <1>1, GreetingsSeq, SeqMonotonic
<1> QED
  BY <1>2, FlattenType

\* The invariant holds when the connection is made,
LEMMA InitIInv == Init => IInv
<1> SUFFICES ASSUME Init PROVE IInv
  OBVIOUS
<1>1. /\ readonly \in BOOLEAN
      /\ q = [l \in Links |-> N!Opening(l).state] /\ peerQ = [l \in Links |-> "NO"]
      /\ toPeer = FlattenSeq(SetToSeq(Greetings))
      /\ socket = <<>> /\ buffer = <<>> /\ i = 1 /\ start = 1
      /\ state = "DATA" /\ sbTelopt = "NONE" /\ bufferPos = 0
      /\ owedInput = <<>> /\ strayInput = <<>>
      /\ owedOutput = <<>> /\ strayOutput = <<>>
      /\ inputs = 0 /\ asks = 0 /\ outputs = 0
  BY DEF Init, Greetings
<1>2. \A l \in Links : N!Opening(l).state \in N!QStates
  BY DEF N!Opening, N!Requested, N!Outcome, N!QStates
<1>3. TypeOK
  <2>1. toPeer \in Text /\ <<>> \in Text /\ Len(<<>>) = 0
    BY <1>1, GreetingsText, TextEmpty
  <2>2. "NO" \in N!QStates
    BY DEF N!QStates
  <2>3. i \in 1..(Len(buffer) + 1) /\ start \in 1..(Len(buffer) + 2)
    BY <1>1
  <2>4. bufferPos \in 0..BufferMax /\ inputs \in 0..MaxInputs /\ asks \in 0..MaxAsks
        /\ outputs \in 0..MaxOutputs
    BY <1>1, BoundsAssumption
  <2>5. q \in [Links -> N!QStates] /\ peerQ \in [Links -> N!QStates]
    BY <1>1, <1>2, <2>2
  <2> QED
    BY <1>1, <2>1, <2>3, <2>4, <2>5 DEF TypeOK, Text
<1>4. Wire
  <2>1. Cur \in Parsers /\ Cur.state = "DATA"
    BY <1>1, <1>3, TypesOf DEF Cur
  <2>2. Rest = <<>> /\ Pending = <<>>
    <3>1. SubSeq(buffer, i, Len(buffer)) = <<>> /\ SubSeq(buffer, start, i - 1) = <<>>
      BY <1>1
    <3>2. <<>> \o <<>> = <<>>
      OBVIOUS
    <3> QED
      BY <1>1, <3>1, <3>2 DEF Rest, Pending
  <2>3. Decodes(Parsers, Cur, Rest, <<>>, Cur) /\ owedInput = Pending \o <<>>
    <3>1. Decodes(Parsers, Cur, <<>>, <<>>, Cur)
      BY <2>1, DecodesNothing
    <3>2. <<>> \o <<>> = <<>>
      OBVIOUS
    <3> QED
      BY <1>1, <2>2, <3>1, <3>2, Zenon
  <2>4. start <= i
    BY <1>1
  <2> QED
    BY <1>1, <2>1, <2>3, <2>4 DEF Wire
<1>5. peerQ \in [Links -> PeerStates]
  BY <1>1 DEF PeerStates
<1> QED
  BY <1>3, <1>4, <1>5 DEF IInv

\* and after every step.
LEMMA NextIInv ==
    ASSUME Inputs \subseteq Units
    PROVE  IInv /\ [Next]_vars => IInv'
<1> SUFFICES ASSUME IInv, [Next]_vars PROVE IInv'
  OBVIOUS
<1>1. CASE Read
  BY <1>1, ReadStep
<1>2. CASE ReadReadonly
  BY <1>2, ReadReadonlyStep
<1>3. CASE InData
  BY <1>3, InDataStep
<1>4. CASE InIac
  BY <1>4, InIacStep
<1>5. CASE InNegotiation
  BY <1>5, InNegotiationStep
<1>6. CASE InSb
  BY <1>6, InSbStep
<1>7. CASE InSbData
  BY <1>7, InSbDataStep
<1>8. CASE InSbDataIac
  BY <1>8, InSbDataIacStep
<1>9. CASE EndOfBuffer
  BY <1>9, EndOfBufferStep
<1>10. CASE SendOutput
  BY <1>10, SendOutputStep
<1>11. CASE PeerTypes
  BY <1>11, PeerTypesStep
<1>12. CASE PeerAsks
  BY <1>12, PeerAsksStep
<1>13. CASE PeerReads
  BY <1>13, PeerReadsStep
<1>14. CASE UNCHANGED vars
  <2>1. UNCHANGED <<readonly, socket, buffer, i, start, state, sbTelopt, bufferPos,
                    q, peerQ, asks, toPeer, owedInput, strayInput, inputs,
                    owedOutput, strayOutput, outputs>>
    BY <1>14 DEF vars, parserVars, clientVars, inVars, outVars
  <2> QED
    BY <2>1 DEF IInv, TypeOK, Wire, Cur, Rest, Pending
<1> QED
  BY <1>1, <1>2, <1>3, <1>4, <1>5, <1>6, <1>7, <1>8, <1>9, <1>10, <1>11, <1>12,
     <1>13, <1>14 DEF Next, Server, Process

\* The invariant holds in every reachable state.
THEOREM Inductive ==
    ASSUME Inputs \subseteq Units
    PROVE  Spec => []IInv
<1>1. Init => IInv
  BY InitIInv
<1>2. IInv /\ [Next]_vars => IInv'
  BY NextIInv
<1> QED
  BY <1>1, <1>2, PTL DEF Spec

\* The variables of a connection have their types, whatever is sent and for any
\* size of the buffer: the place in a subnegotiation never exceeds it.
THEOREM TypeCorrect ==
    ASSUME Inputs \subseteq Units
    PROVE  Spec => []TypeOK
<1>1. IInv => TypeOK
  BY DEF IInv
<1> QED
  BY <1>1, Inductive, PTL

\* However the client's bytes are cut into reads, processInput gets what was
\* typed, in order and nothing else.  Proved for clients that send the units
\* above, with texts, subnegotiations and buffers of any length; the run
\* telnet_mccp shows what becomes of it otherwise.
THEOREM InputCorrect ==
    ASSUME Inputs \subseteq Units
    PROVE  Spec => []InputIntact
<1>1. IInv => InputIntact
  <2> SUFFICES ASSUME IInv PROVE InputIntact
    OBVIOUS
  <2>1. TypeOK /\ Wire /\ strayInput = <<>>
    BY DEF IInv, Wire
  <2>2. ASSUME Idle PROVE owedInput = <<>>
    <3>1. socket = <<>> /\ buffer = <<>> /\ state = "DATA"
      BY <2>2 DEF Idle
    <3>2. i = 1 /\ start = 1
      BY <2>1, <3>1 DEF Wire
    <3>3. Rest = <<>> /\ Pending = <<>>
      <4>1. SubSeq(buffer, i, Len(buffer)) = <<>> /\ SubSeq(buffer, start, i - 1) = <<>>
        BY <3>1, <3>2
      <4>2. <<>> \o <<>> = <<>>
        OBVIOUS
      <4> QED
        BY <3>1, <4>1, <4>2 DEF Rest, Pending
    <3>4. PICK text, e : /\ e.state = "DATA" /\ Decodes(Parsers, Cur, Rest, text, e)
                         /\ owedInput = Pending \o text
      BY <2>1 DEF Wire
    <3>5. Decodes(Parsers, Cur, <<>>, text, e)
      BY <3>3, <3>4, Zenon
    <3>6. text = <<>>
      BY <3>5, DecodesNone
    <3>7. <<>> \o <<>> = <<>>
      OBVIOUS
    <3> QED
      BY <3>3, <3>4, <3>6, <3>7, Zenon
  <2> QED
    BY <2>1, <2>2 DEF InputIntact
<1> QED
  BY <1>1, Inductive, PTL

-----------------------------------------------------------------------------
\* A text from n on is its byte n and the text from n + 1 on.
LEMMA Behind ==
    ASSUME NEW text \in Text, NEW n \in 1..Len(text)
    PROVE  /\ text[n] \in Bytes
           /\ SubSeq(text, n + 1, Len(text)) \in Text
           /\ SubSeq(text, n, Len(text)) = <<text[n]>> \o SubSeq(text, n + 1, Len(text))
<1>1. /\ text \in Seq(Bytes) /\ Len(text) \in Nat /\ n \in Nat /\ n <= Len(text)
      /\ Len(text) \in n..Len(text)
  BY DEF Text
<1>2. \A k \in 1..Len(text) : text[k] \in Bytes
  BY <1>1, ElementOfSeq
<1>3. \A k \in (n + 1)..Len(text) : text[k] \in Bytes
  BY <1>1, <1>2
<1>4. SubSeq(text, n + 1, Len(text)) \in Text
  BY <1>1, <1>3, SubSeqProperties DEF Text
<1>5. SubSeq(text, n, Len(text)) = <<text[n]>> \o SubSeq(text, n + 1, Len(text))
  BY <1>1, SubSeqRecursiveFirst
<1> QED
  BY <1>2, <1>4, <1>5

\* The bytes that the client takes are the first of what it has.
LEMMA PeerTakes ==
    ASSUME TypeOK, NEW n \in 1..3, PeerHas(n)
    PROVE  /\ toPeer' \in Text /\ \A k \in 1..n : toPeer[k] \in Bytes
           /\ n = 1 => toPeer = <<toPeer[1]>> \o toPeer'
           /\ n = 2 => toPeer = <<toPeer[1]>> \o (<<toPeer[2]>> \o toPeer')
           /\ n = 3 => toPeer = <<toPeer[1]>> \o (<<toPeer[2]>> \o (<<toPeer[3]>> \o toPeer'))
<1> DEFINE Tl(k) == SubSeq(toPeer, k, Len(toPeer))
<1>1. toPeer \in Text /\ n \in Nat /\ n <= Len(toPeer) /\ Len(toPeer) \in Nat
  BY TypesOf DEF PeerHas, Text
<1>2. \A k \in 1..n : toPeer[k] \in Bytes /\ Tl(k) = <<toPeer[k]>> \o Tl(k + 1)
                      /\ Tl(k + 1) \in Text
  <2>1. \A k \in 1..n : k \in 1..Len(toPeer)
    BY <1>1
  <2> QED
    BY <1>1, <2>1, Behind
<1>3. toPeer' = Tl(n + 1)
  BY DEF PeerHas
<1>4. Tl(1) = toPeer
  BY <1>1, SubSeqFull DEF Text
<1>5. 1 + 1 = 2 /\ 2 + 1 = 3 /\ 3 + 1 = 4
  OBVIOUS
<1> HIDE DEF Tl
<1>6. n = 1 => toPeer = <<toPeer[1]>> \o toPeer'
  <2>1. n = 1 => 1 \in 1..n
    OBVIOUS
  <2> QED
    BY <1>2, <1>3, <1>4, <1>5, <2>1
<1>7. n = 2 => toPeer = <<toPeer[1]>> \o (<<toPeer[2]>> \o toPeer')
  <2>1. n = 2 => 1 \in 1..n /\ 2 \in 1..n
    OBVIOUS
  <2>2. n = 2 => /\ Tl(1) = <<toPeer[1]>> \o Tl(2)
                 /\ Tl(2) = <<toPeer[2]>> \o Tl(3) /\ toPeer' = Tl(3)
    BY <1>2, <1>3, <1>5, <2>1
  <2> QED
    BY <1>4, <2>2, Zenon
<1>8. n = 3 => toPeer = <<toPeer[1]>> \o (<<toPeer[2]>> \o (<<toPeer[3]>> \o toPeer'))
  <2>1. n = 3 => 1 \in 1..n /\ 2 \in 1..n /\ 3 \in 1..n
    OBVIOUS
  <2>2. n = 3 => /\ Tl(1) = <<toPeer[1]>> \o Tl(2)
                 /\ Tl(2) = <<toPeer[2]>> \o Tl(3)
                 /\ Tl(3) = <<toPeer[3]>> \o Tl(4) /\ toPeer' = Tl(4)
    BY <1>2, <1>3, <1>5, <2>1
  <2> QED
    BY <1>4, <2>2, Zenon
<1>9. toPeer' \in Text /\ \A k \in 1..n : toPeer[k] \in Bytes
  <2>1. n \in 1..n
    BY <1>1
  <2> QED
    BY <1>2, <1>3, <2>1
<1> QED
  BY <1>6, <1>7, <1>8, <1>9

\* What the client has to read decodes to what it is owed.
OutInv ==
    /\ strayOutput = <<>>
    /\ \E d, e : /\ d.state = "DATA" /\ e.state = "DATA"
                 /\ Decodes(Plain, d, toPeer, owedOutput, e)

\* More is owed when the server sends what decodes to it.
LEMMA OutGrows ==
    ASSUME OutInv, NEW more, NEW rest, Whole(Plain, more, rest),
           toPeer' = toPeer \o more, owedOutput' = owedOutput \o rest,
           strayOutput' = strayOutput
    PROVE  OutInv'
<1>1. PICK d, e : /\ d.state = "DATA" /\ e.state = "DATA"
                  /\ Decodes(Plain, d, toPeer, owedOutput, e)
  BY DEF OutInv
<1>2. e \in Plain
  BY <1>1, DecodesType
<1>3. PICK f : f.state = "DATA" /\ Decodes(Plain, e, more, rest, f)
  BY <1>1, <1>2 DEF Whole
<1>4. Decodes(Plain, d, toPeer \o more, owedOutput \o rest, f)
  BY <1>1, <1>3, DecodesConcat
<1>5. Decodes(Plain, d, toPeer', owedOutput', f)
  BY <1>4, Zenon
<1> QED
  BY <1>1, <1>3, <1>5 DEF OutInv

\* What is left of plain bytes behind IAC and the byte b.
BehindIac(b, r, text, e) ==
    \E f, u : /\ f.state = IF b \in Negotiations THEN b ELSE "DATA"
              /\ u \in Text /\ text = (IF b = "IAC" THEN <<"IAC">> ELSE <<>>) \o u
              /\ Decodes(Plain, f, r, u, e)

\* What the client's reader does with a byte.
LEMMA PlainDecodes ==
    ASSUME NEW d, NEW b \in Bytes, NEW r \in Text, NEW text, NEW e,
           Decodes(Plain, d, <<b>> \o r, text, e)
    PROVE  /\ d.state = "DATA" /\ b # "IAC" =>
                \E f, u : /\ f.state = "DATA" /\ u \in Text /\ text = <<b>> \o u
                          /\ Decodes(Plain, f, r, u, e)
           /\ d.state = "DATA" /\ b = "IAC" =>
                \E f : f.state = "IAC" /\ Decodes(Plain, f, r, text, e)
           /\ d.state = "IAC" => BehindIac(b, r, text, e)
           /\ d.state \in Negotiations =>
                /\ b \in Options
                /\ \E f : f.state = "DATA" /\ Decodes(Plain, f, r, text, e)
<1>1. DecodesOn(Plain, d, b, r, text, e)
  BY DecodesFirst
<1> DEFINE f == Fed(d, b)
<1>2. PICK u \in Text : Decodes(Plain, f, r, u, e) /\ text = Heard(d, b) \o u
  BY <1>1 DEF DecodesOn
<1>3. Regular(d, b) /\ f \in Plain /\ d \in Plain
  BY <1>1, DecodesType DEF DecodesOn
<1>4. d \in [state : Places, option : Bytes \cup {"NONE"}, pos : 0..BufferMax]
  BY <1>3 DEF Plain, Parsers
<1>5. <<>> \o u = u
  BY <1>2, TextEmpty
<1>6. ASSUME d.state = "DATA", b # "IAC" PROVE f.state = "DATA" /\ text = <<b>> \o u
  <2>1. f = [d EXCEPT !.state = "DATA"] /\ Heard(d, b) = <<b>>
    BY <1>6, FedTable
  <2>2. text = <<b>> \o u
    BY <1>2, <2>1, Zenon
  <2> QED
    BY <1>4, <2>1, <2>2
<1>7. ASSUME d.state = "DATA", b = "IAC" PROVE f.state = "IAC" /\ text = u
  <2>1. f = [d EXCEPT !.state = "IAC"] /\ Heard(d, b) = <<>>
    BY <1>7, FedTable
  <2>2. text = u
    BY <1>2, <1>5, <2>1, Zenon
  <2> QED
    BY <1>4, <2>1, <2>2
<1>8. ASSUME d.state = "IAC"
      PROVE  /\ f.state = IF b \in Negotiations THEN b ELSE "DATA"
             /\ text = (IF b = "IAC" THEN <<"IAC">> ELSE <<>>) \o u
  <2>1. f = [d EXCEPT !.state = AfterIac(b)] /\ Heard(d, b) = IF b = "IAC" THEN <<"IAC">> ELSE <<>>
    BY <1>8, FedTable
  <2>2. f.state = AfterIac(b) /\ f.state \in {"DATA", "IAC"} \cup Negotiations
    BY <1>3, <1>4, <2>1 DEF Plain
  <2> HIDE DEF f
  <2>3. text = (IF b = "IAC" THEN <<"IAC">> ELSE <<>>) \o u
    BY <1>2, <2>1, Zenon
  <2>4. b = "SB" => AfterIac(b) = "SB"
    BY DEF AfterIac
  <2>5. b # "SB"
    BY <2>2, <2>4 DEF Negotiations
  <2> QED
    BY <2>2, <2>3, <2>5 DEF AfterIac
<1>9. ASSUME d.state \in Negotiations PROVE b \in Options /\ f.state = "DATA" /\ text = u
  <2>1. f = [d EXCEPT !.state = "DATA"] /\ Heard(d, b) = <<>>
    BY <1>9, FedTable
  <2>2. text = u
    BY <1>2, <1>5, <2>1, Zenon
  <2> QED
    BY <1>3, <1>4, <1>9, <2>1, <2>2 DEF Regular
<1> HIDE DEF f
<1>10. d.state = "IAC" => BehindIac(b, r, text, e)
  BY <1>2, <1>8 DEF BehindIac
<1> QED
  BY <1>2, <1>6, <1>7, <1>9, <1>10

\* The client reads what it is owed, or a command in between.
LEMMA PeerReadsOut == ASSUME IInv, OutInv, PeerReads PROVE OutInv'
<1>1. TypeOK /\ strayOutput = <<>>
  BY DEF IInv, OutInv
<1>2. PICK d, e : /\ d.state = "DATA" /\ e.state = "DATA"
                  /\ Decodes(Plain, d, toPeer, owedOutput, e)
  BY DEF OutInv
<1>3. CASE PeerHas(1) /\ toPeer[1] # "IAC" /\ PeerSees(<<toPeer[1]>>)
  <2> DEFINE b == toPeer[1]
  <2>1. toPeer' \in Text /\ b \in Bytes /\ toPeer = <<b>> \o toPeer' /\ PeerSees(<<b>>)
    <3>1. 1 \in 1..3 /\ 1 \in 1..1
      OBVIOUS
    <3> QED
      BY <1>1, <1>3, <3>1, PeerTakes
  <2>2. b # "IAC"
    BY <1>3
  <2> HIDE DEF b
  <2>3. Decodes(Plain, d, <<b>> \o toPeer', owedOutput, e)
    BY <1>2, <2>1, Zenon
  <2>4. PICK f, u : /\ f.state = "DATA" /\ u \in Text /\ owedOutput = <<b>> \o u
                    /\ Decodes(Plain, f, toPeer', u, e)
    BY <1>2, <2>1, <2>2, <2>3, PlainDecodes
  <2>5. <<b>> \in Text
    BY <2>1 DEF Text
  <2>6. owedOutput' = u /\ strayOutput' = strayOutput
    BY <2>1, <2>4, <2>5, Sees
  <2>7. Decodes(Plain, f, toPeer', owedOutput', e)
    BY <2>4, <2>6, Zenon
  <2> QED
    BY <1>1, <1>2, <2>4, <2>6, <2>7 DEF OutInv
<1>4. CASE /\ PeerHas(2) /\ toPeer[1] = "IAC" /\ toPeer[2] \notin Negotiations
           /\ PeerSees(IF toPeer[2] = "IAC" THEN <<"IAC">> ELSE <<>>)
  <2> DEFINE a == toPeer[1]
             b == toPeer[2]
             r == <<b>> \o toPeer'
             seen == IF b = "IAC" THEN <<"IAC">> ELSE <<>>
  <2>1. toPeer' \in Text /\ a \in Bytes /\ b \in Bytes /\ toPeer = <<a>> \o r
    <3>1. 2 \in 1..3 /\ 1 \in 1..2 /\ 2 \in 1..2
      OBVIOUS
    <3> QED
      BY <1>1, <1>4, <3>1, PeerTakes
  <2>2. a = "IAC" /\ b \notin Negotiations /\ PeerSees(seen)
    BY <1>4
  <2>3. r \in Text
    BY <2>1, FirstByte
  <2>4. seen \in Text
    BY BytesAssumption DEF Text
  <2> HIDE DEF a, b, r, seen
  <2>5. Decodes(Plain, d, <<a>> \o r, owedOutput, e)
    BY <1>2, <2>1, Zenon
  <2>6. PICK f : f.state = "IAC" /\ Decodes(Plain, f, r, owedOutput, e)
    BY <1>2, <2>1, <2>2, <2>3, <2>5, PlainDecodes
  <2>7. Decodes(Plain, f, <<b>> \o toPeer', owedOutput, e)
    BY <2>6, Zenon DEF r
  <2>8. PICK g, u : /\ g.state = IF b \in Negotiations THEN b ELSE "DATA"
                    /\ u \in Text
                    /\ owedOutput = (IF b = "IAC" THEN <<"IAC">> ELSE <<>>) \o u
                    /\ Decodes(Plain, g, toPeer', u, e)
    <3>1. BehindIac(b, toPeer', owedOutput, e)
      BY <2>1, <2>6, <2>7, PlainDecodes
    <3> QED
      BY <3>1 DEF BehindIac
  <2>9. owedOutput = seen \o u
    BY <2>8, Zenon DEF seen
  <2>10. owedOutput' = u /\ strayOutput' = strayOutput
    BY <2>2, <2>4, <2>8, <2>9, Sees
  <2>11. Decodes(Plain, g, toPeer', owedOutput', e)
    BY <2>8, <2>10, Zenon
  <2> QED
    BY <1>1, <1>2, <2>2, <2>8, <2>10, <2>11 DEF OutInv
<1>5. CASE /\ PeerHas(3) /\ toPeer[1] = "IAC" /\ toPeer[2] \in Negotiations
           /\ UNCHANGED <<owedOutput, strayOutput>>
  <2> DEFINE a == toPeer[1]
             b == toPeer[2]
             c == toPeer[3]
             s == <<c>> \o toPeer'
             r == <<b>> \o s
  <2>1. /\ toPeer' \in Text /\ a \in Bytes /\ b \in Bytes /\ c \in Bytes
        /\ toPeer = <<a>> \o r
    <3>1. 3 \in 1..3 /\ 1 \in 1..3 /\ 2 \in 1..3
      OBVIOUS
    <3> QED
      BY <1>1, <1>5, <3>1, PeerTakes
  <2>2. a = "IAC" /\ b \in Negotiations
    BY <1>5
  <2>3. s \in Text
    BY <2>1, FirstByte
  <2> HIDE DEF a, b, c, s
  <2>4. r \in Text
    BY <2>1, <2>3, FirstByte
  <2> HIDE DEF r
  <2>5. Decodes(Plain, d, <<a>> \o r, owedOutput, e)
    BY <1>2, <2>1, Zenon
  <2>6. PICK f : f.state = "IAC" /\ Decodes(Plain, f, r, owedOutput, e)
    BY <1>2, <2>1, <2>2, <2>4, <2>5, PlainDecodes
  <2>7. Decodes(Plain, f, <<b>> \o s, owedOutput, e)
    BY <2>6, Zenon DEF r
  <2>8. PICK g, u : /\ g.state = IF b \in Negotiations THEN b ELSE "DATA"
                    /\ u \in Text
                    /\ owedOutput = (IF b = "IAC" THEN <<"IAC">> ELSE <<>>) \o u
                    /\ Decodes(Plain, g, s, u, e)
    <3>1. BehindIac(b, s, owedOutput, e)
      BY <2>1, <2>3, <2>6, <2>7, PlainDecodes
    <3> QED
      BY <3>1 DEF BehindIac
  <2>9. b # "IAC"
    BY <2>2 DEF Negotiations
  <2>10. owedOutput = u
    <3>1. <<>> \o u = u
      BY <2>8, TextEmpty
    <3>2. owedOutput = <<>> \o u
      BY <2>8, <2>9, Zenon
    <3> QED
      BY <3>1, <3>2, Zenon
  <2>11. Decodes(Plain, g, <<c>> \o toPeer', owedOutput, e) /\ g.state \in Negotiations
    <3>1. Decodes(Plain, g, <<c>> \o toPeer', owedOutput, e)
      BY <2>8, <2>10, Zenon DEF s
    <3> QED
      BY <2>2, <2>8, <3>1
  <2>12. PICK h : h.state = "DATA" /\ Decodes(Plain, h, toPeer', owedOutput, e)
    BY <2>1, <2>11, PlainDecodes
  <2>13. owedOutput' = owedOutput /\ strayOutput' = strayOutput
    BY <1>5
  <2>14. Decodes(Plain, h, toPeer', owedOutput', e)
    BY <2>12, <2>13, Zenon
  <2> QED
    BY <1>1, <1>2, <2>12, <2>13, <2>14 DEF OutInv
<1> QED
  BY <1>3, <1>4, <1>5 DEF PeerReads

\* Other steps have nothing to do with it.
LEMMA OutSame ==
    ASSUME OutInv, UNCHANGED <<toPeer, owedOutput, strayOutput>>
    PROVE  OutInv'
BY DEF OutInv

\* An answer of the server is no text.
LEMMA InNegotiationOut ==
    ASSUME CutWrites = FALSE, IInv, OutInv, InNegotiation
    PROVE  OutInv'
<1>1. TypeOK /\ i <= Len(buffer) /\ state \in Negotiations /\ UNCHANGED outVars
  BY DEF IInv, InNegotiation, Take
<1>2. buffer[i] \in Options
  <2>1. Regular(Cur, buffer[i]) /\ Cur.state = state
    BY <1>1, NextByte
  <2> QED
    BY <1>1, <2>1 DEF Regular
<1> DEFINE l == ClientMeans(state, buffer[i])
           o == N!Negotiated(l, q[l], WordOf(state))
           said == o.said
           pieces == [k \in DOMAIN said |-> FromServer(l, said[k])]
           more == FlattenSeq(pieces)
<1>3. l \in Links
  BY <1>2 DEF ClientMeans, Links
<1>4. Write(pieces)
  BY DEF InNegotiation
<1>5. said \in Said
  <2>1. q[l] \in N!QStates
    BY <1>1, <1>3 DEF TypeOK
  <2> QED
    BY <2>1, NegotiatedTable
<1>6. toPeer' = toPeer \o more
  <2> HIDE DEF pieces
  <2> QED
    BY <1>4 DEF Write, Written
<1>7. Whole(Plain, more, <<>>)
  <2> HIDE DEF l, said
  <2> QED
    BY <1>3, <1>5, SpokenWhole
<1> HIDE DEF more
<1>8. owedOutput' = owedOutput \o <<>> /\ strayOutput' = strayOutput
  BY <1>1, TypesOf, TextEmpty DEF outVars
<1> QED
  BY <1>6, <1>7, <1>8, OutGrows

\* A byte, as telnet_send writes it.
LEMMA EscapeShort ==
    ASSUME NEW b \in Bytes
    PROVE  Escape(<<b>>) = Doubled(b) /\ Escape(<<b>>) \in Text
<1> DEFINE s == <<b>>
           one == [k \in DOMAIN s |-> IF s[k] = "IAC" THEN <<"IAC", "IAC">> ELSE <<s[k]>>]
           x == Doubled(b)
<1>1. x \in Text
  BY DoubledText
<1>2. one = <<x>>
  <2>1. DOMAIN s = 1..1 /\ s[1] = b
    OBVIOUS
  <2>2. one = [k \in 1..1 |-> x]
    BY <2>1 DEF Doubled
  <2> HIDE DEF x
  <2>3. [k \in 1..1 |-> x] = <<x>>
    OBVIOUS
  <2> QED
    BY <2>2, <2>3
<1>3. Escape(s) = FlattenSeq(one)
  BY Zenon DEF Escape
<1> HIDE DEF one, x, s
<1>4. Escape(s) = x
  BY <1>1, <1>2, <1>3, FlattenShort
<1> QED
  BY <1>1, <1>4 DEF s, x

\* telnet_send hands over byte by byte what is a text as a whole.
LEMMA EscapePieces ==
    ASSUME NEW text \in Text
    PROVE  FlattenSeq([k \in DOMAIN text |-> Escape(<<text[k]>>)]) = Escape(text)
<1> DEFINE one == [k \in DOMAIN text |-> Escape(<<text[k]>>)]
           two == [k \in DOMAIN text |->
                      IF text[k] = "IAC" THEN <<"IAC", "IAC">> ELSE <<text[k]>>]
<1>1. \A k \in DOMAIN text : Escape(<<text[k]>>) = Doubled(text[k])
  <2>1. text \in Seq(Bytes) /\ DOMAIN text = 1..Len(text)
    BY DEF Text
  <2>2. \A k \in DOMAIN text : text[k] \in Bytes
    BY <2>1, ElementOfSeq
  <2> QED
    BY <2>2, EscapeShort
<1>2. one = two
  BY <1>1 DEF Doubled
<1>3. Escape(text) = FlattenSeq(two)
  BY Zenon DEF Escape
<1> HIDE DEF two
<1> QED
  BY <1>2, <1>3, Zenon

\* That is the text for the client, at any time.
LEMMA EscapeWhole ==
    ASSUME NEW text \in Text
    PROVE  Whole(Plain, Escape(text), text)
<1>1. ASSUME NEW d \in Plain, d.state = "DATA"
      PROVE  Decodes(Plain, d, Escape(text), text, d)
  <2>1. d \in Parsers /\ [d EXCEPT !.state = "IAC"] \in Plain
    BY <1>1 DEF Plain, Parsers, Places
  <2> QED
    BY <1>1, <2>1, EscapeDecodes
<1> QED
  BY <1>1 DEF Whole

\* Output is owed to the client, and on its way.
LEMMA SendOutputOut ==
    ASSUME CutWrites = FALSE, OutInv, SendOutput
    PROVE  OutInv'
<1>1. PICK text \in Outputs : /\ Write([k \in DOMAIN text |-> Escape(<<text[k]>>)])
                              /\ owedOutput' = owedOutput \o text
  BY DEF SendOutput
<1>2. text \in Text
  BY BytesAssumption DEF Text
<1> DEFINE pieces == [k \in DOMAIN text |-> Escape(<<text[k]>>)]
<1>3. Write(pieces) /\ FlattenSeq(pieces) = Escape(text)
  BY <1>1, <1>2, EscapePieces
<1> HIDE DEF pieces
<1>4. toPeer' = toPeer \o Escape(text)
  BY <1>3 DEF Write, Written
<1>5. strayOutput' = strayOutput
  BY DEF SendOutput
<1> QED
  BY <1>1, <1>2, <1>4, <1>5, EscapeWhole, OutGrows

\* Two texts that may come at any time may come one after the other,
LEMMA WholeConcat ==
    ASSUME NEW D, NEW a, NEW x, NEW b, NEW y, Whole(D, a, x), Whole(D, b, y)
    PROVE  Whole(D, a \o b, x \o y)
<1> SUFFICES ASSUME NEW d \in D, d.state = "DATA"
             PROVE  \E f : f.state = "DATA" /\ Decodes(D, d, a \o b, x \o y, f)
  BY DEF Whole
<1>1. PICK e : e.state = "DATA" /\ Decodes(D, d, a, x, e)
  BY DEF Whole
<1>2. e \in D
  BY <1>1, DecodesType
<1>3. PICK f : f.state = "DATA" /\ Decodes(D, e, b, y, f)
  BY <1>1, <1>2 DEF Whole
<1>4. Decodes(D, d, a \o b, x \o y, f)
  BY <1>1, <1>3, DecodesConcat
<1> QED
  BY <1>3, <1>4

\* and so may many commands.
LEMMA FlattenWhole ==
    ASSUME NEW D, NEW seqs \in Seq(Text), \A k \in 1..Len(seqs) : Whole(D, seqs[k], <<>>)
    PROVE  Whole(D, FlattenSeq(seqs), <<>>)
<1> DEFINE n == Len(seqs)
<1>1. n \in Nat
  OBVIOUS
<1>2. PICK g : Flattens(seqs, g)
  BY FlattenSteps
<1> DEFINE T == {k \in Nat : k <= n => Whole(D, g[k], <<>>)}
<1>3. 0 \in T
  <2>1. g[0] = <<>>
    BY <1>2 DEF Flattens
  <2>2. \A d \in D : Decodes(D, d, <<>>, <<>>, d)
    BY DecodesNothing
  <2>3. Whole(D, <<>>, <<>>)
    BY <2>2 DEF Whole
  <2>4. Whole(D, g[0], <<>>)
    BY <2>1, <2>3, Zenon
  <2> QED
    BY <2>4
<1>4. ASSUME NEW k \in Nat, k \in T PROVE k + 1 \in T
  <2>1. SUFFICES ASSUME k + 1 <= n PROVE Whole(D, g[k + 1], <<>>)
    OBVIOUS
  <2>2. k + 1 \in 1..n /\ (k + 1) - 1 = k
    BY <1>1, <2>1
  <2> DEFINE a == g[k]  b == seqs[k + 1]
  <2>3. g[k + 1] = a \o b
    BY <1>2, <2>2 DEF Flattens
  <2>4. Whole(D, a, <<>>) /\ Whole(D, b, <<>>)
    BY <1>1, <1>4, <2>1, <2>2
  <2> HIDE DEF a, b
  <2>5. Whole(D, a \o b, <<>> \o <<>>)
    BY <2>4, WholeConcat
  <2>6. <<>> \o <<>> = <<>>
    OBVIOUS
  <2> QED
    BY <2>3, <2>5, <2>6, Zenon
<1> HIDE DEF T, n
<1>5. \A k \in Nat : k \in T
  BY <1>3, <1>4, SetInduction
<1>6. Whole(D, g[n], <<>>)
  BY <1>1, <1>5 DEF T
<1>7. FlattenSeq(seqs) = g[n]
  BY <1>2 DEF Flattens, n
<1> QED
  BY <1>6, <1>7, Zenon

\* The greetings are no text.
LEMMA InitOut == Init => OutInv
<1> SUFFICES ASSUME Init PROVE OutInv
  OBVIOUS
<1> DEFINE seqs == SetToSeq(Greetings)
<1>1. toPeer = FlattenSeq(seqs) /\ owedOutput = <<>> /\ strayOutput = <<>>
  BY DEF Init, Greetings
<1>2. seqs \in Seq(Text)
  BY GreetingsText
<1>3. seqs \in Seq(Greetings)
  BY GreetingsSeq
<1> HIDE DEF seqs
<1>4. \A k \in 1..Len(seqs) : Whole(Plain, seqs[k], <<>>)
  <2> SUFFICES ASSUME NEW k \in 1..Len(seqs) PROVE Whole(Plain, seqs[k], <<>>)
    OBVIOUS
  <2>1. seqs[k] \in Greetings
    BY <1>3, ElementOfSeq
  <2>2. PICK l \in Supported : seqs[k] = FromServer(l, "yes")
    BY <2>1 DEF Greetings
  <2>3. l \in Links
    BY SupportedAssumption DEF Links
  <2>4. PICK c \in Negotiations : FromServer(l, "yes") = <<"IAC", c, l[2]>>
    BY <2>3, Commands
  <2>5. l[2] \in Options
    BY <2>3, Commands
  <2>6. \A d \in Plain : d.state = "DATA" => Decodes(Plain, d, <<"IAC", c, l[2]>>, <<>>, d)
    BY <2>5, CommandDecodes
  <2>7. \A d \in Plain : d.state = "DATA" => Decodes(Plain, d, seqs[k], <<>>, d)
    BY <2>2, <2>4, <2>6, Zenon
  <2> QED
    BY <2>7 DEF Whole
<1>5. Whole(Plain, toPeer, <<>>)
  BY <1>1, <1>2, <1>4, FlattenWhole
<1> DEFINE d == [state |-> "DATA", option |-> "NONE", pos |-> 0]
<1>6. d \in Plain /\ d.state = "DATA"
  BY BoundsAssumption DEF Plain, Parsers, Places
<1>7. PICK e : e.state = "DATA" /\ Decodes(Plain, d, toPeer, <<>>, e)
  BY <1>5, <1>6 DEF Whole
<1> HIDE DEF d
<1>8. Decodes(Plain, d, toPeer, owedOutput, e)
  BY <1>1, <1>7, Zenon
<1> QED
  BY <1>1, <1>6, <1>7, <1>8 DEF OutInv

\* No step loses or adds output, if no write times out.
LEMMA NextOut ==
    ASSUME CutWrites = FALSE
    PROVE  IInv /\ OutInv /\ [Next]_vars => OutInv'
<1> SUFFICES ASSUME IInv, OutInv, [Next]_vars PROVE OutInv'
  OBVIOUS
<1>1. CASE InNegotiation
  BY <1>1, InNegotiationOut
<1>2. CASE SendOutput
  BY <1>2, SendOutputOut
<1>3. CASE PeerReads
  BY <1>3, PeerReadsOut
<1>4. ASSUME \/ Read \/ ReadReadonly \/ InData \/ InIac \/ InSb \/ InSbData \/ InSbDataIac
             \/ EndOfBuffer \/ PeerTypes \/ PeerAsks \/ UNCHANGED vars
      PROVE  OutInv'
  <2>1. UNCHANGED <<toPeer, owedOutput, strayOutput>>
    BY <1>4 DEF Read, ReadReadonly, InData, InIac, InSb, InSbData, InSbDataIac,
                EndOfBuffer, PeerTypes, PeerAsks, Take, vars, outVars
  <2> QED
    BY <2>1, OutSame
<1> QED
  BY <1>1, <1>2, <1>3, <1>4 DEF Next, Server, Process

\* The client sees the text that was sent to it, of any length, also where it
\* holds the byte IAC and where answers come in between.  (That no write is cut
\* off is necessary: see the run telnet_cut.)
THEOREM OutputCorrect ==
    ASSUME CutWrites = FALSE, Inputs \subseteq Units
    PROVE  Spec => []OutputIntact
<1>1. Init => IInv /\ OutInv
  BY InitIInv, InitOut
<1>2. (IInv /\ OutInv) /\ [Next]_vars => (IInv /\ OutInv)'
  BY NextIInv, NextOut
<1>3. IInv /\ OutInv => OutputIntact
  <2> SUFFICES ASSUME OutInv PROVE OutputIntact
    OBVIOUS
  <2>1. PICK d, e : Decodes(Plain, d, toPeer, owedOutput, e)
    BY DEF OutInv
  <2>2. ASSUME toPeer = <<>> PROVE owedOutput = <<>>
    <3>1. Decodes(Plain, d, <<>>, owedOutput, e)
      BY <2>1, <2>2, Zenon
    <3> QED
      BY <3>1, DecodesNone
  <2> QED
    BY <2>2 DEF OutInv, OutputIntact
<1> QED
  BY <1>1, <1>2, <1>3, PTL DEF Spec

-----------------------------------------------------------------------------

\* The words of TelnetNegotiate.
Word == {"yes", "no"}

\* At k the speaker says a word about the link l.
Says(l, bytes, s, k) == IsCommand(bytes, k) /\ Means(s, bytes[k], bytes[k + 1]) = l

\* The loop in WordsAbout: what the byte k adds to the words before it.
Grown(l, bytes, s, k, before) ==
    IF Says(l, bytes, s, k) THEN Append(before, WordOf(bytes[k])) ELSE before

\* The recursive function in WordsAbout, defined up to n.
Counted(l, bytes, s, n, w) ==
    w = [k \in 0..n |-> IF k = 0 THEN <<>> ELSE Grown(l, bytes, s, k, w[k - 1])]

\* There is such a function for every n: what WordsAbout chooses exists.
LEMMA CountedExists ==
    ASSUME NEW l, NEW bytes, NEW s
    PROVE  \A n \in Nat : \E w : Counted(l, bytes, s, n, w)
<1> DEFINE T == {n \in Nat : \E w : Counted(l, bytes, s, n, w)}
<1>1. 0 \in T
  <2> DEFINE w == [k \in 0..0 |-> <<>>]
             E(k) == IF k = 0 THEN <<>> ELSE Grown(l, bytes, s, k, w[k - 1])
  <2>1. \A k \in 0..0 : E(k) = <<>>
    OBVIOUS
  <2>2. w = [k \in 0..0 |-> E(k)]
    BY <2>1
  <2>3. Counted(l, bytes, s, 0, w)
    BY <2>2, Zenon DEF Counted
  <2> QED
    BY <2>3
<1>2. ASSUME NEW n \in Nat, n \in T PROVE n + 1 \in T
  <2>1. PICK g : Counted(l, bytes, s, n, g)
    BY <1>2
  <2> DEFINE h == [k \in 0..(n + 1) |-> IF k = n + 1 THEN Grown(l, bytes, s, k, g[n]) ELSE g[k]]
             E(k) == IF k = 0 THEN <<>> ELSE Grown(l, bytes, s, k, h[k - 1])
  <2>2. ASSUME NEW k \in 0..(n + 1) PROVE h[k] = E(k)
    <3>1. CASE k = n + 1
      <4>1. k # 0 /\ k - 1 = n /\ n \in 0..(n + 1) /\ n # n + 1
        BY <3>1
      <4>2. h[k - 1] = g[n] /\ h[k] = Grown(l, bytes, s, k, g[n])
        BY <3>1, <4>1
      <4> HIDE DEF h
      <4> QED
        BY <4>1, <4>2, Zenon
    <3>2. CASE k = 0
      <4>1. h[k] = g[0] /\ 0 \in 0..n
        BY <3>2
      <4>2. g[0] = <<>>
        BY <2>1, <4>1, Zenon DEF Counted
      <4> HIDE DEF h
      <4> QED
        BY <3>2, <4>1, <4>2, Zenon
    <3>3. CASE k # n + 1 /\ k # 0
      <4>1. k \in 0..n /\ k # n + 1 /\ k - 1 \in 0..(n + 1) /\ k - 1 # n + 1
        BY <3>3
      <4>2. h[k] = g[k] /\ h[k - 1] = g[k - 1]
        BY <4>1
      <4>3. g[k] = IF k = 0 THEN <<>> ELSE Grown(l, bytes, s, k, g[k - 1])
        BY <2>1, <4>1, Zenon DEF Counted
      <4> HIDE DEF h
      <4> QED
        BY <4>2, <4>3, Zenon
    <3> QED
      BY <3>1, <3>2, <3>3
  <2>3. h = [k \in 0..(n + 1) |-> E(k)]
    BY <2>2
  <2>4. Counted(l, bytes, s, n + 1, h)
    BY <2>3, Zenon DEF Counted
  <2> QED
    BY <2>4
<1> HIDE DEF T
<1>3. \A n \in Nat : n \in T
  BY <1>1, <1>2, SetInduction
<1> QED
  BY <1>3 DEF T

\* That function, step by step.
Counts(l, bytes, s, w) ==
    /\ w[0] = <<>>
    /\ \A k \in 1..Len(bytes) : w[k] = Grown(l, bytes, s, k, w[k - 1])
    /\ \A k \in 0..Len(bytes) : w[k] \in Seq(Word)
    /\ WordsAbout(l, bytes, s) = w[Len(bytes)]

\* A command says a word.
LEMMA WordOfType == ASSUME NEW c PROVE WordOf(c) \in Word
BY DEF WordOf, Word

\* WordsAbout is computed by such steps.
LEMMA WordsSteps ==
    ASSUME NEW l, NEW bytes \in Text, NEW s
    PROVE  \E w : Counts(l, bytes, s, w)
<1> DEFINE n == Len(bytes)
           P(f) == f = [k \in 0..Len(bytes) |->
                          IF k = 0 THEN <<>>
                          ELSE IF /\ IsCommand(bytes, k)
                                  /\ Means(s, bytes[k], bytes[k + 1]) = l
                          THEN Append(f[k - 1], WordOf(bytes[k]))
                          ELSE f[k - 1]]
           w == CHOOSE f : P(f)
<1>0. n \in Nat
  BY DEF Text
<1>1. \E f : P(f)
  <2>1. PICK f : Counted(l, bytes, s, n, f)
    BY <1>0, CountedExists
  <2> DEFINE E(k) == IF k = 0 THEN <<>> ELSE Grown(l, bytes, s, k, f[k - 1])
             G(k) == IF k = 0 THEN <<>>
                     ELSE IF /\ IsCommand(bytes, k)
                             /\ Means(s, bytes[k], bytes[k + 1]) = l
                     THEN Append(f[k - 1], WordOf(bytes[k]))
                     ELSE f[k - 1]
  <2>2. f = [k \in 0..n |-> E(k)]
    BY <2>1, Zenon DEF Counted
  <2>3. \A k \in 0..n : E(k) = G(k)
    BY DEF Grown, Says
  <2> HIDE DEF E, G
  <2>4. f = [k \in 0..n |-> G(k)]
    BY <2>2, <2>3
  <2>5. P(f)
    BY <2>4, Zenon DEF G
  <2> QED
    BY <2>5, Zenon
<1>2. P(w)
  BY <1>1, Zenon
<1>3. WordsAbout(l, bytes, s) = w[n]
  BY Zenon DEF WordsAbout
<1> HIDE DEF w
<1>4. w[0] = <<>>
  <2>1. 0 \in 0..Len(bytes)
    BY <1>0
  <2> QED
    BY <1>2, <2>1, Zenon
<1>5. ASSUME NEW k \in 1..n PROVE w[k] = Grown(l, bytes, s, k, w[k - 1])
  <2>1. k \in 0..Len(bytes) /\ k # 0
    BY <1>0
  <2> QED
    BY <1>2, <2>1, Zenon DEF Grown, Says
<1> HIDE DEF P, n
<1> DEFINE T == {k \in Nat : k <= n => w[k] \in Seq(Word)}
<1>6. 0 \in T
  BY <1>4, EmptySeq
<1>7. ASSUME NEW k \in Nat, k \in T PROVE k + 1 \in T
  <2>1. SUFFICES ASSUME k + 1 <= n PROVE w[k + 1] \in Seq(Word)
    OBVIOUS
  <2>2. k + 1 \in 1..n /\ (k + 1) - 1 = k /\ w[k] \in Seq(Word)
    BY <1>0, <1>7, <2>1
  <2>3. w[k + 1] = Grown(l, bytes, s, k + 1, w[k])
    BY <1>5, <2>2
  <2> QED
    BY <2>2, <2>3, WordOfType DEF Grown
<1> HIDE DEF T
<1>8. \A k \in Nat : k \in T
  BY <1>6, <1>7, SetInduction
<1>9. \A k \in 0..n : w[k] \in Seq(Word)
  BY <1>0, <1>8 DEF T
<1>10. Counts(l, bytes, s, w)
  BY <1>3, <1>4, <1>5, <1>9, Zenon DEF Counts, n
<1> QED
  BY <1>10

\* It is a sequence of words.
LEMMA WordsType ==
    ASSUME NEW l, NEW bytes \in Text, NEW s
    PROVE  WordsAbout(l, bytes, s) \in Seq(Word)
<1>1. Len(bytes) \in 0..Len(bytes)
  BY DEF Text
<1> QED
  BY <1>1, WordsSteps DEF Counts

\* Nothing says nothing.
LEMMA WordsNone ==
    ASSUME NEW l, NEW s
    PROVE  WordsAbout(l, <<>>, s) = <<>>
<1>1. <<>> \in Text /\ Len(<<>>) = 0
  BY DEF Text
<1> QED
  BY <1>1, WordsSteps DEF Counts

-----------------------------------------------------------------------------
\* After h, nothing but how far it is has changed.
Behinds(h, r) ==
    \A k \in 1..Len(r) : IsCommand(h \o r, Len(h) + k) <=> IsCommand(r, k)

\* Where the bytes of two texts are when they are joined.
LEMMA Positions ==
    ASSUME NEW h \in Text, NEW r \in Text
    PROVE  /\ h \o r \in Text /\ Len(h \o r) = Len(h) + Len(r)
           /\ Len(h) \in Nat /\ Len(r) \in Nat
           /\ \A k \in 1..Len(h) : (h \o r)[k] = h[k]
           /\ \A k \in 1..Len(r) : (h \o r)[Len(h) + k] = r[k]
BY DEF Text

\* Then the words are those of h and those of r.
LEMMA WordsBehind ==
    ASSUME NEW l, NEW s, NEW h \in Text, NEW r \in Text, Behinds(h, r),
           NEW w, Counts(l, h \o r, s, w)
    PROVE  WordsAbout(l, h \o r, s) = w[Len(h)] \o WordsAbout(l, r, s)
<1> DEFINE x == h \o r
           m == Len(h)
           n == Len(r)
           F == w[m]
<1>1. /\ x \in Text /\ Len(x) = m + n /\ m \in Nat /\ n \in Nat
      /\ \A k \in 1..n : x[m + k] = r[k]
      /\ \A k \in 1..n : IsCommand(x, m + k) <=> IsCommand(r, k)
  BY Positions DEF Behinds
<1>2. PICK v : Counts(l, r, s, v)
  BY WordsSteps
<1>3. /\ \A k \in 1..(m + n) : w[k] = Grown(l, x, s, k, w[k - 1])
      /\ \A k \in 0..(m + n) : w[k] \in Seq(Word)
      /\ WordsAbout(l, x, s) = w[m + n]
  BY <1>1 DEF Counts
<1>4. /\ v[0] = <<>>
      /\ \A k \in 1..n : v[k] = Grown(l, r, s, k, v[k - 1])
      /\ \A k \in 0..n : v[k] \in Seq(Word)
      /\ WordsAbout(l, r, s) = v[n]
  BY <1>2 DEF Counts
<1> HIDE DEF x, m, n
<1>5. F \in Seq(Word)
  <2>1. m \in 0..(m + n)
    BY <1>1
  <2> QED
    BY <1>3, <2>1
<1> HIDE DEF F
<1> DEFINE T == {k \in Nat : k <= n => w[m + k] = F \o v[k]}
<1>6. 0 \in T
  <2>1. F \o <<>> = F /\ m + 0 = m /\ w[m] = F
    BY <1>1, <1>5, ConcatEmptySeq DEF F
  <2> QED
    BY <1>4, <2>1
<1>7. ASSUME NEW k \in Nat, k \in T PROVE k + 1 \in T
  <2>1. SUFFICES ASSUME k + 1 <= n PROVE w[m + (k + 1)] = F \o v[k + 1]
    OBVIOUS
  <2> DEFINE c == r[k + 1]
             vk == v[k]
             wk == w[m + k]
  <2>2. k + 1 \in 1..n /\ (k + 1) - 1 = k /\ m + (k + 1) \in 1..(m + n)
        /\ (m + (k + 1)) - 1 = m + k /\ k <= n /\ k \in 0..n
    BY <1>1, <2>1
  <2>3. /\ w[m + (k + 1)] = Grown(l, x, s, m + (k + 1), wk)
        /\ v[k + 1] = Grown(l, r, s, k + 1, vk)
        /\ wk = F \o vk /\ vk \in Seq(Word)
    BY <1>3, <1>4, <1>7, <2>2
  <2>4. /\ x[m + (k + 1)] = c
        /\ Says(l, x, s, m + (k + 1)) <=> Says(l, r, s, k + 1)
    <3>1. x[m + (k + 1)] = c
      BY <1>1, <2>2
    <3>2. IsCommand(x, m + (k + 1)) <=> IsCommand(r, k + 1)
      BY <1>1, <2>2
    <3>3. IsCommand(r, k + 1) => x[(m + (k + 1)) + 1] = r[(k + 1) + 1]
      <4>1. IsCommand(r, k + 1) => (k + 1) + 1 \in 1..n
        BY <1>1 DEF IsCommand, n
      <4>2. (m + (k + 1)) + 1 = m + ((k + 1) + 1)
        BY <1>1
      <4> QED
        BY <1>1, <4>1, <4>2
    <3> QED
      BY <3>1, <3>2, <3>3 DEF Says
  <2>5. WordOf(c) \in Word
    BY WordOfType
  <2> HIDE DEF c, vk, wk
  <2> DEFINE e == WordOf(c)
  <2>6. Append(F \o vk, e) = F \o Append(vk, e)
    <3>1. e \in Word /\ F \in Seq(Word) /\ vk \in Seq(Word)
      BY <2>3, <2>5, <1>5
    <3> HIDE DEF e
    <3>2. F \o vk \in Seq(Word) /\ <<e>> \in Seq(Word)
      BY <3>1
    <3>3. Append(F \o vk, e) = (F \o vk) \o <<e>> /\ Append(vk, e) = vk \o <<e>>
      BY <3>1, <3>2, AppendIsConcat
    <3>4. (F \o vk) \o <<e>> = F \o (vk \o <<e>>)
      BY <3>1, <3>2, ConcatAssociative
    <3> QED
      BY <3>3, <3>4, Zenon
  <2> QED
    BY <2>3, <2>4, <2>6 DEF Grown, c
<1> HIDE DEF T
<1>8. \A k \in Nat : k \in T
  BY <1>6, <1>7, SetInduction
<1>9. w[m + n] = F \o v[n]
  BY <1>1, <1>8 DEF T
<1> QED
  BY <1>3, <1>4, <1>9 DEF F, m, x

\* So it is if h does not end in IAC,
LEMMA BehindEnd ==
    ASSUME NEW h \in Text, NEW r \in Text, Len(h) > 0, h[Len(h)] # "IAC"
    PROVE  Behinds(h, r)
<1> DEFINE x == h \o r
           m == Len(h)
           n == Len(r)
<1>1. /\ m \in Nat /\ n \in Nat /\ m > 0 /\ Len(x) = m + n
      /\ \A k \in 1..m : x[k] = h[k]
      /\ \A k \in 1..n : x[m + k] = r[k]
  BY Positions
<1>2. x[m] # "IAC"
  BY <1>1
<1> HIDE DEF x, m, n
<1> SUFFICES ASSUME NEW k \in 1..n PROVE IsCommand(x, m + k) <=> IsCommand(r, k)
  BY DEF Behinds, x, m, n
<1>3. k \in Nat /\ k >= 1 /\ k <= n
  BY <1>1
<1>4. x[m + k] = r[k]
  BY <1>1
<1>5. m + k < Len(x) <=> k < Len(r)
  BY <1>1, <1>3 DEF n
<1> DEFINE InX(j) == /\ j % 2 = 1
                     /\ \A p \in ((m + k) - j)..((m + k) - 1) : x[p] = "IAC"
                     /\ j < (m + k) - 1 => x[((m + k) - j) - 1] # "IAC"
           InR(j) == /\ j % 2 = 1
                     /\ \A p \in (k - j)..(k - 1) : r[p] = "IAC"
                     /\ j < k - 1 => r[(k - j) - 1] # "IAC"
<1>6. ASSUME NEW j \in 1..((m + k) - 1), InX(j) PROVE j \in 1..(k - 1) /\ InR(j)
  <2>1. j \in Nat /\ j >= 1 /\ j <= (m + k) - 1
    BY <1>1, <1>3, <1>6
  <2>2. j <= k - 1
    <3> SUFFICES ASSUME j > k - 1 PROVE FALSE
      BY <1>3, <2>1
    <3>1. m \in ((m + k) - j)..((m + k) - 1)
      BY <1>1, <1>3, <2>1
    <3> QED
      BY <1>2, <1>6, <3>1
  <2>3. ASSUME NEW p \in (k - j)..(k - 1) PROVE r[p] = "IAC"
    <3>1. p \in 1..n /\ m + p \in ((m + k) - j)..((m + k) - 1)
      BY <1>1, <1>3, <2>1, <2>2
    <3> QED
      BY <1>1, <1>6, <3>1
  <2>4. ASSUME j < k - 1 PROVE r[(k - j) - 1] # "IAC"
    <3>1. (k - j) - 1 \in 1..n /\ j < (m + k) - 1 /\ ((m + k) - j) - 1 = m + ((k - j) - 1)
      BY <1>1, <1>3, <2>1, <2>4
    <3> QED
      BY <1>1, <1>6, <3>1
  <2> QED
    BY <1>3, <1>6, <2>1, <2>2, <2>3, <2>4
<1>7. ASSUME NEW j \in 1..(k - 1), InR(j) PROVE j \in 1..((m + k) - 1) /\ InX(j)
  <2>1. j \in Nat /\ j >= 1 /\ j <= k - 1
    BY <1>3, <1>7
  <2>2. ASSUME NEW p \in ((m + k) - j)..((m + k) - 1) PROVE x[p] = "IAC"
    <3>1. p - m \in (k - j)..(k - 1) /\ p - m \in 1..n /\ m + (p - m) = p
      BY <1>1, <1>3, <2>1
    <3> QED
      BY <1>1, <1>7, <3>1
  <2>3. x[((m + k) - j) - 1] # "IAC"
    <3>1. CASE j < k - 1
      <4>1. (k - j) - 1 \in 1..n /\ ((m + k) - j) - 1 = m + ((k - j) - 1)
        BY <1>1, <1>3, <2>1, <3>1
      <4> QED
        BY <1>1, <1>7, <3>1, <4>1
    <3>2. CASE ~(j < k - 1)
      <4>1. ((m + k) - j) - 1 = m
        BY <1>1, <1>3, <2>1, <3>2
      <4> QED
        BY <1>2, <4>1
    <3> QED
      BY <3>1, <3>2
  <2>4. j \in 1..((m + k) - 1)
    BY <1>1, <1>3, <2>1
  <2> QED
    BY <1>7, <2>2, <2>3, <2>4
<1>8. (\E j \in 1..((m + k) - 1) : InX(j)) <=> (\E j \in 1..(k - 1) : InR(j))
  <2> HIDE DEF InX, InR
  <2> QED
    BY <1>6, <1>7
<1>9. IsCommand(x, m + k) <=> /\ x[m + k] \in Negotiations /\ m + k < Len(x)
                             /\ \E j \in 1..((m + k) - 1) : InX(j)
  BY DEF IsCommand
<1>10. IsCommand(r, k) <=> /\ r[k] \in Negotiations /\ k < Len(r)
                          /\ \E j \in 1..(k - 1) : InR(j)
  BY DEF IsCommand
<1> HIDE DEF InX, InR
<1> QED
  BY <1>4, <1>5, <1>8, <1>9, <1>10

\* or if it is a pair of them.
LEMMA BehindPair ==
    ASSUME NEW h \in Text, NEW r \in Text, Len(h) = 2, h[1] = "IAC", h[2] = "IAC"
    PROVE  Behinds(h, r)
<1> DEFINE x == h \o r
           n == Len(r)
<1>1. /\ n \in Nat /\ Len(x) = 2 + n
      /\ x[1] = "IAC" /\ x[2] = "IAC"
      /\ \A k \in 1..n : x[2 + k] = r[k]
  <2>1. /\ n \in Nat /\ Len(x) = Len(h) + n
        /\ \A k \in 1..Len(h) : x[k] = h[k]
        /\ \A k \in 1..n : x[Len(h) + k] = r[k]
    BY Positions
  <2> HIDE DEF x, n
  <2> QED
    BY <2>1
<1> HIDE DEF x, n
<1> SUFFICES ASSUME NEW k \in 1..n PROVE IsCommand(x, 2 + k) <=> IsCommand(r, k)
  BY DEF Behinds, x, n
<1>3. k \in Nat /\ k >= 1 /\ k <= n
  BY <1>1
<1>4. x[2 + k] = r[k]
  BY <1>1
<1>5. 2 + k < Len(x) <=> k < Len(r)
  BY <1>1, <1>3 DEF n
<1> DEFINE InX(j) == /\ j % 2 = 1
                     /\ \A p \in ((2 + k) - j)..((2 + k) - 1) : x[p] = "IAC"
                     /\ j < (2 + k) - 1 => x[((2 + k) - j) - 1] # "IAC"
           InR(j) == /\ j % 2 = 1
                     /\ \A p \in (k - j)..(k - 1) : r[p] = "IAC"
                     /\ j < k - 1 => r[(k - j) - 1] # "IAC"
<1>6. ASSUME NEW j \in 1..((2 + k) - 1), InX(j) PROVE \E i1 \in 1..(k - 1) : InR(i1)
  <2>1. j \in Nat /\ j >= 1 /\ j <= k + 1 /\ j % 2 = 1
    BY <1>3, <1>6
  <2>2. j # k
    <3> SUFFICES ASSUME j = k PROVE FALSE
      OBVIOUS
    <3>1. j < (2 + k) - 1 /\ ((2 + k) - j) - 1 = 1
      BY <1>3
    <3> QED
      BY <1>1, <1>6, <3>1
  <2>3. j # k - 1
    <3> SUFFICES ASSUME j = k - 1 PROVE FALSE
      OBVIOUS
    <3>1. j < (2 + k) - 1 /\ ((2 + k) - j) - 1 = 2
      BY <1>3
    <3> QED
      BY <1>1, <1>6, <3>1
  <2>4. CASE j = k + 1
    <3> DEFINE e == k - 1
    <3>1. e \in Nat /\ e % 2 = 1 /\ e >= 1
      BY <1>3, <2>1, <2>4
    <3>2. ASSUME NEW p \in (k - e)..(k - 1) PROVE r[p] = "IAC"
      <4>1. p \in 1..n /\ 2 + p \in ((2 + k) - j)..((2 + k) - 1)
        BY <1>1, <1>3, <2>4
      <4> QED
        BY <1>1, <1>6, <4>1
    <3>3. ~(e < k - 1) /\ e \in 1..(k - 1)
      BY <1>3, <3>1
    <3>4. InR(e)
      BY <3>1, <3>2, <3>3
    <3> QED
      BY <3>3, <3>4
  <2>5. CASE j < k - 1
    <3>1. ASSUME NEW p \in (k - j)..(k - 1) PROVE r[p] = "IAC"
      <4>1. p \in 1..n /\ 2 + p \in ((2 + k) - j)..((2 + k) - 1)
        BY <1>1, <1>3, <2>1, <2>5
      <4> QED
        BY <1>1, <1>6, <4>1
    <3>2. r[(k - j) - 1] # "IAC"
      <4>1. /\ (k - j) - 1 \in 1..n /\ j < (2 + k) - 1
            /\ ((2 + k) - j) - 1 = 2 + ((k - j) - 1)
        BY <1>1, <1>3, <2>1, <2>5
      <4> QED
        BY <1>1, <1>6, <4>1
    <3>3. j \in 1..(k - 1)
      BY <1>3, <2>1, <2>5
    <3>4. InR(j)
      BY <2>1, <3>1, <3>2
    <3> QED
      BY <3>3, <3>4
  <2> QED
    BY <1>3, <2>1, <2>2, <2>3, <2>4, <2>5
<1>7. ASSUME NEW j \in 1..(k - 1), InR(j) PROVE \E i1 \in 1..((2 + k) - 1) : InX(i1)
  <2>1. j \in Nat /\ j >= 1 /\ j <= k - 1 /\ j % 2 = 1
    BY <1>3, <1>7
  <2>2. CASE j = k - 1
    <3> DEFINE e == k + 1
    <3>1. e \in Nat /\ e % 2 = 1 /\ e \in 1..((2 + k) - 1) /\ ~(e < (2 + k) - 1)
      BY <1>3, <2>1, <2>2
    <3>2. ASSUME NEW p \in ((2 + k) - e)..((2 + k) - 1) PROVE x[p] = "IAC"
      <4>1. CASE p \in {1, 2}
        BY <1>1, <4>1
      <4>2. CASE p \notin {1, 2}
        <5>1. p - 2 \in (k - j)..(k - 1) /\ p - 2 \in 1..n /\ 2 + (p - 2) = p
          BY <1>1, <1>3, <2>1, <2>2, <4>2
        <5> QED
          BY <1>1, <1>7, <5>1
      <4> QED
        BY <4>1, <4>2
    <3>3. InX(e)
      BY <3>1, <3>2
    <3> QED
      BY <3>1, <3>3
  <2>3. CASE j < k - 1
    <3>1. ASSUME NEW p \in ((2 + k) - j)..((2 + k) - 1) PROVE x[p] = "IAC"
      <4>1. p - 2 \in (k - j)..(k - 1) /\ p - 2 \in 1..n /\ 2 + (p - 2) = p
        BY <1>1, <1>3, <2>1
      <4> QED
        BY <1>1, <1>7, <4>1
    <3>2. x[((2 + k) - j) - 1] # "IAC"
      <4>1. (k - j) - 1 \in 1..n /\ ((2 + k) - j) - 1 = 2 + ((k - j) - 1)
        BY <1>1, <1>3, <2>1, <2>3
      <4> QED
        BY <1>1, <1>7, <2>3, <4>1
    <3>3. InX(j) /\ j \in 1..((2 + k) - 1)
      BY <1>3, <2>1, <3>1, <3>2
    <3> QED
      BY <3>3
  <2> QED
    BY <1>3, <2>1, <2>2, <2>3
<1>8. (\E j \in 1..((2 + k) - 1) : InX(j)) <=> (\E j \in 1..(k - 1) : InR(j))
  <2> HIDE DEF InX, InR
  <2> QED
    BY <1>6, <1>7
<1>9. IsCommand(x, 2 + k) <=> /\ x[2 + k] \in Negotiations /\ 2 + k < Len(x)
                             /\ \E j \in 1..((2 + k) - 1) : InX(j)
  BY DEF IsCommand
<1>10. IsCommand(r, k) <=> /\ r[k] \in Negotiations /\ k < Len(r)
                          /\ \E j \in 1..(k - 1) : InR(j)
  BY DEF IsCommand
<1> HIDE DEF InX, InR
<1> QED
  BY <1>4, <1>5, <1>8, <1>9, <1>10

-----------------------------------------------------------------------------
\* What the state machine remembers, and what it learns from a byte.
BegunIn(d) ==
    CASE d.state \in Negotiations -> <<"IAC", d.state>>
      [] d.state \in {"IAC", "SB_DATA_IAC"} -> <<"IAC">>
      [] OTHER -> <<>>

\* The word that c says of the option b, if that is the link l.
Told(l, c, b, s) == IF Means(s, c, b) = l THEN <<WordOf(c)>> ELSE <<>>
\* It is learnt when the state machine takes the option.
Learnt(l, d, b, s) == IF d.state \in Negotiations THEN Told(l, d.state, b, s) ELSE <<>>

\* A byte of text says nothing,
LEMMA DropOne ==
    ASSUME NEW l, NEW s, NEW b \in Bytes, b # "IAC", NEW r \in Text
    PROVE  WordsAbout(l, <<b>> \o r, s) = WordsAbout(l, r, s)
<1> DEFINE h == <<b>>
           x == h \o r
<1>1. h \in Text /\ Len(h) = 1 /\ h[1] = b
  BY DEF Text
<1> HIDE DEF h
<1>2. Behinds(h, r)
  BY <1>1, BehindEnd
<1>3. x \in Text /\ Len(x) \in Nat /\ Len(x) >= 1
  <2>1. /\ x \in Text /\ Len(x) = Len(h) + Len(r) /\ Len(r) \in Nat
        /\ \A k \in 1..Len(h) : x[k] = h[k]
    BY <1>1, Positions
  <2> HIDE DEF x
  <2> QED
    BY <1>1, <2>1
<1>4. PICK w : Counts(l, x, s, w)
  BY <1>3, WordsSteps
<1>5. WordsAbout(l, x, s) = w[1] \o WordsAbout(l, r, s)
  <2>1. WordsAbout(l, x, s) = w[Len(h)] \o WordsAbout(l, r, s)
    BY <1>1, <1>2, <1>4, WordsBehind, ZenonT(40)
  <2> HIDE DEF x
  <2> QED
    BY <1>1, <2>1, Zenon
<1> HIDE DEF x
<1>6. w[1] = <<>>
  <2>1. ~IsCommand(x, 1)
    BY DEF IsCommand
  <2>2. w[1] = Grown(l, x, s, 1, w[1 - 1]) /\ w[0] = <<>>
    BY <1>3, <1>4 DEF Counts
  <2> QED
    BY <2>1, <2>2 DEF Grown, Says
<1>7. WordsAbout(l, r, s) \in Seq(Word)
  BY WordsType
<1>8. <<>> \o WordsAbout(l, r, s) = WordsAbout(l, r, s)
  BY <1>7, ConcatEmptySeq
<1> QED
  BY <1>5, <1>6, <1>8 DEF x, h

\* nor does a pair that is no command,
LEMMA DropTwo ==
    ASSUME NEW l, NEW s, NEW b \in Bytes, b \notin Negotiations, NEW r \in Text
    PROVE  WordsAbout(l, <<"IAC">> \o (<<b>> \o r), s) = WordsAbout(l, r, s)
<1> DEFINE a == "IAC"
           h == <<a, b>>
           x == h \o r
<1>0. a \in Bytes
  BY BytesAssumption
<1>1. h \in Text /\ Len(h) = 2 /\ h[1] = a /\ h[2] = b
  BY <1>0 DEF Text
<1>2. <<a>> \o (<<b>> \o r) = x
  <2> DEFINE y == <<b>>
  <2>1. y \in Text /\ <<a>> \o y = h
    BY <1>0, Tuples DEF Text
  <2> HIDE DEF y, a, h
  <2>2. (<<a>> \o y) \o r = <<a>> \o (y \o r)
    BY <1>0, <2>1, ByteAssociative
  <2> QED
    BY <2>1, <2>2, Zenon DEF y
<1> HIDE DEF h
<1>3. Behinds(h, r)
  BY <1>1, BehindEnd, BehindPair
<1>4. x \in Text /\ Len(x) \in Nat /\ Len(x) >= 2 /\ x[1] = a /\ x[2] = b
  <2>1. /\ x \in Text /\ Len(x) = Len(h) + Len(r) /\ Len(r) \in Nat
        /\ \A k \in 1..Len(h) : x[k] = h[k]
    BY <1>1, Positions
  <2> HIDE DEF x
  <2> QED
    BY <1>1, <2>1
<1>5. PICK w : Counts(l, x, s, w)
  BY <1>4, WordsSteps
<1>6. WordsAbout(l, x, s) = w[2] \o WordsAbout(l, r, s)
  <2>1. WordsAbout(l, x, s) = w[Len(h)] \o WordsAbout(l, r, s)
    BY <1>1, <1>3, <1>5, WordsBehind, ZenonT(40)
  <2> HIDE DEF x
  <2> QED
    BY <1>1, <2>1, Zenon
<1> HIDE DEF x
<1>7. w[2] = <<>>
  <2>1. ~IsCommand(x, 1) /\ ~IsCommand(x, 2)
    BY <1>4 DEF IsCommand, Negotiations
  <2>2. /\ w[1] = Grown(l, x, s, 1, w[1 - 1]) /\ w[0] = <<>>
        /\ w[2] = Grown(l, x, s, 2, w[2 - 1])
    BY <1>4, <1>5 DEF Counts
  <2> QED
    BY <2>1, <2>2 DEF Grown, Says
<1>8. WordsAbout(l, r, s) \in Seq(Word)
  BY WordsType
<1>9. <<>> \o WordsAbout(l, r, s) = WordsAbout(l, r, s)
  BY <1>8, ConcatEmptySeq
<1>10. WordsAbout(l, x, s) = WordsAbout(l, r, s)
  BY <1>6, <1>7, <1>9
<1> QED
  BY <1>2, <1>10, Zenon

\* and a command says its word.
LEMMA DropThree ==
    ASSUME NEW l, NEW s, NEW c \in Negotiations, NEW b \in Bytes, b # "IAC", NEW r \in Text
    PROVE  WordsAbout(l, <<"IAC">> \o (<<c>> \o (<<b>> \o r)), s)
              = Told(l, c, b, s) \o WordsAbout(l, r, s)
<1> DEFINE a == "IAC"
           h == <<a, c, b>>
           x == h \o r
           F == Told(l, c, b, s)
<1>0. a \in Bytes /\ c \in Bytes /\ c # a
  BY BytesAssumption DEF Negotiations
<1>1. h \in Text /\ Len(h) = 3 /\ h[1] = a /\ h[2] = c /\ h[3] = b
  BY <1>0 DEF Text
<1>2. <<a>> \o (<<c>> \o (<<b>> \o r)) = x
  <2> DEFINE y == <<b>>
             z == <<c, b>>
  <2>1. y \in Text /\ z \in Text /\ <<c>> \o y = z /\ <<a>> \o z = h
    BY <1>0, Tuples DEF Text
  <2> HIDE DEF y, z, a, h
  <2>2. (<<c>> \o y) \o r = <<c>> \o (y \o r)
    BY <1>0, <2>1, ByteAssociative
  <2>3. (<<a>> \o z) \o r = <<a>> \o (z \o r)
    BY <1>0, <2>1, ByteAssociative
  <2> QED
    BY <2>1, <2>2, <2>3, Zenon DEF y
<1> HIDE DEF h
<1>3. Behinds(h, r)
  BY <1>1, BehindEnd, SMTT(40)
<1>4. /\ x \in Text /\ Len(x) \in Nat /\ Len(x) >= 3
      /\ x[1] = a /\ x[2] = c /\ x[3] = b
  <2>1. /\ x \in Text /\ Len(x) = Len(h) + Len(r) /\ Len(r) \in Nat
        /\ \A k \in 1..Len(h) : x[k] = h[k]
    BY <1>1, Positions
  <2> HIDE DEF x
  <2> QED
    BY <1>1, <2>1
<1>5. PICK w : Counts(l, x, s, w)
  BY <1>4, WordsSteps
<1>6. WordsAbout(l, x, s) = w[3] \o WordsAbout(l, r, s)
  <2>1. WordsAbout(l, x, s) = w[Len(h)] \o WordsAbout(l, r, s)
    BY <1>1, <1>3, <1>5, WordsBehind, ZenonT(40)
  <2> HIDE DEF x
  <2> QED
    BY <1>1, <2>1, Zenon
<1> HIDE DEF x
<1>7. w[3] = F
  <2>1. ~IsCommand(x, 1)
    BY <1>4 DEF IsCommand
  <2>2. IsCommand(x, 2)
    <3>1. 1 \in 1..(2 - 1) /\ 1 % 2 = 1 /\ ~(1 < 2 - 1) /\ 2 < Len(x)
      BY <1>4
    <3>2. \A j \in (2 - 1)..(2 - 1) : x[j] = "IAC"
      BY <1>4
    <3> QED
      BY <1>4, <3>1, <3>2 DEF IsCommand
  <2>3. ~IsCommand(x, 3)
    <3> SUFFICES ASSUME NEW n \in 1..(3 - 1), \A j \in (3 - n)..(3 - 1) : x[j] = "IAC"
                 PROVE  FALSE
      BY DEF IsCommand
    <3>1. 2 \in (3 - n)..(3 - 1)
      OBVIOUS
    <3> QED
      BY <1>0, <1>4, <3>1
  <2>4. /\ w[1] = Grown(l, x, s, 1, w[1 - 1]) /\ w[0] = <<>>
        /\ w[2] = Grown(l, x, s, 2, w[2 - 1])
        /\ w[3] = Grown(l, x, s, 3, w[3 - 1])
    BY <1>4, <1>5 DEF Counts
  <2>5. w[1] = <<>> /\ w[3] = w[2] /\ w[2] = Grown(l, x, s, 2, w[1])
    BY <2>1, <2>3, <2>4 DEF Grown, Says
  <2>6. Says(l, x, s, 2) <=> Means(s, c, b) = l
    BY <1>4, <2>2 DEF Says
  <2>7. Append(<<>>, WordOf(c)) = <<WordOf(c)>>
    OBVIOUS
  <2> QED
    BY <1>4, <2>5, <2>6, <2>7 DEF Grown, Told
<1> HIDE DEF F
<1>8. WordsAbout(l, x, s) = F \o WordsAbout(l, r, s)
  BY <1>6, <1>7
<1> QED
  BY <1>2, <1>8, Zenon DEF F

\* What is remembered is a text.
LEMMA BegunType ==
    ASSUME NEW d \in Parsers
    PROVE  BegunIn(d) \in Text
<1>1. Negotiations \subseteq Bytes /\ "IAC" \in Bytes
  BY BytesAssumption
<1>2. \A c \in Bytes : <<"IAC", c>> \in Text
  BY <1>1 DEF Text
<1>3. <<"IAC">> \in Text /\ <<>> \in Text
  BY <1>1 DEF Text
<1> QED
  BY <1>1, <1>2, <1>3 DEF BegunIn

\* What is remembered, before and after a byte.
LEMMA BegunAfter ==
    ASSUME NEW d \in Parsers, NEW b \in Bytes, Regular(d, b), NEW f, f = Fed(d, b)
    PROVE  \/ /\ d.state \notin Negotiations /\ BegunIn(d) = <<>>
              /\ b = "IAC" /\ BegunIn(f) = <<"IAC">>
           \/ /\ d.state \notin Negotiations /\ BegunIn(d) = <<>>
              /\ b # "IAC" /\ BegunIn(f) = <<>>
           \/ /\ d.state \notin Negotiations /\ BegunIn(d) = <<"IAC">>
              /\ b \in Negotiations /\ BegunIn(f) = <<"IAC", b>>
           \/ /\ d.state \notin Negotiations /\ BegunIn(d) = <<"IAC">>
              /\ b \notin Negotiations /\ BegunIn(f) = <<>>
           \/ /\ d.state \in Negotiations /\ BegunIn(d) = <<"IAC", d.state>>
              /\ b # "IAC" /\ BegunIn(f) = <<>>
<1>1. d \in [state : Places, option : Bytes \cup {"NONE"}, pos : 0..BufferMax]
  BY DEF Parsers
<1>2. f.state =
        CASE d.state = "DATA" -> (IF b = "IAC" THEN "IAC" ELSE "DATA")
          [] d.state = "IAC" -> AfterIac(b)
          [] d.state \in Negotiations -> "DATA"
          [] d.state = "SB" -> "SB_DATA"
          [] d.state = "SB_DATA" -> IF b = "IAC" THEN "SB_DATA_IAC" ELSE Stored(d).state
          [] d.state = "SB_DATA_IAC" ->
                IF b = "IAC" THEN Stored(d).state
                ELSE IF b = "SE" THEN "DATA" ELSE AfterIac(b)
  BY <1>1 DEF Fed, Negotiations, Places
<1>3. Stored(d).state \in {"DATA", "SB_DATA"}
  BY <1>1 DEF Stored
<1>4. AfterIac(b) = IF b \in Negotiations THEN b ELSE IF b = "SB" THEN "SB" ELSE "DATA"
  BY DEF AfterIac, Negotiations
<1>5. \A c \in Negotiations : c \notin {"DATA", "IAC", "SB", "SB_DATA", "SB_DATA_IAC", "SE"}
  BY DEF Negotiations
<1>6. \A g : /\ g.state \in Negotiations => BegunIn(g) = <<"IAC", g.state>>
             /\ g.state \in {"IAC", "SB_DATA_IAC"} => BegunIn(g) = <<"IAC">>
             /\ g.state \in {"DATA", "SB", "SB_DATA"} => BegunIn(g) = <<>>
  BY DEF BegunIn, Negotiations
<1>7. CASE d.state = "DATA"
  BY <1>2, <1>5, <1>6, <1>7
<1>8. CASE d.state = "IAC"
  <2>1. f.state = AfterIac(b)
    BY <1>2, <1>8 DEF Negotiations
  <2> QED
    BY <1>4, <1>5, <1>6, <1>8, <2>1
<1>9. CASE d.state \in Negotiations
  <2>1. f.state = "DATA" /\ b # "IAC"
    BY <1>2, <1>5, <1>9, BytesAssumption DEF Regular
  <2> QED
    BY <1>6, <1>9, <2>1
<1>10. CASE d.state = "SB"
  <2>1. f.state = "SB_DATA" /\ b # "IAC"
    BY <1>2, <1>5, <1>10 DEF Regular
  <2> QED
    BY <1>5, <1>6, <1>10, <2>1
<1>11. CASE d.state = "SB_DATA"
  <2>1. f.state = IF b = "IAC" THEN "SB_DATA_IAC" ELSE Stored(d).state
    BY <1>2, <1>5, <1>11
  <2> QED
    BY <1>3, <1>5, <1>6, <1>11, <2>1
<1>12. CASE d.state = "SB_DATA_IAC"
  <2>1. f.state = IF b = "IAC" THEN Stored(d).state
                  ELSE IF b = "SE" THEN "DATA" ELSE AfterIac(b)
    BY <1>2, <1>5, <1>12
  <2> QED
    BY <1>3, <1>4, <1>5, <1>6, <1>12, <2>1
<1> QED
  BY <1>1, <1>7, <1>8, <1>9, <1>10, <1>11, <1>12 DEF Places

\* What a byte does to the words.
Follows(l, s, d, b, r) ==
    WordsAbout(l, BegunIn(d) \o (<<b>> \o r), s)
       = Learnt(l, d, b, s) \o WordsAbout(l, BegunIn(Fed(d, b)) \o r, s)

\* A byte is learnt from, or remembered, or of no meaning: the grammar that
\* IsCommand reads from the start agrees with the state machine.
LEMMA WordsStep ==
    ASSUME NEW l, NEW s, NEW d \in Parsers, NEW b \in Bytes, Regular(d, b), NEW r \in Text
    PROVE  Follows(l, s, d, b, r)
<1> DEFINE f == Fed(d, b)
           x == BegunIn(d)
           y == BegunIn(f)
           br == <<b>> \o r
           W(t) == WordsAbout(l, t, s)
           said == Learnt(l, d, b, s)
<1>1. br \in Text
  BY FirstByte
<1>2. y \in Text
  BY FedType, BegunType
<1>3. <<>> \o r = r /\ <<>> \o br = br
  BY <1>1, TextEmpty
<1>4. W(y \o r) \in Seq(Word)
  BY <1>2, TextConcat, WordsType
<1>5. <<>> \o W(y \o r) = W(y \o r)
  BY <1>4, ConcatEmptySeq
<1>6. d.state \notin Negotiations => said = <<>>
  BY DEF Learnt
<1> HIDE DEF f, x, y, said
<1>7. "IAC" \in Bytes /\ <<"IAC">> \in Text
  BY BytesAssumption DEF Text
<1>8. \/ /\ d.state \notin Negotiations /\ x = <<>> /\ b = "IAC" /\ y = <<"IAC">>
      \/ /\ d.state \notin Negotiations /\ x = <<>> /\ b # "IAC" /\ y = <<>>
      \/ /\ d.state \notin Negotiations /\ x = <<"IAC">> /\ b \in Negotiations
         /\ y = <<"IAC", b>>
      \/ /\ d.state \notin Negotiations /\ x = <<"IAC">> /\ b \notin Negotiations /\ y = <<>>
      \/ /\ d.state \in Negotiations /\ x = <<"IAC", d.state>> /\ b # "IAC" /\ y = <<>>
  BY BegunAfter DEF f, x, y
<1>9. CASE d.state \notin Negotiations /\ x = <<>> /\ b = "IAC" /\ y = <<"IAC">>
  <2>1. x \o br = y \o r
    BY <1>3, <1>9, Zenon
  <2>2. W(x \o br) = said \o W(y \o r)
    BY <1>5, <1>6, <1>9, <2>1, Zenon
  <2> QED
    BY <2>2, Zenon DEF Follows, f, x, y, said
<1>10. CASE d.state \notin Negotiations /\ x = <<>> /\ b # "IAC" /\ y = <<>>
  <2>1. W(br) = W(r)
    BY <1>10, DropOne
  <2>2. x \o br = br /\ y \o r = r
    BY <1>3, <1>10, Zenon
  <2>3. W(x \o br) = said \o W(y \o r)
    BY <1>5, <1>6, <1>10, <2>1, <2>2, Zenon
  <2> QED
    BY <2>3, Zenon DEF Follows, f, x, y, said
<1>11. CASE d.state \notin Negotiations /\ x = <<"IAC">> /\ b \in Negotiations
            /\ y = <<"IAC", b>>
  <2> DEFINE a == "IAC"  t == <<b>>
  <2>1. <<a>> \o t = <<a, b>> /\ t \in Text
    BY <1>7, Tuples DEF Text
  <2> HIDE DEF t
  <2>2. (<<a>> \o t) \o r = <<a>> \o (t \o r)
    BY <1>7, <2>1, ByteAssociative
  <2>3. x \o br = y \o r
    BY <1>11, <2>1, <2>2, Zenon DEF t
  <2>4. W(x \o br) = said \o W(y \o r)
    BY <1>5, <1>6, <1>11, <2>3, Zenon
  <2> QED
    BY <2>4, Zenon DEF Follows, f, x, y, said
<1>12. CASE d.state \notin Negotiations /\ x = <<"IAC">> /\ b \notin Negotiations
            /\ y = <<>>
  <2>1. W(<<"IAC">> \o br) = W(r)
    BY <1>12, DropTwo
  <2>2. y \o r = r
    BY <1>3, <1>12, Zenon
  <2>3. W(x \o br) = said \o W(y \o r)
    BY <1>5, <1>6, <1>12, <2>1, <2>2, Zenon
  <2> QED
    BY <2>3, Zenon DEF Follows, f, x, y, said
<1>13. CASE d.state \in Negotiations /\ x = <<"IAC", d.state>> /\ b # "IAC" /\ y = <<>>
  <2> DEFINE c == d.state  a == "IAC"  t == <<c>>
  <2>0. c \in Negotiations /\ c \in Bytes /\ x = <<a, c>>
    BY <1>13, BytesAssumption
  <2>1. <<a>> \o t = <<a, c>> /\ t \in Text
    BY <1>7, <2>0, Tuples DEF Text
  <2> HIDE DEF t, c
  <2>2. (<<a>> \o t) \o br = <<a>> \o (t \o br)
    BY <1>1, <1>7, <2>1, ByteAssociative
  <2>3. x \o br = <<a>> \o (<<c>> \o br)
    BY <2>0, <2>1, <2>2, Zenon DEF t
  <2>4. W(<<a>> \o (<<c>> \o br))
           = Told(l, c, b, s) \o W(r)
    BY <1>13, <2>0, DropThree
  <2>5. said = Told(l, c, b, s)
    BY <2>0 DEF said, Learnt, c
  <2>6. y \o r = r
    BY <1>3, <1>13, Zenon
  <2>7. W(x \o br) = said \o W(y \o r)
    BY <2>3, <2>4, <2>5, <2>6, Zenon
  <2> QED
    BY <2>7, Zenon DEF Follows, f, x, y, said
<1> QED
  BY <1>8, <1>9, <1>10, <1>11, <1>12, <1>13

\* It does not matter which of three exchanges are joined first.
LEMMA WordsAssociative ==
    ASSUME NEW a \in Seq(Word), NEW b \in Seq(Word), NEW c \in Seq(Word)
    PROVE  (a \o b) \o c = a \o (b \o c)
BY ConcatAssociative

\* What is learnt are words.
LEMMA LearntType ==
    ASSUME NEW l, NEW d, NEW b, NEW s
    PROVE  Learnt(l, d, b, s) \in Seq(Word)
<1>1. WordOf(d.state) \in Word
  BY WordOfType
<1>2. <<WordOf(d.state)>> \in Seq(Word) /\ <<>> \in Seq(Word)
  BY <1>1
<1> QED
  BY <1>2 DEF Learnt, Told

\* What follows whole commands is read as if it stood alone.
Splits(l, s, d, bytes, more) ==
    WordsAbout(l, BegunIn(d) \o (bytes \o more), s)
       = WordsAbout(l, BegunIn(d) \o bytes, s) \o WordsAbout(l, more, s)

\* This goes through with one more byte in front,
LEMMA SplitsStep ==
    ASSUME NEW l, NEW s, NEW d \in Parsers, NEW b \in Bytes, Regular(d, b),
           NEW r \in Text, NEW more \in Text, Splits(l, s, Fed(d, b), r, more)
    PROVE  Splits(l, s, d, <<b>> \o r, more)
<1> DEFINE x == BegunIn(d)
           y == BegunIn(Fed(d, b))
           L == Learnt(l, d, b, s)
           W(t) == WordsAbout(l, t, s)
<1>1. r \o more \in Text /\ y \in Text
  BY TextConcat, FedType, BegunType
<1>2. W(x \o (<<b>> \o r)) = L \o W(y \o r)
  <2>1. Follows(l, s, d, b, r)
    BY WordsStep
  <2> QED
    BY <2>1, Zenon DEF Follows
<1>3. W(x \o (<<b>> \o (r \o more))) = L \o W(y \o (r \o more))
  <2>1. Follows(l, s, d, b, r \o more)
    BY <1>1, WordsStep
  <2> QED
    BY <2>1, Zenon DEF Follows
<1>4. (<<b>> \o r) \o more = <<b>> \o (r \o more)
  BY ByteAssociative
<1>5. W(y \o (r \o more)) = W(y \o r) \o W(more)
  BY DEF Splits
<1>6. L \in Seq(Word) /\ W(y \o r) \in Seq(Word) /\ W(more) \in Seq(Word)
  BY <1>1, LearntType, TextConcat, WordsType
<1> HIDE DEF W, L, x, y
<1>7. (L \o W(y \o r)) \o W(more) = L \o (W(y \o r) \o W(more))
  BY <1>6, WordsAssociative
<1>8. W(x \o ((<<b>> \o r) \o more)) = W(x \o (<<b>> \o r)) \o W(more)
  BY <1>2, <1>3, <1>4, <1>5, <1>7, Zenon
<1> QED
  BY <1>8, Zenon DEF Splits, W, x

\* and so it is true of all that decodes.
LEMMA WordsAppend ==
    ASSUME NEW l, NEW s, NEW D, D \subseteq Parsers, NEW more \in Text,
           NEW d, NEW bytes, NEW text, NEW e, Decodes(D, d, bytes, text, e), e.state = "DATA"
    PROVE  Splits(l, s, d, bytes, more)
<1> DEFINE Goes(g, by, h) == h.state = "DATA" => Splits(l, s, g, by, more)
           R == {x \in Runs(D) : Goes(x[1], x[2], x[4])}
           Q == R \cap {x \in Runs(D) : Decodes(D, x[1], x[2], x[3], x[4])}
<1>1. ASSUME NEW g \in D PROVE <<g, <<>>, <<>>, g>> \in Q
  <2>1. Goes(g, <<>>, g)
    <3> SUFFICES ASSUME g.state = "DATA" PROVE Splits(l, s, g, <<>>, more)
      OBVIOUS
    <3> DEFINE none == <<>>
    <3>1. BegunIn(g) = none
      BY DEF BegunIn, Negotiations
    <3>2. none \o (none \o more) = more
      BY TextEmpty
    <3>3. none \o none = none
      OBVIOUS
    <3>4. WordsAbout(l, none, s) = none
      BY WordsNone
    <3>5. WordsAbout(l, more, s) \in Seq(Word)
      BY WordsType
    <3>6. none \o WordsAbout(l, more, s) = WordsAbout(l, more, s)
      BY <3>5, ConcatEmptySeq
    <3> HIDE DEF none
    <3>7. Splits(l, s, g, none, more)
      BY <3>1, <3>2, <3>3, <3>4, <3>6, Zenon DEF Splits
    <3> QED
      BY <3>7 DEF none
  <2>2. Decodes(D, g, <<>>, <<>>, g)
    BY DecodesNothing
  <2>3. <<g, <<>>, <<>>, g>> \in Runs(D)
    BY <2>2 DEF Decodes
  <2> HIDE DEF Goes
  <2> QED
    BY <2>1, <2>2, <2>3
<1>2. ASSUME NEW g \in D, NEW b \in Bytes, NEW r \in Text, NEW t \in Text, NEW h \in D,
             Regular(g, b), Fed(g, b) \in D, <<Fed(g, b), r, t, h>> \in Q
      PROVE  <<g, <<b>> \o r, Heard(g, b) \o t, h>> \in Q
  <2>1. Decodes(D, Fed(g, b), r, t, h) /\ Goes(Fed(g, b), r, h)
    <3> HIDE DEF Goes
    <3> QED
      BY <1>2
  <2>2. Decodes(D, g, <<b>> \o r, Heard(g, b) \o t, h)
    BY <1>2, <2>1, DecodesByte
  <2>3. Goes(g, <<b>> \o r, h)
    <3> SUFFICES ASSUME h.state = "DATA" PROVE Splits(l, s, g, <<b>> \o r, more)
      OBVIOUS
    <3>1. Splits(l, s, Fed(g, b), r, more) /\ g \in Parsers
      BY <1>2, <2>1
    <3> QED
      BY <1>2, <3>1, SplitsStep
  <2>4. <<g, <<b>> \o r, Heard(g, b) \o t, h>> \in Runs(D)
    BY <2>2 DEF Decodes
  <2> HIDE DEF Goes
  <2> QED
    BY <2>2, <2>3, <2>4
<1> HIDE DEF Q
<1>3. Closed(D, Q)
  BY <1>1, <1>2 DEF Closed
<1> USE DEF Q
<1> HIDE DEF R
<1>4. <<d, bytes, text, e>> \in R
  BY <1>3, DecodesInduction
<1>5. Goes(d, bytes, e)
  <2> HIDE DEF Goes
  <2> QED
    BY <1>4 DEF R
<1> QED
  BY <1>5

\* What decodes without a negotiation says nothing.
LEMMA WordsQuiet ==
    ASSUME NEW l, NEW s, NEW d, NEW bytes, NEW text, NEW e,
           Decodes(Quiet, d, bytes, text, e), e.state = "DATA"
    PROVE  WordsAbout(l, BegunIn(d) \o bytes, s) = <<>>
<1> DEFINE Goes(g, by, h) == h.state = "DATA" => WordsAbout(l, BegunIn(g) \o by, s) = <<>>
           R == {x \in Runs(Quiet) : Goes(x[1], x[2], x[4])}
           Q == R \cap {x \in Runs(Quiet) : Decodes(Quiet, x[1], x[2], x[3], x[4])}
<1>1. ASSUME NEW g \in Quiet PROVE <<g, <<>>, <<>>, g>> \in Q
  <2>1. Goes(g, <<>>, g)
    <3> SUFFICES ASSUME g.state = "DATA" PROVE WordsAbout(l, BegunIn(g) \o <<>>, s) = <<>>
      OBVIOUS
    <3>1. BegunIn(g) = <<>>
      BY DEF BegunIn, Negotiations
    <3>2. <<>> \o <<>> = <<>>
      OBVIOUS
    <3> QED
      BY <3>1, <3>2, WordsNone, Zenon
  <2>2. Decodes(Quiet, g, <<>>, <<>>, g)
    BY DecodesNothing
  <2>3. <<g, <<>>, <<>>, g>> \in Runs(Quiet)
    BY <2>2 DEF Decodes
  <2> HIDE DEF Goes
  <2> QED
    BY <2>1, <2>2, <2>3
<1>2. ASSUME NEW g \in Quiet, NEW b \in Bytes, NEW r \in Text, NEW t \in Text, NEW h \in Quiet,
             Regular(g, b), Fed(g, b) \in Quiet, <<Fed(g, b), r, t, h>> \in Q
      PROVE  <<g, <<b>> \o r, Heard(g, b) \o t, h>> \in Q
  <2>1. Decodes(Quiet, Fed(g, b), r, t, h) /\ Goes(Fed(g, b), r, h)
    <3> HIDE DEF Goes
    <3> QED
      BY <1>2
  <2>2. Decodes(Quiet, g, <<b>> \o r, Heard(g, b) \o t, h)
    BY <1>2, <2>1, DecodesByte
  <2>3. Goes(g, <<b>> \o r, h)
    <3> SUFFICES ASSUME h.state = "DATA"
                 PROVE  WordsAbout(l, BegunIn(g) \o (<<b>> \o r), s) = <<>>
      OBVIOUS
    <3>1. WordsAbout(l, BegunIn(Fed(g, b)) \o r, s) = <<>>
      BY <2>1
    <3>2. g \in Parsers /\ g.state \notin Negotiations
      BY <1>2 DEF Quiet
    <3>3. WordsAbout(l, BegunIn(g) \o (<<b>> \o r), s)
             = Learnt(l, g, b, s) \o WordsAbout(l, BegunIn(Fed(g, b)) \o r, s)
      <4>1. Follows(l, s, g, b, r)
        BY <1>2, <3>2, WordsStep
      <4> QED
        BY <4>1, Zenon DEF Follows
    <3>4. Learnt(l, g, b, s) = <<>>
      BY <3>2 DEF Learnt
    <3>5. <<>> \o <<>> = <<>>
      OBVIOUS
    <3> QED
      BY <3>1, <3>3, <3>4, <3>5, Zenon
  <2>4. <<g, <<b>> \o r, Heard(g, b) \o t, h>> \in Runs(Quiet)
    BY <2>2 DEF Decodes
  <2> HIDE DEF Goes
  <2> QED
    BY <2>2, <2>3, <2>4
<1> HIDE DEF Q
<1>3. Closed(Quiet, Q)
  BY <1>1, <1>2 DEF Closed
<1> USE DEF Q
<1> HIDE DEF R
<1>4. <<d, bytes, text, e>> \in R
  BY <1>3, DecodesInduction
<1>5. Goes(d, bytes, e)
  <2> HIDE DEF Goes
  <2> QED
    BY <1>4 DEF R
<1> QED
  BY <1>5

-----------------------------------------------------------------------------
\* The abstract channels: words on their way to the client,
WordsTo(l)   == WordsAbout(l, toPeer, "server")
\* and to the server.
WordsFrom(l) == WordsAbout(l, Unread, "client")

\* Words are added, or one is taken, and nothing happens to the other links.
OthersSame(l) ==
    \A m \in Links : m # l =>
        WordsTo(m)' = WordsTo(m) /\ WordsFrom(m)' = WordsFrom(m)

\* Both modules speak of the same links.
LEMMA SameLinks == N!Links = Links
BY DEF N!Links, N!Sides, Links

\* Where no word and no state changes the negotiation stutters.
LEMMA Stutters ==
    ASSUME UNCHANGED <<readonly, q, peerQ>>,
           \A l \in Links : WordsTo(l)' = WordsTo(l) /\ WordsFrom(l)' = WordsFrom(l)
    PROVE  UNCHANGED N!vars
BY DEF N!vars, WordsTo, WordsFrom

\* A channel with a word in front.
LEMMA FirstWord ==
    ASSUME NEW w \in Word, NEW rest \in Seq(Word)
    PROVE  /\ <<w>> \o rest # <<>> /\ Head(<<w>> \o rest) = w /\ Tail(<<w>> \o rest) = rest
<1> DEFINE x == <<w>> \o rest
<1>1. x \in Seq(Word) /\ Len(x) = Len(rest) + 1 /\ Len(rest) \in Nat /\ x[1] = w
      /\ \A k \in 1..Len(rest) : x[k + 1] = rest[k]
  OBVIOUS
<1> HIDE DEF x
<1>2. x # <<>> /\ Head(x) = w
  BY <1>1
<1>3. /\ Tail(x) \in Seq(Word) /\ Len(Tail(x)) = Len(rest)
      /\ \A k \in 1..Len(rest) : Tail(x)[k] = rest[k]
  BY <1>1, <1>2
<1>4. Tail(x) = rest
  BY <1>3, SeqEqual
<1> QED
  BY <1>2, <1>4 DEF x

\* The server takes a word and answers: a step of TelnetNegotiate.
LEMMA ServerReceivesMaps ==
    ASSUME NEW l \in Links, NEW word \in Word, ~readonly,
           NEW o, o = N!Negotiated(l, q[l], word),
           q' = [q EXCEPT ![l] = o.state], UNCHANGED <<readonly, peerQ>>,
           WordsFrom(l) = <<word>> \o WordsFrom(l)', WordsFrom(l)' \in Seq(Word),
           WordsTo(l)' = WordsTo(l) \o o.said, OthersSame(l)
    PROVE  N!Next
<1>1. WordsFrom(l) # <<>> /\ Head(WordsFrom(l)) = word /\ Tail(WordsFrom(l)) = WordsFrom(l)'
  BY FirstWord
<1> DEFINE to == [m \in Links |-> WordsTo(m)]
           from == [m \in Links |-> WordsFrom(m)]
<1>2. to[l] = WordsTo(l) /\ from[l] = WordsFrom(l)
  OBVIOUS
<1>3. to' = [to EXCEPT ![l] = @ \o o.said]
  BY DEF OthersSame
<1>4. from' = [from EXCEPT ![l] = Tail(@)]
  BY <1>1 DEF OthersSame
<1>5. N!ServerReceives(l)
  <2> HIDE DEF to, from
  <2>1. /\ ~readonly /\ from[l] # <<>>
        /\ q' = [q EXCEPT ![l] = N!Negotiated(l, q[l], Head(from[l])).state]
        /\ to' = [to EXCEPT ![l] = @ \o N!Negotiated(l, q[l], Head(from[l])).said]
        /\ from' = [from EXCEPT ![l] = Tail(@)]
        /\ UNCHANGED <<readonly, peerQ>>
    BY <1>1, <1>2, <1>3, <1>4
  <2> QED
    BY <2>1 DEF N!ServerReceives, to, from, WordsTo, WordsFrom
<1> QED
  BY <1>5, SameLinks DEF N!Next

\* So does the client,
LEMMA PeerReceivesMaps ==
    ASSUME NEW l \in Links, NEW word \in Word,
           NEW o \in N!PeerOutcomes(peerQ[l], word),
           peerQ' = [peerQ EXCEPT ![l] = o.state], UNCHANGED <<readonly, q>>,
           WordsTo(l) = <<word>> \o WordsTo(l)', WordsTo(l)' \in Seq(Word),
           WordsFrom(l)' = WordsFrom(l) \o o.said, OthersSame(l)
    PROVE  N!Next
<1>1. WordsTo(l) # <<>> /\ Head(WordsTo(l)) = word /\ Tail(WordsTo(l)) = WordsTo(l)'
  BY FirstWord
<1> DEFINE to == [m \in Links |-> WordsTo(m)]
           from == [m \in Links |-> WordsFrom(m)]
<1>2. to[l] = WordsTo(l) /\ from[l] = WordsFrom(l)
  OBVIOUS
<1>3. from' = [from EXCEPT ![l] = @ \o o.said]
  BY DEF OthersSame
<1>4. to' = [to EXCEPT ![l] = Tail(@)]
  BY <1>1 DEF OthersSame
<1>5. N!PeerReceives(l)
  <2> HIDE DEF to, from
  <2>1. /\ to[l] # <<>>
        /\ \E p \in N!PeerOutcomes(peerQ[l], Head(to[l])) :
              /\ peerQ' = [peerQ EXCEPT ![l] = p.state]
              /\ from' = [from EXCEPT ![l] = @ \o p.said]
        /\ to' = [to EXCEPT ![l] = Tail(@)]
        /\ UNCHANGED <<readonly, q>>
    BY <1>1, <1>2, <1>3, <1>4
  <2> QED
    BY <2>1 DEF N!PeerReceives, to, from, WordsTo, WordsFrom
<1> QED
  BY <1>5, SameLinks DEF N!Next

\* who may also ask.
LEMMA PeerAsksMaps ==
    ASSUME NEW l \in Links, NEW o \in N!PeerRequests(peerQ[l]),
           peerQ' = [peerQ EXCEPT ![l] = o.state], UNCHANGED <<readonly, q>>,
           WordsTo(l)' = WordsTo(l),
           WordsFrom(l)' = WordsFrom(l) \o o.said, OthersSame(l)
    PROVE  N!Next
<1> DEFINE to == [m \in Links |-> WordsTo(m)]
           from == [m \in Links |-> WordsFrom(m)]
<1>1. from[l] = WordsFrom(l)
  OBVIOUS
<1>2. from' = [from EXCEPT ![l] = @ \o o.said]
  BY DEF OthersSame
<1>3. to' = to
  BY DEF OthersSame
<1>4. N!PeerAsks(l)
  <2> HIDE DEF to, from
  <2>1. /\ \E p \in N!PeerRequests(peerQ[l]) :
              /\ peerQ' = [peerQ EXCEPT ![l] = p.state]
              /\ from' = [from EXCEPT ![l] = @ \o p.said]
        /\ UNCHANGED <<readonly, q>> /\ to' = to
    BY <1>1, <1>2, <1>3
  <2> QED
    BY <2>1 DEF N!PeerAsks, to, from, WordsTo, WordsFrom
<1> QED
  BY <1>4, SameLinks DEF N!Next

\* The words of a log client are thrown away.
LEMMA ServerIgnoresMaps ==
    ASSUME readonly, UNCHANGED <<readonly, q, peerQ>>,
           \A l \in Links : WordsTo(l)' = WordsTo(l) /\ WordsFrom(l)' = <<>>
    PROVE  N!Next
<1>1. N!ServerIgnores
  BY SameLinks DEF N!ServerIgnores, WordsTo, WordsFrom
<1> QED
  BY <1>1 DEF N!Next

-----------------------------------------------------------------------------
\* What is unread is what was begun and what there is to read.
LEMMA UnreadIs ==
    ASSUME TypeOK
    PROVE  Unread = BegunIn(Cur) \o Rest /\ Unread \in Text
<1> DEFINE a == SubSeq(buffer, i, Len(buffer))
           x == BegunIn(Cur)
<1>1. Begun = x
  BY DEF Begun, BegunIn, Cur
<1>2. x \in Text /\ socket \in Text /\ Rest \in Text
  BY TypesOf, BegunType
<1>3. a \in Text
  <2>1. \A k \in i..Len(buffer) : buffer[k] \in Bytes
    BY TypesOf, ElementOfSeq DEF Text
  <2> QED
    BY TypesOf, <2>1, SubSeqProperties DEF Text
<1>4. Unread = (x \o a) \o socket /\ Rest = a \o socket
  BY <1>1 DEF Unread, Rest
<1> HIDE DEF a, x
<1>5. (x \o a) \o socket = x \o (a \o socket)
  BY <1>2, <1>3, TextAssociative, SMTT(40)
<1>6. Unread = x \o Rest
  BY <1>4, <1>5, Zenon
<1>7. x \o Rest \in Text
  BY <1>2, TextConcat
<1> QED
  BY <1>6, <1>7 DEF x

\* The channels hold words.
LEMMA WordsTypes ==
    ASSUME TypeOK, NEW l
    PROVE  WordsTo(l) \in Seq(Word) /\ WordsFrom(l) \in Seq(Word)
BY UnreadIs, TypesOf, WordsType DEF WordsTo, WordsFrom

\* The same of the next state.
LEMMA UnreadNext == TypeOK' => Unread' = BegunIn(Cur') \o Rest' /\ Unread' \in Text
<1>1. TypeOK => Unread = BegunIn(Cur) \o Rest /\ Unread \in Text
  BY UnreadIs
<1>2. (TypeOK => Unread = BegunIn(Cur) \o Rest /\ Unread \in Text)'
  BY <1>1, PTL
<1> QED
  BY <1>2

\* The same of the next state.
LEMMA WordsTypesNext ==
    ASSUME NEW l, TypeOK'
    PROVE  WordsTo(l)' \in Seq(Word) /\ WordsFrom(l)' \in Seq(Word)
<1>1. Unread' \in Text /\ toPeer' \in Text
  BY UnreadNext DEF TypeOK, Text
<1>2. /\ WordsAbout(l, toPeer', "server") \in Seq(Word)
      /\ WordsAbout(l, Unread', "client") \in Seq(Word)
  BY <1>1, WordsType
<1> QED
  BY <1>2 DEF WordsTo, WordsFrom

\* Of the words from the client the server learns what the next byte tells.
LEMMA ByteWords ==
    ASSUME IInv, IInv', Take, Cur' = Fed(Cur, buffer[i]), NEW l
    PROVE  WordsFrom(l) = Learnt(l, Cur, buffer[i], "client") \o WordsFrom(l)'
<1>1. TypeOK /\ TypeOK' /\ i <= Len(buffer)
  BY DEF IInv, Take
<1>2. buffer[i] \in Bytes /\ Cur \in Parsers /\ Regular(Cur, buffer[i])
  BY <1>1, NextByte
<1>3. Ahead \in Text /\ Rest = <<buffer[i]>> \o Ahead
  BY <1>1, RestFirst DEF Ahead
<1>4. Rest' = Ahead
  BY DEF Take, Rest, Ahead
<1>5. Unread = BegunIn(Cur) \o (<<buffer[i]>> \o Ahead)
  BY <1>1, <1>3, UnreadIs, Zenon
<1>6. Unread' = BegunIn(Fed(Cur, buffer[i])) \o Ahead
  <2>1. Unread' = BegunIn(Cur') \o Rest'
    BY <1>1, UnreadNext
  <2> QED
    BY <1>4, <2>1, Zenon
<1> DEFINE c == Cur  b == buffer[i]  r == Ahead
<1>7. Follows(l, "client", c, b, r)
  <2>1. c \in Parsers /\ b \in Bytes /\ r \in Text /\ Regular(c, b)
    BY <1>2, <1>3
  <2> HIDE DEF c, b, r
  <2> QED
    BY <2>1, WordsStep
<1>8. WordsFrom(l)' = WordsAbout(l, Unread', "client")
  BY DEF WordsFrom
<1> QED
  BY <1>5, <1>6, <1>7, <1>8, Zenon DEF Follows, WordsFrom

\* Outside of a negotiation that is nothing.
LEMMA SilentWords ==
    ASSUME IInv, IInv', Take, Cur' = Fed(Cur, buffer[i]), state \notin Negotiations,
           UNCHANGED <<q, toPeer>>
    PROVE  UNCHANGED N!vars
<1>1. UNCHANGED <<readonly, q, peerQ, toPeer>>
  BY DEF Take, clientVars
<1>2. ASSUME NEW l \in Links PROVE WordsTo(l)' = WordsTo(l) /\ WordsFrom(l)' = WordsFrom(l)
  <2>1. WordsTo(l)' = WordsTo(l)
    BY <1>1 DEF WordsTo
  <2>2. WordsFrom(l) = Learnt(l, Cur, buffer[i], "client") \o WordsFrom(l)'
    BY ByteWords
  <2>3. Learnt(l, Cur, buffer[i], "client") = <<>>
    BY DEF Learnt, Cur
  <2>4. <<>> \o WordsFrom(l)' = WordsFrom(l)'
    <3>1. TypeOK'
      BY DEF IInv
    <3>2. WordsFrom(l)' \in Seq(Word)
      BY <3>1, WordsTypesNext
    <3> QED
      BY <3>2, ConcatEmptySeq
  <2> QED
    BY <2>1, <2>2, <2>3, <2>4, Zenon
<1> QED
  BY <1>1, <1>2, Stutters

\* Three bytes that are a command say one word.
LEMMA WordsOfCommand ==
    ASSUME NEW l, NEW s, NEW c \in Negotiations, NEW b \in Bytes, b # "IAC"
    PROVE  WordsAbout(l, <<"IAC", c, b>>, s) = Told(l, c, b, s)
<1> DEFINE a == "IAC"  r == <<>>  x == <<b>>  y == <<c, b>>  z == <<a, c, b>>
<1>0. a \in Bytes /\ c \in Bytes /\ r \in Text
  BY BytesAssumption DEF Text
<1>1. x \in Text /\ <<c>> \o x = y /\ <<a>> \o y = z
  BY <1>0, Tuples DEF Text
<1>2. WordsAbout(l, <<a>> \o (<<c>> \o (<<b>> \o r)), s) = Told(l, c, b, s) \o WordsAbout(l, r, s)
  <2> HIDE DEF r
  <2> QED
    BY <1>0, DropThree
<1>3. x \o r = x /\ WordsAbout(l, r, s) = r
  <2> HIDE DEF x
  <2> QED
    BY <1>1, TextEmpty, WordsNone
<1>4. Told(l, c, b, s) \o r = Told(l, c, b, s)
  <2>1. WordOf(c) \in Word
    BY WordOfType
  <2>2. <<WordOf(c)>> \in Seq(Word) /\ <<>> \in Seq(Word)
    BY <2>1
  <2>3. Told(l, c, b, s) \in Seq(Word)
    BY <2>2 DEF Told
  <2> QED
    BY <2>3, ConcatEmptySeq
<1>5. <<a>> \o (<<c>> \o (<<b>> \o r)) = z
  BY <1>1, <1>3, Zenon
<1> HIDE DEF r, z
<1>6. WordsAbout(l, z, s) = Told(l, c, b, s)
  BY <1>2, <1>3, <1>4, <1>5, Zenon
<1> QED
  BY <1>6 DEF z

\* What is said about a link is what can be read about it, and of no other.
LEMMA WordsSaid ==
    ASSUME NEW m, NEW l \in Links, NEW said \in Said
    PROVE  /\ WordsAbout(m, FlattenSeq([k \in DOMAIN said |-> FromServer(l, said[k])]), "server")
                 = IF m = l THEN said ELSE <<>>
           /\ WordsAbout(m, FlattenSeq([k \in DOMAIN said |-> FromPeer(l, said[k])]), "client")
                 = IF m = l THEN said ELSE <<>>
<1> DEFINE x == FlattenSeq([k \in DOMAIN said |-> FromServer(l, said[k])])
           p == FlattenSeq([k \in DOMAIN said |-> FromPeer(l, said[k])])
<1>1. ASSUME said = <<>>
      PROVE  /\ WordsAbout(m, x, "server") = IF m = l THEN said ELSE <<>>
             /\ WordsAbout(m, p, "client") = IF m = l THEN said ELSE <<>>
  <2>1. x = <<>> /\ p = <<>>
    BY <1>1, Spoken
  <2> HIDE DEF x, p
  <2> QED
    BY <1>1, <2>1, WordsNone
<1>2. ASSUME NEW w \in {"yes", "no"}, said = <<w>>
      PROVE  /\ WordsAbout(m, x, "server") = IF m = l THEN said ELSE <<>>
             /\ WordsAbout(m, p, "client") = IF m = l THEN said ELSE <<>>
  <2>1. x = FromServer(l, w) /\ p = FromPeer(l, w)
    BY <1>2, Spoken
  <2>2. PICK c \in Negotiations : /\ FromServer(l, w) = <<"IAC", c, l[2]>>
                                  /\ ServerMeans(c, l[2]) = l /\ WordOf(c) = w
    BY Commands
  <2>3. PICK a \in Negotiations : /\ FromPeer(l, w) = <<"IAC", a, l[2]>>
                                  /\ ClientMeans(a, l[2]) = l /\ WordOf(a) = w
    BY Commands
  <2>4. l[2] \in Bytes /\ l[2] # "IAC"
    BY BytesAssumption DEF Links
  <2>5. /\ WordsAbout(m, <<"IAC", c, l[2]>>, "server") = Told(m, c, l[2], "server")
        /\ WordsAbout(m, <<"IAC", a, l[2]>>, "client") = Told(m, a, l[2], "client")
    BY <2>4, WordsOfCommand
  <2>6. /\ Told(m, c, l[2], "server") = IF m = l THEN <<w>> ELSE <<>>
        /\ Told(m, a, l[2], "client") = IF m = l THEN <<w>> ELSE <<>>
    BY <2>2, <2>3 DEF Told, Means
  <2> HIDE DEF x, p
  <2>7. /\ WordsAbout(m, x, "server") = Told(m, c, l[2], "server")
        /\ WordsAbout(m, p, "client") = Told(m, a, l[2], "client")
    BY <2>1, <2>2, <2>3, <2>5, Zenon
  <2> QED
    BY <1>2, <2>6, <2>7, Zenon
<1>3. said = <<>> \/ \E w \in {"yes", "no"} : said = <<w>>
  BY DEF Said
<1> HIDE DEF x, p
<1>4. /\ WordsAbout(m, x, "server") = IF m = l THEN said ELSE <<>>
      /\ WordsAbout(m, p, "client") = IF m = l THEN said ELSE <<>>
  BY <1>1, <1>2, <1>3
<1> QED
  BY <1>4 DEF x, p

\* What the server writes is read after what it has written before,
LEMMA OutWords ==
    ASSUME OutInv, NEW more \in Text, toPeer' = toPeer \o more, NEW l
    PROVE  WordsTo(l)' = WordsTo(l) \o WordsAbout(l, more, "server")
<1>1. PICK d, e : /\ d.state = "DATA" /\ e.state = "DATA"
                  /\ Decodes(Plain, d, toPeer, owedOutput, e)
  BY DEF OutInv
<1>2. Splits(l, "server", d, toPeer, more)
  <2>1. Plain \subseteq Parsers
    BY DEF Plain
  <2> QED
    BY <1>1, <2>1, WordsAppend
<1>3. BegunIn(d) = <<>>
  BY <1>1 DEF BegunIn, Negotiations
<1>4. toPeer \in Text
  BY <1>1, DecodesType
<1>5. <<>> \o toPeer = toPeer /\ <<>> \o (toPeer \o more) = toPeer \o more
  BY <1>4, TextConcat, TextEmpty
<1>6. WordsTo(l)' = WordsAbout(l, toPeer', "server")
  BY DEF WordsTo
<1> QED
  BY <1>2, <1>3, <1>5, <1>6, Zenon DEF Splits, WordsTo

\* as is what the client sends.
LEMMA RestGrows ==
    ASSUME TypeOK, UNCHANGED parserVars, NEW more \in Text, socket' = socket \o more
    PROVE  Rest' = Rest \o more
<1> DEFINE a == SubSeq(buffer, i, Len(buffer))
<1>1. a \in Text /\ socket \in Text
  <2>1. \A k \in i..Len(buffer) : buffer[k] \in Bytes
    BY TypesOf, ElementOfSeq DEF Text
  <2> QED
    BY TypesOf, <2>1, SubSeqProperties DEF Text
<1>2. Rest = a \o socket /\ Rest' = a \o (socket \o more)
  BY DEF Rest, parserVars
<1> HIDE DEF a
<1>3. (a \o socket) \o more = a \o (socket \o more)
  BY <1>1, TextAssociative
<1> QED
  BY <1>2, <1>3, Zenon

\* Words of the client follow those it has sent before.
LEMMA InWords ==
    ASSUME IInv, IInv', UNCHANGED parserVars,
           NEW more \in Text, socket' = socket \o more, NEW l
    PROVE  WordsFrom(l)' = WordsFrom(l) \o WordsAbout(l, more, "client")
<1>1. TypeOK /\ TypeOK' /\ Wire
  BY DEF IInv
<1>2. PICK text, e : e.state = "DATA" /\ Decodes(Parsers, Cur, Rest, text, e)
  BY <1>1 DEF Wire
<1> DEFINE c == Cur  r == Rest
<1>3. Splits(l, "client", c, r, more)
  <2>1. Decodes(Parsers, c, r, text, e) /\ Parsers \subseteq Parsers
    BY <1>2
  <2> HIDE DEF c, r
  <2> QED
    BY <1>2, <2>1, WordsAppend
<1>4. Unread = BegunIn(Cur) \o Rest /\ Unread' = BegunIn(Cur') \o Rest'
  BY <1>1, UnreadIs, UnreadNext
<1>5. Cur' = Cur
  BY DEF Cur, parserVars
<1>6. Rest' = Rest \o more
  BY <1>1, RestGrows
<1>7. Unread' = BegunIn(Cur) \o (Rest \o more)
  BY <1>4, <1>5, <1>6, Zenon
<1>8. WordsFrom(l)' = WordsAbout(l, Unread', "client")
  BY DEF WordsFrom
<1> QED
  BY <1>3, <1>4, <1>7, <1>8, Zenon DEF Splits, WordsFrom

-----------------------------------------------------------------------------
\* The step is one of TelnetNegotiate, or none.
Mapped == N!Next \/ UNCHANGED N!vars

\* Nothing that is on its way to the server changes, nor what the server says.
LEMMA ReadMaps ==
    ASSUME IInv, IInv', Rest' = Rest, Cur' = Cur, UNCHANGED <<readonly, q, peerQ, toPeer>>
    PROVE  UNCHANGED N!vars
<1>1. TypeOK /\ TypeOK'
  BY DEF IInv
<1>2. Unread = BegunIn(Cur) \o Rest /\ Unread' = BegunIn(Cur') \o Rest'
  BY <1>1, UnreadIs, UnreadNext
<1>3. Unread' = Unread
  BY <1>2, Zenon
<1>4. ASSUME NEW l \in Links PROVE WordsTo(l)' = WordsTo(l) /\ WordsFrom(l)' = WordsFrom(l)
  BY <1>3 DEF WordsTo, WordsFrom
<1> QED
  BY <1>4, Stutters

\* A log client's words are ignored.
LEMMA ReadReadonlyMaps ==
    ASSUME IInv, IInv', ReadReadonly
    PROVE  N!Next
<1>1. Rest' = <<>> /\ Cur'.state = "DATA" /\ TypeOK'
  BY ReadReadonlyStep DEF IInv
<1>2. Unread' = BegunIn(Cur') \o Rest'
  BY <1>1, UnreadNext
<1>3. BegunIn(Cur') = <<>>
  BY <1>1 DEF BegunIn, Negotiations
<1>4. Unread' = <<>>
  <2>1. <<>> \o <<>> = <<>>
    OBVIOUS
  <2> QED
    BY <1>1, <1>2, <1>3, <2>1, Zenon
<1>5. readonly /\ UNCHANGED <<readonly, q, peerQ, toPeer>>
  BY DEF ReadReadonly, clientVars
<1>6. ASSUME NEW l \in Links PROVE WordsTo(l)' = WordsTo(l) /\ WordsFrom(l)' = <<>>
  <2>1. WordsFrom(l)' = WordsAbout(l, Unread', "client")
    BY DEF WordsFrom
  <2>2. WordsFrom(l)' = <<>>
    BY <1>4, <2>1, WordsNone, Zenon
  <2> QED
    BY <1>5, <2>2 DEF WordsTo
<1> QED
  BY <1>5, <1>6, ServerIgnoresMaps

\* The option of a negotiation: the server receives a word.
LEMMA InNegotiationMaps ==
    ASSUME CutWrites = FALSE, IInv, IInv', OutInv, InNegotiation
    PROVE  N!Next
<1>1. /\ TypeOK /\ Wire /\ i <= Len(buffer) /\ state \in Negotiations /\ Take
      /\ UNCHANGED <<readonly, peerQ>>
  BY DEF IInv, InNegotiation, Take, clientVars
<1>2. buffer[i] \in Options /\ Cur.state = state
  <2>1. Regular(Cur, buffer[i]) /\ Cur.state = state
    BY <1>1, NextByte
  <2> QED
    BY <1>1, <2>1 DEF Regular
<1>3. ~readonly
  <2>1. buffer # <<>>
    BY <1>1, TypesOf
  <2> QED
    BY <1>1, <2>1 DEF Wire
<1>4. PICK l \in Links, word \in Word :
         l = ClientMeans(state, buffer[i]) /\ word = WordOf(state)
  <2>1. ClientMeans(state, buffer[i]) \in Links
    BY <1>2 DEF ClientMeans, Links
  <2> QED
    BY <2>1, WordOfType
<1>o. PICK o : o = N!Negotiated(l, q[l], word)
  OBVIOUS
<1> DEFINE pieces == [k \in DOMAIN o.said |-> FromServer(l, o.said[k])]
           more == FlattenSeq(pieces)
<1>5. o.said \in Said /\ q' = [q EXCEPT ![l] = o.state] /\ Write(pieces)
  <2>1. q[l] \in N!QStates
    BY <1>1, <1>4 DEF TypeOK
  <2> QED
    BY <1>4, <1>o, <2>1, NegotiatedTable DEF InNegotiation
<1>6. toPeer' = toPeer \o more
  <2> HIDE DEF pieces
  <2> QED
    BY <1>5 DEF Write, Written
<1>7. more \in Text /\ \A m : WordsAbout(m, more, "server") = IF m = l THEN o.said ELSE <<>>
  BY <1>5, SpokenText, WordsSaid, ZenonT(40)
<1>8. \A m : WordsFrom(m) = Learnt(m, Cur, buffer[i], "client") \o WordsFrom(m)'
  <2>1. Cur' = Fed(Cur, buffer[i])
    BY InNegotiationStep
  <2> QED
    BY <1>1, <2>1, ByteWords
<1>9. \A m : Learnt(m, Cur, buffer[i], "client") = IF m = l THEN <<word>> ELSE <<>>
  BY <1>1, <1>2, <1>4 DEF Learnt, Told, Means
<1>10. \A m : WordsTo(m)' = WordsTo(m) \o WordsAbout(m, more, "server")
  <2> HIDE DEF more
  <2> QED
    BY <1>6, <1>7, OutWords
<1>11. \A m : WordsTo(m) \in Seq(Word) /\ WordsFrom(m)' \in Seq(Word)
  BY <1>1, WordsTypes, WordsTypesNext DEF IInv
<1> HIDE DEF more
<1>12. WordsFrom(l) = <<word>> \o WordsFrom(l)'
  <2>1. Learnt(l, Cur, buffer[i], "client") = <<word>>
    BY <1>9
  <2>2. WordsFrom(l) = Learnt(l, Cur, buffer[i], "client") \o WordsFrom(l)'
    BY <1>8
  <2> QED
    BY <2>1, <2>2, Zenon
<1>13. WordsTo(l)' = WordsTo(l) \o o.said
  <2>1. WordsAbout(l, more, "server") = o.said
    BY <1>7
  <2>2. WordsTo(l)' = WordsTo(l) \o WordsAbout(l, more, "server")
    BY <1>10
  <2> QED
    BY <2>1, <2>2, Zenon
<1>14. OthersSame(l)
  <2> SUFFICES ASSUME NEW m \in Links, m # l
               PROVE  WordsTo(m)' = WordsTo(m) /\ WordsFrom(m)' = WordsFrom(m)
    BY DEF OthersSame
  <2>1. WordsTo(m)' = WordsTo(m) \o <<>> /\ WordsFrom(m) = <<>> \o WordsFrom(m)'
    BY <1>7, <1>8, <1>9, <1>10, Zenon
  <2>2. WordsTo(m) \o <<>> = WordsTo(m) /\ <<>> \o WordsFrom(m)' = WordsFrom(m)'
    BY <1>11, ConcatEmptySeq
  <2> QED
    BY <2>1, <2>2, Zenon
<1> QED
  BY <1>1, <1>3, <1>4, <1>5, <1>11, <1>12, <1>13, <1>14, <1>o, ServerReceivesMaps

\* Text says nothing, whatever bytes it has,
LEMMA EscapeSaysNothing ==
    ASSUME NEW l, NEW s, NEW text \in Text
    PROVE  Escape(text) \in Text /\ WordsAbout(l, Escape(text), s) = <<>>
<1> DEFINE d == [state |-> "DATA", option |-> "NONE", pos |-> 0]
<1>1. d \in Quiet /\ d \in Parsers /\ [d EXCEPT !.state = "IAC"] \in Quiet /\ d.state = "DATA"
  BY BoundsAssumption DEF Quiet, Parsers, Places, Negotiations
<1> HIDE DEF d
<1>2. Decodes(Quiet, d, Escape(text), text, d)
  BY <1>1, EscapeDecodes
<1>3. Escape(text) \in Text
  BY <1>2, DecodesType
<1>4. WordsAbout(l, BegunIn(d) \o Escape(text), s) = <<>>
  BY <1>1, <1>2, WordsQuiet
<1>5. BegunIn(d) = <<>>
  BY <1>1 DEF BegunIn, Negotiations
<1>6. <<>> \o Escape(text) = Escape(text)
  BY <1>3, TextEmpty
<1> QED
  BY <1>3, <1>4, <1>5, <1>6, Zenon

\* nor does anything that a client sends of its own accord.
LEMMA UnitSaysNothing ==
    ASSUME NEW l, NEW s, NEW unit \in Units
    PROVE  unit.bytes \in Text /\ WordsAbout(l, unit.bytes, s) = <<>>
<1> DEFINE d == [state |-> "DATA", option |-> "NONE", pos |-> 0]
<1>1. d \in Parsers /\ d.state = "DATA"
  BY BoundsAssumption DEF Parsers, Places
<1> HIDE DEF d
<1>2. PICK e \in Parsers : e.state = "DATA" /\ Decodes(Quiet, d, unit.bytes, unit.text, e)
  BY <1>1, UnitDecodes
<1>3. unit.bytes \in Text
  BY <1>2, DecodesType
<1>4. WordsAbout(l, BegunIn(d) \o unit.bytes, s) = <<>>
  BY <1>2, WordsQuiet
<1>5. BegunIn(d) = <<>>
  BY <1>1 DEF BegunIn, Negotiations
<1>6. <<>> \o unit.bytes = unit.bytes
  BY <1>3, TextEmpty
<1> QED
  BY <1>3, <1>4, <1>5, <1>6, Zenon

\* So output does not disturb a negotiation,
LEMMA SendOutputMaps ==
    ASSUME CutWrites = FALSE, IInv, OutInv, SendOutput
    PROVE  UNCHANGED N!vars
<1>1. PICK text \in Outputs : Write([k \in DOMAIN text |-> Escape(<<text[k]>>)])
  BY DEF SendOutput
<1>2. text \in Text /\ TypeOK
  BY BytesAssumption DEF Text, IInv
<1> DEFINE pieces == [k \in DOMAIN text |-> Escape(<<text[k]>>)]
<1>3. Write(pieces) /\ FlattenSeq(pieces) = Escape(text)
  BY <1>1, <1>2, EscapePieces
<1> HIDE DEF pieces
<1>4. toPeer' = toPeer \o Escape(text)
  BY <1>3 DEF Write, Written
<1>5. UNCHANGED <<readonly, q, peerQ>> /\ Unread' = Unread
  BY DEF SendOutput, clientVars, parserVars, Unread, Begun
<1>6. ASSUME NEW l \in Links PROVE WordsTo(l)' = WordsTo(l) /\ WordsFrom(l)' = WordsFrom(l)
  <2>1. Escape(text) \in Text /\ WordsAbout(l, Escape(text), "server") = <<>>
    BY <1>2, EscapeSaysNothing
  <2>2. WordsTo(l)' = WordsTo(l) \o WordsAbout(l, Escape(text), "server")
    BY <1>4, <2>1, OutWords
  <2>3. WordsTo(l) \o <<>> = WordsTo(l)
    BY <1>2, WordsTypes, ConcatEmptySeq
  <2>4. WordsTo(l)' = WordsTo(l)
    BY <2>1, <2>2, <2>3, Zenon
  <2> QED
    BY <1>5, <2>4 DEF WordsFrom
<1> QED
  BY <1>5, <1>6, Stutters

\* nor does input.
LEMMA PeerTypesMaps ==
    ASSUME Inputs \subseteq Units, IInv, IInv', PeerTypes
    PROVE  UNCHANGED N!vars
<1>1. PICK unit \in Inputs : socket' = socket \o unit.bytes
  BY DEF PeerTypes
<1>2. UNCHANGED parserVars /\ UNCHANGED <<readonly, q, peerQ, toPeer>> /\ TypeOK
  BY DEF PeerTypes, clientVars, IInv
<1>3. ASSUME NEW l \in Links PROVE WordsTo(l)' = WordsTo(l) /\ WordsFrom(l)' = WordsFrom(l)
  <2>1. unit.bytes \in Text /\ WordsAbout(l, unit.bytes, "client") = <<>>
    BY UnitSaysNothing
  <2>2. WordsFrom(l)' = WordsFrom(l) \o WordsAbout(l, unit.bytes, "client")
    BY <1>1, <1>2, <2>1, InWords
  <2>3. WordsFrom(l) \o <<>> = WordsFrom(l)
    BY <1>2, WordsTypes, ConcatEmptySeq
  <2>4. WordsFrom(l)' = WordsFrom(l)
    BY <2>1, <2>2, <2>3, Zenon
  <2> QED
    BY <1>2, <2>4 DEF WordsTo
<1> QED
  BY <1>2, <1>3, Stutters

\* The client's words about a link.
LEMMA PeerSaysWords ==
    ASSUME IInv, IInv', UNCHANGED parserVars,
           NEW l \in Links, NEW o, o.said \in Said, PeerSays(l, o)
    PROVE  /\ WordsFrom(l)' = WordsFrom(l) \o o.said
           /\ \A m : m # l => WordsFrom(m)' = WordsFrom(m)
<1> DEFINE more == FlattenSeq([k \in DOMAIN o.said |-> FromPeer(l, o.said[k])])
<1>1. socket' = socket \o more
  BY DEF PeerSays
<1>2. more \in Text /\ \A m : WordsAbout(m, more, "client") = IF m = l THEN o.said ELSE <<>>
  BY SpokenText, WordsSaid, ZenonT(40)
<1> HIDE DEF more
<1>3. \A m : WordsFrom(m)' = WordsFrom(m) \o WordsAbout(m, more, "client")
  BY <1>1, <1>2, InWords
<1>4. WordsFrom(l)' = WordsFrom(l) \o o.said
  <2>1. WordsAbout(l, more, "client") = o.said
    BY <1>2
  <2>2. WordsFrom(l)' = WordsFrom(l) \o WordsAbout(l, more, "client")
    BY <1>3
  <2> QED
    BY <2>1, <2>2, Zenon
<1>5. ASSUME NEW m, m # l PROVE WordsFrom(m)' = WordsFrom(m)
  <2>1. WordsAbout(m, more, "client") = <<>>
    BY <1>2, <1>5
  <2>2. WordsFrom(m)' = WordsFrom(m) \o WordsAbout(m, more, "client")
    BY <1>3
  <2>3. WordsFrom(m) \o <<>> = WordsFrom(m)
    BY WordsTypes, ConcatEmptySeq DEF IInv
  <2> QED
    BY <2>1, <2>2, <2>3, Zenon
<1> QED
  BY <1>4, <1>5

\* The client asks.
LEMMA PeerAsksStepMaps ==
    ASSUME IInv, IInv', PeerAsks
    PROVE  N!Next
<1>1. PICK l \in Links : \E o \in N!PeerRequests(peerQ[l]) : PeerSays(l, o)
  BY DEF PeerAsks
<1>2. PICK o \in N!PeerRequests(peerQ[l]) : PeerSays(l, o)
  BY <1>1
<1>3. o.said \in Said
  <2>1. peerQ[l] \in PeerStates /\ "yes" \in {"yes", "no"}
    BY DEF IInv
  <2> QED
    BY <1>2, <2>1, PeerTable
<1>4. UNCHANGED <<readonly, parserVars, q, toPeer>>
  BY DEF PeerAsks
<1>5. /\ WordsFrom(l)' = WordsFrom(l) \o o.said
      /\ \A m : m # l => WordsFrom(m)' = WordsFrom(m)
  BY <1>2, <1>3, <1>4, PeerSaysWords
<1>6. \A m : WordsTo(m)' = WordsTo(m)
  BY <1>4 DEF WordsTo
<1>7. peerQ' = [peerQ EXCEPT ![l] = o.state]
  BY <1>2 DEF PeerSays
<1>8. OthersSame(l)
  BY <1>5, <1>6 DEF OthersSame
<1> QED
  BY <1>2, <1>4, <1>5, <1>6, <1>7, <1>8, PeerAsksMaps

\* Behind a command of the server there is an option.
LEMMA PeerHearsOption ==
    ASSUME TypeOK, OutInv, PeerHas(3), toPeer[1] = "IAC", toPeer[2] \in Negotiations
    PROVE  toPeer[3] \in Options
<1> DEFINE a == toPeer[1]
           b == toPeer[2]
           c == toPeer[3]
           s == <<c>> \o toPeer'
           r == <<b>> \o s
<1>1. PICK d, e : d.state = "DATA" /\ Decodes(Plain, d, toPeer, owedOutput, e)
  BY DEF OutInv
<1>2. /\ toPeer' \in Text /\ a \in Bytes /\ b \in Bytes /\ c \in Bytes
      /\ toPeer = <<a>> \o r
  <2>1. 3 \in 1..3 /\ 1 \in 1..3 /\ 2 \in 1..3
    OBVIOUS
  <2> QED
    BY <2>1, PeerTakes
<1>3. a = "IAC" /\ b \in Negotiations
  OBVIOUS
<1>4. s \in Text
  BY <1>2, FirstByte
<1> HIDE DEF a, b, c, s
<1>5. r \in Text
  BY <1>2, <1>4, FirstByte
<1> HIDE DEF r
<1>6. Decodes(Plain, d, <<a>> \o r, owedOutput, e)
  BY <1>1, <1>2, Zenon
<1>7. PICK f : f.state = "IAC" /\ Decodes(Plain, f, r, owedOutput, e)
  BY <1>1, <1>2, <1>3, <1>5, <1>6, PlainDecodes
<1>8. Decodes(Plain, f, <<b>> \o s, owedOutput, e)
  BY <1>7, Zenon DEF r
<1>9. PICK g, u : /\ g.state = IF b \in Negotiations THEN b ELSE "DATA"
                  /\ Decodes(Plain, g, s, u, e)
  <2>1. BehindIac(b, s, owedOutput, e)
    BY <1>2, <1>4, <1>7, <1>8, PlainDecodes
  <2> QED
    BY <2>1 DEF BehindIac
<1>10. Decodes(Plain, g, <<c>> \o toPeer', u, e) /\ g.state \in Negotiations
  <2>1. Decodes(Plain, g, <<c>> \o toPeer', u, e)
    BY <1>9, Zenon DEF s
  <2> QED
    BY <1>3, <1>9, <2>1
<1>11. c \in Options
  BY <1>2, <1>10, PlainDecodes
<1> QED
  BY <1>11 DEF c

\* A byte, or a pair, that is not a command is taken without a word.
LEMMA PeerHearsText ==
    ASSUME TypeOK, NEW n \in {1, 2}, PeerHas(n),
           n = 1 => toPeer[1] # "IAC",
           n = 2 => toPeer[1] = "IAC" /\ toPeer[2] \notin Negotiations, NEW l
    PROVE  WordsTo(l)' = WordsTo(l)
<1> DEFINE a == toPeer[1]
           b == toPeer[2]
           r == toPeer'
<1>1. n \in 1..3 /\ (n = 1 => 1 \in 1..n) /\ (n = 2 => 1 \in 1..n /\ 2 \in 1..n)
  OBVIOUS
<1>2. /\ r \in Text /\ \A k \in 1..n : toPeer[k] \in Bytes
      /\ n = 1 => toPeer = <<a>> \o r
      /\ n = 2 => toPeer = <<a>> \o (<<b>> \o r)
  BY <1>1, PeerTakes
<1>3. WordsTo(l)' = WordsAbout(l, r, "server") /\ WordsTo(l) = WordsAbout(l, toPeer, "server")
  BY DEF WordsTo
<1>4. CASE n = 1
  <2>1. a \in Bytes /\ a # "IAC" /\ toPeer = <<a>> \o r
    BY <1>1, <1>2, <1>4
  <2> HIDE DEF a, r
  <2>2. WordsAbout(l, <<a>> \o r, "server") = WordsAbout(l, r, "server")
    BY <1>2, <2>1, DropOne
  <2> QED
    BY <1>3, <2>1, <2>2, Zenon
<1>5. CASE n = 2
  <2>1. /\ b \in Bytes /\ a = "IAC" /\ b \notin Negotiations
        /\ toPeer = <<a>> \o (<<b>> \o r)
    BY <1>1, <1>2, <1>5
  <2> HIDE DEF a, b, r
  <2>2. WordsAbout(l, <<"IAC">> \o (<<b>> \o r), "server") = WordsAbout(l, r, "server")
    BY <1>2, <2>1, DropTwo
  <2> QED
    BY <1>3, <2>1, <2>2, Zenon
<1> QED
  BY <1>4, <1>5

\* A command is taken with its word.
LEMMA PeerHearsCommand ==
    ASSUME TypeOK, OutInv, PeerHas(3), toPeer[1] = "IAC", toPeer[2] \in Negotiations, NEW l
    PROVE  WordsTo(l) = Told(l, toPeer[2], toPeer[3], "server") \o WordsTo(l)'
<1> DEFINE a == toPeer[1]
           b == toPeer[2]
           c == toPeer[3]
           r == toPeer'
<1>1. r \in Text /\ toPeer = <<a>> \o (<<b>> \o (<<c>> \o r)) /\ c \in Bytes
  <2>1. 3 \in 1..3
    OBVIOUS
  <2> QED
    BY <2>1, PeerTakes
<1>2. WordsTo(l)' = WordsAbout(l, r, "server") /\ WordsTo(l) = WordsAbout(l, toPeer, "server")
  BY DEF WordsTo
<1>3. c # "IAC" /\ a = "IAC" /\ b \in Negotiations
  BY PeerHearsOption, BytesAssumption
<1> HIDE DEF a, b, c, r
<1>4. WordsAbout(l, <<"IAC">> \o (<<b>> \o (<<c>> \o r)), "server")
         = Told(l, b, c, "server") \o WordsAbout(l, r, "server")
  BY <1>1, <1>3, DropThree
<1>5. WordsTo(l) = Told(l, b, c, "server") \o WordsTo(l)'
  BY <1>1, <1>2, <1>3, <1>4, Zenon
<1> QED
  BY <1>5, Zenon DEF b, c

\* The client reads: it receives a word, or nothing happens.
LEMMA PeerReadsMaps ==
    ASSUME IInv, IInv', OutInv, PeerReads
    PROVE  Mapped
<1>1. /\ TypeOK /\ TypeOK' /\ peerQ \in [Links -> PeerStates]
      /\ UNCHANGED <<readonly, parserVars, q>>
  BY DEF IInv, PeerReads
<1>2. ASSUME UNCHANGED <<socket, peerQ>>, \A l \in Links : WordsTo(l)' = WordsTo(l)
      PROVE  Mapped
  <2>1. Unread' = Unread
    BY <1>1, <1>2 DEF Unread, Begun, parserVars
  <2>2. ASSUME NEW l \in Links
        PROVE  WordsTo(l)' = WordsTo(l) /\ WordsFrom(l)' = WordsFrom(l)
    BY <1>2, <2>1 DEF WordsFrom
  <2>3. UNCHANGED <<readonly, q, peerQ>>
    BY <1>1, <1>2
  <2> QED
    BY <2>2, <2>3, Stutters DEF Mapped
<1>3. CASE PeerHas(1) /\ toPeer[1] # "IAC" /\ PeerSees(<<toPeer[1]>>)
  <2>1. UNCHANGED <<socket, peerQ>>
    BY <1>3 DEF PeerSees
  <2>2. \A l \in Links : WordsTo(l)' = WordsTo(l)
    BY <1>1, <1>3, PeerHearsText
  <2> QED
    BY <1>2, <2>1, <2>2
<1>4. CASE /\ PeerHas(2) /\ toPeer[1] = "IAC" /\ toPeer[2] \notin Negotiations
           /\ PeerSees(IF toPeer[2] = "IAC" THEN <<"IAC">> ELSE <<>>)
  <2>1. UNCHANGED <<socket, peerQ>>
    BY <1>4 DEF PeerSees
  <2>2. \A l \in Links : WordsTo(l)' = WordsTo(l)
    BY <1>1, <1>4, PeerHearsText
  <2> QED
    BY <1>2, <2>1, <2>2
<1>5. ASSUME PeerHas(3), toPeer[1] = "IAC", toPeer[2] \in Negotiations,
             LET l == ServerMeans(toPeer[2], toPeer[3])
             IN  IF l \in Links
                 THEN \E o \in N!PeerOutcomes(peerQ[l], WordOf(toPeer[2])) : PeerSays(l, o)
                 ELSE UNCHANGED <<socket, peerQ>>
      PROVE  N!Next
  <2>1. PICK l \in Links : l = ServerMeans(toPeer[2], toPeer[3])
    <3>1. toPeer[3] \in Options
      BY <1>1, <1>5, PeerHearsOption
    <3>2. ServerMeans(toPeer[2], toPeer[3]) \in Links
      BY <3>1 DEF ServerMeans, Links
    <3> QED
      BY <3>2
  <2>2. PICK word \in Word : word = WordOf(toPeer[2])
    BY WordOfType
  <2>3. PICK o \in N!PeerOutcomes(peerQ[l], word) : PeerSays(l, o)
    BY <1>5, <2>1, <2>2
  <2>4. o.said \in Said
    <3>1. peerQ[l] \in PeerStates /\ word \in {"yes", "no"}
      BY <1>1 DEF Word
    <3> QED
      BY <2>3, <3>1, PeerTable
  <2>5. /\ WordsFrom(l)' = WordsFrom(l) \o o.said
        /\ \A m : m # l => WordsFrom(m)' = WordsFrom(m)
    BY <1>1, <2>3, <2>4, PeerSaysWords
  <2>6. \A m : WordsTo(m) = Told(m, toPeer[2], toPeer[3], "server") \o WordsTo(m)'
    BY <1>1, <1>5, PeerHearsCommand
  <2>7. \A m : Told(m, toPeer[2], toPeer[3], "server") = IF m = l THEN <<word>> ELSE <<>>
    BY <2>1, <2>2 DEF Told, Means
  <2>8. \A m : WordsTo(m)' \in Seq(Word)
    BY <1>1, WordsTypesNext
  <2>9. WordsTo(l) = <<word>> \o WordsTo(l)'
    <3>1. Told(l, toPeer[2], toPeer[3], "server") = <<word>>
      BY <2>7
    <3>2. WordsTo(l) = Told(l, toPeer[2], toPeer[3], "server") \o WordsTo(l)'
      BY <2>6
    <3> QED
      BY <3>1, <3>2, Zenon
  <2>10. OthersSame(l)
    <3> SUFFICES ASSUME NEW m \in Links, m # l
                 PROVE  WordsTo(m)' = WordsTo(m) /\ WordsFrom(m)' = WordsFrom(m)
      BY DEF OthersSame
    <3>1. WordsTo(m) = <<>> \o WordsTo(m)'
      BY <2>6, <2>7, Zenon
    <3>2. <<>> \o WordsTo(m)' = WordsTo(m)'
      BY <2>8, ConcatEmptySeq
    <3> QED
      BY <2>5, <3>1, <3>2
  <2>11. peerQ' = [peerQ EXCEPT ![l] = o.state] /\ UNCHANGED <<readonly, q>>
    BY <1>1, <2>3 DEF PeerSays
  <2> QED
    BY <2>3, <2>5, <2>8, <2>9, <2>10, <2>11, PeerReceivesMaps
<1> QED
  BY <1>3, <1>4, <1>5 DEF PeerReads, Mapped

\* Every step is one of TelnetNegotiate, or none.
LEMMA NextMaps ==
    ASSUME CutWrites = FALSE, Inputs \subseteq Units
    PROVE  IInv /\ IInv' /\ OutInv /\ [Next]_vars => [N!Next]_N!vars
<1> SUFFICES ASSUME IInv, IInv', OutInv, [Next]_vars PROVE Mapped
  BY DEF Mapped
<1>1. CASE Read
  <2>1. Rest' = Rest /\ Cur' = Cur
    BY <1>1, ReadStep
  <2>2. UNCHANGED <<readonly, q, peerQ, toPeer>>
    BY <1>1 DEF Read, clientVars
  <2> QED
    BY <2>1, <2>2, ReadMaps DEF Mapped
<1>2. CASE ReadReadonly
  BY <1>2, ReadReadonlyMaps DEF Mapped
<1>3. ASSUME Take, Cur' = Fed(Cur, buffer[i]), state \notin Negotiations,
             UNCHANGED <<q, toPeer>>
      PROVE  Mapped
  BY <1>3, SilentWords DEF Mapped
<1>4. CASE InData
  <2>1. Cur' = Fed(Cur, buffer[i])
    BY <1>4, InDataStep
  <2> QED
    BY <1>3, <1>4, <2>1 DEF InData, Negotiations
<1>5. CASE InIac
  <2>1. Cur' = Fed(Cur, buffer[i])
    BY <1>5, InIacStep
  <2> QED
    BY <1>3, <1>5, <2>1 DEF InIac, Negotiations
<1>6. CASE InNegotiation
  BY <1>6, InNegotiationMaps DEF Mapped
<1>7. CASE InSb
  <2>1. Cur' = Fed(Cur, buffer[i])
    BY <1>7, InSbStep
  <2> QED
    BY <1>3, <1>7, <2>1 DEF InSb, Negotiations
<1>8. CASE InSbData
  <2>1. Cur' = Fed(Cur, buffer[i])
    BY <1>8, InSbDataStep
  <2> QED
    BY <1>3, <1>8, <2>1 DEF InSbData, Negotiations
<1>9. CASE InSbDataIac
  <2>1. Cur' = Fed(Cur, buffer[i])
    BY <1>9, InSbDataIacStep
  <2> QED
    BY <1>3, <1>9, <2>1 DEF InSbDataIac, Negotiations
<1>10. CASE EndOfBuffer
  <2>1. Rest' = Rest /\ Cur' = Cur
    BY <1>10, EndOfBufferStep
  <2>2. UNCHANGED <<readonly, q, peerQ, toPeer>>
    BY <1>10 DEF EndOfBuffer, clientVars
  <2> QED
    BY <2>1, <2>2, ReadMaps DEF Mapped
<1>11. CASE SendOutput
  BY <1>11, SendOutputMaps DEF Mapped
<1>12. CASE PeerTypes
  BY <1>12, PeerTypesMaps DEF Mapped
<1>13. CASE PeerAsks
  BY <1>13, PeerAsksStepMaps DEF Mapped
<1>14. CASE PeerReads
  BY <1>14, PeerReadsMaps
<1>15. CASE UNCHANGED vars
  <2>1. UNCHANGED <<readonly, q, peerQ, toPeer>> /\ Unread' = Unread
    BY <1>15 DEF vars, clientVars, parserVars, Unread, Begun
  <2>2. ASSUME NEW l \in Links
        PROVE  WordsTo(l)' = WordsTo(l) /\ WordsFrom(l)' = WordsFrom(l)
    BY <2>1 DEF WordsTo, WordsFrom
  <2> QED
    BY <2>1, <2>2, Stutters DEF Mapped
<1> QED
  BY <1>1, <1>2, <1>4, <1>5, <1>6, <1>7, <1>8, <1>9, <1>10, <1>11, <1>12, <1>13,
     <1>14, <1>15 DEF Next, Server, Process

-----------------------------------------------------------------------------
\* Words behind whole commands are read as if they stood alone.
LEMMA WholeWords ==
    ASSUME NEW l, NEW s, NEW x \in Text, NEW more \in Text, Whole(Plain, x, <<>>)
    PROVE  WordsAbout(l, x \o more, s) = WordsAbout(l, x, s) \o WordsAbout(l, more, s)
<1> DEFINE d == [state |-> "DATA", option |-> "NONE", pos |-> 0]
<1>1. d \in Plain /\ d.state = "DATA"
  BY BoundsAssumption DEF Plain, Parsers, Places
<1> HIDE DEF d
<1>2. PICK e : e.state = "DATA" /\ Decodes(Plain, d, x, <<>>, e)
  BY <1>1 DEF Whole
<1>3. Splits(l, s, d, x, more)
  <2>1. Plain \subseteq Parsers
    BY DEF Plain
  <2> QED
    BY <1>2, <2>1, WordsAppend
<1>4. BegunIn(d) = <<>>
  BY <1>1 DEF BegunIn, Negotiations
<1>5. <<>> \o x = x /\ <<>> \o (x \o more) = x \o more
  BY TextConcat, TextEmpty
<1> QED
  BY <1>3, <1>4, <1>5, Zenon DEF Splits

\* A greeting says "yes" of its link, and of no other,
LEMMA GreetingWords ==
    ASSUME NEW l \in Supported
    PROVE  /\ FromServer(l, "yes") \in Text
           /\ Whole(Plain, FromServer(l, "yes"), <<>>)
           /\ \A m : WordsAbout(m, FromServer(l, "yes"), "server")
                        = IF m = l THEN <<"yes">> ELSE <<>>
<1> DEFINE said == <<"yes">>
           x == FlattenSeq([k \in DOMAIN said |-> FromServer(l, said[k])])
<1>1. l \in Links /\ said \in Said /\ "yes" \in {"yes", "no"}
  BY SupportedAssumption DEF Links, Said
<1> HIDE DEF said
<1>2. x = FromServer(l, "yes")
  <2>1. said = <<"yes">>
    BY DEF said
  <2> QED
    BY <1>1, <2>1, Spoken
<1>3. x \in Text /\ Whole(Plain, x, <<>>)
  BY <1>1, SpokenText, SpokenWhole
<1>4. ASSUME NEW m PROVE WordsAbout(m, x, "server") = IF m = l THEN said ELSE <<>>
  BY <1>1, WordsSaid, ZenonT(40)
<1> HIDE DEF x
<1> QED
  BY <1>2, <1>3, <1>4, Zenon DEF said

\* and so all of them say "yes" once of each that is supported.
LEMMA GreetingsWords ==
    ASSUME NEW m
    PROVE  WordsAbout(m, FlattenSeq(SetToSeq(Greetings)), "server")
              = IF m \in Supported THEN <<"yes">> ELSE <<>>
<1> DEFINE seqs == SetToSeq(Greetings)
           n == Len(seqs)
           W(x) == WordsAbout(m, x, "server")
<1>1. /\ seqs \in Seq(Text) /\ seqs \in Seq(Greetings)
      /\ \A j, k \in 1..n : seqs[j] = seqs[k] => j = k
      /\ \A x \in Greetings : \E k \in 1..n : seqs[k] = x
  BY GreetingsText, GreetingsSeq
<1> HIDE DEF seqs
<1>2. n \in Nat
  BY <1>1
<1>3. PICK g : Flattens(seqs, g)
  BY <1>1, FlattenSteps
<1> DEFINE h == [k \in 1..n |-> CHOOSE l \in Supported : seqs[k] = FromServer(l, "yes")]
<1>4. \A k \in 1..n : h[k] \in Supported /\ seqs[k] = FromServer(h[k], "yes")
  <2>1. \A k \in 1..n : seqs[k] \in Greetings
    BY <1>1, ElementOfSeq
  <2> QED
    BY <2>1 DEF Greetings
<1> HIDE DEF h
<1>5. \A j, k \in 1..n : h[j] = h[k] => j = k
  BY <1>1, <1>4
<1>6. \A l \in Supported : \E k \in 1..n : h[k] = l
  <2> SUFFICES ASSUME NEW l \in Supported PROVE \E k \in 1..n : h[k] = l
    OBVIOUS
  <2>1. PICK k \in 1..n : seqs[k] = FromServer(l, "yes")
    BY <1>1 DEF Greetings
  <2>2. h[k] = l
    <3>1. /\ h[k] \in Supported /\ FromServer(h[k], "yes") = FromServer(l, "yes")
      BY <1>4, <2>1
    <3>2. /\ W(FromServer(l, "yes")) = W(FromServer(h[k], "yes"))
      BY <3>1, Zenon
    <3>3. WordsAbout(l, FromServer(h[k], "yes"), "server")
             = IF l = h[k] THEN <<"yes">> ELSE <<>>
      BY <3>1, GreetingWords
    <3>4. WordsAbout(l, FromServer(l, "yes"), "server") = <<"yes">>
      BY GreetingWords
    <3>5. <<"yes">> # <<>>
      OBVIOUS
    <3> QED
      BY <3>1, <3>3, <3>4, <3>5, Zenon
  <2> QED
    BY <2>2
<1> DEFINE Greeted(k) == \E j \in 1..k : h[j] = m
           T == {k \in Nat : k <= n => /\ Whole(Plain, g[k], <<>>)
                                      /\ W(g[k]) = IF Greeted(k) THEN <<"yes">> ELSE <<>>}
<1>7. 0 \in T
  <2>1. g[0] = <<>>
    BY <1>3 DEF Flattens
  <2>2. \A d \in Plain : Decodes(Plain, d, <<>>, <<>>, d)
    BY DecodesNothing
  <2>3. Whole(Plain, <<>>, <<>>)
    BY <2>2 DEF Whole
  <2>4. Whole(Plain, g[0], <<>>) /\ W(g[0]) = <<>>
    BY <2>1, <2>3, WordsNone, Zenon
  <2>5. ~Greeted(0)
    OBVIOUS
  <2> QED
    BY <2>4, <2>5
<1>8. ASSUME NEW k \in Nat, k \in T PROVE k + 1 \in T
  <2>1. SUFFICES ASSUME k + 1 <= n
                 PROVE  /\ Whole(Plain, g[k + 1], <<>>)
                        /\ W(g[k + 1]) = IF Greeted(k + 1) THEN <<"yes">> ELSE <<>>
    OBVIOUS
  <2>2. k + 1 \in 1..n /\ (k + 1) - 1 = k /\ k \in 0..n
    BY <1>2, <2>1
  <2> DEFINE a == g[k]  b == seqs[k + 1]  l == h[k + 1]
  <2>3. g[k + 1] = a \o b /\ a \in Text
    BY <1>3, <2>2 DEF Flattens
  <2>4. /\ b \in Text /\ Whole(Plain, b, <<>>)
        /\ W(b) = IF m = l THEN <<"yes">> ELSE <<>>
    <3>1. l \in Supported /\ b = FromServer(l, "yes")
      BY <1>4, <2>2
    <3> HIDE DEF l, b
    <3>2. /\ FromServer(l, "yes") \in Text
          /\ Whole(Plain, FromServer(l, "yes"), <<>>)
          /\ W(FromServer(l, "yes")) = IF m = l THEN <<"yes">> ELSE <<>>
      BY <3>1, GreetingWords
    <3> QED
      BY <3>1, <3>2, Zenon
  <2>5. Whole(Plain, a, <<>>) /\ W(a) = IF Greeted(k) THEN <<"yes">> ELSE <<>>
    BY <1>2, <1>8, <2>1
  <2>6. m = l => ~Greeted(k)
    <3>1. ASSUME NEW j \in 1..k PROVE h[j] # h[k + 1]
      <4>1. j \in 1..n /\ j # k + 1
        BY <1>2, <2>1
      <4> QED
        BY <1>5, <2>2, <4>1
    <3> QED
      BY <3>1
  <2>7. Greeted(k + 1) <=> Greeted(k) \/ m = l
    BY <2>2
  <2> HIDE DEF a, b, l, Greeted
  <2>8. Whole(Plain, a \o b, <<>> \o <<>>)
    BY <2>4, <2>5, WholeConcat
  <2>9. W(a \o b) = W(a) \o W(b)
    BY <2>3, <2>4, <2>5, WholeWords
  <2>10. /\ <<>> \o <<>> = <<>> /\ <<"yes">> \o <<>> = <<"yes">>
         /\ <<>> \o <<"yes">> = <<"yes">>
    OBVIOUS
  <2>11. Whole(Plain, g[k + 1], <<>>)
    BY <2>3, <2>8, <2>10, Zenon
  <2>12. W(g[k + 1]) = IF Greeted(k + 1) THEN <<"yes">> ELSE <<>>
    <3>1. CASE m = l
      BY <2>3, <2>4, <2>5, <2>6, <2>7, <2>9, <2>10, <3>1, Zenon
    <3>2. CASE m # l
      BY <2>3, <2>4, <2>5, <2>7, <2>9, <2>10, <3>2, Zenon
    <3> QED
      BY <3>1, <3>2
  <2> QED
    BY <2>11, <2>12
<1> HIDE DEF T
<1>9. \A k \in Nat : k \in T
  BY <1>7, <1>8, SetInduction
<1>10. W(g[n]) = IF Greeted(n) THEN <<"yes">> ELSE <<>>
  BY <1>2, <1>9 DEF T
<1>11. Greeted(n) <=> m \in Supported
  BY <1>4, <1>6
<1>12. FlattenSeq(seqs) = g[n]
  BY <1>3 DEF Flattens
<1> HIDE DEF Greeted
<1> QED
  BY <1>10, <1>11, <1>12, Zenon DEF seqs

\* The connection begins as TelnetNegotiate does.
LEMMA InitMaps == Init => N!Init
<1> SUFFICES ASSUME Init PROVE N!Init
  OBVIOUS
<1>1. /\ readonly \in BOOLEAN /\ q = [l \in Links |-> N!Opening(l).state]
      /\ peerQ = [l \in Links |-> "NO"]
      /\ toPeer = FlattenSeq(SetToSeq(Greetings))
  BY DEF Init, Greetings
<1>2. TypeOK
  BY InitIInv DEF IInv
<1>3. ASSUME NEW l \in Links PROVE WordsTo(l) = N!Opening(l).said
  <2>1. WordsTo(l) = WordsAbout(l, FlattenSeq(SetToSeq(Greetings)), "server")
    BY <1>1, Zenon DEF WordsTo
  <2>2. WordsTo(l) = IF l \in Supported THEN <<"yes">> ELSE <<>>
    BY <2>1, GreetingsWords, Zenon
  <2>3. N!Opening(l).said = IF l \in Supported THEN <<"yes">> ELSE <<>>
    BY DEF N!Opening, N!Requested, N!Outcome
  <2> QED
    BY <2>2, <2>3
<1>4. Unread = <<>>
  <2>1. buffer = <<>> /\ i = 1 /\ socket = <<>> /\ Begun = <<>>
    BY DEF Init, Begun, Negotiations
  <2>2. SubSeq(buffer, i, Len(buffer)) = <<>>
    BY <2>1
  <2>3. <<>> \o <<>> = <<>>
    OBVIOUS
  <2> QED
    BY <2>1, <2>2, <2>3, Zenon DEF Unread
<1>5. \A l \in Links : WordsFrom(l) = <<>>
  BY <1>4, WordsNone DEF WordsFrom
<1> QED
  BY <1>1, <1>3, <1>5, SameLinks DEF N!Init, WordsTo, WordsFrom

\* The bytes implement TelnetNegotiate: wherever reads end, and whatever text
\* and subnegotiations come in between, no command is lost, made up or taken for
\* another.  Under the same premises as OutputCorrect; a write that is cut off
\* does lose commands.
THEOREM Negotiation ==
    ASSUME CutWrites = FALSE, Inputs \subseteq Units
    PROVE  Spec => Negotiates
<1>1. Init => IInv /\ OutInv /\ N!Init
  BY InitIInv, InitOut, InitMaps
<1>2. IInv /\ OutInv /\ [Next]_vars => IInv' /\ OutInv'
  BY NextIInv, NextOut
<1>3. IInv /\ IInv' /\ OutInv /\ [Next]_vars => [N!Next]_N!vars
  BY NextMaps
<1> QED
  BY <1>1, <1>2, <1>3, PTL DEF Spec, Negotiates, N!Spec

\* What is proved of TelnetNegotiate,
NP == INSTANCE TelnetNegotiateProofs WITH
        toPeer <- [l \in Links |-> WordsAbout(l, toPeer, "server")],
        toServer <- [l \in Links |-> WordsAbout(l, Unread, "client")]

\* The two instances are the same specification.
LEMMA NegotiationAgrees == N!Spec => []N!Agreed
<1>1. N!Init <=> NP!Init
  BY DEF N!Init, NP!Init, N!Opening, NP!Opening, N!Requested, NP!Requested,
         N!Outcome, NP!Outcome, N!Links, NP!Links, N!Sides, NP!Sides
<1>2. N!Next <=> NP!Next
  <2>1. ASSUME NEW l PROVE N!ServerReceives(l) <=> NP!ServerReceives(l)
    BY DEF N!ServerReceives, NP!ServerReceives, N!Negotiated, NP!Negotiated,
           N!Enabled, N!Disabled, NP!Enabled, NP!Disabled, N!CheckTelopt,
           NP!CheckTelopt, N!Outcome, NP!Outcome
  <2>2. ASSUME NEW l PROVE N!PeerReceives(l) <=> NP!PeerReceives(l)
    BY DEF N!PeerReceives, NP!PeerReceives, N!PeerOutcomes, NP!PeerOutcomes,
           N!Outcome, NP!Outcome
  <2>3. ASSUME NEW l PROVE N!PeerAsks(l) <=> NP!PeerAsks(l)
    BY DEF N!PeerAsks, NP!PeerAsks, N!PeerRequests, NP!PeerRequests,
           N!Outcome, NP!Outcome
  <2>4. N!ServerIgnores <=> NP!ServerIgnores
    BY DEF N!ServerIgnores, NP!ServerIgnores, N!Links, NP!Links, N!Sides, NP!Sides
  <2> QED
    BY <2>1, <2>2, <2>3, <2>4 DEF N!Next, NP!Next, N!Links, NP!Links, N!Sides, NP!Sides
<1>3. N!Agreed <=> NP!Agreed
  BY DEF N!Agreed, NP!Agreed, N!Links, NP!Links, N!Sides, NP!Sides
<1>4. NP!Spec => []NP!Agreed
  BY NP!Agreement
<1>5. [N!Next]_N!vars <=> [NP!Next]_NP!vars
  BY <1>2 DEF N!vars, NP!vars
<1> QED
  BY <1>1, <1>3, <1>4, <1>5, PTL DEF N!Spec, NP!Spec

\* When nothing is on its way both sides think the same of every option, and none
\* waits: proved of the messages, it is true of the bytes.
THEOREM Agreement ==
    ASSUME CutWrites = FALSE, Inputs \subseteq Units
    PROVE  Spec => []Agreed
<1>1. Spec => N!Spec
  BY Negotiation DEF Negotiates
<1>2. N!Spec => []N!Agreed
  BY NegotiationAgrees
<1> QED
  BY <1>1, <1>2, PTL DEF Agreed
=============================================================================
