--------------------------- MODULE LogStampProofs ---------------------------
(***************************************************************************)
(* Proofs about LogStamp.  Writes and Expected are recursive functions:    *)
(* the first half shows that such a function exists (tlapm sees only that  *)
(* it is chosen) and what it computes, by induction over the length of the *)
(* message.  The second half is the inductive invariant of the log.        *)
(***************************************************************************)
EXTENDS LogStamp, Integers, SequenceTheorems, WellFoundedInduction, TLAPS

\* Induction over the naturals, stated for a set: among the numbers that are
\* missing from T there would be a least one.
LEMMA SetInduction ==
    ASSUME NEW T, 0 \in T, \A n \in Nat : n \in T => n + 1 \in T
    PROVE  \A n \in Nat : n \in T
<1> DEFINE R == OpToRel(<, Nat)
<1> SUFFICES ASSUME Nat \ T # {} PROVE FALSE
  OBVIOUS
<1>1. PICK x \in Nat \ T : \A y \in Nat \ T : <<y, x>> \notin R
  BY NatLessThanWellFounded, WFMin
<1>2. x # 0 /\ x - 1 \in Nat /\ x - 1 < x
  OBVIOUS
<1>3. x - 1 \in Nat \ T
  BY <1>2
<1>4. <<x - 1, x>> \in R
  BY <1>2 DEF OpToRel
<1> QED
  BY <1>1, <1>3, <1>4

\* What character k of s becomes.
Stamped(s, k, middle) ==
    IF LineBegins(s, k, middle) THEN <<"stamp", s[k]>> ELSE <<s[k]>>

\* The recursive function in Expected, defined on the first n characters.
Form(s, middle, n, form) ==
    form = [k \in 0..n |-> IF k = 0 THEN <<>> ELSE form[k - 1] \o Stamped(s, k, middle)]

\* There is such a function for every n: what Expected chooses exists.
LEMMA FormExists ==
    ASSUME NEW s, NEW middle
    PROVE  \A n \in Nat : \E g : Form(s, middle, n, g)
<1> DEFINE T == {n \in Nat : \E g : Form(s, middle, n, g)}
<1>1. 0 \in T
  <2> DEFINE g == [k \in 0..0 |-> <<>>]
  <2>1. Form(s, middle, 0, g)
    BY DEF Form
  <2> QED
    BY <2>1
<1>2. ASSUME NEW n \in Nat, n \in T PROVE n + 1 \in T
  <2>1. PICK g : Form(s, middle, n, g)
    BY <1>2
  <2> DEFINE h == [k \in 0..(n + 1) |-> IF k = n + 1 THEN g[n] \o Stamped(s, n + 1, middle) ELSE g[k]]
             E(k) == IF k = 0 THEN <<>> ELSE h[k - 1] \o Stamped(s, k, middle)
  <2>2. ASSUME NEW k \in 0..(n + 1) PROVE h[k] = E(k)
    <3>1. CASE k = n + 1
      <4>1. k - 1 = n /\ n \in 0..(n + 1) /\ n # n + 1 /\ k # 0
        BY <3>1
      <4>2. h[n] = g[n]
        BY <4>1
      <4>3. h[k] = g[n] \o Stamped(s, n + 1, middle)
        BY <3>1
      <4>4. E(k) = h[k - 1] \o Stamped(s, k, middle)
        BY <4>1
      <4> HIDE DEF h, E
      <4> QED
        BY <3>1, <4>1, <4>2, <4>3, <4>4
    <3>2. CASE k = 0
      BY <3>2, <2>1 DEF Form
    <3>3. CASE k \in 1..n
      <4>1. k - 1 \in 0..n /\ k - 1 # n + 1 /\ k # n + 1 /\ k \in 0..n
        BY <3>3
      <4>2. h[k] = g[k] /\ h[k - 1] = g[k - 1]
        BY <4>1
      <4>3. g[k] = IF k = 0 THEN <<>> ELSE g[k - 1] \o Stamped(s, k, middle)
        BY <4>1, <2>1, Zenon DEF Form
      <4>4. k # 0
        BY <3>3
      <4> HIDE DEF h
      <4> QED
        BY <4>2, <4>3, <4>4
    <3> QED
      BY <3>1, <3>2, <3>3
  <2>3. h = [k \in 0..(n + 1) |-> E(k)]
    BY <2>2
  <2>4. Form(s, middle, n + 1, h)
    BY <2>3 DEF Form
  <2> QED
    BY <2>4
<1> HIDE DEF T
<1>3. \A n \in Nat : n \in T
  BY <1>1, <1>2, SetInduction
<1> QED
  BY <1>3 DEF T

\* So Expected is the value of a function of this form.
LEMMA ExpectedForm ==
    ASSUME NEW s, Len(s) \in Nat, NEW middle
    PROVE  \E g : Form(s, middle, Len(s), g) /\ Expected(s, middle) = g[Len(s)]
<1> DEFINE P(g) == g = [k \in 0..Len(s) |-> IF k = 0 THEN <<>>
          ELSE g[k - 1] \o (IF LineBegins(s, k, middle)
                               THEN <<"stamp", s[k]>> ELSE <<s[k]>>)]
<1>1. \E g : P(g)
  BY FormExists DEF Form, Stamped
<1>2. Expected(s, middle) = (CHOOSE g : P(g))[Len(s)]
  BY DEF Expected
<1>3. P(CHOOSE g : P(g))
  BY <1>1
<1> QED
  BY <1>2, <1>3 DEF Form, Stamped

\* What can be written.
Output == Seq(Chars \cup {"stamp"})

\* Does a text that begins in the middle of a line, or not, end in one?
EndsIn(s, middle) == IF s = <<>> THEN middle ELSE s[Len(s)] # "nl"

\* A character with or without a stamp can be written.
LEMMA StampedType ==
    ASSUME NEW s \in Text, NEW k \in 1..Len(s), NEW middle
    PROVE  Stamped(s, k, middle) \in Output
<1>1. s[k] \in Chars
  BY ElementOfSeq DEF Text
<1>2. <<s[k]>> \in Output
  BY <1>1 DEF Output
<1>3. <<"stamp", s[k]>> \in Output
  BY <1>1 DEF Output
<1> QED
  BY <1>2, <1>3 DEF Stamped

\* The recursive function in Expected, step by step.
Steps(s, middle, g) ==
    /\ g[0] = <<>>
    /\ \A k \in 1..Len(s) : g[k] = g[k - 1] \o Stamped(s, k, middle)
    /\ \A k \in 0..Len(s) : g[k] \in Output

\* Expected is computed by such steps.
LEMMA ExpectedSteps ==
    ASSUME NEW s \in Text, NEW middle
    PROVE  \E g : Steps(s, middle, g) /\ Expected(s, middle) = g[Len(s)]
<1>0. Len(s) \in Nat
  BY LenProperties DEF Text
<1>1. PICK g : Form(s, middle, Len(s), g) /\ Expected(s, middle) = g[Len(s)]
  BY <1>0, ExpectedForm
<1>2. g[0] = <<>>
  <2>1. 0 \in 0..Len(s)
    BY <1>0
  <2>2. g[0] = IF 0 = 0 THEN <<>> ELSE g[0 - 1] \o Stamped(s, 0, middle)
    BY <1>1, <2>1, Zenon DEF Form
  <2> QED
    BY <2>2
<1>3. ASSUME NEW k \in 1..Len(s) PROVE g[k] = g[k - 1] \o Stamped(s, k, middle)
  <2>1. k \in 0..Len(s) /\ k # 0
    BY <1>0
  <2>2. g[k] = IF k = 0 THEN <<>> ELSE g[k - 1] \o Stamped(s, k, middle)
    BY <1>1, <2>1, Zenon DEF Form
  <2> QED
    BY <2>1, <2>2
<1> DEFINE T == {k \in Nat : k <= Len(s) => g[k] \in Output}
<1>4. 0 \in T
  BY <1>2, EmptySeq DEF Output
<1>5. ASSUME NEW k \in Nat, k \in T PROVE k + 1 \in T
  <2>1. CASE k + 1 <= Len(s)
    <3>1. k + 1 \in 1..Len(s) /\ (k + 1) - 1 = k
      BY <1>0, <2>1
    <3>2. g[k + 1] = g[k] \o Stamped(s, k + 1, middle)
      <4>1. g[k + 1] = g[(k + 1) - 1] \o Stamped(s, k + 1, middle)
        BY <1>3, <3>1
      <4> QED
        BY <3>1, <4>1
    <3>3. g[k] \in Output
      BY <1>5, <1>0, <2>1
    <3>4. g[k + 1] \in Output
      BY <3>1, <3>2, <3>3, StampedType, ConcatProperties DEF Output
    <3> QED
      BY <3>4
  <2>2. CASE ~(k + 1 <= Len(s))
    BY <2>2
  <2> QED
    BY <2>1, <2>2
<1> HIDE DEF T
<1>6. \A k \in Nat : k \in T
  BY <1>4, <1>5, SetInduction
<1>7. \A k \in 0..Len(s) : g[k] \in Output
  BY <1>0, <1>6 DEF T
<1> QED
  BY <1>1, <1>2, <1>3, <1>7 DEF Steps

\* Pieces of output may be put together in any order of the calls.
LEMMA OutputAssociative ==
    ASSUME NEW a \in Output, NEW b \in Output, NEW c \in Output
    PROVE  (a \o b) \o c = a \o (b \o c)
<1> DEFINE C == Chars \cup {"stamp"}
<1>1. a \in Seq(C) /\ b \in Seq(C) /\ c \in Seq(C)
  BY DEF Output
<1> HIDE DEF C
<1> QED
  BY <1>1

\* The stamped form of a text is that of its beginning and that of the rest,
\* if the rest knows whether the beginning ended in the middle of a line: this
\* is all a logger has to remember from one call of SendToAll to the next.
LEMMA ExpectedConcat ==
    ASSUME NEW s \in Text, NEW t \in Text, NEW middle
    PROVE  /\ Expected(s \o t, middle) = Expected(s, middle) \o Expected(t, EndsIn(s, middle))
           /\ Expected(s \o t, middle) \in Output
<1> DEFINE u == s \o t
           m == Len(s)
           n == Len(t)
           rest == EndsIn(s, middle)
<1>1. /\ m \in Nat /\ n \in Nat /\ u \in Text /\ Len(u) = m + n
      /\ \A k \in 1..m : u[k] = s[k]
      /\ \A k \in 1..n : u[m + k] = t[k]
      /\ s = <<>> => m = 0
      /\ s # <<>> => m > 0
  BY DEF Text
<1>2. PICK gs : Steps(s, middle, gs) /\ Expected(s, middle) = gs[m]
  BY ExpectedSteps
<1>3. PICK gt : Steps(t, rest, gt) /\ Expected(t, rest) = gt[n]
  BY ExpectedSteps
<1>4. PICK gu : Steps(u, middle, gu) /\ Expected(u, middle) = gu[m + n]
  BY <1>1, ExpectedSteps
<1>s. /\ gs[0] = <<>>
      /\ \A k \in 1..m : gs[k] = gs[k - 1] \o Stamped(s, k, middle)
      /\ \A k \in 0..m : gs[k] \in Output
  BY <1>2 DEF Steps
<1>t. /\ gt[0] = <<>>
      /\ \A k \in 1..n : gt[k] = gt[k - 1] \o Stamped(t, k, rest)
      /\ \A k \in 0..n : gt[k] \in Output
      /\ \A k \in 1..n : Stamped(t, k, rest) \in Output
  BY <1>3, StampedType DEF Steps
<1>u. /\ gu[0] = <<>>
      /\ \A k \in 1..(m + n) : gu[k] = gu[k - 1] \o Stamped(u, k, middle)
  BY <1>1, <1>4 DEF Steps
<1>e. /\ s = <<>> => rest = middle
      /\ s # <<>> => rest = (s[m] # "nl")
  BY DEF EndsIn
<1> HIDE DEF u, m, n, rest
<1>5. \A k \in 0..m : gu[k] = gs[k]
  <2> DEFINE T == {k \in Nat : k <= m => gu[k] = gs[k]}
  <2>1. 0 \in T
    BY <1>s, <1>u
  <2>2. ASSUME NEW k \in Nat, k \in T PROVE k + 1 \in T
    <3>0. CASE k + 1 <= m
      <4>1. k + 1 \in 1..m /\ k + 1 \in 1..(m + n) /\ (k + 1) - 1 = k
        BY <1>1, <3>0
      <4>2. u[k + 1] = s[k + 1] /\ (k # 0 => u[k] = s[k])
        BY <1>1, <4>1
      <4>3. Stamped(u, k + 1, middle) = Stamped(s, k + 1, middle)
        BY <4>1, <4>2 DEF Stamped, LineBegins
      <4>4. gs[k + 1] = gs[(k + 1) - 1] \o Stamped(s, k + 1, middle)
        BY <4>1, <1>s
      <4>5. gu[k + 1] = gu[(k + 1) - 1] \o Stamped(u, k + 1, middle)
        BY <4>1, <1>u
      <4>6. gu[k] = gs[k]
        BY <2>2, <3>0, <1>1
      <4>7. gu[k + 1] = gs[k + 1]
        BY <4>1, <4>3, <4>4, <4>5, <4>6
      <4> QED
        BY <4>7
    <3>1. CASE ~(k + 1 <= m)
      BY <3>1
    <3> QED
      BY <3>0, <3>1
  <2> HIDE DEF T
  <2>3. \A k \in Nat : k \in T
    BY <2>1, <2>2, SetInduction
  <2> QED
    BY <2>3, <1>1 DEF T
<1>6. gs[m] \in Output
  BY <1>1, <1>s
<1>7. \A k \in 0..n : gu[m + k] = gs[m] \o gt[k]
  <2> DEFINE Joined(k) == gu[m + k] = gs[m] \o gt[k]
             T == {k \in Nat : k <= n => Joined(k)}
  <2>1. 0 \in T
    <3>1. gu[m + 0] = gs[m]
      BY <1>5, <1>1
    <3>2. gs[m] = gs[m] \o gt[0]
      BY <1>t, <1>6, ConcatEmptySeq DEF Output
    <3>3. Joined(0)
      BY <3>1, <3>2
    <3> HIDE DEF Joined
    <3> QED
      BY <3>3
  <2>2. ASSUME NEW k \in Nat, k \in T PROVE k + 1 \in T
    <3>0. CASE k + 1 <= n
      <4>1. k + 1 \in 1..n /\ m + (k + 1) \in 1..(m + n) /\ (k + 1) - 1 = k
            /\ (m + (k + 1)) - 1 = m + k /\ k \in 0..n
        BY <1>1, <3>0
      <4>2. u[m + (k + 1)] = t[k + 1] /\ (k # 0 => u[m + k] = t[k])
        BY <1>1, <4>1
      <4>3. LineBegins(u, m + (k + 1), middle) <=> LineBegins(t, k + 1, rest)
        <5>1. CASE k # 0
          BY <5>1, <4>1, <4>2, <1>1 DEF LineBegins
        <5>2. CASE k = 0 /\ s = <<>>
          BY <5>2, <1>1, <1>e DEF LineBegins
        <5>3. CASE k = 0 /\ s # <<>>
          <6>1. m + (k + 1) # 1 /\ (m + (k + 1)) - 1 = m /\ m \in 1..m
            BY <5>3, <1>1
          <6>2. u[m] = s[m]
            BY <6>1, <1>1
          <6>3. LineBegins(u, m + (k + 1), middle) <=> s[m] = "nl"
            BY <6>1, <6>2 DEF LineBegins
          <6>4. k + 1 = 1
            BY <5>3
          <6>5. LineBegins(t, k + 1, rest) = ~rest
            BY <6>4 DEF LineBegins
          <6>6. rest = (s[m] # "nl")
            BY <5>3, <1>e
          <6> QED
            BY <6>3, <6>5, <6>6, Zenon
        <5> QED
          BY <5>1, <5>2, <5>3
      <4>4. Stamped(u, m + (k + 1), middle) = Stamped(t, k + 1, rest)
        BY <4>3, <4>2 DEF Stamped
      <4>5. gt[k + 1] = gt[(k + 1) - 1] \o Stamped(t, k + 1, rest)
        BY <4>1, <1>t
      <4>6. gu[m + (k + 1)] = gu[(m + (k + 1)) - 1] \o Stamped(u, m + (k + 1), middle)
        BY <4>1, <1>u
      <4>7. gu[m + k] = gs[m] \o gt[k]
        <5> HIDE DEF Joined
        <5>1. Joined(k)
          BY <2>2, <1>1, <3>0
        <5> QED
          BY <5>1, Zenon DEF Joined
      <4>8. gt[k] \in Output /\ Stamped(t, k + 1, rest) \in Output
        BY <4>1, <1>t
      <4>9. (gs[m] \o gt[k]) \o Stamped(t, k + 1, rest)
            = gs[m] \o (gt[k] \o Stamped(t, k + 1, rest))
        BY <1>6, <4>8, OutputAssociative
      <4>10. Joined(k + 1)
        BY <4>1, <4>4, <4>5, <4>6, <4>7, <4>9
      <4> HIDE DEF Joined
      <4> QED
        BY <4>10
    <3>1. CASE ~(k + 1 <= n)
      <4> HIDE DEF Joined
      <4> QED
        BY <3>1
    <3> QED
      BY <3>0, <3>1
  <2> HIDE DEF T, Joined
  <2>3. \A k \in Nat : k \in T
    BY <2>1, <2>2, SetInduction
  <2>4. \A k \in 0..n : Joined(k)
    BY <2>3, <1>1 DEF T
  <2> QED
    BY <2>4, Zenon DEF Joined
<1>8. gt[n] \in Output
  BY <1>1, <1>t
<1>9. Expected(u, middle) = gs[m] \o gt[n]
  <2>1. n \in 0..n
    BY <1>1
  <2> QED
    BY <2>1, <1>4, <1>7, Zenon
<1>10. gs[m] \o gt[n] \in Output
  BY <1>6, <1>8, ConcatProperties DEF Output
<1> QED
  BY <1>2, <1>3, <1>9, <1>10 DEF u, rest

\* The loop in Writes: what one character makes of it.
Round(message, i, b) ==
    LET stamped == [b EXCEPT !.out = IF b.sent THEN @ ELSE Append(@, "stamp"),
                             !.sent = TRUE]
    IN  IF message[i] # "nl" THEN stamped
        ELSE [out |-> stamped.out \o SubSeq(message, stamped.j, i),
              j |-> i + 1, sent |-> FALSE]

\* The recursive function in Writes, defined on the first n characters.
Loop(message, flag, n, loop) ==
    loop = [i \in 0..n |-> IF i = 0 THEN [out |-> <<>>, j |-> 1, sent |-> flag]
                           ELSE Round(message, i, loop[i - 1])]

\* There is such a function for every n: what Writes chooses exists.
LEMMA LoopExists ==
    ASSUME NEW message, NEW flag
    PROVE  \A n \in Nat : \E loop : Loop(message, flag, n, loop)
<1> DEFINE T == {n \in Nat : \E loop : Loop(message, flag, n, loop)}
           first == [out |-> <<>>, j |-> 1, sent |-> flag]
<1>1. 0 \in T
  <2> DEFINE g == [i \in 0..0 |-> first]
  <2>1. Loop(message, flag, 0, g)
    BY DEF Loop
  <2> QED
    BY <2>1
<1>2. ASSUME NEW n \in Nat, n \in T PROVE n + 1 \in T
  <2>1. PICK g : Loop(message, flag, n, g)
    BY <1>2
  <2> DEFINE h == [i \in 0..(n + 1) |-> IF i = n + 1 THEN Round(message, n + 1, g[n]) ELSE g[i]]
             E(i) == IF i = 0 THEN first ELSE Round(message, i, h[i - 1])
  <2>2. ASSUME NEW i \in 0..(n + 1) PROVE h[i] = E(i)
    <3>1. CASE i = n + 1
      <4>1. i - 1 = n /\ n \in 0..(n + 1) /\ n # n + 1 /\ i # 0
        BY <3>1
      <4>2. h[n] = g[n]
        BY <4>1
      <4>3. h[i] = Round(message, n + 1, g[n])
        BY <3>1
      <4>4. E(i) = Round(message, i, h[i - 1])
        BY <4>1
      <4> HIDE DEF h, E
      <4> QED
        BY <3>1, <4>1, <4>2, <4>3, <4>4
    <3>2. CASE i = 0
      <4>1. 0 \in 0..n /\ i # n + 1
        BY <3>2
      <4>2. g[0] = IF 0 = 0 THEN first ELSE Round(message, 0, g[0 - 1])
        BY <2>1, <4>1, Zenon DEF Loop
      <4> QED
        BY <3>2, <4>1, <4>2
    <3>3. CASE i \in 1..n
      <4>1. i - 1 \in 0..n /\ i - 1 # n + 1 /\ i # n + 1 /\ i \in 0..n /\ i # 0
        BY <3>3
      <4>2. h[i] = g[i] /\ h[i - 1] = g[i - 1]
        BY <4>1
      <4>3. g[i] = IF i = 0 THEN first ELSE Round(message, i, g[i - 1])
        BY <4>1, <2>1, Zenon DEF Loop
      <4> HIDE DEF h
      <4> QED
        BY <4>1, <4>2, <4>3
    <3> QED
      BY <3>1, <3>2, <3>3
  <2>3. h = [i \in 0..(n + 1) |-> E(i)]
    BY <2>2
  <2>4. Loop(message, flag, n + 1, h)
    BY <2>3 DEF Loop
  <2> QED
    BY <2>4
<1> HIDE DEF T
<1>3. \A n \in Nat : n \in T
  BY <1>1, <1>2, SetInduction
<1> QED
  BY <1>3 DEF T

\* The recursive function in Writes, step by step.
Rounds(message, flag, loop) ==
    /\ loop[0] = [out |-> <<>>, j |-> 1, sent |-> flag]
    /\ \A i \in 1..Len(message) : loop[i] = Round(message, i, loop[i - 1])

\* Writes is computed by such steps.
LEMMA WritesRounds ==
    ASSUME NEW message, Len(message) \in Nat, NEW flag
    PROVE  \E loop : /\ Rounds(message, flag, loop)
                     /\ Writes(message, flag) =
                          [out |-> loop[Len(message)].out
                                     \o SubSeq(message, loop[Len(message)].j, Len(message)),
                           sent |-> loop[Len(message)].sent]
<1> DEFINE P(loop) ==
      loop = [i \in 0..Len(message) |->
          IF i = 0 THEN [out |-> <<>>, j |-> 1, sent |-> flag]
          ELSE LET stamped == [loop[i - 1] EXCEPT
                     !.out = IF loop[i - 1].sent THEN @ ELSE Append(@, "stamp"),
                     !.sent = TRUE]
               IN  IF message[i] # "nl" THEN stamped
                   ELSE [out |-> stamped.out \o SubSeq(message, stamped.j, i),
                         j |-> i + 1, sent |-> FALSE]]
           loop == CHOOSE g : P(g)
           first == [out |-> <<>>, j |-> 1, sent |-> flag]
<1>1. \E g : P(g)
  <2>1. \E g : Loop(message, flag, Len(message), g)
    BY LoopExists
  <2> QED
    BY <2>1, Zenon DEF Loop, Round
<1>2. Writes(message, flag) = [out |-> loop[Len(message)].out
                                     \o SubSeq(message, loop[Len(message)].j, Len(message)),
                               sent |-> loop[Len(message)].sent]
  BY Zenon DEF Writes
<1>3. P(loop)
  BY <1>1, Zenon
<1>4. Loop(message, flag, Len(message), loop)
  BY <1>3, Zenon DEF Loop, Round
<1> HIDE DEF loop
<1>5. loop[0] = first
  <2>1. 0 \in 0..Len(message)
    OBVIOUS
  <2>2. loop[0] = IF 0 = 0 THEN first ELSE Round(message, 0, loop[0 - 1])
    BY <1>4, <2>1, Zenon DEF Loop
  <2> QED
    BY <2>2
<1>6. ASSUME NEW i \in 1..Len(message) PROVE loop[i] = Round(message, i, loop[i - 1])
  <2>1. i \in 0..Len(message) /\ i # 0
    OBVIOUS
  <2>2. loop[i] = IF i = 0 THEN first ELSE Round(message, i, loop[i - 1])
    BY <1>4, <2>1, Zenon DEF Loop
  <2> QED
    BY <2>1, <2>2
<1> QED
  BY <1>2, <1>5, <1>6, Zenon DEF Rounds

\* Where the loop stands before character i + 1: what is written and what is
\* not yet make up the stamped form of the first i characters.
Stands(message, flag, i, b, g) ==
    /\ b = [out |-> b.out, j |-> b.j, sent |-> b.sent]
    /\ b.out \in Output /\ b.j \in 1..(i + 1)
    /\ b.sent = IF i = 0 THEN flag ELSE message[i] # "nl"
    /\ ~b.sent => b.j = i + 1
    /\ b.out \o SubSeq(message, b.j, i) = g[i]

\* Stands, for a record given by its fields.
LEMMA StandsAt ==
    ASSUME NEW message, NEW flag, NEW i \in Nat, NEW g,
           NEW o \in Output, NEW j \in 1..(i + 1), NEW mark,
           mark = IF i = 0 THEN flag ELSE message[i] # "nl",
           ~mark => j = i + 1,
           o \o SubSeq(message, j, i) = g[i]
    PROVE  Stands(message, flag, i, [out |-> o, j |-> j, sent |-> mark], g)
<1> DEFINE b == [out |-> o, j |-> j, sent |-> mark]
<1>1. b.out = o /\ b.j = j /\ b.sent = mark
  OBVIOUS
<1>2. b = [out |-> b.out, j |-> b.j, sent |-> b.sent]
  BY <1>1
<1> HIDE DEF b
<1> QED
  BY <1>1, <1>2 DEF Stands, b

\* What is not written yet, before and after character i.
LEMMA Written ==
    ASSUME NEW message \in Text, NEW i \in 1..Len(message), NEW j \in 1..i
    PROVE  /\ SubSeq(message, j, i) = SubSeq(message, j, i - 1) \o <<message[i]>>
           /\ SubSeq(message, j, i) \in Output
           /\ SubSeq(message, j, i - 1) \in Output
           /\ <<message[i]>> \in Output
           /\ SubSeq(message, i, i) = <<message[i]>>
           /\ SubSeq(message, i + 1, i) = <<>>
           /\ SubSeq(message, i, i - 1) = <<>>
<1>1. \A k \in 1..Len(message) : message[k] \in Chars \cup {"stamp"}
  BY ElementOfSeq DEF Text
<1>2. /\ j \in 1..Len(message) /\ i \in j..Len(message) /\ i \in Int /\ j \in Int
      /\ j..i \subseteq 1..Len(message) /\ j..(i - 1) \subseteq 1..Len(message)
      /\ i \in i..Len(message) /\ i - 1 < i /\ i < i + 1
      /\ i - 1 \in Int /\ i + 1 \in Int
  OBVIOUS
<1>3. SubSeq(message, j, i) = SubSeq(message, j, i - 1) \o <<message[i]>>
  BY <1>2, SubSeqRecursiveSecond DEF Text
<1>4. SubSeq(message, j, i) \in Output
  BY <1>1, <1>2, SubSeqProperties DEF Output
<1>5. SubSeq(message, j, i - 1) \in Output
  BY <1>1, <1>2, SubSeqProperties DEF Output
<1>6. <<message[i]>> \in Output
  BY <1>1 DEF Output
<1>7. SubSeq(message, i + 1, i) = <<>> /\ SubSeq(message, i, i - 1) = <<>>
  BY <1>2, SubSeqEmpty
<1>8. SubSeq(message, i, i) = SubSeq(message, i, i - 1) \o <<message[i]>>
  BY <1>2, SubSeqRecursiveSecond DEF Text
<1>9. SubSeq(message, i, i) = <<message[i]>>
  BY <1>6, <1>7, <1>8, ConcatEmptySeq DEF Output
<1> QED
  BY <1>3, <1>4, <1>5, <1>6, <1>7, <1>9

\* A character keeps the loop invariant of Writes.
LEMMA RoundStands ==
    ASSUME NEW message \in Text, NEW flag \in BOOLEAN, NEW g,
           Steps(message, flag, g),
           NEW i \in 1..Len(message), NEW b, Stands(message, flag, i - 1, b, g)
    PROVE  Stands(message, flag, i, Round(message, i, b), g)
<1> DEFINE o == IF b.sent THEN b.out ELSE Append(b.out, "stamp")
           last == <<message[i]>>
<1>1. /\ b = [out |-> b.out, j |-> b.j, sent |-> b.sent]
      /\ b.out \in Output /\ b.j \in 1..i
      /\ b.sent = IF i - 1 = 0 THEN flag ELSE message[i - 1] # "nl"
      /\ ~b.sent => b.j = i
      /\ b.out \o SubSeq(message, b.j, i - 1) = g[i - 1]
  BY DEF Stands
<1>2. b.sent \in BOOLEAN
  BY <1>1
<1>3. g[i] = g[i - 1] \o Stamped(message, i, flag)
  BY DEF Steps
<1>4. LineBegins(message, i, flag) <=> ~b.sent
  <2>1. CASE i = 1
    BY <1>1, <2>1 DEF LineBegins
  <2>2. CASE i # 1
    <3>1. b.sent = (message[i - 1] # "nl")
      BY <1>1, <2>2
    <3>2. LineBegins(message, i, flag) = (message[i - 1] = "nl")
      BY <2>2 DEF LineBegins
    <3> QED
      BY <3>1, <3>2, Zenon
  <2> QED
    BY <2>1, <2>2
<1>5. o \in Output
  BY <1>1, AppendProperties DEF Output
<1>6. /\ SubSeq(message, b.j, i) = SubSeq(message, b.j, i - 1) \o last
      /\ SubSeq(message, b.j, i) \in Output
      /\ SubSeq(message, b.j, i - 1) \in Output
      /\ last \in Output
      /\ SubSeq(message, i, i) = last
      /\ SubSeq(message, i + 1, i) = <<>>
      /\ SubSeq(message, i, i - 1) = <<>>
  BY <1>1, Written
<1>7. o \o SubSeq(message, b.j, i) = g[i]
  <2>1. CASE b.sent
    <3>1. Stamped(message, i, flag) = last
      BY <1>4, <2>1 DEF Stamped
    <3>2. b.out \o SubSeq(message, b.j, i)
          = (b.out \o SubSeq(message, b.j, i - 1)) \o last
      <4>1. b.out \in Output /\ SubSeq(message, b.j, i - 1) \in Output /\ last \in Output
        BY <1>1, <1>6
      <4>2. SubSeq(message, b.j, i) = SubSeq(message, b.j, i - 1) \o last
        BY <1>6
      <4> HIDE DEF last
      <4>3. b.out \o (SubSeq(message, b.j, i - 1) \o last)
            = (b.out \o SubSeq(message, b.j, i - 1)) \o last
        BY <4>1, OutputAssociative
      <4> QED
        BY <4>2, <4>3, Zenon
    <3>3. o = b.out
      BY <2>1
    <3> HIDE DEF o, last
    <3> QED
      BY <1>1, <1>3, <3>1, <3>2, <3>3
  <2>2. CASE ~b.sent
    <3>1. Stamped(message, i, flag) = <<"stamp", message[i]>>
      BY <1>4, <2>2 DEF Stamped
    <3>2. g[i - 1] = b.out
      <4>1. b.out \o <<>> = b.out
        BY <1>1, ConcatEmptySeq DEF Output
      <4> QED
        BY <1>1, <1>6, <2>2, <4>1
    <3>3. o = b.out \o <<"stamp">>
      BY <2>2, <1>1, AppendIsConcat DEF Output
    <3>4. <<"stamp">> \in Output
      BY DEF Output
    <3>5. <<"stamp", message[i]>> = <<"stamp">> \o last
      OBVIOUS
    <3>6. o \o last = b.out \o (<<"stamp">> \o last)
      <4>1. b.out \in Output /\ last \in Output
        BY <1>1, <1>6
      <4> HIDE DEF last, o
      <4>2. (b.out \o <<"stamp">>) \o last = b.out \o (<<"stamp">> \o last)
        BY <4>1, <3>4, OutputAssociative
      <4> QED
        BY <3>3, <4>2, Zenon
    <3>7. SubSeq(message, b.j, i) = last
      BY <1>1, <1>6, <2>2
    <3> HIDE DEF o, last
    <3> QED
      BY <1>3, <3>1, <3>2, <3>5, <3>6, <3>7
  <2> QED
    BY <1>2, <2>1, <2>2
<1>8. CASE message[i] # "nl"
  <2>1. Round(message, i, b) = [out |-> o, j |-> b.j, sent |-> TRUE]
    BY <1>1, <1>8 DEF Round
  <2> HIDE DEF o
  <2> QED
    <3>1. /\ i \in Nat /\ b.j \in 1..(i + 1)
          /\ TRUE = IF i = 0 THEN flag ELSE message[i] # "nl"
      BY <1>1, <1>8
    <3>2. Stands(message, flag, i, [out |-> o, j |-> b.j, sent |-> TRUE], g)
      BY <3>1, <1>5, <1>7, StandsAt, Zenon
    <3> QED
      BY <2>1, <3>2
<1>9. CASE message[i] = "nl"
  <2> DEFINE line == o \o SubSeq(message, b.j, i)
  <2>1. Round(message, i, b) = [out |-> line, j |-> i + 1, sent |-> FALSE]
    BY <1>1, <1>9 DEF Round
  <2>2. line \in Output
    BY <1>5, <1>6, ConcatProperties DEF Output
  <2>3. line \o SubSeq(message, i + 1, i) = g[i]
    BY <2>2, <1>6, <1>7, ConcatEmptySeq DEF Output
  <2> HIDE DEF line
  <2> QED
    <3>1. /\ i \in Nat /\ i + 1 \in 1..(i + 1)
          /\ FALSE = IF i = 0 THEN flag ELSE message[i] # "nl"
      BY <1>9
    <3>2. Stands(message, flag, i, [out |-> line, j |-> i + 1, sent |-> FALSE], g)
      BY <3>1, <2>2, <2>3, StandsAt, Zenon
    <3> QED
      BY <2>1, <3>2
<1> QED
  BY <1>8, <1>9

\* The loop writes the stamped form of its message, and its flag then says
\* whether the message ended in the middle of a line.
LEMMA WritesExpected ==
    ASSUME NEW message \in Text, NEW flag \in BOOLEAN
    PROVE  /\ Writes(message, flag).out = Expected(message, flag)
           /\ Writes(message, flag).sent = EndsIn(message, flag)
<1> DEFINE n == Len(message)
<1>0. n \in Nat /\ (message = <<>> <=> n = 0)
  BY DEF Text
<1>1. PICK g : Steps(message, flag, g) /\ Expected(message, flag) = g[n]
  BY ExpectedSteps
<1>2. PICK loop : /\ Rounds(message, flag, loop)
                  /\ Writes(message, flag) =
                        [out |-> loop[n].out \o SubSeq(message, loop[n].j, n),
                         sent |-> loop[n].sent]
  BY <1>0, WritesRounds
<1> DEFINE T == {i \in Nat : i <= n => Stands(message, flag, i, loop[i], g)}
<1> HIDE DEF n
<1>3. 0 \in T
  <2>1. loop[0] = [out |-> <<>>, j |-> 1, sent |-> flag] /\ g[0] = <<>>
    BY <1>1, <1>2 DEF Rounds, Steps
  <2>2. <<>> \in Output
    BY EmptySeq DEF Output
  <2>3. SubSeq(message, 1, 0) = <<>> /\ <<>> \o <<>> = <<>>
    BY SubSeqEmpty
  <2> QED
    <3>1. /\ 0 \in Nat /\ 1 \in 1..(0 + 1) /\ 1 = 0 + 1
          /\ flag = IF 0 = 0 THEN flag ELSE message[0] # "nl"
      OBVIOUS
    <3>2. <<>> \o SubSeq(message, 1, 0) = g[0]
      BY <2>1, <2>3
    <3>3. Stands(message, flag, 0, [out |-> <<>>, j |-> 1, sent |-> flag], g)
      BY <3>1, <3>2, <2>2, StandsAt, Zenon
    <3> QED
      BY <2>1, <3>3
<1>4. ASSUME NEW i \in Nat, i \in T PROVE i + 1 \in T
  <2>1. CASE i + 1 <= n
    <3>1. i + 1 \in 1..Len(message) /\ (i + 1) - 1 = i
      BY <1>0, <2>1 DEF n
    <3>2. Stands(message, flag, (i + 1) - 1, loop[i], g)
      BY <1>4, <1>0, <2>1, <3>1
    <3>3. loop[i + 1] = Round(message, i + 1, loop[(i + 1) - 1])
      BY <1>2, <3>1 DEF Rounds
    <3>4. Stands(message, flag, i + 1, Round(message, i + 1, loop[i]), g)
      BY <1>1, <3>1, <3>2, RoundStands
    <3> QED
      BY <3>1, <3>3, <3>4
  <2>2. CASE ~(i + 1 <= n)
    BY <2>2
  <2> QED
    BY <2>1, <2>2
<1> HIDE DEF T
<1>5. \A i \in Nat : i \in T
  BY <1>3, <1>4, SetInduction
<1>6. Stands(message, flag, n, loop[n], g)
  BY <1>0, <1>5 DEF T
<1>7. Writes(message, flag).out = g[n]
  BY <1>2, <1>6 DEF Stands
<1>8. Writes(message, flag).sent = EndsIn(message, flag)
  BY <1>0, <1>2, <1>6 DEF Stands, EndsIn, n
<1> QED
  BY <1>1, <1>7, <1>8

\* Where a text ends depends on where its last piece ends.
LEMMA EndsInConcat ==
    ASSUME NEW s \in Text, NEW t \in Text, NEW middle \in BOOLEAN
    PROVE  /\ EndsIn(s \o t, middle) = EndsIn(t, EndsIn(s, middle))
           /\ EndsIn(s, middle) \in BOOLEAN
<1>1. EndsIn(s, middle) \in BOOLEAN
  BY DEF EndsIn
<1>2. CASE t = <<>>
  <2>1. s \o t = s
    BY <1>2, ConcatEmptySeq DEF Text
  <2> QED
    BY <1>1, <1>2, <2>1 DEF EndsIn
<1>3. CASE t # <<>>
  <2>1. /\ Len(s \o t) = Len(s) + Len(t) /\ s \o t # <<>>
        /\ (s \o t)[Len(s) + Len(t)] = t[Len(t)]
    BY <1>3 DEF Text
  <2>2. EndsIn(s \o t, middle) = (t[Len(t)] # "nl")
    BY <2>1 DEF EndsIn
  <2>3. EndsIn(t, EndsIn(s, middle)) = (t[Len(t)] # "nl")
    BY <1>3 DEF EndsIn
  <2> QED
    BY <1>1, <2>2, <2>3, Zenon
<1> QED
  BY <1>2, <1>3

\* Nothing said, nothing written.
LEMMA ExpectedEmpty ==
    ASSUME NEW middle
    PROVE  Expected(<<>>, middle) = <<>> /\ EndsIn(<<>>, middle) = middle
<1>1. <<>> \in Text /\ Len(<<>>) = 0
  BY DEF Text
<1>2. \E g : Steps(<<>>, middle, g) /\ Expected(<<>>, middle) = g[Len(<<>>)]
  BY <1>1, ExpectedSteps
<1> QED
  BY <1>1, <1>2 DEF Steps, EndsIn

\* A piece is a text of at least one character.
LEMMA PiecesText ==
    ASSUME NEW message \in Pieces
    PROVE  message \in Text /\ message # <<>> /\ Len(message) \in Nat
<1>1. PICK n \in 1..MaxPiece : message \in [1..n -> Chars]
  BY DEF Pieces
<1>2. n \in Nat /\ n > 0
  BY <1>1, LogAssumption
<1>3. message \in Seq(Chars) /\ Len(message) = n
  BY <1>1, <1>2, SeqDef
<1> QED
  BY <1>2, <1>3 DEF Text

\* Reader r has the stamped form of what was said, and its flag is right.
StampedUpTo(r, middle) ==
    /\ sent[r] = EndsIn(text[r], middle)
    /\ out[r] = Expected(text[r], middle)

\* The inductive invariant.  FileStamped and LoggersStamped say what was
\* written so far; that the next piece continues it needs the flags.  The
\* file keeps its flag over SIGHUP, so it must agree with the server's own
\* output (inLine) and not with the new file, which is empty.
IInv ==
    /\ TypeOK
    /\ \A l \in Loggers : StampedUpTo(l, FALSE)
    /\ ~missed => StampedUpTo(File, begun[File]) /\ sent[File] = inLine

\* A message continues the stamped form of what was said before.
LEMMA SaidTo ==
    ASSUME NEW message \in Pieces, NEW s \in Text, NEW middle \in BOOLEAN
    PROVE  /\ Writes(message, EndsIn(s, middle)).sent = EndsIn(s \o message, middle)
           /\ Expected(s, middle) \o Writes(message, EndsIn(s, middle)).out
                = Expected(s \o message, middle)
<1> DEFINE flag == EndsIn(s, middle)
<1>1. message \in Text
  BY PiecesText
<1>2. flag \in BOOLEAN
  BY EndsInConcat
<1> HIDE DEF flag
<1>3. /\ Writes(message, flag).out = Expected(message, flag)
      /\ Writes(message, flag).sent = EndsIn(message, flag)
  BY <1>1, <1>2, WritesExpected
<1> QED
  <2>1. Expected(s \o message, middle) = Expected(s, middle) \o Expected(message, EndsIn(s, middle))
    BY <1>1, ExpectedConcat
  <2>2. EndsIn(s \o message, middle) = EndsIn(message, EndsIn(s, middle))
    BY <1>1, EndsInConcat
  <2> QED
    BY <1>3, <2>1, <2>2, Zenon DEF flag

\* The loop returns text and a flag.
LEMMA WritesType ==
    ASSUME NEW message \in Pieces, NEW flag \in BOOLEAN
    PROVE  Writes(message, flag).out \in Output /\ Writes(message, flag).sent \in BOOLEAN
<1>1. message \in Text
  BY PiecesText
<1>2. PICK g : Steps(message, flag, g) /\ Expected(message, flag) = g[Len(message)]
  BY <1>1, ExpectedSteps
<1>3. Len(message) \in 0..Len(message)
  BY PiecesText
<1>4. Expected(message, flag) \in Output
  BY <1>2, <1>3 DEF Steps
<1> QED
  BY <1>1, <1>4, WritesExpected, EndsInConcat

\* SendToAll keeps the invariant.
LEMMA SendToAllStep ==
    ASSUME IInv, NEW message \in Pieces, SendToAll(message)
    PROVE  IInv'
<1> USE DEF SendToAll
<1>0. message \in Text /\ message # <<>> /\ Len(message) \in Nat
  BY PiecesText
<1>1. TypeOK'
  <2>1. TypeOK
    BY DEF IInv
  <2>2. ASSUME NEW r \in Readers PROVE sent'[r] \in BOOLEAN
    BY <2>1, <2>2, WritesType DEF TypeOK
  <2>3. ASSUME NEW r \in Readers PROVE out'[r] \in Output
    <3>1. out[r] \in Output /\ sent[r] \in BOOLEAN
      BY <2>1 DEF TypeOK, Output
    <3>2. out[r] \o Writes(message, sent[r]).out \in Output
      BY <3>1, WritesType, ConcatProperties DEF Output
    <3> QED
      BY <3>1, <3>2
  <2>4. ASSUME NEW r \in Readers PROVE text'[r] \in Text
    <3>1. text[r] \in Text
      BY <2>1 DEF TypeOK
    <3>2. text[r] \o message \in Text
      BY <3>1, <1>0, ConcatProperties DEF Text
    <3> QED
      BY <3>1, <3>2
  <2>5. sent' \in [Readers -> BOOLEAN]
    BY <2>2
  <2>6. out' \in [Readers -> Output]
    BY <2>3
  <2>7. text' \in [Readers -> Text]
    BY <2>4
  <2>8. said' \in 0..MaxSaid
    BY <2>1, <1>0, LogAssumption DEF TypeOK
  <2> QED
    BY <2>1, <2>5, <2>6, <2>7, <2>8 DEF TypeOK, Output
<1>2. ASSUME NEW r \in Readers, NEW middle \in BOOLEAN, StampedUpTo(r, middle)
      PROVE  /\ sent'[r] = EndsIn(text'[r], middle)
             /\ out'[r] = Expected(text'[r], middle)
  <2>1. text[r] \in Text
    BY DEF IInv, TypeOK
  <2>2. sent[r] = EndsIn(text[r], middle) /\ out[r] = Expected(text[r], middle)
    BY <1>2 DEF StampedUpTo
  <2>3. CASE r \in open
    <3>1. /\ text'[r] = text[r] \o message
          /\ sent'[r] = Writes(message, sent[r]).sent
          /\ out'[r] = out[r] \o Writes(message, sent[r]).out
      BY <2>3
    <3>2. /\ Writes(message, sent[r]).sent = EndsIn(text[r] \o message, middle)
          /\ out[r] \o Writes(message, sent[r]).out = Expected(text[r] \o message, middle)
      <4> DEFINE t == text[r]
      <4>1. t \in Text
        BY <2>1
      <4>2. sent[r] = EndsIn(t, middle) /\ out[r] = Expected(t, middle)
        BY <2>2
      <4> HIDE DEF t, SendToAll
      <4>3. /\ Writes(message, EndsIn(t, middle)).sent = EndsIn(t \o message, middle)
            /\ Expected(t, middle) \o Writes(message, EndsIn(t, middle)).out
                 = Expected(t \o message, middle)
        BY <4>1, SaidTo, Zenon
      <4> QED
        BY <4>2, <4>3, Zenon DEF t
    <3> QED
      BY <3>1, <3>2, Zenon
  <2>4. CASE r \notin open
    BY <2>2, <2>4
  <2> QED
    BY <2>3, <2>4
<1>3. ASSUME NEW l \in Loggers PROVE StampedUpTo(l, FALSE)'
  BY <1>2 DEF IInv, Readers, StampedUpTo
<1>4. ASSUME ~missed' PROVE StampedUpTo(File, begun[File])' /\ sent'[File] = inLine'
  <2>1. ~missed /\ File \in open /\ begun' = begun
    BY <1>4
  <2>2. File \in Readers /\ begun[File] \in BOOLEAN /\ StampedUpTo(File, begun[File])
    BY <2>1 DEF IInv, TypeOK, Readers
  <2>3. StampedUpTo(File, begun[File])'
    <3> DEFINE middle == begun[File]
    <3>1. middle \in BOOLEAN /\ StampedUpTo(File, middle) /\ begun'[File] = middle
      BY <2>1, <2>2
    <3> HIDE DEF middle, SendToAll
    <3>2. /\ sent'[File] = EndsIn(text'[File], middle)
          /\ out'[File] = Expected(text'[File], middle)
      BY <1>2, <2>2, <3>1, Zenon
    <3> QED
      BY <3>1, <3>2, Zenon DEF StampedUpTo
  <2>4. /\ sent'[File] = Writes(message, sent[File]).sent
        /\ sent[File] \in BOOLEAN
    BY <2>1, <2>2 DEF IInv, TypeOK
  <2>5. sent'[File] = EndsIn(message, sent[File])
    BY <2>4, <1>0, WritesExpected
  <2>6. EndsIn(message, sent[File]) = (message[Len(message)] # "nl")
    BY <1>0 DEF EndsIn
  <2> QED
    BY <2>3, <2>5, <2>6
<1> QED
  BY <1>1, <1>3, <1>4 DEF IInv

\* The invariant holds in every reachable state: initially, and after every
\* step of SendToAll, the connections of log clients and OpenLogFile.
THEOREM Inductive == Spec => []IInv
<1>1. Init => IInv
  <2> SUFFICES ASSUME Init PROVE IInv
    OBVIOUS
  <2>1. TypeOK
    <3>1. <<>> \in Text /\ <<>> \in Seq(Chars \cup {"stamp"})
      BY EmptySeq DEF Text
    <3>2. open \subseteq Readers /\ inLine \in BOOLEAN /\ missed \in BOOLEAN
      BY DEF Init, Readers
    <3>3. said \in 0..MaxSaid
      BY LogAssumption DEF Init
    <3>4. sent \in [Readers -> BOOLEAN] /\ begun \in [Readers -> BOOLEAN]
      BY DEF Init
    <3>5. /\ out \in [Readers -> Seq(Chars \cup {"stamp"})]
          /\ text \in [Readers -> Text]
      BY <3>1, Zenon DEF Init
    <3> QED
      BY <3>2, <3>3, <3>4, <3>5 DEF TypeOK
  <2>2. ASSUME NEW r \in Readers PROVE StampedUpTo(r, FALSE)
    BY ExpectedEmpty DEF Init, StampedUpTo
  <2>3. begun[File] = FALSE /\ sent[File] = inLine
    BY DEF Init, Readers
  <2> QED
    BY <2>1, <2>2, <2>3 DEF IInv, Readers
<1>2. IInv /\ [Next]_vars => IInv'
  <2> SUFFICES ASSUME IInv, [Next]_vars PROVE IInv'
    OBVIOUS
  <2>0. TypeOK /\ <<>> \in Text /\ <<>> \in Seq(Chars \cup {"stamp"})
    BY EmptySeq DEF IInv, Text
  <2>1. ASSUME NEW message \in Pieces, SendToAll(message) PROVE IInv'
    BY <2>1, SendToAllStep
  <2>2. ASSUME NEW l \in Loggers, LoggerConnects(l) PROVE IInv'
    <3> USE <2>2 DEF LoggerConnects, Opened
    <3>0. l \in Readers /\ l # File /\ File \in Readers
      BY FileAssumption DEF Readers
    <3>1. TypeOK'
      BY <2>0, <3>0 DEF TypeOK
    <3>2. ASSUME NEW r \in Readers, r # l PROVE UNCHANGED <<sent[r], out[r], text[r], begun[r]>>
      BY <2>0, <3>2 DEF TypeOK
    <3>3. StampedUpTo(l, FALSE)'
      BY <2>0, <3>0, ExpectedEmpty DEF TypeOK, StampedUpTo
    <3>4. ASSUME NEW k \in Loggers, k # l PROVE StampedUpTo(k, FALSE)'
      BY <3>2, <3>4 DEF StampedUpTo, IInv, Readers
    <3>5. ~missed' => StampedUpTo(File, begun[File])' /\ sent'[File] = inLine'
      BY <3>0, <3>2 DEF StampedUpTo, IInv
    <3> QED
      BY <3>1, <3>3, <3>4, <3>5 DEF IInv
  <2>3. ASSUME NEW l \in Loggers, LoggerLeaves(l) PROVE IInv'
    BY <2>0, <2>3 DEF LoggerLeaves, IInv, TypeOK, StampedUpTo
  <2>4. CASE OpenLogFile
    <3> USE <2>4 DEF OpenLogFile, Opened
    <3>0. File \in Readers /\ \A l \in Loggers : l \in Readers /\ l # File
      BY FileAssumption DEF Readers
    <3>1. TypeOK'
      BY <2>0, <3>0 DEF TypeOK
    <3>2. ASSUME NEW l \in Loggers PROVE StampedUpTo(l, FALSE)'
      BY <2>0, <3>0 DEF StampedUpTo, IInv, TypeOK
    <3>3. text'[File] = <<>> /\ out'[File] = <<>> /\ begun'[File] = inLine
      BY <2>0, <3>0 DEF TypeOK
    <3>4. ~missed' => StampedUpTo(File, begun[File])' /\ sent'[File] = inLine'
      BY <3>3, ExpectedEmpty DEF StampedUpTo, IInv
    <3> QED
      BY <3>1, <3>2, <3>4 DEF IInv
  <2>5. CASE OpenLogFileFails
    BY <2>0, <2>5 DEF OpenLogFileFails, IInv, TypeOK, StampedUpTo
  <2>6. CASE UNCHANGED vars
    BY <2>0, <2>6 DEF vars, IInv, TypeOK, StampedUpTo
  <2> QED
    BY <2>1, <2>2, <2>3, <2>4, <2>5, <2>6 DEF Next
<1> QED
  BY <1>1, <1>2, PTL DEF Spec

\* The variables of the log have their types.
THEOREM TypeCorrect == Spec => []TypeOK
<1>1. IInv => TypeOK
  BY DEF IInv
<1> QED
  BY <1>1, Inductive, PTL

\* The log file has a stamp in front of every line and nowhere else, for
\* messages cut anywhere and of any length (SendToAll, OpenLogFile).
THEOREM FileCorrect == Spec => []FileStamped
<1>1. IInv => FileStamped
  BY DEF IInv, FileStamped, StampedUpTo
<1> QED
  BY <1>1, Inductive, PTL

\* So has the output of every log client, however many there are.
THEOREM LoggersCorrect == Spec => []LoggersStamped
<1>1. IInv => LoggersStamped
  BY DEF IInv, LoggersStamped, StampedUpTo
<1> QED
  BY <1>1, Inductive, PTL
=============================================================================
