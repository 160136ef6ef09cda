---------------------------- MODULE PtyFlowProofs ----------------------------
(***************************************************************************)
(* Proofs about PtyFlow.  The first half is about Without, the loop that   *)
(* throws out ignored characters: what it keeps, and that it can be        *)
(* applied piece by piece.  The second half shows that the input of the    *)
(* child is shielded from ignored characters and otherwise complete.       *)
(***************************************************************************)
EXTENDS PtyFlow, Integers, SequenceTheorems, WellFoundedInduction, TLAPS

\* Induction over the naturals, stated for a set: among the numbers that are
\* missing from T there would be a least one.
LEMMA SetInduction ==
    ASSUME NEW T, 0 \in T, \A n \in Nat : n \in T => n + 1 \in T
    PROVE  \A n \in Nat : n \in T
<1> DEFINE R == OpToRel(<, Nat)
<1> SUFFICES ASSUME Nat \ T # {} PROVE FALSE
  OBVIOUS
<1>1. PICK x \in Nat \ T : \A y \in Nat \ T : <<y, x>> \notin R
  BY NatLessThanWellFounded, WFMin
<1>2. x # 0 /\ x - 1 \in Nat /\ x - 1 < x
  OBVIOUS
<1>3. x - 1 \in Nat \ T
  BY <1>2
<1>4. <<x - 1, x>> \in R
  BY <1>2 DEF OpToRel
<1> QED
  BY <1>1, <1>3, <1>4

\* The loop in Without: what character k makes of what was kept so far.
OneMore(text, chars, k, s) == IF text[k] \in chars THEN s ELSE Append(s, text[k])

\* The recursive function in Without, defined on the first n characters.
Loop(text, chars, n, kept) ==
    kept = [i \in 0..n |-> IF i = 0 THEN <<>> ELSE OneMore(text, chars, i, kept[i - 1])]

\* There is such a function for every n: what Without chooses exists.
LEMMA LoopExists ==
    ASSUME NEW text, NEW chars
    PROVE  \A n \in Nat : \E kept : Loop(text, chars, n, kept)
<1> DEFINE T == {n \in Nat : \E kept : Loop(text, chars, n, kept)}
<1>1. 0 \in T
  <2> DEFINE g == [i \in 0..0 |-> <<>>]
  <2>1. Loop(text, chars, 0, g)
    BY DEF Loop
  <2> QED
    BY <2>1
<1>2. ASSUME NEW n \in Nat, n \in T PROVE n + 1 \in T
  <2>1. PICK g : Loop(text, chars, n, g)
    BY <1>2
  <2> DEFINE h == [i \in 0..(n + 1) |-> IF i = n + 1 THEN OneMore(text, chars, n + 1, g[n])
                                        ELSE g[i]]
             E(i) == IF i = 0 THEN <<>> ELSE OneMore(text, chars, i, h[i - 1])
  <2>2. ASSUME NEW i \in 0..(n + 1) PROVE h[i] = E(i)
    <3>1. CASE i = n + 1
      <4>1. i - 1 = n /\ n \in 0..(n + 1) /\ n # n + 1 /\ i # 0
        BY <3>1
      <4>2. h[n] = g[n]
        BY <4>1
      <4>3. h[i] = OneMore(text, chars, n + 1, g[n])
        BY <3>1
      <4>4. E(i) = OneMore(text, chars, i, h[i - 1])
        BY <4>1
      <4> HIDE DEF h, E
      <4> QED
        BY <3>1, <4>1, <4>2, <4>3, <4>4
    <3>2. CASE i = 0
      <4>1. 0 \in 0..n /\ i # n + 1
        BY <3>2
      <4>2. g[0] = IF 0 = 0 THEN <<>> ELSE OneMore(text, chars, 0, g[0 - 1])
        BY <2>1, <4>1, Zenon DEF Loop
      <4> QED
        BY <3>2, <4>1, <4>2
    <3>3. CASE i \in 1..n
      <4>1. i - 1 \in 0..n /\ i - 1 # n + 1 /\ i # n + 1 /\ i \in 0..n /\ i # 0
        BY <3>3
      <4>2. h[i] = g[i] /\ h[i - 1] = g[i - 1]
        BY <4>1
      <4>3. g[i] = IF i = 0 THEN <<>> ELSE OneMore(text, chars, i, g[i - 1])
        BY <4>1, <2>1, Zenon DEF Loop
      <4> HIDE DEF h
      <4> QED
        BY <4>1, <4>2, <4>3
    <3> QED
      BY <3>1, <3>2, <3>3
  <2>3. h = [i \in 0..(n + 1) |-> E(i)]
    BY <2>2
  <2>4. Loop(text, chars, n + 1, h)
    BY <2>3 DEF Loop
  <2> QED
    BY <2>4
<1> HIDE DEF T
<1>3. \A n \in Nat : n \in T
  BY <1>1, <1>2, SetInduction
<1> QED
  BY <1>3 DEF T

\* The recursive function in Without, step by step.
Rounds(text, chars, kept) ==
    /\ kept[0] = <<>>
    /\ \A i \in 1..Len(text) : kept[i] = OneMore(text, chars, i, kept[i - 1])
    /\ \A i \in 0..Len(text) : kept[i] \in Text

\* Without is computed by such steps.
LEMMA WithoutRounds ==
    ASSUME NEW text \in Text, NEW chars
    PROVE  \E kept : Rounds(text, chars, kept) /\ Without(text, chars) = kept[Len(text)]
<1> DEFINE P(kept) ==
      kept = [i \in 0..Len(text) |->
          IF i = 0 THEN <<>>
          ELSE IF text[i] \in chars THEN kept[i - 1]
          ELSE Append(kept[i - 1], text[i])]
           kept == CHOOSE g : P(g)
<1>0. Len(text) \in Nat
  BY LenProperties DEF Text
<1>1. \E g : P(g)
  <2>1. \E g : Loop(text, chars, Len(text), g)
    BY <1>0, LoopExists
  <2> QED
    BY <2>1, Zenon DEF Loop, OneMore
<1>2. Without(text, chars) = kept[Len(text)]
  BY Zenon DEF Without
<1>3. P(kept)
  BY <1>1, Zenon
<1>4. Loop(text, chars, Len(text), kept)
  BY <1>3, Zenon DEF Loop, OneMore
<1> HIDE DEF kept
<1>5. kept[0] = <<>>
  <2>1. 0 \in 0..Len(text)
    BY <1>0
  <2>2. kept[0] = IF 0 = 0 THEN <<>> ELSE OneMore(text, chars, 0, kept[0 - 1])
    BY <1>4, <2>1, Zenon DEF Loop
  <2> QED
    BY <2>2
<1>6. ASSUME NEW i \in 1..Len(text)
      PROVE  kept[i] = OneMore(text, chars, i, kept[i - 1])
  <2>1. i \in 0..Len(text) /\ i # 0
    BY <1>0
  <2>2. kept[i] = IF i = 0 THEN <<>> ELSE OneMore(text, chars, i, kept[i - 1])
    BY <1>4, <2>1, Zenon DEF Loop
  <2> QED
    BY <2>1, <2>2
<1> DEFINE T == {i \in Nat : i <= Len(text) => kept[i] \in Text}
<1>7. 0 \in T
  BY <1>5, EmptySeq DEF Text
<1>8. ASSUME NEW i \in Nat, i \in T PROVE i + 1 \in T
  <2>1. CASE i + 1 <= Len(text)
    <3>1. i + 1 \in 1..Len(text) /\ (i + 1) - 1 = i
      BY <1>0, <2>1
    <3>2. kept[i + 1] = OneMore(text, chars, i + 1, kept[(i + 1) - 1])
      BY <1>6, <3>1
    <3>3. kept[i] \in Text
      BY <1>8, <1>0, <2>1
    <3>4. text[i + 1] \in Chars
      BY <3>1, ElementOfSeq DEF Text
    <3>5. kept[i + 1] \in Text
      BY <3>1, <3>2, <3>3, <3>4, AppendProperties DEF Text, OneMore
    <3> QED
      BY <3>5
  <2>2. CASE ~(i + 1 <= Len(text))
    BY <2>2
  <2> QED
    BY <2>1, <2>2
<1> HIDE DEF T
<1>9. \A i \in Nat : i \in T
  BY <1>7, <1>8, SetInduction
<1>10. \A i \in 0..Len(text) : kept[i] \in Text
  BY <1>0, <1>9 DEF T
<1> QED
  BY <1>2, <1>5, <1>6, <1>10, Zenon DEF Rounds

\* What is kept is text.
LEMMA WithoutType ==
    ASSUME NEW text \in Text, NEW chars
    PROVE  Without(text, chars) \in Text
<1>1. Len(text) \in 0..Len(text)
  BY LenProperties DEF Text
<1> QED
  BY <1>1, WithoutRounds DEF Rounds

\* Nothing is kept of nothing.
LEMMA WithoutEmpty ==
    ASSUME NEW chars
    PROVE  Without(<<>>, chars) = <<>>
<1>1. <<>> \in Text /\ Len(<<>>) = 0
  BY DEF Text
<1> QED
  BY <1>1, WithoutRounds DEF Rounds

\* No character that is thrown out is kept.
LEMMA WithoutClean ==
    ASSUME NEW text \in Text, NEW chars
    PROVE  \A i \in 1..Len(Without(text, chars)) : Without(text, chars)[i] \notin chars
<1> DEFINE Clean(s) == \A i \in 1..Len(s) : s[i] \notin chars
           n == Len(text)
<1>0. n \in Nat
  BY LenProperties DEF Text
<1>1. PICK kept : Rounds(text, chars, kept) /\ Without(text, chars) = kept[n]
  BY WithoutRounds
<1> DEFINE T == {k \in Nat : k <= n => Clean(kept[k])}
<1>2. 0 \in T
  BY <1>1 DEF Rounds
<1>3. ASSUME NEW k \in Nat, k \in T PROVE k + 1 \in T
  <2>1. CASE k + 1 <= n
    <3>1. k + 1 \in 1..n /\ (k + 1) - 1 = k /\ k \in 0..n /\ k <= n
      BY <1>0, <2>1
    <3>2. kept[k + 1] = OneMore(text, chars, k + 1, kept[(k + 1) - 1])
      BY <1>1, <3>1 DEF Rounds
    <3>3. kept[k] \in Text /\ Clean(kept[k])
      BY <1>1, <1>3, <3>1 DEF Rounds
    <3>4. CASE text[k + 1] \in chars
      <4>1. kept[k + 1] = kept[k]
        BY <3>1, <3>2, <3>4 DEF OneMore
      <4> HIDE DEF n
      <4> QED
        BY <3>3, <4>1
    <3>5. CASE text[k + 1] \notin chars
      <4> DEFINE s == kept[k]
                 c == text[k + 1]
      <4>1. kept[k + 1] = Append(s, c)
        BY <3>1, <3>2, <3>5 DEF OneMore
      <4>2. s \in Text /\ Clean(s) /\ c \notin chars /\ c \in Chars
        BY <3>1, <3>3, <3>5, ElementOfSeq DEF Text
      <4> HIDE DEF s, c, n
      <4>3. Clean(Append(s, c))
        BY <4>2 DEF Text
      <4> QED
        BY <4>1, <4>3
    <3> QED
      BY <3>4, <3>5
  <2>2. CASE ~(k + 1 <= n)
    BY <2>2
  <2> QED
    BY <2>1, <2>2
<1> HIDE DEF T, n
<1>4. \A k \in Nat : k \in T
  BY <1>2, <1>3, SetInduction
<1>5. Clean(kept[n])
  BY <1>0, <1>4 DEF T
<1> QED
  BY <1>1, <1>5

\* A text without such characters is kept as it is.
LEMMA WithoutNothing ==
    ASSUME NEW text \in Text, NEW chars, \A i \in 1..Len(text) : text[i] \notin chars
    PROVE  Without(text, chars) = text
<1> DEFINE n == Len(text)
<1>0. n \in Nat
  BY LenProperties DEF Text
<1>1. PICK kept : Rounds(text, chars, kept) /\ Without(text, chars) = kept[n]
  BY WithoutRounds
<1> DEFINE Copied(k) == kept[k] = SubSeq(text, 1, k)
           T == {k \in Nat : k <= n => Copied(k)}
<1>2. 0 \in T
  <2>1. SubSeq(text, 1, 0) = <<>>
    BY SubSeqEmpty
  <2>2. Copied(0)
    BY <1>1, <2>1 DEF Rounds
  <2> HIDE DEF Copied
  <2> QED
    BY <2>2
<1>3. ASSUME NEW k \in Nat, k \in T PROVE k + 1 \in T
  <2>1. CASE k + 1 <= n
    <3>1. k + 1 \in 1..n /\ (k + 1) - 1 = k /\ k <= n /\ 1 \in 1..n /\ k + 1 \in 1..n
      BY <1>0, <2>1
    <3>2. kept[k + 1] = OneMore(text, chars, k + 1, kept[(k + 1) - 1])
      BY <1>1, <3>1 DEF Rounds
    <3>3. kept[k + 1] = Append(kept[k], text[k + 1])
      BY <3>1, <3>2 DEF OneMore
    <3>4. Copied(k)
      <4> HIDE DEF Copied, n
      <4> QED
        BY <1>3, <3>1
    <3>5. SubSeq(text, 1, k + 1) = SubSeq(text, 1, k) \o <<text[k + 1]>>
      BY <3>1, SubSeqRecursiveSecond DEF Text
    <3>6. kept[k] \in Text /\ text[k + 1] \in Chars
      BY <3>1, <1>1, ElementOfSeq DEF Text, Rounds
    <3>7. Append(kept[k], text[k + 1]) = kept[k] \o <<text[k + 1]>>
      BY <3>6, AppendIsConcat DEF Text
    <3>8. Copied(k + 1)
      BY <3>3, <3>4, <3>5, <3>7, Zenon
    <3> HIDE DEF Copied
    <3> QED
      BY <3>8
  <2>2. CASE ~(k + 1 <= n)
    <3> HIDE DEF Copied
    <3> QED
      BY <2>2
  <2> QED
    BY <2>1, <2>2
<1> HIDE DEF T, Copied, n
<1>4. \A k \in Nat : k \in T
  BY <1>2, <1>3, SetInduction
<1>5. Copied(n)
  BY <1>0, <1>4 DEF T
<1>6. SubSeq(text, 1, Len(text)) = text
  BY SubSeqFull DEF Text
<1> QED
  BY <1>1, <1>5, <1>6, Zenon DEF Copied, n

\* A character may be added before or after two texts are joined.
LEMMA TextAppend ==
    ASSUME NEW a \in Text, NEW b \in Text, NEW c \in Chars
    PROVE  a \o Append(b, c) = Append(a \o b, c)
BY DEF Text

\* Characters may be thrown out before or after two texts are joined: it makes
\* no difference how the input was cut into reads.
LEMMA WithoutConcat ==
    ASSUME NEW s \in Text, NEW t \in Text, NEW chars
    PROVE  Without(s \o t, chars) = Without(s, chars) \o Without(t, chars)
<1> DEFINE u == s \o t
           m == Len(s)
           n == Len(t)
<1>1. /\ m \in Nat /\ n \in Nat /\ u \in Text /\ Len(u) = m + n
      /\ \A k \in 1..m : u[k] = s[k]
      /\ \A k \in 1..n : u[m + k] = t[k]
  BY DEF Text
<1>2. PICK gs : Rounds(s, chars, gs) /\ Without(s, chars) = gs[m]
  BY WithoutRounds
<1>3. PICK gt : Rounds(t, chars, gt) /\ Without(t, chars) = gt[n]
  BY WithoutRounds
<1>4. PICK gu : Rounds(u, chars, gu) /\ Without(u, chars) = gu[m + n]
  BY <1>1, WithoutRounds
<1>s. /\ gs[0] = <<>>
      /\ \A k \in 1..m : gs[k] = OneMore(s, chars, k, gs[k - 1])
      /\ \A k \in 0..m : gs[k] \in Text
  BY <1>2 DEF Rounds
<1>t. /\ gt[0] = <<>>
      /\ \A k \in 1..n : gt[k] = OneMore(t, chars, k, gt[k - 1])
      /\ \A k \in 0..n : gt[k] \in Text
      /\ \A k \in 1..n : t[k] \in Chars
  BY <1>3, ElementOfSeq DEF Rounds, Text
<1>u. /\ gu[0] = <<>>
      /\ \A k \in 1..(m + n) : gu[k] = OneMore(u, chars, k, gu[k - 1])
  BY <1>1, <1>4 DEF Rounds
<1> HIDE DEF u, m, n
<1>5. \A k \in 0..m : gu[k] = gs[k]
  <2> DEFINE T == {k \in Nat : k <= m => gu[k] = gs[k]}
  <2>1. 0 \in T
    BY <1>s, <1>u
  <2>2. ASSUME NEW k \in Nat, k \in T PROVE k + 1 \in T
    <3>0. CASE k + 1 <= m
      <4>1. k + 1 \in 1..m /\ k + 1 \in 1..(m + n) /\ (k + 1) - 1 = k
        BY <1>1, <3>0
      <4>2. u[k + 1] = s[k + 1]
        BY <1>1, <4>1
      <4>3. gs[k + 1] = OneMore(s, chars, k + 1, gs[(k + 1) - 1])
        BY <4>1, <1>s
      <4>4. gu[k + 1] = OneMore(u, chars, k + 1, gu[(k + 1) - 1])
        BY <4>1, <1>u
      <4>5. gu[k] = gs[k]
        BY <2>2, <3>0, <1>1
      <4>6. gu[k + 1] = gs[k + 1]
        BY <4>1, <4>2, <4>3, <4>4, <4>5 DEF OneMore
      <4> QED
        BY <4>6
    <3>1. CASE ~(k + 1 <= m)
      BY <3>1
    <3> QED
      BY <3>0, <3>1
  <2> HIDE DEF T
  <2>3. \A k \in Nat : k \in T
    BY <2>1, <2>2, SetInduction
  <2> QED
    BY <2>3, <1>1 DEF T
<1>6. gs[m] \in Text
  BY <1>1, <1>s
<1>7. \A k \in 0..n : gu[m + k] = gs[m] \o gt[k]
  <2> DEFINE Joined(k) == gu[m + k] = gs[m] \o gt[k]
             T == {k \in Nat : k <= n => Joined(k)}
  <2>1. 0 \in T
    <3>1. gu[m + 0] = gs[m]
      BY <1>5, <1>1
    <3>2. gs[m] = gs[m] \o gt[0]
      BY <1>t, <1>6, ConcatEmptySeq DEF Text
    <3>3. Joined(0)
      BY <3>1, <3>2
    <3> HIDE DEF Joined
    <3> QED
      BY <3>3
  <2>2. ASSUME NEW k \in Nat, k \in T PROVE k + 1 \in T
    <3>0. CASE k + 1 <= n
      <4>1. k + 1 \in 1..n /\ m + (k + 1) \in 1..(m + n) /\ (k + 1) - 1 = k
            /\ (m + (k + 1)) - 1 = m + k /\ k \in 0..n
        BY <1>1, <3>0
      <4>2. u[m + (k + 1)] = t[k + 1]
        BY <1>1, <4>1
      <4>3. gt[k + 1] = OneMore(t, chars, k + 1, gt[(k + 1) - 1])
        BY <4>1, <1>t
      <4>4. gu[m + (k + 1)] = OneMore(u, chars, m + (k + 1), gu[(m + (k + 1)) - 1])
        BY <4>1, <1>u
      <4>5. gu[m + k] = gs[m] \o gt[k]
        <5> HIDE DEF Joined
        <5>1. Joined(k)
          BY <2>2, <1>1, <3>0
        <5> QED
          BY <5>1, Zenon DEF Joined
      <4>6. gt[k] \in Text /\ t[k + 1] \in Chars
        BY <4>1, <1>t
      <4>7. gs[m] \o Append(gt[k], t[k + 1]) = Append(gs[m] \o gt[k], t[k + 1])
        BY <1>6, <4>6, TextAppend
      <4>8. Joined(k + 1)
        <5>1. CASE t[k + 1] \in chars
          <6>1. gu[m + (k + 1)] = gu[m + k]
            BY <4>1, <4>2, <4>4, <5>1 DEF OneMore
          <6>2. gt[k + 1] = gt[k]
            BY <4>1, <4>3, <5>1 DEF OneMore
          <6> QED
            BY <4>5, <6>1, <6>2, Zenon
        <5>2. CASE t[k + 1] \notin chars
          <6>1. gu[m + (k + 1)] = Append(gu[m + k], t[k + 1])
            BY <4>1, <4>2, <4>4, <5>2 DEF OneMore
          <6>2. gt[k + 1] = Append(gt[k], t[k + 1])
            BY <4>1, <4>3, <5>2 DEF OneMore
          <6> QED
            BY <4>5, <4>7, <6>1, <6>2, Zenon
        <5> QED
          BY <5>1, <5>2, Zenon
      <4> HIDE DEF Joined
      <4> QED
        BY <4>8
    <3>1. CASE ~(k + 1 <= n)
      <4> HIDE DEF Joined
      <4> QED
        BY <3>1
    <3> QED
      BY <3>0, <3>1
  <2> HIDE DEF T, Joined
  <2>3. \A k \in Nat : k \in T
    BY <2>1, <2>2, SetInduction
  <2>4. \A k \in 0..n : Joined(k)
    BY <2>3, <1>1 DEF T
  <2> QED
    BY <2>4, Zenon DEF Joined
<1>8. Without(u, chars) = gs[m] \o gt[n]
  <2>1. n \in 0..n
    BY <1>1
  <2> QED
    BY <2>1, <1>4, <1>7, Zenon
<1> QED
  BY <1>2, <1>3, <1>8, Zenon DEF u

\* No character of s is among chars.
Clean(s, chars) == \A i \in 1..Len(s) : s[i] \notin chars

\* A clean text stays clean with one more such character,
LEMMA CleanAppend ==
    ASSUME NEW s \in Text, NEW c \in Chars, NEW chars, Clean(s, chars), c \notin chars
    PROVE  Clean(Append(s, c), chars)
BY DEF Clean, Text

\* and with one less, which moves to the end of the text before it.
LEMMA CleanTail ==
    ASSUME NEW s \in Text, NEW chars, Clean(s, chars), s # <<>>
    PROVE  /\ Clean(Tail(s), chars) /\ Head(s) \notin chars
           /\ Head(s) \in Chars /\ Tail(s) \in Text
           /\ \A t \in Text : t \o s = Append(t, Head(s)) \o Tail(s)
BY DEF Clean, Text

\* What processClass::Send writes has no ignored character.
LEMMA SanitizedType ==
    ASSUME NEW text \in Text
    PROVE  Sanitized(text) \in Text /\ Clean(Sanitized(text), Ignored)
<1>1. CASE Ignored # {}
  BY <1>1, WithoutType, WithoutClean DEF Sanitized, Clean
<1>2. CASE Ignored = {}
  <2>1. \A i \in 1..Len(text) : text[i] \in Chars
    BY ElementOfSeq DEF Text
  <2>2. Len(text) \in Nat
    BY LenProperties DEF Text
  <2>3. [i \in 1..Len(text) |->
            IF \E j \in 1..i : text[j] = "nul" THEN "nul" ELSE text[i]]
        \in [1..Len(text) -> Chars]
    <3>1. ASSUME NEW i \in 1..Len(text), NEW j \in 1..i, text[j] = "nul"
          PROVE  "nul" \in Chars
      BY <2>1, <2>2, <3>1
    <3> QED
      BY <2>1, <3>1
  <2>4. Sanitized(text) \in [1..Len(text) -> Chars]
    BY <1>2, <2>3 DEF Sanitized
  <2>5. Sanitized(text) \in Text
    BY <2>2, <2>4, SeqDef DEF Text
  <2> QED
    BY <1>2, <2>5 DEF Clean
<1> QED
  BY <1>1, <1>2

\* NULs apart, it is all that was typed and is not ignored.  Without ignChars
\* this takes an input without NUL: after one, strncpy copies NULs only (the
\* run pty_nul).
LEMMA SanitizedKeeps ==
    ASSUME NEW text \in Text, Ignored # {} \/ "nul" \notin Chars
    PROVE  Without(Sanitized(text), {"nul"}) = Without(text, Ignored \cup {"nul"})
<1>1. CASE Ignored # {}
  <2> DEFINE kept == Without(text, Ignored \cup {"nul"})
  <2>1. Sanitized(text) = kept /\ kept \in Text
    BY <1>1, WithoutType DEF Sanitized
  <2>2. \A i \in 1..Len(kept) : kept[i] \notin {"nul"}
    BY WithoutClean
  <2> HIDE DEF kept
  <2>3. Without(kept, {"nul"}) = kept
    BY <2>1, <2>2, WithoutNothing
  <2> QED
    BY <2>1, <2>3 DEF kept
<1>2. CASE Ignored = {} /\ "nul" \notin Chars
  <2>1. \A i \in 1..Len(text) : text[i] # "nul"
    BY <1>2, ElementOfSeq DEF Text
  <2>2. Sanitized(text) = [i \in 1..Len(text) |-> text[i]]
    BY <1>2, <2>1 DEF Sanitized
  <2>3. Sanitized(text) = text
    BY <2>2 DEF Text
  <2>4. Ignored \cup {"nul"} = {"nul"}
    BY <1>2
  <2> QED
    BY <2>3, <2>4
<1> QED
  BY <1>1, <1>2

\* The inductive invariant of the terminal.  TakeInput fills buf, so it must be
\* empty outside a write, else the rest of a write would be lost; and input
\* that finds no process item must find no child that could miss it.
SInv ==
    /\ TypeOK
    /\ pc # "write" => buf = <<>>
    /\ ~listed => child = "dead"
    /\ child = "writes" => output >= 1
    /\ Clean(buf, Ignored) /\ Clean(toChild, Ignored) /\ Clean(got, Ignored)

\* The bounds as numbers.
LEMMA Bounds ==
    /\ InCap \in Nat /\ OutCap \in Nat /\ InCap >= 1 /\ OutCap >= 1
    /\ MaxTyped \in Nat /\ MaxOutput \in Nat
<1>1. /\ InCap \in Nat /\ OutCap \in Nat /\ InCap # 0 /\ OutCap # 0
      /\ MaxTyped \in Nat /\ MaxOutput \in Nat
  BY FlowAssumption, Zenon
<1> QED
  BY <1>1

\* The invariant holds in every reachable state: initially, and after every
\* step of the server, the users and the child.
THEOREM Inductive == Spec => []SInv
<1>0. <<>> \in Text /\ Clean(<<>>, Ignored)
  BY DEF Text, Clean
<1>1. Init => SInv
  <2> SUFFICES ASSUME Init PROVE SInv
    OBVIOUS
  <2>1. inbox \in [Users -> Text] /\ heard \in [Users -> Seq(1..MaxOutput)]
    BY <1>0 DEF Init
  <2>2. Len(toChild) <= InCap /\ Len(toServer) <= OutCap
    BY Bounds DEF Init
  <2> QED
    BY <1>0, <2>1, <2>2, Bounds DEF Init, SInv, TypeOK
<1>2. SInv /\ [Next]_vars => SInv'
  <2> SUFFICES ASSUME SInv, [Next]_vars PROVE SInv'
    OBVIOUS
  <2>0. TypeOK
    BY DEF SInv
  <2>1. ASSUME NEW u \in Users, TakeInput(u) PROVE SInv'
    <3> USE <2>1 DEF TakeInput
    <3>1. inbox[u] \in Text /\ inbox' \in [Users -> Text]
      BY <2>0, <1>0 DEF TypeOK
    <3>2. taken' \in Text
      BY <2>0, <3>1, ConcatProperties DEF TypeOK, Text
    <3>3. buf' \in Text /\ Clean(buf', Ignored)
      BY <2>0, <3>1, SanitizedType DEF SInv, TypeOK
    <3>4. /\ pc' \in {"pass", "write"} /\ (pc' # "write" => buf' = <<>>)
          /\ child' \in {"runs", "writes", "dead"}
          /\ (child' # "dead" => child' = child)
          /\ UNCHANGED <<listed, toChild, toServer, typed, output, got, heard>>
          /\ todo' \subseteq Users \cup {Pty}
      BY <2>0 DEF Visit, SInv, TypeOK
    <3> QED
      BY <3>1, <3>2, <3>3, <3>4 DEF SInv, TypeOK
  <2>2. CASE WriteSome
    <3> USE <2>2 DEF WriteSome, loopVars, worldVars
    <3>1. /\ buf \in Text /\ Clean(buf, Ignored) /\ buf # <<>>
          /\ toChild \in Text /\ Clean(toChild, Ignored)
      BY DEF SInv, TypeOK
    <3>2. /\ Clean(Tail(buf), Ignored) /\ Head(buf) \notin Ignored
          /\ Head(buf) \in Chars /\ Tail(buf) \in Text
      BY <3>1, CleanTail
    <3>3. /\ Clean(toChild', Ignored)
      BY <3>1, <3>2, CleanAppend
    <3>4. toChild' \in Text /\ Len(toChild') <= InCap
      BY <3>1, <3>2, Bounds DEF Text
    <3> QED
      BY <3>2, <3>3, <3>4 DEF SInv, TypeOK
  <2>3. CASE WriteReturns
    BY <2>3, <1>0 DEF WriteReturns, worldVars, SInv, TypeOK
  <2>4. CASE TakeOutput
    <3> USE <2>4 DEF TakeOutput, Visit
    <3>1. CASE toServer = <<>>
      BY <3>1 DEF SInv, TypeOK
    <3>2. CASE toServer # <<>>
      <4>1. PICK k \in 1..Len(toServer) :
              /\ SendToAll(k)
              /\ toServer' = SubSeq(toServer, k + 1, Len(toServer))
        BY <3>2
      <4>2. toServer \in Seq(1..MaxOutput) /\ Len(toServer) <= OutCap
        BY <2>0 DEF TypeOK
      <4>3. /\ SubSeq(toServer, 1, k) \in Seq(1..MaxOutput)
            /\ toServer' \in Seq(1..MaxOutput) /\ Len(toServer') <= OutCap
        <5> DEFINE n == Len(toServer)
                   rest == SubSeq(toServer, k + 1, n)
        <5>1. n \in Nat /\ k \in 1..n /\ n <= OutCap
          BY <4>2
        <5>2. \A i \in 1..n : toServer[i] \in 1..MaxOutput
          BY <4>2, ElementOfSeq
        <5> HIDE DEF n
        <5>3. /\ \A i \in (k + 1)..n : toServer[i] \in 1..MaxOutput
              /\ \A i \in 1..k : toServer[i] \in 1..MaxOutput
              /\ k \in Int /\ k + 1 \in Int /\ n \in Int
          BY <5>1, <5>2
        <5>4. /\ rest \in Seq(1..MaxOutput)
              /\ Len(rest) = IF k + 1 <= n THEN n - (k + 1) + 1 ELSE 0
          BY <5>3, SubSeqProperties
        <5>5. SubSeq(toServer, 1, k) \in Seq(1..MaxOutput)
          BY <5>3, SubSeqProperties
        <5>6. Len(rest) <= OutCap
          BY <5>1, <5>4, Bounds
        <5>7. toServer' = rest
          BY <4>1 DEF n
        <5> QED
          BY <5>4, <5>5, <5>6, <5>7
      <4>4. heard' \in [Users -> Seq(1..MaxOutput)]
        <5>1. \A u \in Users : heard[u] \o SubSeq(toServer, 1, k)
                                 \in Seq(1..MaxOutput)
          BY <2>0, <4>3, ConcatProperties DEF TypeOK
        <5> QED
          BY <4>1, <5>1 DEF SendToAll
      <4> QED
        BY <4>3, <4>4 DEF SInv, TypeOK
    <3> QED
      BY <3>1, <3>2
  <2>5. CASE ChildReads
    <3> USE <2>5 DEF ChildReads, serverVars, loopVars
    <3>1. /\ got \in Text /\ Clean(got, Ignored)
          /\ toChild \in Text /\ Clean(toChild, Ignored) /\ toChild # <<>>
      BY DEF SInv, TypeOK
    <3>2. /\ Clean(Tail(toChild), Ignored) /\ Head(toChild) \notin Ignored
          /\ Head(toChild) \in Chars /\ Tail(toChild) \in Text
      BY <3>1, CleanTail
    <3>3. got' \in Text /\ Clean(got', Ignored)
      BY <3>1, <3>2, CleanAppend, AppendProperties DEF Text
    <3>4. Len(toChild') <= InCap
      <4>1. Len(toChild) <= InCap
        BY <2>0 DEF TypeOK
      <4> QED
        BY <3>1, <4>1, Bounds DEF Text
    <3> QED
      BY <3>2, <3>3, <3>4 DEF SInv, TypeOK
  <2>6. CASE ChildWrites
    BY <2>6, Bounds DEF ChildWrites, serverVars, loopVars, SInv, TypeOK
  <2>7. CASE ChildPuts
    <3> USE <2>7 DEF ChildPuts, serverVars, loopVars
    <3>1. output \in 1..MaxOutput
      BY Bounds DEF SInv, TypeOK
    <3>2. toServer' \in Seq(1..MaxOutput) /\ Len(toServer') = Len(toServer) + 1
      BY <2>0, <3>1, AppendProperties DEF TypeOK
    <3>3. Len(toServer') <= OutCap
      <4>1. Len(toServer) \in Nat
        BY <2>0 DEF TypeOK
      <4> QED
        BY <3>2, <4>1, Bounds
    <3> QED
      BY <3>2, <3>3 DEF SInv, TypeOK
  <2>8. CASE ChildDies
    BY <2>8 DEF ChildDies, serverVars, loopVars, SInv, TypeOK
  <2>9. ASSUME NEW u \in Users, NEW c \in Chars, Type(u, c) PROVE SInv'
    <3> USE <2>9 DEF Type, serverVars, loopVars
    <3>1. Append(inbox[u], c) \in Text
      BY <2>0, AppendProperties DEF TypeOK, Text
    <3>2. inbox' \in [Users -> Text]
      BY <2>0, <3>1 DEF TypeOK
    <3>3. typed' \in 0..MaxTyped
      BY <2>0, Bounds DEF TypeOK
    <3> QED
      BY <3>2, <3>3 DEF SInv, TypeOK
  <2>10. CASE Poll
    BY <2>10 DEF Poll, Ready, worldVars, SInv, TypeOK
  <2>11. CASE PassDone
    BY <2>11 DEF PassDone, worldVars, SInv, TypeOK
  <2>12. CASE Reap
    <3>1. /\ <<>> \in Seq(1..MaxOutput) /\ Len(<<>>) <= OutCap
          /\ Len(<<>>) <= InCap
      BY Bounds
    <3> QED
      BY <1>0, <2>12, <3>1 DEF Reap, worldVars, SInv, TypeOK
  <2>13. CASE UNCHANGED vars
    BY <2>13 DEF vars, loopVars, worldVars, SInv, TypeOK
  <2> QED
    BY <2>1, <2>2, <2>3, <2>4, <2>5, <2>6, <2>7, <2>8, <2>9, <2>10, <2>11,
       <2>12, <2>13 DEF Next, Server
<1> QED
  BY <1>1, <1>2, PTL DEF Spec

\* The variables of the terminal have their types; InCap is never exceeded.
THEOREM TypeCorrect == Spec => []TypeOK
<1>1. SInv => TypeOK
  BY DEF SInv
<1> QED
  BY <1>1, Inductive, PTL

\* No ignored character ever reaches the child, or the terminal, whatever the
\* clients type and however the write is split (processClass::Send).
THEOREM ShieldCorrect == Spec => []Shielded
<1>1. SInv => Shielded
  BY DEF SInv, Shielded, Clean
<1> QED
  BY <1>1, Inductive, PTL

\* A character that moves on in the pipe from buf2 to the terminal, or from
\* there to the child, leaves the text in it as it was.
LEMMA MoveHead ==
    ASSUME NEW a \in Text, NEW b \in Text, NEW c \in Text
    PROVE  /\ c # <<>> => (a \o Append(b, Head(c))) \o Tail(c) = (a \o b) \o c
           /\ b # <<>> => (Append(a, Head(b)) \o Tail(b)) \o c = (a \o b) \o c
<1>1. \A s \in Text : s # <<>> =>
         /\ Head(s) \in Chars /\ Tail(s) \in Text
         /\ \A t \in Text : t \o s = Append(t, Head(s)) \o Tail(s)
  BY SMTT(40) DEF Text
<1>2. ASSUME c # <<>> PROVE (a \o Append(b, Head(c))) \o Tail(c) = (a \o b) \o c
  <2>1. a \o b \in Text
    BY ConcatProperties DEF Text
  <2>2. (a \o b) \o c = Append(a \o b, Head(c)) \o Tail(c)
    BY <1>1, <1>2, <2>1
  <2>3. Append(a \o b, Head(c)) = a \o Append(b, Head(c))
    <3>1. Head(c) \in Chars
      BY <1>1, <1>2
    <3> QED
      BY <3>1, TextAppend
  <2> QED
    BY <2>2, <2>3, Zenon
<1>3. ASSUME b # <<>> PROVE (Append(a, Head(b)) \o Tail(b)) \o c = (a \o b) \o c
  <2>1. a \o b = Append(a, Head(b)) \o Tail(b)
    BY <1>1, <1>3
  <2> QED
    BY <2>1, Zenon
<1> QED
  BY <1>2, <1>3

\* What clients type reaches the child once and in order, without what is
\* ignored, for any number of clients and terminals of any size.  (The premise
\* is necessary: see SanitizedKeeps.)
THEOREM DeliveryCorrect ==
    ASSUME Ignored # {} \/ "nul" \notin Chars
    PROVE  Spec => []Delivered
<1> DEFINE DInv == SInv /\ Delivered
           I == Ignored \cup {"nul"}
           N == {"nul"}
<1>1. Init => Delivered
  <2> SUFFICES ASSUME Init PROVE Delivered
    OBVIOUS
  <2>1. (got \o toChild) \o buf = <<>> /\ taken = <<>>
    BY ConcatEmptySeq, EmptySeq DEF Init
  <2> QED
    BY <2>1, WithoutEmpty DEF Delivered
<1>2. SInv /\ Delivered /\ [Next]_vars => Delivered'
  <2> SUFFICES ASSUME SInv, Delivered, [Next]_vars, child' # "dead"
               PROVE  Without((got \o toChild) \o buf, N)' = Without(taken, I)'
    BY DEF Delivered
  <2>0. /\ got \in Text /\ toChild \in Text /\ buf \in Text /\ taken \in Text
        /\ inbox \in [Users -> Text]
    BY DEF SInv, TypeOK
  <2>a. child # "dead" => Without((got \o toChild) \o buf, N) = Without(taken, I)
    BY DEF Delivered
  <2>1. ASSUME NEW u \in Users, TakeInput(u)
        PROVE  Without((got \o toChild) \o buf, N)' = Without(taken, I)'
    <3> DEFINE x == inbox[u]
               pipe == got \o toChild
               clean == Sanitized(x)
    <3>1. /\ child # "dead" /\ buf = <<>> /\ buf' = clean /\ taken' = taken \o x
          /\ got' = got /\ toChild' = toChild
      <4>1. child # "dead" /\ listed /\ pc = "pass"
        BY <2>1 DEF TakeInput, Visit, SInv
      <4> QED
        BY <2>1, <4>1 DEF TakeInput, Visit, SInv
    <3>2. x \in Text /\ pipe \in Text /\ clean \in Text
      BY <2>0, SanitizedType, ConcatProperties DEF Text
    <3>3. pipe \o buf = pipe
      BY <3>1, <3>2, ConcatEmptySeq DEF Text
    <3>4. Without(pipe, N) = Without(taken, I)
      BY <2>a, <3>1, <3>3
    <3>5. Without(clean, N) = Without(x, I)
      BY <3>2, SanitizedKeeps
    <3>6. Without(pipe \o clean, N) = Without(pipe, N) \o Without(clean, N)
      BY <3>2, WithoutConcat
    <3>7. Without(taken \o x, I) = Without(taken, I) \o Without(x, I)
      <4>1. taken \in Text
        BY <2>0
      <4>2. x \in Text
        BY <3>2
      <4> HIDE DEF x, I
      <4> QED
        BY <4>1, <4>2, WithoutConcat
    <3>8. Without(pipe \o clean, N) = Without(taken \o x, I)
      BY <3>4, <3>5, <3>6, <3>7, Zenon
    <3>9. ((got \o toChild) \o buf)' = pipe \o clean
      BY <3>1
    <3> QED
      BY <3>1, <3>8, <3>9
  <2>b. SUFFICES ASSUME /\ child # "dead"
                        /\ taken' = taken
                        /\ ((got \o toChild) \o buf)' = (got \o toChild) \o buf
                 PROVE  Without((got \o toChild) \o buf, N)' = Without(taken, I)'
    <3>2. CASE WriteSome
      BY <3>2, <2>0, <2>b, MoveHead DEF WriteSome, worldVars
    <3>3. CASE WriteReturns
      BY <3>3, <2>0, <2>b DEF WriteReturns, SInv, worldVars
    <3>4. CASE TakeOutput
      BY <3>4, <2>b DEF TakeOutput, Visit
    <3>5. CASE ChildReads
      BY <3>5, <2>0, <2>b, MoveHead DEF ChildReads, serverVars
    <3>6. CASE ChildWrites
      BY <3>6, <2>b DEF ChildWrites, serverVars
    <3>7. CASE ChildPuts
      BY <3>7, <2>b DEF ChildPuts, serverVars
    <3>8. CASE ChildDies
      BY <3>8 DEF ChildDies
    <3>9. ASSUME NEW u \in Users, NEW c \in Chars, Type(u, c)
          PROVE  Without((got \o toChild) \o buf, N)' = Without(taken, I)'
      BY <3>9, <2>b DEF Type, serverVars
    <3>10. CASE Poll
      BY <3>10, <2>b DEF Poll, worldVars
    <3>11. CASE PassDone
      BY <3>11, <2>b DEF PassDone, worldVars
    <3>12. CASE Reap
      BY <3>12, <2>b DEF Reap, worldVars
    <3>13. CASE UNCHANGED vars
      BY <3>13, <2>b DEF vars, worldVars
    <3> QED
      BY <2>1, <3>2, <3>3, <3>4, <3>5, <3>6, <3>7, <3>8, <3>9, <3>10, <3>11,
         <3>12, <3>13 DEF Next, Server
  <2> QED
    BY <2>a, <2>b
<1> QED
  BY <1>1, <1>2, Inductive, PTL DEF Spec
=============================================================================
