------------------------ MODULE ConnectionListProofs ------------------------
(***************************************************************************)
(* Proofs about ConnectionList, for any set of addresses: the pointers     *)
(* always form one list of the connections, no loop stands on a deleted    *)
(* object, and every loop deals with everyone it has to.                   *)
(***************************************************************************)
EXTENDS ConnectionList, SequenceTheorems, TLAPS

\* What Linked says of the elements of the list, in a form that is cited.
LEMMA Elements ==
    ASSUME TypeOK, Linked
    PROVE  /\ Len(list) \in Nat
           /\ \A i \in 1..Len(list) : list[i] \in heap /\ list[i] \in Nodes
           /\ \A n \in heap : \E i \in 1..Len(list) : list[i] = n
           /\ \A k \in Int : At(k) \in heap \cup {NULL}
           /\ \A k \in Int : At(k) = NULL <=> k \notin 1..Len(list)
BY NullAssumption DEF TypeOK, Linked, At

\* Taking one element out of a sequence.
LEMMA WithoutLemma ==
    ASSUME NEW S, NEW s \in Seq(S), NEW k \in 1..Len(s)
    PROVE  /\ Without(s, k) \in Seq(S)
           /\ Len(Without(s, k)) = Len(s) - 1
           /\ \A i \in 1..(Len(s) - 1) :
                 Without(s, k)[i] = IF i < k THEN s[i] ELSE s[i + 1]
<1>1. Len(s) - 1 \in Nat
  OBVIOUS
<1>2. \A i \in 1..(Len(s) - 1) : (IF i < k THEN s[i] ELSE s[i + 1]) \in S
  <2> TAKE i \in 1..(Len(s) - 1)
  <2>1. i \in 1..Len(s) /\ i + 1 \in 1..Len(s)
    OBVIOUS
  <2> QED
    BY <2>1, ElementOfSeq
<1>3. Without(s, k) \in [1..(Len(s) - 1) -> S]
  BY <1>2 DEF Without
<1> QED
  BY <1>1, <1>3 DEF Without

\* Prepending one element to a sequence.
LEMMA PrependLemma ==
    ASSUME NEW S, NEW s \in Seq(S), NEW e \in S
    PROVE  /\ <<e>> \o s \in Seq(S)
           /\ Len(<<e>> \o s) = Len(s) + 1
           /\ (<<e>> \o s)[1] = e
           /\ \A i \in 1..Len(s) : (<<e>> \o s)[i + 1] = s[i]
           /\ \A i \in 2..(Len(s) + 1) : (<<e>> \o s)[i] = s[i - 1]
OBVIOUS

\* An insertion keeps the list linked and moves every position by one.
LEMMA Insertion ==
    ASSUME TypeOK, Linked, Serving, NEW n, AddConnection(n)
    PROVE  /\ n \in Nodes \ heap
           /\ list' \in Seq(Nodes)
           /\ Len(list') = Len(list) + 1
           /\ list'[1] = n
           /\ \A i \in 2..(Len(list) + 1) : list'[i] = list[i - 1]
           /\ head' \in Pointers /\ heap' = heap \cup {n}
           /\ next' \in [Nodes -> Pointers] /\ prev' \in [Nodes -> Pointers]
           /\ \A m \in heap : next'[m] = next[m]
           /\ Linked'
<1> USE DEF Pointers
<1>0. /\ Len(list) \in Nat
      /\ \A i \in 1..Len(list) : list[i] \in heap /\ list[i] \in Nodes
      /\ \A m \in heap : \E i \in 1..Len(list) : list[i] = m
  BY Elements
<1>1. n \in Nodes \ heap /\ list' = <<n>> \o list /\ head' = n
      /\ heap' = heap \cup {n}
  BY DEF AddConnection
<1>2. /\ list' \in Seq(Nodes)
      /\ Len(list') = Len(list) + 1
      /\ list'[1] = n
      /\ \A i \in 1..Len(list) : list'[i + 1] = list[i]
      /\ \A i \in 2..(Len(list) + 1) : list'[i] = list[i - 1]
  BY <1>1, PrependLemma DEF TypeOK
<1>3. next' \in [Nodes -> Pointers] /\ prev' \in [Nodes -> Pointers]
  BY <1>1 DEF AddConnection, TypeOK
<1>4. next'[n] = head /\ \A m \in heap : next'[m] = next[m]
  BY <1>1 DEF AddConnection, TypeOK
<1>5. /\ prev'[n] = NULL
      /\ \A m \in heap : prev'[m] = IF m = head THEN n ELSE prev[m]
  BY <1>1 DEF AddConnection, TypeOK
<1>6. heap' = {list'[i] : i \in 1..Len(list')}
  <2>1. ASSUME NEW m \in heap' PROVE \E i \in 1..Len(list') : list'[i] = m
    <3>1. CASE m = n
      BY <3>1, <1>2, <1>0
    <3>2. CASE m \in heap
      <4>1. PICK i \in 1..Len(list) : list[i] = m
        BY <3>2, <1>0
      <4> QED
        <5>1. i + 1 \in 1..Len(list') /\ list'[i + 1] = m
          BY <4>1, <1>2, <1>0
        <5> QED
          BY <5>1
    <3> QED
      BY <2>1, <3>1, <3>2, <1>1
  <2>2. ASSUME NEW i \in 1..Len(list') PROVE list'[i] \in heap'
    <3>1. CASE i = 1
      BY <3>1, <1>1, <1>2
    <3>2. CASE i # 1
      <4>1. i \in 2..(Len(list) + 1) /\ i - 1 \in 1..Len(list)
        BY <3>2, <1>2, <1>0
      <4> QED
        BY <4>1, <1>1, <1>2, <1>0
    <3> QED
      BY <3>1, <3>2
  <2> QED
    BY <2>1, <2>2
<1>7. \A i, j \in 1..Len(list') : list'[i] = list'[j] => i = j
  <2> TAKE i, j \in 1..Len(list')
  <2>1. \A h \in 1..Len(list') :
           \/ h = 1 /\ list'[h] = n
           \/ h - 1 \in 1..Len(list) /\ list'[h] = list[h - 1] /\ list[h - 1] # n
    BY <1>1, <1>2, <1>0
  <2>2. \A g, h \in 1..Len(list) : list[g] = list[h] => g = h
    BY DEF Linked
  <2> QED
    BY <2>1, <2>2
<1>8. head' = At(1)'
  BY <1>1, <1>2, <1>0 DEF At
<1>9. \A i \in 1..Len(list') : next'[list'[i]] = At(i + 1)'
  <2> TAKE i \in 1..Len(list')
  <2>1. CASE i = 1
    <3>1. next'[list'[i]] = At(1)
      BY <2>1, <1>2, <1>4 DEF Linked
    <3>2. At(2)' = At(1)
      BY <1>2, <1>0 DEF At
    <3> QED
      BY <2>1, <3>1, <3>2
  <2>2. CASE i # 1
    <3>1. i - 1 \in 1..Len(list) /\ list'[i] = list[i - 1]
      BY <2>2, <1>2, <1>0
    <3>2. next'[list'[i]] = At(i)
      <4>1. next[list[i - 1]] = At((i - 1) + 1) /\ (i - 1) + 1 = i
        BY <3>1 DEF Linked
      <4> QED
        BY <3>1, <4>1, <1>4, <1>0
    <3>3. At(i + 1)' = At(i)
      BY <3>1, <1>2, <1>0 DEF At
    <3> QED
      BY <3>2, <3>3
  <2> QED
    BY <2>1, <2>2
<1>10. \A i \in 1..Len(list') : prev'[list'[i]] = At(i - 1)'
  <2> TAKE i \in 1..Len(list')
  <2>1. CASE i = 1
    BY <2>1, <1>2, <1>5, <1>0 DEF At
  <2>2. CASE i = 2
    <3>1. 1 \in 1..Len(list) /\ list'[i] = list[1] /\ head = list[1]
      BY <2>2, <1>2, <1>0 DEF Linked, At
    <3>2. prev'[list'[i]] = n
      BY <3>1, <1>5, <1>0
    <3>3. At(1)' = n
      BY <1>2, <1>0 DEF At
    <3> QED
      BY <2>2, <3>2, <3>3
  <2>3. CASE i \notin {1, 2}
    <3>1. i - 1 \in 1..Len(list) /\ list'[i] = list[i - 1] /\ i - 1 # 1
          /\ 1 \in 1..Len(list) /\ i - 2 \in 1..Len(list)
      BY <2>3, <1>2, <1>0
    <3>2. list[i - 1] # head
      BY <3>1 DEF Linked, At
    <3>3. prev'[list'[i]] = At(i - 2)
      <4>1. prev[list[i - 1]] = At((i - 1) - 1) /\ (i - 1) - 1 = i - 2
        BY <3>1 DEF Linked
      <4> QED
        BY <3>1, <3>2, <4>1, <1>5, <1>0
    <3>4. At(i - 1)' = At(i - 2)
      BY <3>1, <1>2, <1>0 DEF At
    <3> QED
      BY <3>3, <3>4
  <2> QED
    BY <2>1, <2>2, <2>3
<1> QED
  BY <1>1, <1>2, <1>3, <1>4, <1>6, <1>7, <1>8, <1>9, <1>10 DEF Linked

\* A deletion keeps the list linked; what followed the deleted object moves
\* up by one position.
LEMMA Deletion ==
    ASSUME TypeOK, Linked, Serving, NEW n \in heap, DeleteConnection(n)
    PROVE  /\ list' \in Seq(Nodes)
           /\ Len(list') = Len(list) - 1
           /\ \E k \in 1..Len(list) :
                 /\ list[k] = n /\ next[n] = At(k + 1)
                 /\ \A j \in Int : At(j)' = IF j < k THEN At(j) ELSE At(j + 1)
                 /\ \A i \in 1..Len(list') :
                       list'[i] = IF i < k THEN list[i] ELSE list[i + 1]
           /\ head' \in Pointers /\ heap' = heap \ {n}
           /\ next' \in [Nodes -> Pointers] /\ prev' \in [Nodes -> Pointers]
           /\ Serving' => Linked'
<1>0. /\ Len(list) \in Nat
      /\ \A i \in 1..Len(list) : list[i] \in heap /\ list[i] \in Nodes
      /\ \A m \in heap : \E i \in 1..Len(list) : list[i] = m
      /\ n # NULL
      /\ \A j \in Int : At(j) \in heap \cup {NULL}
  BY Elements, NullAssumption DEF TypeOK
<1>1. PICK k \in 1..Len(list) : list[k] = n /\ list' = Without(list, k)
  BY DEF DeleteConnection, TypeOK
<1>2. /\ list' \in Seq(Nodes)
      /\ Len(list') = Len(list) - 1
      /\ \A i \in 1..(Len(list) - 1) :
            list'[i] = IF i < k THEN list[i] ELSE list[i + 1]
  <2>1. list \in Seq(Nodes)
    BY DEF TypeOK
  <2> QED
    BY <1>1, <2>1, WithoutLemma
<1>a. /\ \A i \in 1..Len(list') : i \in 1..(Len(list) - 1)
      /\ \A i \in 1..(Len(list) - 1) :
            i \in 1..Len(list) /\ i + 1 \in 1..Len(list)
  BY <1>0, <1>2
<1>b. \A i \in 1..Len(list') :
         i < k => list'[i] = list[i] /\ i \in 1..Len(list) /\ i # k
  <2> TAKE i \in 1..Len(list')
  <2> HAVE i < k
  <2>1. list'[i] = list[i]
    BY <1>a, <1>2
  <2> QED
    BY <2>1, <1>a
<1>c. \A i \in 1..Len(list') :
         ~(i < k) => list'[i] = list[i + 1] /\ i + 1 \in 1..Len(list)
                     /\ i + 1 # k
  <2> TAKE i \in 1..Len(list')
  <2> HAVE ~(i < k)
  <2>1. list'[i] = list[i + 1]
    BY <1>a, <1>2
  <2>2. i + 1 # k
    OBVIOUS
  <2> QED
    BY <2>1, <2>2, <1>a
<1>3. \A j \in Int : At(j)' = IF j < k THEN At(j) ELSE At(j + 1)
  BY <1>0, <1>2 DEF At
<1>4. next[n] = At(k + 1) /\ prev[n] = At(k - 1)
  BY <1>1 DEF Linked
<1>5. /\ heap' = heap \ {n}
      /\ head' = IF prev[n] = NULL THEN next[n] ELSE head
      /\ next' = [m \in Nodes |-> IF m = prev[n] THEN next[n] ELSE next[m]]
      /\ prev' = [m \in Nodes |-> IF m = next[n] THEN prev[n] ELSE prev[m]]
  BY DEF DeleteConnection
<1>6. /\ head' \in Pointers
      /\ next' \in [Nodes -> Pointers] /\ prev' \in [Nodes -> Pointers]
  BY <1>5 DEF TypeOK, Pointers
<1>7. ASSUME NEW i, NEW j, i \in 1..Len(list), j \in 1..Len(list),
             list[i] = list[j]
      PROVE  i = j
  BY <1>7 DEF Linked
<1>8. heap' = {list'[i] : i \in 1..Len(list')}
  <2>1. ASSUME NEW m \in heap' PROVE \E i \in 1..Len(list') : list'[i] = m
    <3>1. PICK i \in 1..Len(list) : list[i] = m
      BY <2>1, <1>0, <1>5
    <3>2. i # k
      BY <2>1, <3>1, <1>1, <1>5
    <3>3. CASE i < k
      <4>1. i \in 1..Len(list') /\ list'[i] = m
        BY <3>1, <3>3, <1>0, <1>2
      <4> QED
        BY <4>1
    <3>4. CASE i > k
      <4>1. i - 1 \in 1..(Len(list) - 1) /\ ~(i - 1 < k) /\ (i - 1) + 1 = i
        BY <3>1, <3>4, <1>0
      <4>2. i - 1 \in 1..Len(list') /\ list'[i - 1] = m
        BY <4>1, <3>1, <1>2
      <4> QED
        BY <4>2
    <3> QED
      BY <3>2, <3>3, <3>4, <1>0
  <2>2. ASSUME NEW i \in 1..Len(list') PROVE list'[i] \in heap'
    <3>1. CASE i < k
      <4>1. list'[i] = list[i] /\ i \in 1..Len(list) /\ i # k
        BY <3>1, <1>b
      <4> QED
        BY <4>1, <1>0, <1>1, <1>5, <1>7
    <3>2. CASE ~(i < k)
      <4>1. list'[i] = list[i + 1] /\ i + 1 \in 1..Len(list) /\ i + 1 # k
        BY <3>2, <1>c
      <4> QED
        BY <4>1, <1>0, <1>1, <1>5, <1>7
    <3> QED
      BY <3>1, <3>2
  <2> QED
    BY <2>1, <2>2
<1>9. \A i, j \in 1..Len(list') : list'[i] = list'[j] => i = j
  <2> TAKE i, j \in 1..Len(list')
  <2> HAVE list'[i] = list'[j]
  <2> DEFINE old(h) == IF h < k THEN h ELSE h + 1
  <2>1. \A h \in 1..Len(list') :
           old(h) \in 1..Len(list) /\ list'[h] = list[old(h)]
    BY <1>0, <1>2
  <2>2. old(i) = old(j)
    <3>1. old(i) \in 1..Len(list) /\ old(j) \in 1..Len(list)
          /\ list[old(i)] = list[old(j)]
      BY <2>1
    <3> HIDE DEF old
    <3> QED
      BY <3>1, <1>7
  <2> QED
    BY <2>2, <1>0, <1>2
<1>10. head' = At(1)'
  <2>1. CASE k = 1
    <3>1. prev[n] = NULL /\ next[n] = At(2) /\ At(1)' = At(2)
      BY <2>1, <1>0, <1>3, <1>4 DEF At
    <3> QED
      BY <3>1, <1>5
  <2>2. CASE k # 1
    <3>1. k - 1 \in 1..Len(list)
      BY <2>2, <1>0
    <3>2. prev[n] # NULL
      BY <3>1, <1>0, <1>4, NullAssumption DEF At
    <3>3. At(1)' = At(1) /\ head = At(1)
      BY <2>2, <1>0, <1>3 DEF Linked
    <3> QED
      BY <3>2, <3>3, <1>5
  <2> QED
    BY <2>1, <2>2
<1>11. \A i \in 1..Len(list') : next'[list'[i]] = At(i + 1)'
  <2> TAKE i \in 1..Len(list')
  <2>1. CASE i < k /\ i + 1 < k
    <3>1. list'[i] = list[i] /\ i \in 1..Len(list) /\ k - 1 \in 1..Len(list)
          /\ i # k - 1
      BY <2>1, <1>0, <1>2
    <3>2. list[i] # prev[n]
      <4>1. prev[n] = list[k - 1]
        BY <3>1, <1>4 DEF At
      <4> QED
        BY <4>1, <3>1, <1>7
    <3>3. next'[list[i]] = At(i + 1)
      BY <3>1, <3>2, <1>0, <1>5 DEF Linked
    <3> QED
      BY <2>1, <3>1, <3>3, <1>3
  <2>2. CASE i + 1 = k
    <3>1. list'[i] = list[i] /\ i \in 1..Len(list) /\ k - 1 = i /\ ~(k < k)
      BY <2>2, <1>0, <1>2
    <3>2. list[i] = prev[n]
      BY <3>1, <1>4 DEF At
    <3>3. next'[list[i]] = At(k + 1)
      BY <3>1, <3>2, <1>0, <1>4, <1>5
    <3> QED
      BY <2>2, <3>1, <3>3, <1>3
  <2>3. CASE ~(i < k)
    <3>1. list'[i] = list[i + 1] /\ i + 1 \in 1..Len(list)
      BY <2>3, <1>c
    <3>2. list[i + 1] # prev[n]
      <4>1. prev[n] = NULL \/ (k - 1 \in 1..Len(list) /\ prev[n] = list[k - 1])
        BY <1>4 DEF At
      <4>2. k - 1 # i + 1
        BY <2>3, <1>0
      <4>3. list[i + 1] # NULL
        BY <3>1, <1>0, NullAssumption
      <4>4. k - 1 \in 1..Len(list) => list[i + 1] # list[k - 1]
        BY <3>1, <4>2, <1>7
      <4> QED
        BY <4>1, <4>3, <4>4
    <3>3. next'[list[i + 1]] = next[list[i + 1]]
      BY <3>1, <3>2, <1>0, <1>5
    <3>4. next[list[i + 1]] = At((i + 1) + 1)
      BY <3>1 DEF Linked
    <3>5. At(i + 1)' = At((i + 1) + 1)
      BY <2>3, <1>0, <1>3
    <3> QED
      BY <3>1, <3>3, <3>4, <3>5
  <2> QED
    BY <2>1, <2>2, <2>3, <1>0, <1>2
<1>12. \A i \in 1..Len(list') : prev'[list'[i]] = At(i - 1)'
  <2> TAKE i \in 1..Len(list')
  <2>1. CASE i < k
    <3>1. list'[i] = list[i] /\ i \in 1..Len(list)
      BY <2>1, <1>b
    <3>2. list[i] # next[n]
      <4>1. next[n] = NULL \/ (k + 1 \in 1..Len(list) /\ next[n] = list[k + 1])
        BY <1>4 DEF At
      <4>2. k + 1 # i
        BY <2>1, <1>0
      <4>3. list[i] # NULL
        BY <3>1, <1>0, NullAssumption
      <4>4. k + 1 \in 1..Len(list) => list[i] # list[k + 1]
        BY <3>1, <4>2, <1>7
      <4> QED
        BY <4>1, <4>3, <4>4
    <3>3. prev'[list[i]] = At(i - 1)
      BY <3>1, <3>2, <1>0, <1>5 DEF Linked
    <3>4. At(i - 1)' = At(i - 1)
      BY <2>1, <1>0, <1>3
    <3> QED
      BY <3>1, <3>3, <3>4
  <2>2. CASE i = k
    <3>1. list'[i] = list[k + 1] /\ k + 1 \in 1..Len(list)
      BY <2>2, <1>0, <1>2
    <3>2. list[k + 1] = next[n]
      BY <3>1, <1>4 DEF At
    <3>3. prev'[list[k + 1]] = At(k - 1)
      BY <3>1, <3>2, <1>0, <1>4, <1>5
    <3>4. At(k - 1)' = At(k - 1)
      BY <1>0, <1>3
    <3> QED
      BY <2>2, <3>1, <3>3, <3>4
  <2>3. CASE i > k
    <3>1. list'[i] = list[i + 1] /\ i + 1 \in 1..Len(list) /\ ~(i - 1 < k)
      BY <2>3, <1>0, <1>2
    <3>2. list[i + 1] # next[n]
      <4>1. next[n] = NULL \/ (k + 1 \in 1..Len(list) /\ next[n] = list[k + 1])
        BY <1>4 DEF At
      <4>2. k + 1 # i + 1
        BY <2>3, <1>0
      <4> QED
        BY <3>1, <4>1, <4>2, <1>0, <1>7, NullAssumption
    <3>3. prev'[list[i + 1]] = prev[list[i + 1]]
      BY <3>1, <3>2, <1>0, <1>5
    <3>4. prev[list[i + 1]] = At((i + 1) - 1)
      BY <3>1 DEF Linked
    <3>5. At(i - 1)' = At((i - 1) + 1) /\ (i - 1) + 1 = (i + 1) - 1
      BY <3>1, <1>0, <1>3
    <3> QED
      BY <3>1, <3>3, <3>4, <3>5
  <2> QED
    BY <2>1, <2>2, <2>3, <1>0, <1>2
<1>13. Serving' => Linked'
  BY <1>8, <1>9, <1>10, <1>11, <1>12 DEF Linked
<1> QED
  BY <1>1, <1>2, <1>3, <1>4, <1>5, <1>6, <1>13

\* The first connection is taken off when the server closes.
LEMMA HeadRemoval ==
    ASSUME TypeOK, Linked, ~Serving, CloseHead
    PROVE  /\ list' \in Seq(Nodes)
           /\ head' \in Pointers /\ heap' = heap \ {head}
           /\ Linked'
<1>0. /\ Len(list) \in Nat
      /\ \A i \in 1..Len(list) : list[i] \in heap /\ list[i] \in Nodes
      /\ \A m \in heap : \E i \in 1..Len(list) : list[i] = m
  BY Elements
<1>1. /\ head = list[1] /\ 1 \in 1..Len(list)
      /\ head' = next[head] /\ heap' = heap \ {head} /\ list' = Tail(list)
      /\ next' = next /\ ~Serving'
  BY <1>0 DEF CloseHead, Linked, At, Serving
<1>2. /\ list' \in Seq(Nodes)
      /\ Len(list') = Len(list) - 1
      /\ \A i \in 1..(Len(list) - 1) : list'[i] = list[i + 1]
  BY <1>0, <1>1 DEF TypeOK
<1>3. \A j \in Nat \ {0} : At(j)' = At(j + 1)
  BY <1>0, <1>2 DEF At
<1>4. heap' = {list'[i] : i \in 1..Len(list')}
  <2>1. ASSUME NEW m \in heap' PROVE \E i \in 1..Len(list') : list'[i] = m
    <3>1. PICK i \in 1..Len(list) : list[i] = m
      BY <2>1, <1>0, <1>1
    <3>2. i - 1 \in 1..(Len(list) - 1) /\ (i - 1) + 1 = i
      BY <2>1, <3>1, <1>0, <1>1
    <3>3. i - 1 \in 1..Len(list') /\ list'[i - 1] = m
      BY <3>1, <3>2, <1>2
    <3> QED
      BY <3>3
  <2>2. ASSUME NEW i \in 1..Len(list') PROVE list'[i] \in heap'
    <3>1. i + 1 \in 1..Len(list) /\ i + 1 # 1 /\ list'[i] = list[i + 1]
      BY <1>0, <1>2
    <3>2. list[i + 1] # list[1]
      BY <3>1, <1>1 DEF Linked
    <3> QED
      BY <3>1, <3>2, <1>0, <1>1
  <2> QED
    BY <2>1, <2>2
<1>5. \A i, j \in 1..Len(list') : list'[i] = list'[j] => i = j
  <2> TAKE i, j \in 1..Len(list')
  <2>1. i + 1 \in 1..Len(list) /\ j + 1 \in 1..Len(list)
        /\ list'[i] = list[i + 1] /\ list'[j] = list[j + 1]
    BY <1>0, <1>2
  <2>2. list[i + 1] = list[j + 1] => i + 1 = j + 1
    BY <2>1 DEF Linked
  <2> QED
    BY <2>1, <2>2
<1>6. head' = At(1)'
  <2>1. next[list[1]] = At(1 + 1)
    BY <1>1 DEF Linked
  <2> QED
    BY <2>1, <1>1, <1>3
<1>7. \A i \in 1..Len(list') : next'[list'[i]] = At(i + 1)'
  <2> TAKE i \in 1..Len(list')
  <2>1. i + 1 \in 1..Len(list) /\ list'[i] = list[i + 1]
    BY <1>0, <1>2
  <2>2. next[list[i + 1]] = At((i + 1) + 1)
    BY <2>1 DEF Linked
  <2> QED
    BY <2>1, <2>2, <1>1, <1>3
<1>8. head' \in Pointers
  BY <1>0, <1>1 DEF TypeOK
<1> QED
  BY <1>1, <1>2, <1>4, <1>5, <1>6, <1>7, <1>8 DEF Linked

\* Moving the cursor: what is ahead of the next position.
LEMMA Advance ==
    ASSUME TypeOK, Linked, NEW k \in 1..(Len(list) + 1), cursor = At(k),
           cursor # NULL
    PROVE  /\ k \in 1..Len(list) /\ cursor = list[k] /\ cursor \in heap
           /\ next[cursor] = At(k + 1)
           /\ Ahead(k + 1) = Ahead(k) \ {cursor}
           /\ \A j \in 1..Len(list) : list[j] = cursor => j = k
<1>1. k \in 1..Len(list) /\ cursor = list[k] /\ cursor \in heap
  BY Elements DEF At
<1>2. next[cursor] = At(k + 1)
  BY <1>1 DEF Linked
<1>3. \A j \in 1..Len(list) : list[j] = cursor => j = k
  BY <1>1 DEF Linked
<1>4. Ahead(k + 1) = Ahead(k) \ {cursor}
  <2>1. Len(list) \in Nat
    BY DEF TypeOK
  <2>2. \A j \in k..Len(list) : list[j] # cursor => j \in (k + 1)..Len(list)
    BY <1>1, <2>1
  <2>3. \A j \in (k + 1)..Len(list) : j \in k..Len(list) /\ list[j] # cursor
    BY <1>1, <1>3, <2>1
  <2> QED
    BY <2>2, <2>3 DEF Ahead
<1> QED
  BY <1>1, <1>2, <1>3, <1>4

\* Everything is ahead of the first position.
LEMMA StartPosition ==
    ASSUME TypeOK, Linked
    PROVE  /\ head = At(1) /\ heap = Ahead(1)
           /\ 1 \in 1..(Len(list) + 1)
BY Elements DEF Linked, Ahead

-----------------------------------------------------------------------------
LEMMA InitIInv == Init => IInv
<1> SUFFICES ASSUME Init PROVE IInv
  OBVIOUS
<1>1. TypeOK
  BY DEF Init, TypeOK, Pointers
<1>2. list = <<>> /\ Len(list) = 0
  BY DEF Init
<1>3. Linked
  BY <1>2 DEF Init, Linked, At
<1>4. Counted /\ Progress
  BY <1>2 DEF Init, Counted, Progress
<1> QED
  BY <1>1, <1>3, <1>4 DEF IInv

\* Steps that leave the list alone.
LEMMA Untouched ==
    ASSUME IInv, UNCHANGED nodeVars, Serving' => Serving
    PROVE  /\ Linked' /\ Counted'
           /\ Len(list') = Len(list)
           /\ \A k \in Int : At(k)' = At(k) /\ Ahead(k)' = Ahead(k)
BY DEF IInv, nodeVars, Linked, Counted, At, Ahead

LEMMA StartPassInv == IInv /\ StartPass => IInv'
<1> SUFFICES ASSUME IInv, StartPass PROVE IInv'
  OBVIOUS
<1>1. Linked' /\ Counted' /\ Len(list') = Len(list)
      /\ \A k \in Int : At(k)' = At(k) /\ Ahead(k)' = Ahead(k)
  BY Untouched DEF StartPass, Serving
<1>2. TypeOK'
  BY DEF IInv, TypeOK, StartPass, Mark, nodeVars, Pointers
<1>3. Progress'
  <2>1. cursor' = At(1) /\ waiting' = Ahead(1) /\ 1 \in 1..(Len(list) + 1)
    BY StartPosition DEF IInv, StartPass
  <2> QED
    BY <1>1, <2>1 DEF Progress, StartPass
<1> QED
  BY <1>1, <1>2, <1>3 DEF IInv

LEMMA VisitInv == IInv /\ Visit => IInv'
<1> SUFFICES ASSUME IInv, Visit PROVE IInv'
  OBVIOUS
<1>1. Linked' /\ Counted' /\ Len(list') = Len(list)
      /\ \A k \in Int : At(k)' = At(k) /\ Ahead(k)' = Ahead(k)
  BY Untouched DEF Visit, Serving
<1>2. PICK k \in 1..(Len(list) + 1) : cursor = At(k) /\ waiting = Ahead(k)
  BY DEF IInv, Progress, Visit
<1>3. /\ k \in 1..Len(list) /\ cursor \in heap
      /\ next[cursor] = At(k + 1)
      /\ Ahead(k + 1) = Ahead(k) \ {cursor}
  BY <1>2, Advance DEF IInv, Visit
<1>4. TypeOK'
  BY <1>3 DEF IInv, TypeOK, Visit, Mark, nodeVars
<1>5. Progress'
  <2>1. Len(list) \in Nat
    BY DEF IInv, TypeOK
  <2>2. k + 1 \in 1..(Len(list') + 1) /\ cursor' = At(k + 1)'
        /\ waiting' = Ahead(k + 1)'
    BY <1>1, <1>2, <1>3, <2>1 DEF Visit
  <2> QED
    BY <2>2 DEF Progress, Visit
<1> QED
  BY <1>1, <1>4, <1>5 DEF IInv

LEMMA OnPollTimeoutInv == IInv /\ OnPollTimeout => IInv'
<1> SUFFICES ASSUME IInv, OnPollTimeout PROVE IInv'
  OBVIOUS
<1>1. Linked' /\ Counted' /\ Len(list') = Len(list)
      /\ \A k \in Int : At(k)' = At(k) /\ Ahead(k)' = Ahead(k)
  BY Untouched DEF OnPollTimeout, Serving
<1>2. TypeOK'
  BY DEF IInv, TypeOK, OnPollTimeout, Mark, nodeVars
<1>3. Progress'
  <2>1. cursor' = At(1) /\ heap = Ahead(1) /\ 1 \in 1..(Len(list) + 1)
    BY StartPosition DEF IInv, OnPollTimeout
  <2>2. waiting' = marked' /\ marked' \subseteq heap
    BY <1>2 DEF OnPollTimeout, TypeOK, nodeVars
  <2> QED
    BY <1>1, <2>1, <2>2 DEF Progress, OnPollTimeout
<1> QED
  BY <1>1, <1>2, <1>3 DEF IInv

LEMMA CleanKeepInv == IInv /\ CleanKeep => IInv'
<1> SUFFICES ASSUME IInv, CleanKeep PROVE IInv'
  OBVIOUS
<1>1. Linked' /\ Counted' /\ Len(list') = Len(list)
      /\ \A k \in Int : At(k)' = At(k) /\ Ahead(k)' = Ahead(k)
  BY Untouched DEF CleanKeep, Serving
<1>2. PICK k \in 1..(Len(list) + 1) :
         cursor = At(k) /\ waiting \subseteq Ahead(k) \cap marked
  BY DEF IInv, Progress, CleanKeep
<1>3. /\ k \in 1..Len(list) /\ cursor \in heap
      /\ next[cursor] = At(k + 1)
      /\ Ahead(k + 1) = Ahead(k) \ {cursor}
  BY <1>2, Advance DEF IInv, CleanKeep
<1>4. TypeOK'
  BY <1>3 DEF IInv, TypeOK, CleanKeep, nodeVars
<1>5. Progress'
  <2>1. Len(list) \in Nat
    BY DEF IInv, TypeOK
  <2>2. k + 1 \in 1..(Len(list') + 1) /\ cursor' = At(k + 1)'
        /\ waiting' \subseteq Ahead(k + 1)' \cap marked'
    BY <1>1, <1>2, <1>3, <2>1 DEF CleanKeep
  <2> QED
    BY <2>2 DEF Progress, CleanKeep
<1> QED
  BY <1>1, <1>4, <1>5 DEF IInv

\* The actions that only move the program counter.
LEMMA IdleInv ==
    IInv /\ (Setup \/ CleanEnd \/ NoSpawn \/ Leave \/ Exit) => IInv'
<1> SUFFICES ASSUME IInv, Setup \/ CleanEnd \/ NoSpawn \/ Leave \/ Exit
             PROVE  IInv'
  OBVIOUS
<1>1. Linked' /\ Counted'
  BY Untouched DEF Setup, CleanEnd, NoSpawn, Leave, Exit, Serving
<1>2. TypeOK'
  BY DEF IInv, TypeOK, Setup, CleanEnd, NoSpawn, Leave, Exit, nodeVars
<1>3. Progress'
  BY <1>2 DEF IInv, TypeOK, Progress, Setup, CleanEnd, NoSpawn, Leave, Exit
<1> QED
  BY <1>1, <1>2, <1>3 DEF IInv

-----------------------------------------------------------------------------
LEMMA AddListenerInv ==
    ASSUME IInv, NEW n \in Nodes, AddListener(n)
    PROVE  IInv'
<1>1. /\ n \in Nodes \ heap /\ heap' = heap \cup {n}
      /\ list' \in Seq(Nodes) /\ Len(list') = Len(list) + 1
      /\ head' \in Pointers
      /\ next' \in [Nodes -> Pointers] /\ prev' \in [Nodes -> Pointers]
      /\ Linked'
  BY Insertion DEF IInv, AddListener, Serving
<1>2. TypeOK'
  BY <1>1 DEF IInv, TypeOK, AddListener, AddConnection
<1>3. Counted' /\ Progress'
  BY <1>1 DEF IInv, Counted, Progress, AddListener, AddConnection, Serving
<1> QED
  BY <1>1, <1>2, <1>3 DEF IInv

LEMMA SpawnInv ==
    ASSUME IInv, NEW n \in Nodes, Spawn(n)
    PROVE  IInv'
<1>1. /\ n \in Nodes \ heap /\ heap' = heap \cup {n}
      /\ list' \in Seq(Nodes) /\ Len(list') = Len(list) + 1
      /\ head' \in Pointers
      /\ next' \in [Nodes -> Pointers] /\ prev' \in [Nodes -> Pointers]
      /\ Linked'
  BY Insertion DEF IInv, Spawn, Serving
<1>2. TypeOK'
  BY <1>1 DEF IInv, TypeOK, Spawn, AddConnection, Mark
<1>3. Counted' /\ Progress'
  BY <1>1 DEF IInv, Counted, Progress, Spawn, AddConnection, Serving
<1> QED
  BY <1>1, <1>2, <1>3 DEF IInv

LEMMA VisitAcceptInv ==
    ASSUME IInv, NEW n \in Nodes, VisitAccept(n)
    PROVE  IInv'
<1>1. /\ n \in Nodes \ heap /\ heap' = heap \cup {n}
      /\ list' \in Seq(Nodes) /\ Len(list') = Len(list) + 1
      /\ \A i \in 2..(Len(list) + 1) : list'[i] = list[i - 1]
      /\ head' \in Pointers
      /\ next' \in [Nodes -> Pointers] /\ prev' \in [Nodes -> Pointers]
      /\ \A m \in heap : next'[m] = next[m]
      /\ Linked'
  BY Insertion DEF IInv, VisitAccept, Serving
<1>2. PICK k \in 1..(Len(list) + 1) : cursor = At(k) /\ waiting = Ahead(k)
  BY DEF IInv, Progress, VisitAccept
<1>3. /\ k \in 1..Len(list) /\ cursor \in heap
      /\ next[cursor] = At(k + 1)
      /\ Ahead(k + 1) = Ahead(k) \ {cursor}
  BY <1>2, Advance DEF IInv, VisitAccept
<1>4. Len(list) \in Nat
  BY DEF IInv, TypeOK
<1>5. At(k + 2)' = At(k + 1)
  BY <1>1, <1>3, <1>4 DEF At
<1>6. Ahead(k + 2)' = Ahead(k + 1)
  <2>1. \A i \in (k + 1)..Len(list) :
           i + 1 \in (k + 2)..Len(list') /\ list'[i + 1] = list[i]
    BY <1>1, <1>3, <1>4
  <2>2. \A i \in (k + 2)..Len(list') :
           i - 1 \in (k + 1)..Len(list) /\ list'[i] = list[i - 1]
    BY <1>1, <1>3, <1>4
  <2> QED
    BY <2>1, <2>2 DEF Ahead
<1>7. TypeOK'
  BY <1>1, <1>3 DEF IInv, TypeOK, VisitAccept, AddConnection
<1>8. Counted'
  BY <1>1 DEF IInv, Counted, VisitAccept, AddConnection, Serving
<1>9. Progress'
  <2>1. cursor' = At(k + 2)' /\ waiting' = Ahead(k + 2)'
    BY <1>1, <1>2, <1>3, <1>5, <1>6 DEF VisitAccept
  <2>2. k + 2 \in 1..(Len(list') + 1)
    BY <1>1, <1>3, <1>4
  <2> QED
    BY <2>1, <2>2 DEF Progress, VisitAccept
<1> QED
  BY <1>1, <1>7, <1>8, <1>9 DEF IInv

LEMMA CleanDeleteInv == IInv /\ CleanDelete => IInv'
<1> SUFFICES ASSUME IInv, CleanDelete PROVE IInv'
  OBVIOUS
<1>0. cursor \in heap /\ cursor # NULL /\ Serving /\ Serving'
  BY NullAssumption DEF IInv, TypeOK, CleanDelete, Serving
<1>1. PICK k \in 1..(Len(list) + 1) :
         cursor = At(k) /\ waiting \subseteq Ahead(k) \cap marked
  BY DEF IInv, Progress, CleanDelete
<1>2. /\ k \in 1..Len(list) /\ next[cursor] = At(k + 1)
      /\ Ahead(k + 1) = Ahead(k) \ {cursor}
      /\ \A j \in 1..Len(list) : list[j] = cursor => j = k
  BY <1>0, <1>1, Advance DEF IInv
<1>3. /\ list' \in Seq(Nodes) /\ Len(list') = Len(list) - 1
      /\ \E j \in 1..Len(list) :
            /\ list[j] = cursor /\ next[cursor] = At(j + 1)
            /\ \A h \in Int : At(h)' = IF h < j THEN At(h) ELSE At(h + 1)
            /\ \A i \in 1..Len(list') :
                  list'[i] = IF i < j THEN list[i] ELSE list[i + 1]
      /\ head' \in Pointers /\ heap' = heap \ {cursor}
      /\ next' \in [Nodes -> Pointers] /\ prev' \in [Nodes -> Pointers]
      /\ Linked'
  BY <1>0, Deletion DEF IInv, CleanDelete
<1>4. /\ At(k)' = At(k + 1)
      /\ \A i \in 1..Len(list') :
            list'[i] = IF i < k THEN list[i] ELSE list[i + 1]
  <2>1. PICK j \in 1..Len(list) :
          /\ list[j] = cursor
          /\ \A h \in Int : At(h)' = IF h < j THEN At(h) ELSE At(h + 1)
          /\ \A i \in 1..Len(list') :
                list'[i] = IF i < j THEN list[i] ELSE list[i + 1]
    BY <1>3
  <2>2. j = k
    BY <2>1, <1>2
  <2> QED
    BY <2>1, <2>2
<1>5. Len(list) \in Nat
  BY DEF IInv, TypeOK
<1>6. Ahead(k + 1) \subseteq Ahead(k)'
  <2>1. ASSUME NEW i \in (k + 1)..Len(list)
        PROVE  \E j \in k..Len(list') : list'[j] = list[i]
    <3>1. i - 1 \in k..Len(list') /\ i - 1 \in 1..Len(list')
          /\ ~(i - 1 < k) /\ (i - 1) + 1 = i
      BY <1>2, <1>3, <1>5
    <3>2. list'[i - 1] = list[i]
      BY <3>1, <1>4
    <3> QED
      BY <3>1, <3>2
  <2> QED
    BY <2>1 DEF Ahead
<1>7. TypeOK'
  <2>1. connectionNo' \in Int
    BY DEF IInv, TypeOK, CleanDelete, DeleteConnection
  <2>2. /\ marked' \subseteq heap' /\ waiting' \subseteq heap'
        /\ cursor' \in Pointers
        /\ pc' = pc /\ after' = after
    BY <1>0, <1>3 DEF IInv, TypeOK, CleanDelete
  <2> QED
    BY <1>3, <2>1, <2>2 DEF IInv, TypeOK
<1>8. Counted'
  BY <1>0, <1>3, <1>5 DEF IInv, Counted, TypeOK, CleanDelete, DeleteConnection
<1>9. Progress'
  <2>1. cursor' = At(k)' /\ k \in 1..(Len(list') + 1)
    BY <1>2, <1>3, <1>4, <1>5 DEF CleanDelete
  <2>2. waiting' \subseteq Ahead(k)' \cap marked'
    BY <1>1, <1>2, <1>6 DEF CleanDelete
  <2> QED
    BY <2>1, <2>2 DEF Progress, CleanDelete
<1> QED
  BY <1>3, <1>7, <1>8, <1>9 DEF IInv

LEMMA CloseHeadInv == IInv /\ CloseHead => IInv'
<1> SUFFICES ASSUME IInv, CloseHead PROVE IInv'
  OBVIOUS
<1>1. /\ list' \in Seq(Nodes)
      /\ head' \in Pointers /\ heap' = heap \ {head}
      /\ Linked'
  BY HeadRemoval DEF IInv, CloseHead, Serving
<1>2. TypeOK'
  BY <1>1 DEF IInv, TypeOK, CloseHead
<1>3. Counted' /\ Progress'
  BY DEF IInv, Counted, Progress, CloseHead, Serving
<1> QED
  BY <1>1, <1>2, <1>3 DEF IInv

-----------------------------------------------------------------------------
\* Every step keeps the invariant.
LEMMA NextIInv == IInv /\ [Next]_vars => IInv'
<1> SUFFICES ASSUME IInv, [Next]_vars PROVE IInv'
  OBVIOUS
<1>1. CASE UNCHANGED vars
  <2>1. Linked' /\ Counted'
    BY <1>1, Untouched DEF vars, nodeVars, Serving
  <2>2. TypeOK' /\ Progress'
    BY <1>1 DEF IInv, TypeOK, Progress, vars, nodeVars, At, Ahead
  <2> QED
    BY <2>1, <2>2 DEF IInv
<1>2. CASE StartPass \/ Visit \/ OnPollTimeout \/ CleanKeep
  BY <1>2, StartPassInv, VisitInv, OnPollTimeoutInv, CleanKeepInv
<1>3. CASE Setup \/ CleanEnd \/ NoSpawn \/ Leave \/ Exit
  BY <1>3, IdleInv
<1>4. CASE CleanDelete \/ CloseHead
  BY <1>4, CleanDeleteInv, CloseHeadInv
<1>5. CASE \E n \in Nodes : AddListener(n) \/ VisitAccept(n) \/ Spawn(n)
  BY <1>5, AddListenerInv, VisitAcceptInv, SpawnInv
<1> QED
  BY <1>1, <1>2, <1>3, <1>4, <1>5 DEF Next, Gone

\* What IInv implies.
LEMMA IInvImplies == IInv => NoDangling /\ AllServed
<1> SUFFICES ASSUME IInv PROVE NoDangling /\ AllServed
  OBVIOUS
<1>0. TypeOK /\ Linked /\ Progress /\ Len(list) \in Nat
  BY DEF IInv, TypeOK
<1>1. \A k \in 1..(Len(list) + 1) :
         /\ At(k) \in heap \cup {NULL}
         /\ At(k) = NULL => Ahead(k) = {}
         /\ At(k) # NULL => At(k) \in Ahead(k)
  <2> TAKE k \in 1..(Len(list) + 1)
  <2>1. At(k) \in heap \cup {NULL} /\ (At(k) = NULL <=> k \notin 1..Len(list))
    BY <1>0, Elements
  <2>2. k \notin 1..Len(list) => Ahead(k) = {}
    BY <1>0 DEF Ahead
  <2>3. k \in 1..Len(list) => At(k) \in Ahead(k)
    BY <1>0 DEF Ahead, At
  <2> QED
    BY <2>1, <2>2, <2>3
<1> QED
  BY <1>0, <1>1 DEF Progress, NoDangling, AllServed

\* The invariant holds in every reachable state.
THEOREM Inductive == Spec => []IInv
  BY InitIInv, NextIInv, PTL DEF Spec

\* Every pointer leads to a connection or nowhere.
THEOREM TypeCorrect == Spec => []TypeOK
<1>1. IInv => TypeOK
  BY DEF IInv
<1> QED
  BY <1>1, Inductive, PTL

\* The connections, whatever is added and deleted, form one doubly linked
\* list that holds each of them once (AddConnection, DeleteConnection).
THEOREM AlwaysLinked == Spec => []Linked
<1>1. IInv => Linked
  BY DEF IInv
<1> QED
  BY <1>1, Inductive, PTL

\* No loop of the server ever stands on a deleted connection.
THEOREM NeverDangling == Spec => []NoDangling
<1> QED
  BY IInvImplies, Inductive, PTL

\* connectionNo is the length of the list while the server serves, and the
\* assertion connectionNo >= 0 never fails.
THEOREM AlwaysCounted == Spec => [](Counted /\ (Serving => connectionNo >= 0))
<1>1. IInv => Counted /\ (Serving => connectionNo >= 0)
  <2> SUFFICES ASSUME IInv PROVE Counted /\ (Serving => connectionNo >= 0)
    OBVIOUS
  <2>1. Len(list) \in Nat
    BY DEF IInv, TypeOK
  <2> QED
    BY <2>1 DEF IInv, Counted
<1> QED
  BY <1>1, Inductive, PTL

\* Each pass deals with everyone it found when it began.
THEOREM EveryPassServes == Spec => []AllServed
<1> QED
  BY IInvImplies, Inductive, PTL
=============================================================================
