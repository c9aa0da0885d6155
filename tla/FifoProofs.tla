----------------------------- MODULE FifoProofs -----------------------------
(* What a clock edge does to the entries of a FIFO.                        *)
EXTENDS Fifo, Integers, SequenceTheorems, FunctionTheorems, FiniteSetTheorems, TLAPS

(* A FIFO stays a sequence of at most depth entries; its length changes by *)
(* the entry that is accepted and the one that is taken.                   *)
LEMMA ClockedLength ==
  ASSUME NEW Entry, NEW queue \in Seq(Entry), NEW depth \in Nat, Len(queue) <= depth,
         NEW wrreq \in BOOLEAN, NEW rdreq \in BOOLEAN,
         NEW data, wrreq => data \in Entry
  PROVE  LET new == Clocked(queue, depth, wrreq, data, rdreq) IN
         /\ new \in Seq(Entry) /\ Len(new) <= depth
         /\ Len(new) = Len(queue) + (IF wrreq /\ Len(queue) # depth THEN 1 ELSE 0)
                                  - (IF rdreq /\ queue # <<>> THEN 1 ELSE 0)
<1> DEFINE new == Clocked(queue, depth, wrreq, data, rdreq)
<1>1. /\ Dequeued(queue, rdreq) \in Seq(Entry)
      /\ Len(Dequeued(queue, rdreq)) = Len(queue) - (IF rdreq /\ queue # <<>> THEN 1 ELSE 0)
  BY DEF Dequeued
<1>2. CASE wrreq /\ ~ Full(queue, depth)
  BY <1>1, <1>2 DEF Clocked, Full
<1>3. CASE ~ (wrreq /\ ~ Full(queue, depth))
  <2>1. new = Dequeued(queue, rdreq)
    BY <1>3 DEF Clocked
  <2>2. (IF wrreq /\ Len(queue) # depth THEN 1 ELSE 0) = 0
    BY <1>3 DEF Full
  <2> QED
    BY <1>1, <2>1, <2>2
<1> QED
  BY <1>2, <1>3

(* The entries keep their order: those left move up by one place when the  *)
(* first is taken, and an entry that is accepted becomes the last.         *)
LEMMA ClockedEntries ==
  ASSUME NEW Entry, NEW queue \in Seq(Entry), NEW depth \in Nat, Len(queue) <= depth,
         NEW wrreq \in BOOLEAN, NEW rdreq \in BOOLEAN,
         NEW data, wrreq => data \in Entry
  PROVE  LET taken == IF rdreq /\ queue # <<>> THEN 1 ELSE 0
             new   == Clocked(queue, depth, wrreq, data, rdreq)
         IN  \A i \in 1 .. Len(new) :
               new[i] = IF i + taken <= Len(queue) THEN queue[i + taken] ELSE data
<1> DEFINE new   == Clocked(queue, depth, wrreq, data, rdreq)
           taken == IF rdreq /\ queue # <<>> THEN 1 ELSE 0
           left  == Dequeued(queue, rdreq)
<1> SUFFICES ASSUME NEW i \in 1 .. Len(new)
             PROVE  new[i] = IF i + taken <= Len(queue) THEN queue[i + taken] ELSE data
  OBVIOUS
<1>1. left \in Seq(Entry) /\ Len(left) = Len(queue) - taken
  BY DEF Dequeued
<1>2. \A j \in 1 .. Len(left) : left[j] = queue[j + taken]
  BY DEF Dequeued
<1>3. CASE wrreq /\ ~ Full(queue, depth)
  <2>1. new = Append(left, data) /\ data \in Entry
    BY <1>3 DEF Clocked
  <2>2. CASE i <= Len(left)
    <3>1. new[i] = left[i]
      BY <1>1, <2>1, <2>2
    <3>2. i + taken <= Len(queue)
      BY <1>1, <2>2
    <3> QED
      BY <1>1, <1>2, <2>2, <3>1, <3>2
  <2>3. CASE i > Len(left)
    <3>1. i = Len(left) + 1
      BY <1>1, <2>1, <2>3
    <3>2. new[i] = data
      BY <1>1, <2>1, <3>1
    <3>3. i + taken > Len(queue)
      BY <1>1, <3>1
    <3> QED
      BY <3>2, <3>3
  <2> QED
    BY <2>2, <2>3, <1>1
<1>4. CASE ~ (wrreq /\ ~ Full(queue, depth))
  <2>1. new = left
    BY <1>4 DEF Clocked
  <2> QED
    BY <1>1, <1>2, <2>1
<1> QED
  BY <1>3, <1>4

(* Entries go from FIFO to FIFO.  An entry that is taken from the front of *)
(* second and put at the end of first leaves the two, one behind the       *)
(* other, as they were.                                                    *)
LEMMA HandedOver ==
  ASSUME NEW Entry, NEW first \in Seq(Entry), NEW second \in Seq(Entry), second # <<>>
  PROVE  Append(first, Head(second)) \o Tail(second) = first \o second
<1> DEFINE moved == Append(first, Head(second))
           left  == moved \o Tail(second)
<1>1. Head(second) \in Entry /\ Tail(second) \in Seq(Entry) /\ Len(Tail(second)) = Len(second) - 1
  BY HeadTailProperties
<1>2. /\ moved \in Seq(Entry) /\ Len(moved) = Len(first) + 1
      /\ \A i \in 1 .. Len(first) : moved[i] = first[i]
      /\ moved[Len(first) + 1] = Head(second)
  BY <1>1, AppendProperties
<1>3. /\ left \in Seq(Entry) /\ first \o second \in Seq(Entry)
      /\ Len(left) = Len(first) + Len(second) /\ Len(first \o second) = Len(left)
  BY <1>1, <1>2, ConcatProperties
<1>4. ASSUME NEW i \in 1 .. Len(left)
      PROVE  left[i] = (first \o second)[i]
  <2>1. (first \o second)[i] = IF i <= Len(first) THEN first[i] ELSE second[i - Len(first)]
    BY <1>3, ConcatProperties
  <2>2. left[i] = IF i <= Len(first) + 1 THEN moved[i]
                  ELSE Tail(second)[i - (Len(first) + 1)]
    BY <1>1, <1>2, <1>3, ConcatProperties
  <2>3. CASE i <= Len(first)
    BY <1>2, <1>3, <2>1, <2>2, <2>3
  <2>4. CASE i = Len(first) + 1
    BY <1>2, <1>3, <2>1, <2>2, <2>4
  <2>5. CASE i > Len(first) + 1
    <3>1. i - (Len(first) + 1) \in 1 .. Len(Tail(second))
      BY <1>1, <1>3, <2>5
    <3>2. Tail(second)[i - (Len(first) + 1)] = second[i - Len(first)]
      BY <1>1, <1>3, <3>1, <2>5, HeadTailProperties
    <3> QED
      BY <1>3, <2>1, <2>2, <2>5, <3>2
  <2> QED
    BY <1>3, <2>3, <2>4, <2>5
<1> QED
  BY <1>3, <1>4, SeqEqual

(* What the last of two FIFOs accepts is the last entry of both.           *)
LEMMA AcceptedLast ==
  ASSUME NEW Entry, NEW first \in Seq(Entry), NEW second \in Seq(Entry), NEW data \in Entry
  PROVE  first \o Append(second, data) = Append(first \o second, data)
<1>1. <<data>> \in Seq(Entry) /\ first \o second \in Seq(Entry)
  BY ConcatProperties
<1>2. /\ Append(second, data) = second \o <<data>>
      /\ Append(first \o second, data) = (first \o second) \o <<data>>
  BY <1>1, AppendIsConcat
<1> QED
  BY <1>1, <1>2, ConcatAssociative

(* What is taken from the first of two FIFOs is the first entry of both.   *)
LEMMA TakenFirst ==
  ASSUME NEW Entry, NEW first \in Seq(Entry), NEW second \in Seq(Entry), first # <<>>
  PROVE  /\ first \o second # <<>>
         /\ Head(first \o second) = Head(first)
         /\ Tail(first \o second) = Tail(first) \o second
<1> DEFINE both == first \o second
<1>1. /\ both \in Seq(Entry) /\ Len(both) = Len(first) + Len(second) /\ Len(first) > 0
      /\ \A i \in 1 .. Len(both) : both[i] = IF i <= Len(first) THEN first[i]
                                             ELSE second[i - Len(first)]
  BY ConcatProperties, EmptySeq
<1>2. both # <<>>
  BY <1>1
<1>3. Head(both) = Head(first)
  BY <1>1, <1>2
<1>4. /\ Tail(both) \in Seq(Entry) /\ Tail(first) \in Seq(Entry)
      /\ Len(Tail(both)) = Len(both) - 1 /\ Len(Tail(first)) = Len(first) - 1
      /\ \A i \in 1 .. Len(Tail(both)) : Tail(both)[i] = both[i + 1]
      /\ \A i \in 1 .. Len(Tail(first)) : Tail(first)[i] = first[i + 1]
  BY <1>1, <1>2, HeadTailProperties
<1>5. /\ Tail(first) \o second \in Seq(Entry)
      /\ Len(Tail(first) \o second) = Len(Tail(both))
      /\ \A i \in 1 .. Len(Tail(both)) : (Tail(first) \o second)[i] =
            IF i <= Len(Tail(first)) THEN Tail(first)[i] ELSE second[i - Len(Tail(first))]
  BY <1>1, <1>4, ConcatProperties
<1>6. ASSUME NEW i \in 1 .. Len(Tail(both))
      PROVE  Tail(both)[i] = (Tail(first) \o second)[i]
  <2>1. i + 1 \in 1 .. Len(both)
    BY <1>1, <1>4
  <2>2. CASE i <= Len(first) - 1
    BY <1>1, <1>4, <1>5, <2>1, <2>2
  <2>3. CASE i > Len(first) - 1
    <3>1. (i + 1) - Len(first) = i - Len(Tail(first))
      BY <1>1, <1>4, <2>3
    <3> QED
      BY <1>1, <1>4, <1>5, <2>1, <2>3, <3>1
  <2> QED
    BY <1>1, <2>2, <2>3
<1> QED
  BY <1>2, <1>3, <1>4, <1>5, <1>6, SeqEqual

-----------------------------------------------------------------------------
(* How many of a queue's entries are in a set.                             *)
Places(queue, S) == {i \in 1 .. Len(queue) : queue[i] \in S}
Held(queue, S) == Cardinality(Places(queue, S))

LEMMA HeldType ==
  ASSUME NEW Entry, NEW queue \in Seq(Entry), NEW S
  PROVE  /\ IsFiniteSet(Places(queue, S))
         /\ Held(queue, S) \in Nat /\ Held(queue, S) <= Len(queue)
<1>1. Places(queue, S) \in SUBSET (1 .. Len(queue))
  BY DEF Places
<1>2. IsFiniteSet(1 .. Len(queue)) /\ Cardinality(1 .. Len(queue)) = Len(queue)
  <2>1. Len(queue) \in Nat
    BY LenProperties
  <2> QED
    BY SMTT(30), <2>1, FS_Interval
<1> QED
  BY <1>1, <1>2, FS_Subset, FS_CardinalityType DEF Held

LEMMA HeldEmpty == \A S : Held(<<>>, S) = 0
<1>1. \A S : Places(<<>>, S) = {}
  BY DEF Places
<1> QED
  BY <1>1, FS_EmptySet DEF Held

\* An entry of the set counts.
LEMMA HeldSome ==
  ASSUME NEW Entry, NEW queue \in Seq(Entry), NEW S,
         NEW i \in 1 .. Len(queue), queue[i] \in S
  PROVE  Held(queue, S) > 0
<1>1. Places(queue, S) # {}
  BY DEF Places
<1> QED
  BY <1>1, HeldType, FS_EmptySet DEF Held

LEMMA HeldAppended ==
  ASSUME NEW Entry, NEW queue \in Seq(Entry), NEW data \in Entry, NEW S
  PROVE  Held(Append(queue, data), S) = Held(queue, S) + (IF data \in S THEN 1 ELSE 0)
<1> DEFINE new == Append(queue, data)
           n   == Len(queue)
<1>1. /\ n \in Nat /\ Len(new) = n + 1
      /\ \A i \in 1 .. n : new[i] = queue[i]
      /\ new[n + 1] = data
  BY AppendProperties, LenProperties
<1>2. IsFiniteSet(Places(queue, S)) /\ Held(queue, S) \in Nat
  BY HeldType
<1>3. n + 1 \notin Places(queue, S)
  BY <1>1 DEF Places
<1>4. CASE data \in S
  <2>1. Places(new, S) = Places(queue, S) \cup {n + 1}
    BY <1>1, <1>4 DEF Places
  <2> QED
    BY <1>2, <1>3, <1>4, <2>1, FS_AddElement DEF Held
<1>5. CASE data \notin S
  <2>1. Places(new, S) = Places(queue, S)
    BY <1>1, <1>5 DEF Places
  <2> QED
    BY <1>2, <1>5, <2>1 DEF Held
<1> QED
  BY <1>4, <1>5

LEMMA HeldTail ==
  ASSUME NEW Entry, NEW queue \in Seq(Entry), queue # <<>>, NEW S
  PROVE  Held(queue, S) = Held(Tail(queue), S) + (IF Head(queue) \in S THEN 1 ELSE 0)
<1> DEFINE left  == Tail(queue)
           n     == Len(queue)
           moved == [i \in Places(left, S) |-> i + 1]
           later == Places(queue, S) \ {1}
<1>1. /\ n \in Nat \ {0} /\ Head(queue) = queue[1]
      /\ left \in Seq(Entry) /\ Len(left) = n - 1
      /\ \A i \in 1 .. n - 1 : left[i] = queue[i + 1]
  BY HeadTailProperties, EmptySeq
<1>2. IsFiniteSet(Places(left, S)) /\ Held(left, S) \in Nat
  BY <1>1, HeldType
<1>3. moved \in Bijection(Places(left, S), later)
  <2>1. \A i \in Places(left, S) : i \in Nat /\ i + 1 \in later
    BY <1>1 DEF Places
  <2>2. \A j \in later : j - 1 \in Places(left, S) /\ moved[j - 1] = j
    BY <1>1 DEF Places
  <2>3. moved \in [Places(left, S) -> later]
    BY <2>1
  <2>4. \A a, b \in Places(left, S) : moved[a] = moved[b] => a = b
    BY <2>1
  <2> HIDE DEF moved, later
  <2>5. \A j \in later : \E i \in Places(left, S) : moved[i] = j
    BY <2>2
  <2> QED
    BY <2>3, <2>4, <2>5, Fun_IsBij
<1>4. Cardinality(later) = Held(left, S)
  BY <1>2, <1>3, FS_Bijection DEF ExistsBijection, Held
<1>5. IsFiniteSet(Places(queue, S)) /\ Held(queue, S) \in Nat
  BY HeldType
<1>6. 1 \in Places(queue, S) <=> Head(queue) \in S
  BY <1>1 DEF Places
<1>7. Cardinality(later) = IF 1 \in Places(queue, S) THEN Held(queue, S) - 1 ELSE Held(queue, S)
  BY <1>5, FS_RemoveElement DEF Held
<1> HIDE DEF later
<1> QED
  BY <1>2, <1>4, <1>5, <1>6, <1>7

(* A clock edge adds the entry that is accepted and takes the first.       *)
Gained(queue, depth, wrreq, data, S) ==
  IF wrreq /\ ~ Full(queue, depth) /\ data \in S THEN 1 ELSE 0
Lost(queue, rdreq, S) == IF rdreq /\ queue # <<>> /\ Head(queue) \in S THEN 1 ELSE 0

LEMMA HeldClocked ==
  ASSUME NEW Entry, NEW queue \in Seq(Entry), NEW depth \in Nat,
         NEW wrreq \in BOOLEAN, NEW rdreq \in BOOLEAN,
         NEW data, wrreq => data \in Entry, NEW S
  PROVE  Held(Clocked(queue, depth, wrreq, data, rdreq), S)
         = Held(queue, S) + Gained(queue, depth, wrreq, data, S) - Lost(queue, rdreq, S)
<1> DEFINE left == Dequeued(queue, rdreq)
<1>1. /\ left \in Seq(Entry) /\ Held(queue, S) \in Nat /\ Held(left, S) \in Nat
      /\ Held(left, S) = Held(queue, S) - Lost(queue, rdreq, S)
      /\ Lost(queue, rdreq, S) \in Nat
  <2>1. CASE rdreq /\ queue # <<>>
    <3>1. left = Tail(queue) /\ left \in Seq(Entry)
      BY <2>1, HeadTailProperties DEF Dequeued
    <3>2. Held(queue, S) \in Nat /\ Held(left, S) \in Nat
      BY <3>1, HeldType
    <3>3. Held(queue, S) = Held(left, S) + (IF Head(queue) \in S THEN 1 ELSE 0)
      BY ZenonT(60), <2>1, <3>1, HeldTail
    <3> HIDE DEF left
    <3> QED
      BY <2>1, <3>1, <3>2, <3>3 DEF Lost
  <2>2. CASE ~ (rdreq /\ queue # <<>>)
    BY <2>2, HeldType DEF Dequeued, Lost
  <2> QED
    BY <2>1, <2>2
<1> HIDE DEF left
<1>2. CASE wrreq /\ ~ Full(queue, depth)
  <2>1. Clocked(queue, depth, wrreq, data, rdreq) = Append(left, data) /\ data \in Entry
    BY <1>2 DEF Clocked, left
  <2>2. Held(Append(left, data), S) = Held(left, S) + (IF data \in S THEN 1 ELSE 0)
    BY <1>1, <2>1, HeldAppended
  <2>3. Gained(queue, depth, wrreq, data, S) = IF data \in S THEN 1 ELSE 0
    BY <1>2 DEF Gained
  <2> QED
    BY <1>1, <2>1, <2>2, <2>3
<1>3. CASE ~ (wrreq /\ ~ Full(queue, depth))
  <2>1. Clocked(queue, depth, wrreq, data, rdreq) = left
    BY <1>3 DEF Clocked, left
  <2>2. Gained(queue, depth, wrreq, data, S) = 0
    BY <1>3 DEF Gained
  <2> QED
    BY <1>1, <2>1, <2>2
<1> QED
  BY <1>2, <1>3
=============================================================================
