---------------------------- MODULE SoftRegProofs ---------------------------
(***************************************************************************)
(* SoftReg virtualization and the FIFO its responses wait in, for every    *)
(* number of apps, depth and window.                                       *)
(*                                                                         *)
(* The first part is about the tree of arbiters, the second about what a   *)
(* clock edge does to the queues of one app; SoftRegInv combines the two.  *)
(* The third is about the FIFO itself: a ring buffer, which implements the *)
(* sequence that AmorphOSSoftReg takes it for.                             *)
(***************************************************************************)
EXTENDS AmorphOSSoftReg, SoftFIFO, FifoProofs

-----------------------------------------------------------------------------
(* The tree of arbiters, for 2, 4 or 8 requesters.  What Requests and      *)
(* Grants say of a node in terms of the nodes above it is first put in     *)
(* terms of the node right above it, or of its two inputs.                 *)
Size == {2, 4, 8}

Above(k) == {k, k \div 2, k \div 4, k \div 8}

LEMMA AboveIs == ASSUME NEW k \in 1 .. 15 PROVE Above(k) = {k \div 2^d : d \in Level}
<1>1. Level = {0, 1, 2, 3}
  BY DEF Level
<1>2. k \div 2^0 = k /\ k \div 2^1 = k \div 2 /\ k \div 2^2 = k \div 4 /\ k \div 2^3 = k \div 8
  OBVIOUS
<1>3. {k \div 2^d : d \in {0, 1, 2, 3}} = {k \div 2^0, k \div 2^1, k \div 2^2, k \div 2^3}
  OBVIOUS
<1> QED
  BY <1>1, <1>2, <1>3 DEF Above

\* A node requests when one of its inputs does, a requester when it is in req.
LEMMA RequestsTree ==
  ASSUME NEW n \in Size, NEW req \in SUBSET Requester(n)
  PROVE  /\ \A k \in 1 .. n - 1 :
              Requests(n, req)[k] <=> Requests(n, req)[2 * k] \/ Requests(n, req)[2 * k + 1]
         /\ \A i \in Requester(n) : Requests(n, req)[n + i] <=> i \in req
         /\ Requests(n, req)[1] <=> req # {}
<1>1. \A i \in req : n + i \in 1 .. 15
  BY DEF Requester, Size
<1>2. ASSUME NEW k \in 1 .. 2 * n - 1
      PROVE  Requests(n, req)[k] <=> \E i \in req : k \in Above(n + i)
  BY <1>1, AboveIs DEF Requests
<1>3. ASSUME NEW k \in 1 .. n - 1
      PROVE  Requests(n, req)[k] <=> Requests(n, req)[2 * k] \/ Requests(n, req)[2 * k + 1]
  <2>1. 2 * k \in 1 .. 2 * n - 1 /\ 2 * k + 1 \in 1 .. 2 * n - 1 /\ k \in 1 .. 2 * n - 1
    BY DEF Size
  <2>2. ASSUME NEW i \in req
        PROVE  k \in Above(n + i) <=> 2 * k \in Above(n + i) \/ 2 * k + 1 \in Above(n + i)
    <3>1. i \in 0 .. n - 1
      BY DEF Requester
    <3>2. CASE n = 2
      BY <3>1, <3>2 DEF Above
    <3>3. CASE n = 4
      BY <3>1, <3>3 DEF Above
    <3>4. CASE n = 8
      BY <3>1, <3>4 DEF Above
    <3> QED
      BY <3>2, <3>3, <3>4 DEF Size
  <2> QED
    BY <1>2, <2>1, <2>2
<1>4. ASSUME NEW i \in Requester(n)
      PROVE  Requests(n, req)[n + i] <=> i \in req
  <2>1. n + i \in 1 .. 2 * n - 1
    BY DEF Size, Requester
  <2>2. ASSUME NEW j \in req PROVE n + i \in Above(n + j) <=> j = i
    <3>1. i \in 0 .. n - 1 /\ j \in 0 .. n - 1
      BY DEF Requester
    <3>2. CASE n = 2
      BY <3>1, <3>2 DEF Above
    <3>3. CASE n = 4
      BY <3>1, <3>3 DEF Above
    <3>4. CASE n = 8
      BY <3>1, <3>4 DEF Above
    <3> QED
      BY <3>2, <3>3, <3>4 DEF Size
  <2> QED
    BY <1>2, <2>1, <2>2
<1>5. Requests(n, req)[1] <=> req # {}
  <2>1. 1 \in 1 .. 2 * n - 1
    BY DEF Size
  <2>2. ASSUME NEW j \in req PROVE 1 \in Above(n + j)
    <3>1. j \in 0 .. n - 1
      BY DEF Requester
    <3>2. CASE n = 2
      BY <3>1, <3>2 DEF Above
    <3>3. CASE n = 4
      BY <3>1, <3>3 DEF Above
    <3>4. CASE n = 8
      BY <3>1, <3>4 DEF Above
    <3> QED
      BY <3>2, <3>3, <3>4 DEF Size
  <2> QED
    BY <1>2, <2>1, <2>2
<1> QED
  BY <1>3, <1>4, <1>5

\* A node is granted when the one above it is and has chosen it.
LEMMA GrantsTree ==
  ASSUME NEW n \in Size, NEW last, NEW req \in SUBSET Requester(n)
  PROVE  /\ Grants(n, last, req)[1] <=> req # {}
         /\ \A k \in 2 .. 2 * n - 1 :
              /\ k \div 2 \in 1 .. n - 1
              /\ Grants(n, last, req)[k] <=>
                   /\ Grants(n, last, req)[k \div 2]
                   /\ k % 2 = ChosenInput(last, Requests(n, req), k \div 2)
<1> PICK asks : asks = Requests(n, req)
  OBVIOUS
<1> PICK chosen : chosen = [k \in 1 .. n - 1 |-> ChosenInput(last, asks, k)]
  OBVIOUS
<1>1. ASSUME NEW k \in 1 .. 2 * n - 1
      PROVE  Grants(n, last, req)[k] <=>
               req # {} /\ \A node \in Above(k) : node > 1 => node % 2 = chosen[node \div 2]
  <2>1. k \in 1 .. 15
    BY DEF Size
  <2>2. Grants(n, last, req)[k] <=>
          req # {} /\ \A node \in {k \div 2^d : d \in Level} : node > 1 => node % 2 = chosen[node \div 2]
    BY DEF Grants
  <2> QED
    BY <2>1, <2>2, AboveIs
<1>2. Grants(n, last, req)[1] <=> req # {}
  <2>1. Above(1) = {1, 0}
    BY DEF Above
  <2> QED
    BY <1>1, <2>1 DEF Size
<1>3. ASSUME NEW k \in 2 .. 2 * n - 1
      PROVE  /\ k \div 2 \in 1 .. n - 1
             /\ Grants(n, last, req)[k] <=>
                  /\ Grants(n, last, req)[k \div 2]
                  /\ k % 2 = ChosenInput(last, asks, k \div 2)
  <2>1. k \in 1 .. 2 * n - 1 /\ k \div 2 \in 1 .. n - 1 /\ k \div 2 \in 1 .. 2 * n - 1
    BY DEF Size
  <2>2. \A node \in Nat : node > 1 /\ node \in Above(k) <=> node = k \/ (node > 1 /\ node \in Above(k \div 2))
    <3>1. /\ (k \div 2) \div 2 = k \div 4 /\ (k \div 2) \div 4 = k \div 8 /\ (k \div 2) \div 8 = 0
          /\ k > 1
      BY DEF Size
    <3> QED
      BY <3>1 DEF Above
  <2>3. \A node \in Above(k) \cup Above(k \div 2) : node \in Nat
    BY DEF Above, Size
  <2>4. (\A node \in Above(k) : node > 1 => node % 2 = chosen[node \div 2])
        <=> /\ k % 2 = chosen[k \div 2]
            /\ \A node \in Above(k \div 2) : node > 1 => node % 2 = chosen[node \div 2]
    <3>1. k \in Above(k) /\ k \in Nat /\ k > 1
      BY DEF Above, Size
    <3>2. ASSUME NEW node \in Above(k), node > 1 PROVE node = k \/ node \in Above(k \div 2)
      BY <2>2, <2>3, <3>2
    <3>3. ASSUME NEW node \in Above(k \div 2), node > 1 PROVE node \in Above(k)
      BY <2>2, <2>3, <3>3
    <3> QED
      BY <3>1, <3>2, <3>3
  <2>5. chosen[k \div 2] = ChosenInput(last, asks, k \div 2)
    BY <2>1
  <2> QED
    BY <1>1, <2>1, <2>4, <2>5
<1> QED
  BY <1>2, <1>3


LEMMA Halves ==
  ASSUME NEW n \in Size, NEW k \in 2 .. 2 * n - 1
  PROVE  /\ k \div 2 \in 1 .. n - 1
         /\ \/ k = 2 * (k \div 2) /\ k % 2 = 0
            \/ k = 2 * (k \div 2) + 1 /\ k % 2 = 1
BY DEF Size

\* Only requesters are granted, and one at a time.
LEMMA GrantedOne ==
  ASSUME NEW n \in Size, NEW last, NEW req \in SUBSET Requester(n)
  PROVE  /\ Granted(n, last, req) \subseteq req
         /\ \A i, j \in Granted(n, last, req) : i = j
<1> PICK granted : granted = Grants(n, last, req)
  OBVIOUS
<1> PICK asks : asks = Requests(n, req)
  OBVIOUS
<1> PICK chosen : chosen = [m \in 1 .. n - 1 |-> ChosenInput(last, asks, m)]
  OBVIOUS
<1>1. \A m \in 1 .. n - 1 : chosen[m] = ChosenInput(last, asks, m)
  OBVIOUS
<1>2. \A m \in 1 .. n - 1 : asks[m] <=> asks[2 * m] \/ asks[2 * m + 1]
  BY RequestsTree
<1>3. \A m \in 1 .. n - 1 : (chosen[m] = 0 /\ asks[m] => asks[2 * m])
                            /\ (chosen[m] = 1 /\ asks[m] => asks[2 * m + 1])
  BY <1>1, <1>2 DEF ChosenInput, Chosen
<1>4. /\ granted[1] => asks[1]
      /\ \A i \in Requester(n) : asks[n + i] <=> i \in req
  BY RequestsTree, GrantsTree
<1>5. \A k \in 2 .. 2 * n - 1 :
        k \div 2 \in 1 .. n - 1 /\ (granted[k] <=> granted[k \div 2] /\ k % 2 = chosen[k \div 2])
  BY <1>1, GrantsTree
<1>6. ASSUME NEW k \in 2 .. 2 * n - 1, granted[k \div 2] => asks[k \div 2]
      PROVE  granted[k] => asks[k]
  <2> PICK m : m = k \div 2
    OBVIOUS
  <2>1. (k = 2 * m /\ k % 2 = 0) \/ (k = 2 * m + 1 /\ k % 2 = 1)
    BY Halves
  <2> QED
    BY <1>3, <1>5, <1>6, <2>1
<1>7. ASSUME NEW k \in 2 .. 2 * n - 1, NEW l \in 2 .. 2 * n - 1,
             granted[k], granted[l], k \div 2 = l \div 2
      PROVE  k = l
  <2>1. k % 2 = l % 2
    BY <1>5, <1>7
  <2> QED
    BY <1>7, <2>1 DEF Size
<1>8. ASSUME NEW i \in Granted(n, last, req)
      PROVE  /\ i \in Requester(n) /\ n + i \in 2 .. 2 * n - 1 /\ granted[n + i]
             /\ i \in req
  <2>1. i \in Requester(n) /\ n + i \in 2 .. 2 * n - 1 /\ granted[n + i]
    BY DEF Granted, Requester, Size
  <2>2. asks[n + i]
    <3> PICK k \in 2 .. 2 * n - 1 : k = n + i
      BY <2>1
    <3>1. CASE n = 2
      <4>1. k \div 2 = 1
        BY <2>1, <3>1 DEF Requester
      <4> QED
        BY <1>4, <1>6, <2>1, <4>1
    <3>2. CASE n = 4
      <4>1. k \div 2 \in 2 .. 2 * n - 1 /\ (k \div 2) \div 2 = 1
        BY <2>1, <3>2 DEF Requester
      <4>2. granted[k \div 2] => asks[k \div 2]
        BY <1>4, <1>6, <4>1
      <4> QED
        BY <1>6, <2>1, <4>2
    <3>3. CASE n = 8
      <4>1. /\ k \div 2 \in 2 .. 2 * n - 1 /\ (k \div 2) \div 2 \in 2 .. 2 * n - 1
            /\ ((k \div 2) \div 2) \div 2 = 1
        BY <2>1, <3>3 DEF Requester
      <4>2. granted[(k \div 2) \div 2] => asks[(k \div 2) \div 2]
        BY <1>4, <1>6, <4>1
      <4>3. granted[k \div 2] => asks[k \div 2]
        BY <1>6, <4>1, <4>2
      <4> QED
        BY <1>6, <2>1, <4>3
    <3> QED
      BY <3>1, <3>2, <3>3 DEF Size
  <2> QED
    BY <1>4, <2>1, <2>2
<1>9. ASSUME NEW i \in Granted(n, last, req), NEW j \in Granted(n, last, req)
      PROVE  i = j
  <2>1. /\ i \in 0 .. n - 1 /\ j \in 0 .. n - 1
        /\ n + i \in 2 .. 2 * n - 1 /\ n + j \in 2 .. 2 * n - 1
        /\ granted[n + i] /\ granted[n + j]
    BY <1>8 DEF Requester
  <2> PICK k \in 2 .. 2 * n - 1 : k = n + i
    BY <2>1
  <2> PICK l \in 2 .. 2 * n - 1 : l = n + j
    BY <2>1
  <2>2. k = l
    <3>1. CASE n = 2
      <4>1. k \div 2 = 1 /\ l \div 2 = 1
        BY <2>1, <3>1
      <4> QED
        BY <1>7, <2>1, <4>1
    <3>2. CASE n = 4
      <4>1. /\ k \div 2 \in 2 .. 2 * n - 1 /\ (k \div 2) \div 2 = 1
            /\ l \div 2 \in 2 .. 2 * n - 1 /\ (l \div 2) \div 2 = 1
        BY <2>1, <3>2
      <4>2. granted[k \div 2] /\ granted[l \div 2]
        BY <1>5, <2>1
      <4>3. k \div 2 = l \div 2
        BY <1>7, <4>1, <4>2
      <4> QED
        BY <1>7, <2>1, <4>3
    <3>3. CASE n = 8
      <4>1. /\ k \div 2 \in 2 .. 2 * n - 1 /\ (k \div 2) \div 2 \in 2 .. 2 * n - 1
            /\ l \div 2 \in 2 .. 2 * n - 1 /\ (l \div 2) \div 2 \in 2 .. 2 * n - 1
            /\ ((k \div 2) \div 2) \div 2 = 1 /\ ((l \div 2) \div 2) \div 2 = 1
        BY <2>1, <3>3
      <4>2. granted[k \div 2] /\ granted[l \div 2]
        BY <1>5, <2>1
      <4>3. granted[(k \div 2) \div 2] /\ granted[(l \div 2) \div 2]
        BY <1>5, <4>1, <4>2
      <4>4. (k \div 2) \div 2 = (l \div 2) \div 2
        BY <1>7, <4>1, <4>3
      <4>5. k \div 2 = l \div 2
        BY <1>7, <4>1, <4>2, <4>4
      <4> QED
        BY <1>7, <2>1, <4>5
    <3> QED
      BY <3>1, <3>2, <3>3 DEF Size
  <2> QED
    BY <2>1, <2>2 DEF Size
<1> QED
  BY <1>8, <1>9

-----------------------------------------------------------------------------
(* How many grants may still go to others before requester i gets its own: *)
(* at each node above it one for the other input, if the node has served   *)
(* its side last, and that as often as its side is passed over further     *)
(* down.                                                                   *)
Behind(last, k) == IF last[k \div 2] = k % 2 THEN 1 ELSE 0

Ahead(n, last, i) ==
  LET k == n + i
  IN  IF n = 2 THEN Behind(last, k)
      ELSE IF n = 4 THEN Behind(last, k \div 2) + 2 * Behind(last, k)
      ELSE Behind(last, k \div 4) + 2 * Behind(last, k \div 2) + 4 * Behind(last, k)

LEMMA AheadAtMost ==
  ASSUME NEW n \in Size, NEW last, NEW i
  PROVE  Ahead(n, last, i) \in 0 .. n - 1
<1>1. \A k : Behind(last, k) \in {0, 1}
  BY DEF Behind
<1> HIDE DEF Behind
<1>2. CASE n = 2
  BY <1>1, <1>2 DEF Ahead
<1>3. CASE n = 4
  BY <1>1, <1>3 DEF Ahead
<1>4. CASE n = 8
  BY <1>1, <1>4 DEF Ahead
<1> QED
  BY <1>2, <1>3, <1>4 DEF Size

\* What a clock edge does to it at a node k that is not granted.
LEMMA BehindAfter ==
  ASSUME NEW n \in Size, NEW last \in [1 .. n - 1 -> {0, 1}], NEW req \in SUBSET Requester(n),
         NEW k \in 2 .. 2 * n - 1, ~ Grants(n, last, req)[k]
  PROVE  /\ ~ Grants(n, last, req)[k \div 2] =>
              Behind(Serviced(n, last, req), k) = Behind(last, k)
         /\ Grants(n, last, req)[k \div 2] /\ Requests(n, req)[k] =>
              Behind(last, k) = 1 /\ Behind(Serviced(n, last, req), k) = 0
<1> PICK granted : granted = Grants(n, last, req)
  OBVIOUS
<1> PICK asks : asks = Requests(n, req)
  OBVIOUS
<1> PICK new : new = Serviced(n, last, req)
  OBVIOUS
<1> PICK m : m = k \div 2
  OBVIOUS
<1>1. m \in 1 .. n - 1 /\ ((k = 2 * m /\ k % 2 = 0) \/ (k = 2 * m + 1 /\ k % 2 = 1))
  BY Halves
<1>2. granted[m] => k % 2 # ChosenInput(last, asks, m)
  BY GrantsTree
<1>3. new[m] = IF granted[m] THEN ChosenInput(last, asks, m) ELSE last[m]
  BY <1>1 DEF Serviced
<1>4. ~ granted[m] => Behind(new, k) = Behind(last, k)
  BY <1>3 DEF Behind
<1>5. ASSUME granted[m], asks[k] PROVE Behind(last, k) = 1 /\ Behind(new, k) = 0
  <2>1. new[m] # k % 2
    BY <1>2, <1>3, <1>5
  <2>2. last[m] \in {0, 1}
    BY <1>1
  <2>3. last[m] = k % 2
    BY <1>1, <1>2, <1>5, <2>2 DEF ChosenInput, Chosen
  <2> QED
    BY <2>1, <2>3 DEF Behind
<1> QED
  BY <1>4, <1>5

\* The nodes above a requester that is not granted, from the lowest that is
\* granted down: there the request loses its turn to the other input.
LEMMA AheadFalls ==
  ASSUME NEW n \in Size, NEW last \in [1 .. n - 1 -> {0, 1}], NEW req \in SUBSET Requester(n),
         NEW i \in req, i \notin Granted(n, last, req)
  PROVE  Ahead(n, Serviced(n, last, req), i) < Ahead(n, last, i)
<1> PICK granted : granted = Grants(n, last, req)
  OBVIOUS
<1> PICK asks : asks = Requests(n, req)
  OBVIOUS
<1> PICK new : new = Serviced(n, last, req)
  OBVIOUS
<1>1. i \in 0 .. n - 1 /\ n + i \in 2 .. 2 * n - 1
  BY DEF Requester, Size
<1> PICK k \in 2 .. 2 * n - 1 : k = n + i
  BY <1>1
<1>2. granted[1] /\ asks[k] /\ ~ granted[k]
  <2>1. i \in Requester(n) /\ req # {}
    OBVIOUS
  <2>2. granted[1] /\ asks[n + i]
    BY <2>1, RequestsTree, GrantsTree
  <2> QED
    BY <2>1, <2>2 DEF Granted
<1>3. \A j \in 2 .. 2 * n - 1 :
        /\ granted[j] => granted[j \div 2]
        /\ asks[j] => asks[j \div 2]
        /\ ~ granted[j] /\ ~ granted[j \div 2] => Behind(new, j) = Behind(last, j)
        /\ ~ granted[j] /\ granted[j \div 2] /\ asks[j] =>
             Behind(last, j) = 1 /\ Behind(new, j) = 0
  <2> TAKE j \in 2 .. 2 * n - 1
  <2>1. granted[j] => granted[j \div 2]
    BY GrantsTree
  <2>2. asks[j] => asks[j \div 2]
    <3> PICK m : m = j \div 2
      OBVIOUS
    <3>1. m \in 1 .. n - 1 /\ (j = 2 * m \/ j = 2 * m + 1)
      BY Halves
    <3>2. asks[m] <=> asks[2 * m] \/ asks[2 * m + 1]
      BY <3>1, RequestsTree
    <3> QED
      BY <3>1, <3>2
  <2>3. ~ granted[j] /\ ~ granted[j \div 2] => Behind(new, j) = Behind(last, j)
    BY BehindAfter
  <2>4. ~ granted[j] /\ granted[j \div 2] /\ asks[j] =>
          Behind(last, j) = 1 /\ Behind(new, j) = 0
    BY BehindAfter
  <2> QED
    BY <2>1, <2>2, <2>3, <2>4
<1>4. \A j : Behind(last, j) \in {0, 1} /\ Behind(new, j) \in {0, 1}
  BY DEF Behind
<1> HIDE DEF Behind
<1>5. CASE n = 2
  <2>1. k \div 2 = 1
    BY <1>1, <1>5
  <2> QED
    BY <1>2, <1>3, <1>5, <2>1 DEF Ahead
<1>6. CASE n = 4
  <2> PICK half : half = k \div 2
    OBVIOUS
  <2>1. half \in 2 .. 2 * n - 1 /\ half \div 2 = 1
    BY <1>1, <1>6
  <2>2. /\ Ahead(n, last, i) = Behind(last, half) + 2 * Behind(last, k)
        /\ Ahead(n, new, i) = Behind(new, half) + 2 * Behind(new, k)
    BY <1>6 DEF Ahead
  <2>3. asks[half]
    BY <1>2, <1>3
  <2>4. CASE granted[half]
    <3>1. Behind(last, k) = 1 /\ Behind(new, k) = 0
      BY <1>2, <1>3, <2>4
    <3> QED
      BY <1>4, <2>2, <3>1
  <2>5. CASE ~ granted[half]
    <3>1. Behind(last, half) = 1 /\ Behind(new, half) = 0
      BY <1>2, <1>3, <2>1, <2>3, <2>5
    <3>2. Behind(new, k) = Behind(last, k)
      BY <1>2, <1>3, <2>5
    <3> QED
      BY <1>4, <2>2, <3>1, <3>2
  <2> QED
    BY <2>4, <2>5
<1>7. CASE n = 8
  <2> PICK half : half = k \div 2
    OBVIOUS
  <2> PICK quarter : quarter = k \div 4
    OBVIOUS
  <2>1. /\ half \in 2 .. 2 * n - 1 /\ half \div 2 = quarter
        /\ quarter \in 2 .. 2 * n - 1 /\ quarter \div 2 = 1
    BY <1>1, <1>7
  <2>2. /\ Ahead(n, last, i) = Behind(last, quarter) + 2 * Behind(last, half) + 4 * Behind(last, k)
        /\ Ahead(n, new, i) = Behind(new, quarter) + 2 * Behind(new, half) + 4 * Behind(new, k)
    BY <1>7 DEF Ahead
  <2>3. asks[half]
    BY <1>2, <1>3
  <2>4. asks[quarter]
    BY <1>3, <2>1, <2>3
  <2>5. CASE granted[half]
    <3>1. Behind(last, k) = 1 /\ Behind(new, k) = 0
      BY <1>2, <1>3, <2>5
    <3> QED
      BY <1>4, <2>2, <3>1
  <2>6. CASE ~ granted[half] /\ granted[quarter]
    <3>1. Behind(last, half) = 1 /\ Behind(new, half) = 0
      BY <1>3, <2>1, <2>3, <2>6
    <3>2. Behind(new, k) = Behind(last, k)
      BY <1>2, <1>3, <2>6
    <3> QED
      BY <1>4, <2>2, <3>1, <3>2
  <2>7. CASE ~ granted[half] /\ ~ granted[quarter]
    <3>1. Behind(last, quarter) = 1 /\ Behind(new, quarter) = 0
      BY <1>2, <1>3, <2>1, <2>4, <2>7
    <3>2. Behind(new, half) = Behind(last, half)
      BY <1>3, <2>1, <2>7
    <3>3. Behind(new, k) = Behind(last, k)
      BY <1>2, <1>3, <2>7
    <3> QED
      BY <1>4, <2>2, <3>1, <3>2, <3>3
  <2> QED
    BY <2>5, <2>6, <2>7
<1> QED
  BY <1>5, <1>6, <1>7 DEF Size

LEMMA ServicedType ==
  ASSUME NEW n \in Size, NEW last \in [1 .. n - 1 -> {0, 1}], NEW req
  PROVE  Serviced(n, last, req) \in [1 .. n - 1 -> {0, 1}]
<1>1. \A k : ChosenInput(last, Requests(n, req), k) \in {0, 1}
  BY DEF ChosenInput, Chosen
<1> QED
  BY <1>1 DEF Serviced

-----------------------------------------------------------------------------
(* The step of SoftReg virtualization, app by app.                         *)
\* Only an enabled app is read, and the host has no more than Window reads out.
WithinWindow ==
  \A a \in App :
    /\ serving[a] # <<>> => a \in Enabled
    /\ Len(outstanding[a]) <= Window

\* The grants a response has seen, and may still see, go to other apps.
TurnsLeft == \A a \in App : passed[a] + Ahead(NumApps, last_serviced, a) <= NumApps - 1

SoftRegInv == TypeOK /\ NoneDropped /\ WithinWindow /\ TurnsLeft

LEMMA SizeOfTree == NumApps \in Size
BY SoftRegAssumption DEF Size

LEMMA SoftRegInitInv == Init => SoftRegInv
<1> SUFFICES ASSUME Init PROVE SoftRegInv
  OBVIOUS
<1> USE DEF Init
<1>1. TypeOK
  <2>1. last_serviced \in [1 .. NumApps - 1 -> {0, 1}]
    BY DEF ResetArbiter
  <2> QED
    BY <2>1, SoftRegAssumption DEF TypeOK
<1>2. NoneDropped
  <2>1. <<>> \o <<>> = <<>>
    OBVIOUS
  <2> QED
    BY <2>1 DEF NoneDropped
<1>3. WithinWindow
  BY SoftRegAssumption DEF WithinWindow
<1>4. TurnsLeft
  <2>1. \A a \in App : Ahead(NumApps, last_serviced, a) \in 0 .. NumApps - 1
    BY SizeOfTree, AheadAtMost
  <2>2. \A a \in App : passed[a] = 0
    OBVIOUS
  <2>3. NumApps \in Nat
    BY SizeOfTree DEF Size
  <2> QED
    BY <2>1, <2>2, <2>3 DEF TurnsLeft
<1> QED
  BY <1>1, <1>2, <1>3, <1>4 DEF SoftRegInv

\* The response that is sent is that of the app that is granted.
LEMMA ResponseIsGranted ==
  ASSUME TypeOK, NEW a \in App
  PROVE  /\ a \in Grant => respQ[a] # <<>>
         /\ (Grant # {} /\ Response(Grant) = a) <=> a \in Grant
<1> PICK grant : grant = Grant
  OBVIOUS
<1>1. grant \subseteq Req /\ \A i, j \in grant : i = j
  <2>1. Req \in SUBSET Requester(NumApps)
    BY DEF Req, App
  <2> QED
    BY <2>1, SizeOfTree, GrantedOne DEF Grant
<1>2. \A g \in grant : g \in App /\ respQ[g] # <<>> /\ respQ[g] \in Seq({g})
  BY <1>1 DEF Req, TypeOK
<1>3. ASSUME NEW g \in grant PROVE Head(respQ[g]) = g
  <2>1. respQ[g] \in Seq({g}) /\ respQ[g] # <<>>
    BY <1>2
  <2>2. Head(respQ[g]) \in {g}
    BY <2>1, HeadTailProperties
  <2> QED
    BY <2>2
<1>4. grant # {} => (CHOOSE g \in grant : TRUE) \in grant
  OBVIOUS
<1>5. grant # {} => Response(grant) \in grant
  BY <1>3, <1>4 DEF Response
<1> QED
  BY <1>1, <1>2, <1>5

\* The queues of one app: the reads the host waits for, those the app serves and
\* the responses in the FIFO.  In a cycle a response may be sent, another come
\* and the host may read.
WaitsAfter(a, waits, sent, read) ==
  IF read THEN Append(Dequeued(waits, sent), a) ELSE Dequeued(waits, sent)
ServesAfter(a, serves, came, read) ==
  IF read THEN Append(Dequeued(serves, came), a) ELSE Dequeued(serves, came)

LEMMA DequeuedSeq ==
  ASSUME NEW Entry, NEW queue \in Seq(Entry), NEW rdreq \in BOOLEAN
  PROVE  /\ Dequeued(queue, rdreq) \in Seq(Entry)
         /\ Len(Dequeued(queue, rdreq)) \in Nat /\ Len(queue) \in Nat
         /\ Len(Dequeued(queue, rdreq)) <= Len(queue)
<1>1. CASE queue = <<>>
  BY <1>1 DEF Dequeued
<1>2. CASE queue # <<>>
  <2>1. /\ Tail(queue) \in Seq(Entry) /\ Len(Tail(queue)) = Len(queue) - 1
        /\ Len(Tail(queue)) \in Nat /\ Len(queue) \in Nat
    BY <1>2, HeadTailProperties, LenProperties
  <2> QED
    BY <2>1 DEF Dequeued
<1> QED
  BY <1>1, <1>2

\* A response that comes finds room: it is among those the host waits for.
LEMMA ResponseFindsRoom ==
  ASSUME NEW Entry, NEW queue \in Seq(Entry), NEW serves \in Seq(Entry), serves # <<>>,
         Len(queue \o serves) <= Window
  PROVE  Len(queue) < Depth
<1>1. Len(queue \o serves) = Len(queue) + Len(serves)
  BY ConcatProperties
<1>2. Len(queue) \in Nat /\ Len(serves) \in Nat /\ Len(serves) > 0
  BY LenProperties, EmptySeq
<1>3. Depth \in Nat /\ Window \in Nat /\ Window <= Depth
  BY SoftRegAssumption
<1> QED
  BY <1>1, <1>2, <1>3

QueuesKept(a, queue, serves, sent, came, read) ==
  LET waitsAfter  == WaitsAfter(a, queue \o serves, sent, read)
      servesAfter == ServesAfter(a, serves, came, read)
      queueAfter  == Clocked(queue, Depth, came, Head(serves), sent)
  IN  /\ {waitsAfter, servesAfter, queueAfter} \subseteq Seq({a})
      /\ Len(queueAfter) <= Depth
      /\ waitsAfter = queueAfter \o servesAfter
      /\ Len(waitsAfter) <= Window
      /\ servesAfter # <<>> => serves # <<>> \/ read

LEMMA QueuesAfter ==
  ASSUME NEW a, NEW queue \in Seq({a}), NEW serves \in Seq({a}),
         NEW sent \in BOOLEAN, NEW came \in BOOLEAN, NEW read \in BOOLEAN,
         Len(queue) <= Depth, Len(queue \o serves) <= Window,
         sent => queue # <<>>, came => serves # <<>>, read => Len(queue \o serves) < Window
  PROVE  QueuesKept(a, queue, serves, sent, came, read)
<1> DEFINE waits       == queue \o serves
           waitsAfter  == WaitsAfter(a, waits, sent, read)
           servesAfter == ServesAfter(a, serves, came, read)
           queueAfter  == Clocked(queue, Depth, came, Head(serves), sent)
           waitsLeft   == Dequeued(waits, sent)
           servesLeft  == Dequeued(serves, came)
           queueLeft   == Dequeued(queue, sent)
<1> SUFFICES /\ {waitsAfter, servesAfter, queueAfter} \subseteq Seq({a})
             /\ Len(queueAfter) <= Depth
             /\ waitsAfter = queueAfter \o servesAfter
             /\ Len(waitsAfter) <= Window
             /\ servesAfter # <<>> => serves # <<>> \/ read
  BY DEF QueuesKept
<1>1. Depth \in Nat /\ Window \in Nat /\ a \in {a} /\ waits \in Seq({a})
  BY SoftRegAssumption, ConcatProperties
<1>2. came => Head(serves) = a
  BY HeadTailProperties
<1>3. queueAfter \in Seq({a}) /\ Len(queueAfter) <= Depth
  <2>1. came => Head(serves) \in {a}
    BY <1>2
  <2> QED
    BY <1>1, <2>1, ClockedLength
<1>4. queueAfter = IF came THEN Append(queueLeft, a) ELSE queueLeft
  <2>1. came => Len(queue) < Depth
    BY ResponseFindsRoom
  <2>2. came => ~ Full(queue, Depth)
    BY <1>1, <2>1 DEF Full
  <2> QED
    BY <1>2, <2>2 DEF Clocked
<1>5. waitsLeft \in Seq({a}) /\ Len(waitsLeft) \in Nat /\ Len(waits) \in Nat /\ Len(waitsLeft) <= Len(waits)
  BY <1>1, DequeuedSeq
<1>6. servesLeft \in Seq({a}) /\ queueLeft \in Seq({a})
  BY DequeuedSeq
<1>7. waitsLeft = queueLeft \o serves
  <2>1. CASE sent
    <3>1. queue \o serves # <<>> /\ Tail(queue \o serves) = Tail(queue) \o serves
      BY <2>1, TakenFirst
    <3> QED
      BY <2>1, <3>1 DEF Dequeued
  <2>2. CASE ~ sent
    BY <2>2 DEF Dequeued
  <2> QED
    BY <2>1, <2>2
<1>8. waitsLeft = queueAfter \o servesLeft
  <2>1. CASE came
    <3>1. Append(queueLeft, Head(serves)) \o Tail(serves) = queueLeft \o serves
      BY <1>6, <2>1, HandedOver
    <3>2. servesLeft = Tail(serves)
      BY <2>1 DEF Dequeued
    <3> QED
      BY <1>2, <1>4, <1>7, <2>1, <3>1, <3>2
  <2>2. CASE ~ came
    BY <1>4, <1>7, <2>2 DEF Dequeued
  <2> QED
    BY <2>1, <2>2
<1>9. Len(waits) <= Window /\ (read => Len(waits) < Window)
  OBVIOUS
<1> HIDE DEF waitsAfter, servesAfter, queueAfter, waitsLeft, servesLeft, waits
<1>10. CASE read
  <2>1. waitsAfter = Append(waitsLeft, a) /\ servesAfter = Append(servesLeft, a)
    BY <1>10 DEF WaitsAfter, ServesAfter, waitsAfter, servesAfter, waitsLeft, servesLeft
  <2>2. queueAfter \o Append(servesLeft, a) = Append(queueAfter \o servesLeft, a)
    BY SMTT(30), <1>1, <1>3, <1>6, AcceptedLast
  <2>3. Append(waitsLeft, a) \in Seq({a}) /\ Append(servesLeft, a) \in Seq({a})
    BY <1>1, <1>5, <1>6, AppendProperties
  <2>4. Len(Append(waitsLeft, a)) = Len(waitsLeft) + 1
    BY <1>1, <1>5, AppendProperties
  <2>5. Len(waitsLeft) + 1 <= Window
    BY <1>1, <1>5, <1>9, <1>10
  <2> QED
    BY <1>3, <1>8, <1>10, <2>1, <2>2, <2>3, <2>4, <2>5
<1>11. CASE ~ read
  <2>1. waitsAfter = waitsLeft /\ servesAfter = servesLeft
    BY <1>11 DEF WaitsAfter, ServesAfter, waitsAfter, servesAfter, waitsLeft, servesLeft
  <2>2. Len(waitsLeft) <= Window
    BY <1>1, <1>5, <1>9
  <2>3. servesLeft # <<>> => serves # <<>>
    BY DEF servesLeft, Dequeued
  <2> QED
    BY <1>3, <1>5, <1>6, <1>8, <2>1, <2>2, <2>3
<1> QED
  BY <1>10, <1>11

\* One edge, for one app.
LEMMA AppEdge ==
  ASSUME SoftRegInv, NEW addressed \in App \cup {NoApp}, NEW responding \in SUBSET App,
         Clock(addressed, responding, Grant), NEW a \in App
  PROVE  /\ {outstanding[a], serving[a], respQ[a]}' \subseteq Seq({a})
         /\ Len(respQ[a])' <= Depth
         /\ (outstanding[a] = respQ[a] \o serving[a])'
         /\ (serving[a] # <<>> => a \in Enabled)'
         /\ (Len(outstanding[a]) <= Window)'
<1> DEFINE sent == a \in Grant
           came == a \in responding
           read == a = addressed
<1>1. /\ serving[a] \in Seq({a}) /\ respQ[a] \in Seq({a})
      /\ Len(respQ[a]) <= Depth /\ Len(respQ[a] \o serving[a]) <= Window
      /\ outstanding[a] = respQ[a] \o serving[a]
      /\ serving[a] # <<>> => a \in Enabled
  BY DEF SoftRegInv, TypeOK, NoneDropped, WithinWindow
<1>2. /\ sent => respQ[a] # <<>>
      /\ (Grant # {} /\ Response(Grant) = a) = sent
  BY ResponseIsGranted DEF SoftRegInv
<1>3. /\ came => serving[a] # <<>>
      /\ read => a \in Enabled /\ Len(respQ[a] \o serving[a]) < Window
  <2>1. addressed # NoApp => addressed \in Enabled /\ Len(outstanding[addressed]) < Window
    BY DEF Clock
  <2>2. a # NoApp
    BY DEF NoApp, App, Requester
  <2>3. \A b \in responding : serving[b] # <<>>
    BY DEF Clock
  <2> QED
    BY <1>1, <2>1, <2>2, <2>3
<1>4. Stored(a, responding) = came
  <2>1. came => a \in Enabled /\ Len(respQ[a]) < Depth
    BY <1>1, <1>3, ResponseFindsRoom
  <2>2. Depth \in Nat
    BY SoftRegAssumption
  <2> QED
    BY <2>1, <2>2 DEF Stored, Full
<1>5. /\ outstanding'[a] = WaitsAfter(a, respQ[a] \o serving[a], sent, read)
      /\ serving'[a] = ServesAfter(a, serving[a], came, read)
      /\ respQ'[a] = Clocked(respQ[a], Depth, came, Head(serving[a]), sent)
  <2>1. outstanding'[a] = WaitsAfter(a, outstanding[a], Grant # {} /\ Response(Grant) = a, read)
    BY DEF Clock, WaitsAfter
  <2>2. serving'[a] = ServesAfter(a, serving[a], came, read)
    BY DEF Clock, Routed, ServesAfter
  <2>3. respQ'[a] = Clocked(respQ[a], Depth, Stored(a, responding), Head(serving[a]), sent)
    BY DEF Clock
  <2> HIDE DEF sent, came, read
  <2> QED
    BY <1>1, <1>2, <1>4, <2>1, <2>2, <2>3
<1>6. sent \in BOOLEAN /\ came \in BOOLEAN /\ read \in BOOLEAN
  OBVIOUS
<1> HIDE DEF sent, came, read
<1>7. /\ {outstanding'[a], serving'[a], respQ'[a]} \subseteq Seq({a})
      /\ Len(respQ'[a]) <= Depth
      /\ outstanding'[a] = respQ'[a] \o serving'[a]
      /\ Len(outstanding'[a]) <= Window
      /\ serving'[a] # <<>> => serving[a] # <<>> \/ read
  <2>1. QueuesKept(a, respQ[a], serving[a], sent, came, read)
    <3>1. /\ serving[a] \in Seq({a}) /\ respQ[a] \in Seq({a})
          /\ sent \in BOOLEAN /\ came \in BOOLEAN /\ read \in BOOLEAN
          /\ Len(respQ[a]) <= Depth /\ Len(respQ[a] \o serving[a]) <= Window
          /\ sent => respQ[a] # <<>>
          /\ came => serving[a] # <<>>
          /\ read => Len(respQ[a] \o serving[a]) < Window
      BY <1>1, <1>2, <1>3, <1>6
    <3> QED
      BY <3>1, QueuesAfter
  <2> QED
    BY <1>5, <2>1 DEF QueuesKept
<1> QED
  BY <1>1, <1>3, <1>7

\* A response that is passed over once more is one turn nearer its own.
LEMMA TurnEdge ==
  ASSUME SoftRegInv, NEW a \in App,
         last_serviced' = Serviced(NumApps, last_serviced, Req),
         passed' = [b \in App |-> IF b \in Req \ Grant THEN passed[b] + 1 ELSE 0]
  PROVE  (passed[a] + Ahead(NumApps, last_serviced, a) <= NumApps - 1)'
<1> PICK n \in Size : n = NumApps
  BY SizeOfTree
<1> PICK last : last = last_serviced
  OBVIOUS
<1> PICK req \in SUBSET Requester(n) : req = Req
  BY DEF Req, App
<1> PICK new : new = Serviced(n, last, req)
  OBVIOUS
<1>1. last \in [1 .. n - 1 -> {0, 1}] /\ passed[a] \in Nat
  BY DEF SoftRegInv, TypeOK
<1>2. Ahead(n, new, a) \in 0 .. n - 1 /\ Ahead(n, last, a) \in 0 .. n - 1
  BY AheadAtMost
<1>3. passed[a] + Ahead(n, last, a) <= n - 1
  BY DEF SoftRegInv, TurnsLeft
<1>4. passed'[a] = IF a \in req \ Granted(n, last, req) THEN passed[a] + 1 ELSE 0
  BY DEF Grant
<1>5. n \in Nat
  BY DEF Size
<1>6. passed'[a] + Ahead(n, new, a) <= n - 1
  <2>1. CASE a \in req \ Granted(n, last, req)
    <3>1. Ahead(n, new, a) < Ahead(n, last, a)
      BY <1>1, <2>1, AheadFalls
    <3> QED
      BY <1>1, <1>2, <1>3, <1>4, <1>5, <2>1, <3>1
  <2>2. CASE a \notin req \ Granted(n, last, req)
    BY <1>2, <1>4, <1>5, <2>2
  <2> QED
    BY <2>1, <2>2
<1> QED
  BY <1>6

LEMMA SoftRegStepInv == SoftRegInv /\ [Next]_vars => SoftRegInv'
<1> SUFFICES ASSUME SoftRegInv, [Next]_vars PROVE SoftRegInv'
  OBVIOUS
<1>1. CASE UNCHANGED vars
  BY <1>1 DEF vars, SoftRegInv, TypeOK, NoneDropped, WithinWindow, TurnsLeft
<1>2. CASE Next
  <2>1. PICK addressed \in App \cup {NoApp}, responding \in SUBSET App :
          Clock(addressed, responding, Grant)
    BY <1>2 DEF Next
  <2>2. last_serviced' = Serviced(NumApps, last_serviced, Req)
    BY <1>2 DEF Next
  <2>3. passed' = [b \in App |-> IF b \in Req \ Grant THEN passed[b] + 1 ELSE 0]
    BY <2>1 DEF Clock
  <2>4. \A a \in App :
          /\ {outstanding[a], serving[a], respQ[a]}' \subseteq Seq({a})
          /\ Len(respQ[a])' <= Depth
          /\ (outstanding[a] = respQ[a] \o serving[a])'
          /\ (serving[a] # <<>> => a \in Enabled)'
          /\ (Len(outstanding[a]) <= Window)'
    BY <2>1, AppEdge
  <2>5. \A a \in App : (passed[a] + Ahead(NumApps, last_serviced, a) <= NumApps - 1)'
    BY <2>2, <2>3, TurnEdge
  <2>6. TypeOK'
    <3>1. last_serviced' \in [1 .. NumApps - 1 -> {0, 1}]
      <4>1. last_serviced \in [1 .. NumApps - 1 -> {0, 1}]
        BY DEF SoftRegInv, TypeOK
      <4> QED
        BY <2>2, <4>1, SizeOfTree, ServicedType
    <3>2. passed' \in [App -> Nat]
      <4>1. passed \in [App -> Nat]
        BY DEF SoftRegInv, TypeOK
      <4> QED
        BY <2>3, <4>1
    <3> QED
      BY <2>4, <3>1, <3>2 DEF TypeOK
  <2> QED
    BY <2>4, <2>5, <2>6 DEF SoftRegInv, NoneDropped, WithinWindow, TurnsLeft
<1> QED
  BY <1>1, <1>2

\* SoftReg virtualization's registers and FIFOs stay in range, and a FIFO holds
\* responses of its own app only.
THEOREM SoftRegTypeCorrect == Spec => []TypeOK
<1>1. SoftRegInv => TypeOK
  BY DEF SoftRegInv
<1> QED
  BY <1>1, SoftRegInitInv, SoftRegStepInv, PTL DEF Spec

\* While the host keeps to its window, no response is dropped, repeated, sent
\* by another app or overtaken by a later one of its app.
THEOREM NoneEverDropped == Spec => []NoneDropped
<1>1. SoftRegInv => NoneDropped
  BY DEF SoftRegInv
<1> QED
  BY <1>1, SoftRegInitInv, SoftRegStepInv, PTL DEF Spec

\* The tree of arbiters passes a response over at most once for each other app.
THEOREM AlwaysServedInTurn == Spec => []ServedInTurn
<1>1. SoftRegInv => ServedInTurn
  <2> SUFFICES ASSUME SoftRegInv, NEW a \in App PROVE passed[a] < NumApps
    BY DEF ServedInTurn
  <2>1. Ahead(NumApps, last_serviced, a) \in 0 .. NumApps - 1
    BY SizeOfTree, AheadAtMost
  <2>2. /\ passed[a] \in Nat /\ NumApps \in Nat
        /\ passed[a] + Ahead(NumApps, last_serviced, a) <= NumApps - 1
    BY SizeOfTree DEF SoftRegInv, TypeOK, TurnsLeft, Size
  <2> QED
    BY <2>1, <2>2
<1> QED
  BY <1>1, SoftRegInitInv, SoftRegStepInv, PTL DEF Spec

-----------------------------------------------------------------------------
(* The ring buffer.                                                        *)
RingInv == RingOK /\ PointersAgree

LEMMA RingInitInv == RingInit => RingInv
BY RingAssumption DEF RingInit, RingInv, RingOK, PointersAgree, Wrapped, Index

LEMMA RingClockInv ==
  ASSUME RingInv, NEW wrreq \in BOOLEAN, NEW rdreq \in BOOLEAN, NEW data \in Data,
         RingClock(wrreq, data, rdreq)
  PROVE  RingInv'
<1> DEFINE accepted == Accepts(wrreq, rdreq)
           yielded  == Yields(rdreq)
<1> USE RingAssumption DEF RingInv, RingOK, PointersAgree, Wrapped, Index
<1>1. accepted \in BOOLEAN /\ yielded \in BOOLEAN
  BY DEF Accepts, Yields, full, empty
<1>2. accepted => counter < RingDepth
  BY DEF Accepts, full
<1>3. yielded => counter > 0
  BY DEF Yields, empty
<1>4. Store(accepted, data) /\ counter' = Counted(accepted, yielded)
      /\ wr_ptr' = (IF accepted THEN Wrapped(wr_ptr + 1, RingDepth) ELSE wr_ptr)
      /\ rd_ptr' = (IF yielded THEN Wrapped(rd_ptr + 1, RingDepth) ELSE rd_ptr)
  BY DEF RingClock
<1> HIDE DEF accepted, yielded
<1>5. counter' = (IF accepted /\ ~ yielded THEN counter + 1
                  ELSE IF ~ accepted /\ yielded THEN counter - 1 ELSE counter)
  BY <1>1, <1>2, <1>3, <1>4 DEF Counted
<1>6. buffer' \in [Index -> Data]
  BY <1>4 DEF Store
<1>7. counter' \in 0 .. RingDepth
  BY <1>2, <1>3, <1>5
<1>8. rd_ptr' \in Index /\ wr_ptr' \in Index
  BY <1>4
<1>9. PointersAgree'
  BY <1>1, <1>2, <1>3, <1>4, <1>5
<1> QED
  BY <1>6, <1>7, <1>8, <1>9

LEMMA RingStepInv == RingInv /\ [RingNext]_ring => RingInv'
<1> SUFFICES ASSUME RingInv, [RingNext]_ring PROVE RingInv'
  OBVIOUS
<1>1. CASE UNCHANGED ring
  BY <1>1 DEF ring, RingInv, RingOK, PointersAgree, Wrapped
<1>2. ASSUME NEW wrreq \in BOOLEAN, NEW data \in Data, Reset(wrreq, data)
      PROVE  RingInv'
  BY <1>2, RingAssumption DEF Reset, Store, Accepts, RingInv, RingOK, PointersAgree, Wrapped, Index
<1> QED
  BY <1>1, <1>2, RingClockInv DEF RingNext

\* In every state the ring buffer's registers are in range.
THEOREM RingTypeCorrect == RingSpec => []RingOK
<1>1. RingInv => RingOK
  BY DEF RingInv
<1> QED
  BY <1>1, RingInitInv, RingStepInv, PTL DEF RingSpec

\* The counter is always the distance between the two pointers.
THEOREM PointersAlwaysAgree == RingSpec => []PointersAgree
<1>1. RingInv => PointersAgree
  BY DEF RingInv
<1> QED
  BY <1>1, RingInitInv, RingStepInv, PTL DEF RingSpec

-----------------------------------------------------------------------------
(* The contents as a sequence, and what a clock edge does to them.         *)

LEMMA WrappedInRange ==
  ASSUME NEW r \in 0 .. RingDepth - 1, NEW i \in 1 .. RingDepth
  PROVE  Wrapped(r + i - 1, RingDepth) \in 0 .. RingDepth - 1
BY RingAssumption DEF Wrapped

LEMMA ContentsSeq ==
  ASSUME RingInv
  PROVE  /\ Contents \in Seq(Data)
         /\ Len(Contents) = counter
         /\ \A i \in 1 .. counter : Contents[i] = buffer[Wrapped(rd_ptr + i - 1, RingDepth)]
<1>1. \A i \in 1 .. counter : buffer[Wrapped(rd_ptr + i - 1, RingDepth)] \in Data
  BY RingAssumption DEF RingInv, RingOK, Wrapped, Index
<1> QED
  BY <1>1 DEF Contents, RingInv, RingOK

LEMMA ContentsStep ==
  ASSUME RingInv, NEW wrreq \in BOOLEAN, NEW rdreq \in BOOLEAN, NEW data \in Data,
         RingClock(wrreq, data, rdreq)
  PROVE  Contents' = Queue!Clocked(Contents, RingDepth, wrreq, data, rdreq)
<1> DEFINE accepted == Accepts(wrreq, rdreq)
           yielded  == Yields(rdreq)
           took     == Queue!Dequeued(Contents, rdreq)
           n        == IF yielded THEN counter - 1 ELSE counter
           at(i)    == Wrapped(rd_ptr' + i - 1, RingDepth)
<1>1. RingInv'
  BY RingClockInv
<1>2. /\ Contents \in Seq(Data) /\ Len(Contents) = counter
      /\ \A i \in 1 .. counter : Contents[i] = buffer[Wrapped(rd_ptr + i - 1, RingDepth)]
  BY ContentsSeq
<1>3. /\ Contents' \in Seq(Data) /\ Len(Contents') = counter'
      /\ \A i \in 1 .. counter' : Contents'[i] = buffer'[at(i)]
  <2>1. \A i \in 1 .. counter' : buffer'[at(i)] \in Data
    <3>1. /\ counter' \in 0 .. RingDepth /\ rd_ptr' \in 0 .. RingDepth - 1
          /\ buffer' \in [0 .. RingDepth - 1 -> Data]
      BY <1>1 DEF RingInv, RingOK, Index
    <3>2. \A i \in 1 .. counter' : at(i) \in 0 .. RingDepth - 1
      <4> SUFFICES ASSUME NEW i \in 1 .. counter' PROVE at(i) \in 0 .. RingDepth - 1
        OBVIOUS
      <4>1. i \in 1 .. RingDepth
        BY <3>1, RingAssumption
      <4> QED
        BY <3>1, <4>1, WrappedInRange
    <3> QED
      BY <3>1, <3>2
  <2> QED
    BY <2>1, <1>1 DEF Contents, RingInv, RingOK
<1>4. accepted <=> wrreq /\ ~ Queue!Full(Contents, RingDepth)
  BY <1>2 DEF Accepts, full, Queue!Full
<1>5. yielded <=> rdreq /\ Contents # <<>>
  BY <1>2, EmptySeq DEF Yields, empty, RingInv, RingOK
<1>6. /\ took \in Seq(Data) /\ Len(took) = n
      /\ \A i \in 1 .. n : took[i] = buffer[at(i)]
  <2>1. CASE yielded
    <3>1. took = Tail(Contents) /\ n = counter - 1 /\ counter > 0
      BY <2>1, <1>5, <1>2, EmptySeq DEF Queue!Dequeued, RingInv, RingOK
    <3>2. took \in Seq(Data) /\ Len(took) = n /\ \A i \in 1 .. n : took[i] = Contents[i + 1]
      BY <3>1, <1>2, <1>5, <2>1, HeadTailProperties
    <3>3. rd_ptr' = Wrapped(rd_ptr + 1, RingDepth)
      BY <2>1 DEF RingClock
    <3>4. \A i \in 1 .. n : Wrapped(rd_ptr + (i + 1) - 1, RingDepth) = at(i)
      BY <3>1, <3>3, RingAssumption DEF RingInv, RingOK, Wrapped, Index
    <3>5. \A i \in 1 .. n : Contents[i + 1] = buffer[Wrapped(rd_ptr + (i + 1) - 1, RingDepth)]
      BY <3>1, <1>2 DEF RingInv, RingOK
    <3> QED
      BY <3>2, <3>4, <3>5
  <2>2. CASE ~ yielded
    BY <2>2, <1>5, <1>2 DEF Queue!Dequeued, RingClock
  <2> QED
    BY <2>1, <2>2
<1>7. counter' = (IF accepted THEN n + 1 ELSE n)
  BY RingAssumption DEF RingClock, Counted, Wrapped, Accepts, Yields, full, empty, RingInv, RingOK
<1>8. CASE ~ accepted
  <2>1. buffer' = buffer
    BY <1>8 DEF RingClock, Store
  <2>2. Contents' = took
    BY <2>1, <1>3, <1>6, <1>7, <1>8, SeqEqual
  <2> QED
    BY <2>2, <1>4, <1>8 DEF Queue!Clocked
<1>9. CASE accepted
  <2>1. buffer' = [buffer EXCEPT ![wr_ptr] = data] /\ wr_ptr \in Index /\ buffer \in [Index -> Data]
    BY <1>9 DEF RingClock, Store, RingInv, RingOK
  <2>2. counter < RingDepth /\ n \in Nat /\ rd_ptr' \in Index /\ rd_ptr \in Index
    BY <1>9, <1>1, RingAssumption DEF Accepts, full, RingInv, RingOK, Yields, empty
  <2>3. at(n + 1) = wr_ptr
    BY <2>2, RingAssumption DEF RingClock, RingInv, RingOK, PointersAgree, Wrapped, Index, Yields, empty
  <2>4. \A i \in 1 .. n : at(i) # wr_ptr /\ at(i) \in Index
    BY <2>2, RingAssumption DEF RingClock, RingInv, RingOK, PointersAgree, Wrapped, Index, Yields, empty
  <2>5. \A i \in 1 .. n : buffer'[at(i)] = took[i]
    BY <2>1, <2>4, <1>6
  <2>6. buffer'[at(n + 1)] = data
    BY <2>1, <2>3
  <2>7. Contents' = Append(took, data)
    <3>1. /\ Append(took, data) \in Seq(Data) /\ Len(Append(took, data)) = n + 1
          /\ \A i \in 1 .. n : Append(took, data)[i] = took[i]
          /\ Append(took, data)[n + 1] = data
      BY <1>6, AppendProperties
    <3>2. \A i \in 1 .. n + 1 : Contents'[i] = Append(took, data)[i]
      BY <3>1, <2>2, <2>5, <2>6, <1>3, <1>7, <1>9
    <3> QED
      BY <3>1, <3>2, <1>3, <1>7, <1>9, SeqEqual
  <2> QED
    BY <2>7, <1>4, <1>9 DEF Queue!Clocked
<1> QED
  BY <1>8, <1>9

\* Refinement: every run of the ring buffer is one of
\* a bounded queue, whose entries are Contents.
THEOREM RingIsQueue == RingSpec => IsQueue
<1>1. RingInit => Queue!Init
  BY DEF RingInit, Queue!Init, Contents
<1>2. RingInv /\ [RingNext]_ring => [Queue!Next]_Contents
  <2> SUFFICES ASSUME RingInv, [RingNext]_ring PROVE [Queue!Next]_Contents
    OBVIOUS
  <2>1. CASE UNCHANGED ring
    BY <2>1 DEF ring, Contents
  <2>2. ASSUME NEW wrreq \in BOOLEAN, NEW data \in Data, Reset(wrreq, data)
        PROVE  Queue!Next
    BY <2>2 DEF Reset, Contents, Queue!Next, Queue!Reset
  <2>3. ASSUME NEW wrreq \in BOOLEAN, NEW rdreq \in BOOLEAN, NEW data \in Data,
               RingClock(wrreq, data, rdreq)
        PROVE  Queue!Next
    BY <2>3, ContentsStep DEF Queue!Next, Queue!Clock
  <2> QED
    BY <2>1, <2>2, <2>3 DEF RingNext
<1> QED
  BY <1>1, <1>2, RingInitInv, RingStepInv, PTL DEF RingSpec, IsQueue, Queue!Spec

\* The ports show the queue: empty and full tell whether it is, and q is its
\* oldest entry.
THEOREM PortsAlwaysShowQueue == RingSpec => []PortsShowQueue
<1>1. RingInv => PortsShowQueue
  <2> SUFFICES ASSUME RingInv PROVE PortsShowQueue
    OBVIOUS
  <2>1. /\ Contents \in Seq(Data) /\ Len(Contents) = counter
        /\ \A i \in 1 .. counter : Contents[i] = buffer[Wrapped(rd_ptr + i - 1, RingDepth)]
    BY ContentsSeq
  <2>2. empty <=> Contents = <<>>
    BY <2>1, EmptySeq DEF empty, RingInv, RingOK
  <2>3. full <=> Queue!Full(Contents, RingDepth)
    BY <2>1 DEF full, Queue!Full
  <2>4. ASSUME ~ empty PROVE q = Head(Contents)
    <3>1. 1 \in 1 .. counter /\ Wrapped(rd_ptr + 1 - 1, RingDepth) = rd_ptr
      BY <2>4, RingAssumption DEF empty, RingInv, RingOK, Wrapped, Index
    <3>2. Head(Contents) = Contents[1]
      BY <2>1, <3>1
    <3> QED
      BY <3>1, <3>2, <2>1 DEF q
  <2> QED
    BY <2>2, <2>3, <2>4 DEF PortsShowQueue
<1> QED
  BY <1>1, RingInitInv, RingStepInv, PTL DEF RingSpec
=============================================================================
