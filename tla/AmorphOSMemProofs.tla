------------------------- MODULE AmorphOSMemProofs --------------------------
(***************************************************************************)
(* Memory virtualization, for any number of apps, ports and channels and   *)
(* FIFOs of any depth: what is asked, stored and answered, and in which    *)
(* order, while the requests of all ports are on their way through it.     *)
(***************************************************************************)
EXTENDS AmorphOSMem, FifoProofs

-----------------------------------------------------------------------------
(* Queues whose entries have a port and a number: the numbers a port has in *)
(* a queue, and whether they go up.                                        *)
Numbers(queue, p) == {queue[i].n : i \in {j \in 1 .. Len(queue) : queue[j].port = p}}

Sorted(queue, p) ==
  \A i, j \in 1 .. Len(queue) :
    i < j /\ queue[i].port = p /\ queue[j].port = p => queue[i].n < queue[j].n

LEMMA NumbersEmpty ==
  ASSUME NEW p
  PROVE  Numbers(<<>>, p) = {} /\ Sorted(<<>>, p)
BY DEF Numbers, Sorted

LEMMA NumbersAppended ==
  ASSUME NEW Entry, NEW queue \in Seq(Entry), NEW data \in Entry, NEW p
  PROVE  /\ data.port = p => Numbers(Append(queue, data), p) = Numbers(queue, p) \cup {data.n}
         /\ data.port # p => Numbers(Append(queue, data), p) = Numbers(queue, p)
<1> DEFINE new == Append(queue, data)
<1>1. /\ Len(queue) \in Nat /\ Len(new) = Len(queue) + 1
      /\ \A i \in 1 .. Len(queue) : new[i] = queue[i]
      /\ new[Len(queue) + 1] = data
  BY AppendProperties, LenProperties
<1>2. 1 .. Len(new) = (1 .. Len(queue)) \cup {Len(queue) + 1}
  BY <1>1
<1> HIDE DEF new
<1>3. Numbers(queue, p) \subseteq Numbers(new, p)
  BY <1>1, <1>2 DEF Numbers
<1>4. \A n \in Numbers(new, p) : n \in Numbers(queue, p) \/ (data.port = p /\ n = data.n)
  BY <1>1, <1>2 DEF Numbers
<1>5. data.port = p => data.n \in Numbers(new, p)
  BY <1>1, <1>2 DEF Numbers
<1> QED
  BY <1>3, <1>4, <1>5 DEF new

LEMMA NumbersGained ==
  ASSUME NEW Entry, NEW queue \in Seq(Entry), NEW data \in Entry
  PROVE  Numbers(Append(queue, data), data.port) = Numbers(queue, data.port) \cup {data.n}
BY NumbersAppended

LEMMA SortedAppended ==
  ASSUME NEW Entry, NEW queue \in Seq(Entry), NEW data \in Entry, NEW p,
         Sorted(queue, p), data.port = p => \A n \in Numbers(queue, p) : n < data.n
  PROVE  Sorted(Append(queue, data), p)
<1> DEFINE new == Append(queue, data)
<1>1. /\ Len(queue) \in Nat /\ Len(new) = Len(queue) + 1
      /\ \A i \in 1 .. Len(queue) : new[i] = queue[i]
      /\ new[Len(queue) + 1] = data
  BY AppendProperties, LenProperties
<1>2. \A i \in 1 .. Len(queue) : queue[i].port = p => queue[i].n \in Numbers(queue, p)
  BY DEF Numbers
<1> HIDE DEF new
<1>3. SUFFICES ASSUME NEW i \in 1 .. Len(new), NEW j \in 1 .. Len(new), i < j,
                      new[i].port = p, new[j].port = p
               PROVE  new[i].n < new[j].n
  BY DEF Sorted, new
<1>4. i \in 1 .. Len(queue)
  BY <1>1, <1>3
<1>5. CASE j \in 1 .. Len(queue)
  BY <1>1, <1>3, <1>4, <1>5 DEF Sorted
<1>6. CASE j = Len(queue) + 1
  BY <1>1, <1>2, <1>3, <1>4, <1>6
<1> QED
  BY <1>1, <1>5, <1>6

(* The first entry has its port's least number; the others keep theirs.    *)
LEMMA NumbersTail ==
  ASSUME NEW Entry, NEW queue \in Seq(Entry), queue # <<>>, NEW p, Sorted(queue, p),
         Numbers(queue, p) \subseteq Int
  PROVE  /\ Sorted(Tail(queue), p)
         /\ Head(queue).port = p =>
              /\ Head(queue).n \in Numbers(queue, p)
              /\ Numbers(Tail(queue), p) = Numbers(queue, p) \ {Head(queue).n}
              /\ \A n \in Numbers(queue, p) : Head(queue).n <= n
         /\ Head(queue).port # p => Numbers(Tail(queue), p) = Numbers(queue, p)
<1> DEFINE left == Tail(queue)
<1>1. /\ Len(queue) \in Nat /\ Len(queue) > 0 /\ Len(left) = Len(queue) - 1
      /\ Head(queue) = queue[1]
      /\ \A i \in 1 .. Len(left) : left[i] = queue[i + 1]
  BY HeadTailProperties, LenProperties, EmptySeq
<1>2. \A i \in 1 .. Len(left) : i + 1 \in 1 .. Len(queue)
  BY <1>1
<1>3. \A i \in 1 .. Len(queue) : i = 1 \/ (i - 1 \in 1 .. Len(left) /\ (i - 1) + 1 = i)
  BY <1>1
<1> HIDE DEF left
<1>4. Sorted(left, p)
  <2> SUFFICES ASSUME NEW i \in 1 .. Len(left), NEW j \in 1 .. Len(left), i < j,
                      left[i].port = p, left[j].port = p
               PROVE  left[i].n < left[j].n
    BY DEF Sorted
  <2> QED
    BY <1>1, <1>2 DEF Sorted
<1>5. Numbers(left, p) \subseteq Numbers(queue, p)
  BY SMTT(30), <1>1, <1>2 DEF Numbers
<1>6. \A n \in Numbers(queue, p) : n \in Numbers(left, p) \/ (queue[1].port = p /\ n = queue[1].n)
  <2> SUFFICES ASSUME NEW i \in 1 .. Len(queue), queue[i].port = p, i # 1
               PROVE  queue[i].n \in Numbers(left, p)
    BY DEF Numbers
  <2>1. i - 1 \in 1 .. Len(left) /\ left[i - 1] = queue[i]
    BY <1>1, <1>3
  <2> QED
    BY <2>1 DEF Numbers
<1>7. ASSUME queue[1].port = p
      PROVE  queue[1].n \in Numbers(queue, p) /\ \A n \in Numbers(left, p) : queue[1].n < n
  <2>1. 1 \in 1 .. Len(queue)
    BY <1>1
  <2>2. queue[1].n \in Numbers(queue, p)
    BY <1>7, <2>1 DEF Numbers
  <2>3. ASSUME NEW i \in 1 .. Len(left), left[i].port = p PROVE queue[1].n < left[i].n
    BY <1>1, <1>2, <1>7, <2>1, <2>3 DEF Sorted
  <2> QED
    BY <2>2, <2>3 DEF Numbers
<1>8. \A n \in Numbers(queue, p) : n \in Int
  OBVIOUS
<1> QED
  <2>1. CASE queue[1].port = p
    BY <1>1, <1>4, <1>5, <1>6, <1>7, <1>8, <2>1 DEF left
  <2>2. CASE queue[1].port # p
    BY <1>1, <1>4, <1>5, <1>6, <2>2 DEF left
  <2> QED
    BY <2>1, <2>2

(* What is in a queue, in whatever order.                                  *)
Entries(queue) == {queue[i] : i \in 1 .. Len(queue)}

LEMMA EntriesEmpty == Entries(<<>>) = {}
BY DEF Entries

LEMMA EntriesAppended ==
  ASSUME NEW Entry, NEW queue \in Seq(Entry), NEW data \in Entry
  PROVE  Entries(Append(queue, data)) = Entries(queue) \cup {data}
<1> DEFINE new == Append(queue, data)
<1>1. /\ Len(queue) \in Nat /\ Len(new) = Len(queue) + 1
      /\ \A i \in 1 .. Len(queue) : new[i] = queue[i]
      /\ new[Len(queue) + 1] = data
  BY AppendProperties, LenProperties
<1>2. 1 .. Len(new) = (1 .. Len(queue)) \cup {Len(queue) + 1}
  BY <1>1
<1> HIDE DEF new
<1> QED
  BY <1>1, <1>2 DEF Entries, new

LEMMA EntriesTail ==
  ASSUME NEW Entry, NEW queue \in Seq(Entry), queue # <<>>
  PROVE  /\ Head(queue) \in Entries(queue) /\ Entries(Tail(queue)) \subseteq Entries(queue)
         /\ Entries(queue) \subseteq Entry
<1>1. /\ Len(queue) \in Nat /\ Len(queue) > 0 /\ Len(Tail(queue)) = Len(queue) - 1
      /\ Head(queue) = queue[1]
      /\ \A i \in 1 .. Len(queue) : queue[i] \in Entry
      /\ \A i \in 1 .. Len(Tail(queue)) : Tail(queue)[i] = queue[i + 1]
  BY HeadTailProperties, LenProperties, EmptySeq
<1>2. \A i \in 1 .. Len(Tail(queue)) : i + 1 \in 1 .. Len(queue)
  BY <1>1
<1>3. 1 \in 1 .. Len(queue)
  BY <1>1
<1> QED
  BY <1>1, <1>2, <1>3 DEF Entries

LEMMA NumbersOfEntries ==
  ASSUME NEW queue, NEW p, NEW n
  PROVE  n \in Numbers(queue, p) <=> \E r \in Entries(queue) : r.port = p /\ r.n = n
BY DEF Numbers, Entries

-----------------------------------------------------------------------------
(* Addresses.                                                              *)
LEMMA DivMod ==
  ASSUME NEW x \in Nat, NEW d \in Nat \ {0}
  PROVE  x = d * (x \div d) + (x % d) /\ x \div d \in Nat /\ x % d \in 0 .. d - 1
OBVIOUS
LEMMA MulLess ==
  ASSUME NEW x \in Nat, NEW y \in Nat, NEW d \in Nat \ {0}, d * x < d * y
  PROVE  x < y
OBVIOUS
(* A line of an app has a place in a channel's memory,                     *)
LEMMA Translated ==
  ASSUME NEW p \in Port, NEW va \in Address
  PROVE  /\ Physical(p, va) \in Nat
         /\ ChannelSelect(Physical(p, va)) \in Channel
         /\ TranslatedAddr(Physical(p, va)) \in Line
<1> DEFINE a == p[1]
           k == AppSpan \div NumChannels
           pa == Physical(p, va)
<1>1. /\ a \in Nat /\ a <= NumApps - 1 /\ va \in Nat /\ va < AppSpan
      /\ NumApps \in Nat /\ AppSpan \in Nat /\ NumChannels \in Nat \ {0}
      /\ AppSpan % NumChannels = 0
  BY MemAssumption DEF Port, App
<1>2. k \in Nat /\ AppSpan = NumChannels * k
  BY <1>1
<1> HIDE DEF k
<1>3. pa = va + a * AppSpan /\ pa \in Nat
  BY <1>1 DEF Physical
<1>4. pa < NumApps * AppSpan
  <2>1. a * AppSpan <= (NumApps - 1) * AppSpan
    BY <1>1
  <2>2. (NumApps - 1) * AppSpan + AppSpan = NumApps * AppSpan
    BY <1>1
  <2> HIDE DEF a
  <2>3. a * AppSpan \in Nat /\ (NumApps - 1) * AppSpan \in Int /\ NumApps * AppSpan \in Nat
    BY <1>1
  <2> QED
    BY <1>1, <1>3, <2>1, <2>2, <2>3
<1>5. NumApps * AppSpan = NumChannels * (NumApps * k)
  BY <1>1, <1>2
<1>6. (NumApps * AppSpan) \div NumChannels = NumApps * k
  BY <1>1, <1>2, <1>5
<1> HIDE DEF pa, a
<1>7. /\ pa = NumChannels * (pa \div NumChannels) + (pa % NumChannels)
      /\ pa \div NumChannels \in Nat /\ pa % NumChannels \in 0 .. NumChannels - 1
  <2>1. pa \in Nat /\ NumChannels \in Nat \ {0}
    BY <1>1, <1>3
  <2> QED
    BY <2>1, DivMod
<1>8. pa \div NumChannels < NumApps * k
  <2>1. NumChannels * (pa \div NumChannels) < NumChannels * (NumApps * k)
    BY <1>1, <1>2, <1>3, <1>4, <1>5, <1>7
  <2> QED
    BY <1>1, <1>2, <1>7, <2>1, MulLess
<1> QED
  BY <1>1, <1>2, <1>3, <1>6, <1>7, <1>8 DEF ChannelSelect, TranslatedAddr, Channel, Line, pa

(* and no line of it or of another app has the same.                       *)
LEMMA OnePlace ==
  ASSUME NEW p \in Port, NEW q \in Port, NEW va \in Address, NEW vb \in Address,
         ChannelSelect(Physical(p, va)) = ChannelSelect(Physical(q, vb)),
         TranslatedAddr(Physical(p, va)) = TranslatedAddr(Physical(q, vb))
  PROVE  p[1] = q[1] /\ va = vb
<1> DEFINE a == p[1]
           b == q[1]
<1>1. /\ a \in Nat /\ b \in Nat /\ va \in Nat /\ va < AppSpan /\ vb \in Nat /\ vb < AppSpan
      /\ AppSpan \in Nat /\ NumChannels \in Nat \ {0}
  BY MemAssumption DEF Port, App
<1>2. va + a * AppSpan = vb + b * AppSpan
  <2>1. Physical(p, va) \in Nat /\ Physical(q, vb) \in Nat
    BY Translated
  <2>2. ASSUME NEW x \in Nat, NEW y \in Nat,
               x % NumChannels = y % NumChannels, x \div NumChannels = y \div NumChannels
        PROVE  x = y
    <3>1. /\ x = NumChannels * (x \div NumChannels) + (x % NumChannels)
          /\ y = NumChannels * (y \div NumChannels) + (y % NumChannels)
      BY <1>1, DivMod
    <3> QED
      BY <2>2, <3>1
  <2>3. Physical(p, va) = Physical(q, vb)
    BY <2>1, <2>2 DEF ChannelSelect, TranslatedAddr
  <2> QED
    BY <2>3 DEF Physical
<1> HIDE DEF a, b
<1>3. ASSUME NEW x \in Nat, NEW y \in Nat, NEW i \in Nat, NEW j \in Nat,
             x < AppSpan, y < AppSpan, x + i * AppSpan = y + j * AppSpan
      PROVE  ~ (i < j)
  <2> SUFFICES ASSUME i < j PROVE FALSE
    OBVIOUS
  <2>1. (i + 1) * AppSpan <= j * AppSpan
    BY <1>1
  <2>2. (i + 1) * AppSpan = i * AppSpan + AppSpan
    BY <1>1
  <2>3. i * AppSpan \in Nat /\ j * AppSpan \in Nat
    BY <1>1
  <2> QED
    BY <1>1, <1>3, <2>1, <2>2, <2>3
<1>4. a = b
  BY <1>1, <1>2, <1>3
<1>5. a * AppSpan \in Nat
  BY <1>1
<1> QED
  BY <1>1, <1>2, <1>4, <1>5 DEF a, b

-----------------------------------------------------------------------------
(* What the queues hold.                                                   *)
Sent    == [isWrite : BOOLEAN, va : Address]
Asked   == [port : Port, n : Nat, isWrite : BOOLEAN, channel : Channel, addr : Line]
Written == [port : Port \cup {<<>>}, n : Nat]
Answer  == [n : Nat, data : Written]

Fitting(Entry, depth) == {queue \in Seq(Entry) : Len(queue) <= depth}

Typed ==
  /\ enabled \in EnabledPorts
  /\ sent \in [Port -> Seq(Sent)]
  /\ waiting \in [Port -> Seq(Nat)]
  /\ xlatedQ \in [Port -> Fitting(Asked, XlateDepth)]
  /\ mergeQ \in [App \X Channel -> Fitting(Asked, MergeDepth)]
  /\ arbQ \in [Channel -> Fitting(Asked, ArbDepth)]
  /\ arbTagQ \in [Channel -> Fitting(Port, ArbDepth)]
  /\ memory \in [Channel \X Line -> Written]
  /\ arbRespQ \in [Channel -> Fitting(Answer, ArbDepth)]
  /\ tagQ \in [Port -> Fitting(Channel, TagDepth)]
  /\ respQ \in [Port \X Channel -> Fitting(Answer, RespDepth)]
  /\ outQ \in [Port -> Fitting(Answer, OutDepth)]

LEMMA TypedImplies == Typed => TypeOK
BY DEF Typed, TypeOK, Fitting

LEMMA FittingEmpty ==
  ASSUME NEW Entry, NEW depth \in Nat
  PROVE  <<>> \in Fitting(Entry, depth)
BY DEF Fitting

LEMMA FittingAppended ==
  ASSUME NEW Entry, NEW depth \in Nat, NEW queue \in Fitting(Entry, depth),
         ~ Full(queue, depth), NEW data \in Entry
  PROVE  Append(queue, data) \in Fitting(Entry, depth)
<1>1. queue \in Seq(Entry) /\ Len(queue) \in Nat /\ Len(queue) < depth
  BY LenProperties DEF Fitting, Full
<1>2. Append(queue, data) \in Seq(Entry) /\ Len(Append(queue, data)) = Len(queue) + 1
  BY <1>1, AppendProperties
<1> QED
  BY <1>1, <1>2 DEF Fitting

LEMMA FittingTail ==
  ASSUME NEW Entry, NEW depth \in Nat, NEW queue \in Fitting(Entry, depth), queue # <<>>
  PROVE  Head(queue) \in Entry /\ Tail(queue) \in Fitting(Entry, depth)
<1>1. queue \in Seq(Entry) /\ Len(queue) \in Nat /\ Len(queue) <= depth
  BY LenProperties DEF Fitting
<1>2. /\ Head(queue) \in Entry /\ Tail(queue) \in Seq(Entry)
      /\ Len(Tail(queue)) = Len(queue) - 1
  BY <1>1, HeadTailProperties
<1> QED
  BY <1>1, <1>2 DEF Fitting

LEMMA Depths ==
  /\ XlateDepth \in Nat /\ MergeDepth \in Nat /\ ArbDepth \in Nat
  /\ TagDepth \in Nat /\ RespDepth \in Nat /\ OutDepth \in Nat /\ TagDepth <= RespDepth
BY MemAssumption

LEMMA EnabledIsPort == ASSUME Typed, NEW p \in enabled PROVE p \in Port /\ p[1] \in App
BY MemAssumption DEF Typed, Port

LEMMA NothingIsWritten == Nothing \in Written /\ Nothing.port \notin Port
BY DEF Nothing, Written, Port

LEMMA InitTyped == Init => Typed
BY Depths, FittingEmpty, NothingIsWritten DEF Init, Typed

LEMMA AcceptTyped ==
  ASSUME Typed, NEW p \in enabled, NEW isWrite \in BOOLEAN, NEW va \in Address,
         Accept(p, isWrite, va)
  PROVE  Typed'
<1>1. p \in Port
  BY EnabledIsPort
<1>2. sent[p] \in Seq(Sent) /\ waiting[p] \in Seq(Nat) /\ Len(sent[p]) \in Nat
  BY <1>1, LenProperties DEF Typed
<1>3. Request(p, isWrite, va) \in Asked
  BY <1>1, <1>2, Translated DEF Request, Asked
<1>4. Append(xlatedQ[p], Request(p, isWrite, va)) \in Fitting(Asked, XlateDepth)
  BY <1>1, <1>3, Depths, FittingAppended DEF Typed, Accept
<1>5. /\ Append(sent[p], [isWrite |-> isWrite, va |-> va]) \in Seq(Sent)
      /\ Append(waiting[p], Len(sent[p]) + 1) \in Seq(Nat)
  BY <1>2, AppendProperties DEF Sent
<1> QED
  BY <1>1, <1>4, <1>5 DEF Typed, Accept

LEMMA MergeTyped ==
  ASSUME Typed, NEW p \in enabled, Merge(p)
  PROVE  Typed'
<1> DEFINE request == Head(xlatedQ[p])
           ac == <<p[1], request.channel>>
<1>1. p \in Port /\ p[1] \in App
  BY EnabledIsPort
<1>2. request \in Asked /\ Tail(xlatedQ[p]) \in Fitting(Asked, XlateDepth)
  BY <1>1, Depths, FittingTail DEF Typed, Merge
<1>3. ac \in App \X Channel /\ request.channel \in Channel
  BY <1>1, <1>2 DEF Asked
<1>4. Append(mergeQ[ac], request) \in Fitting(Asked, MergeDepth)
  BY <1>2, <1>3, Depths, FittingAppended DEF Typed, Merge, MergeRoom
<1>5. ~ request.isWrite => Append(tagQ[p], request.channel) \in Fitting(Channel, TagDepth)
  BY <1>1, <1>3, Depths, FittingAppended DEF Typed, Merge, TagRoom
<1> QED
  BY <1>1, <1>2, <1>3, <1>4, <1>5 DEF Typed, Merge

LEMMA ArbitrateTyped ==
  ASSUME Typed, NEW a \in App, NEW c \in Channel, Arbitrate(a, c)
  PROVE  Typed'
<1> DEFINE request == Head(mergeQ[<<a, c>>])
<1>1. request \in Asked /\ Tail(mergeQ[<<a, c>>]) \in Fitting(Asked, MergeDepth)
  BY Depths, FittingTail DEF Typed, Arbitrate
<1>2. Append(arbQ[c], request) \in Fitting(Asked, ArbDepth)
  BY <1>1, Depths, FittingAppended DEF Typed, Arbitrate
<1>3. ~ request.isWrite => Append(arbTagQ[c], request.port) \in Fitting(Port, ArbDepth)
  BY <1>1, Depths, FittingAppended DEF Typed, Arbitrate, Asked
<1> QED
  BY <1>1, <1>2, <1>3 DEF Typed, Arbitrate

LEMMA AccessTyped ==
  ASSUME Typed, NEW c \in Channel, Access(c)
  PROVE  Typed'
<1> DEFINE request == Head(arbQ[c])
           place == <<c, request.addr>>
           answer == [n |-> request.n, data |-> memory[place]]
<1>1. request \in Asked /\ Tail(arbQ[c]) \in Fitting(Asked, ArbDepth)
  BY Depths, FittingTail DEF Typed, Access
<1>2. place \in Channel \X Line /\ answer \in Answer
      /\ [port |-> request.port, n |-> request.n] \in Written
  BY <1>1 DEF Typed, Asked, Answer, Written
<1>3. ~ Full(arbRespQ[c], ArbDepth) => Append(arbRespQ[c], answer) \in Fitting(Answer, ArbDepth)
  BY <1>2, Depths, FittingAppended DEF Typed
<1> HIDE DEF answer
<1>4. \/ UNCHANGED memory
      \/ memory' = [memory EXCEPT ![place] = [port |-> request.port, n |-> request.n]]
  BY DEF Access
<1>5. memory' \in [Channel \X Line -> Written]
  BY <1>2, <1>4 DEF Typed
<1>6. \/ UNCHANGED arbRespQ
      \/ /\ ~ Full(arbRespQ[c], ArbDepth)
         /\ arbRespQ' = [arbRespQ EXCEPT ![c] = Append(@, answer)]
  BY DEF Access, answer
<1>7. arbRespQ' \in [Channel -> Fitting(Answer, ArbDepth)]
  BY <1>3, <1>6 DEF Typed
<1> QED
  BY <1>1, <1>5, <1>7 DEF Typed, Access

LEMMA RouteTyped ==
  ASSUME Typed, NEW c \in Channel, Route(c)
  PROVE  Typed'
<1> DEFINE pc == <<Head(arbTagQ[c]), c>>
<1>1. /\ Head(arbTagQ[c]) \in Port /\ Tail(arbTagQ[c]) \in Fitting(Port, ArbDepth)
      /\ Head(arbRespQ[c]) \in Answer /\ Tail(arbRespQ[c]) \in Fitting(Answer, ArbDepth)
  BY Depths, FittingTail DEF Typed, Route, Routable
<1>2. pc \in Port \X Channel
  BY <1>1
<1>3. Append(respQ[pc], Head(arbRespQ[c])) \in Fitting(Answer, RespDepth)
  BY <1>1, <1>2, Depths, FittingAppended DEF Typed, Route
<1> QED
  BY <1>1, <1>2, <1>3 DEF Typed, Route

LEMMA CollectTyped ==
  ASSUME Typed, NEW p \in enabled, Collect(p)
  PROVE  Typed'
<1>1. p \in Port
  BY EnabledIsPort
<1> PICK c \in NextChannel(p) :
           /\ outQ' = [outQ EXCEPT ![p] = Append(@, Head(respQ[<<p, c>>]))]
           /\ respQ' = [respQ EXCEPT ![<<p, c>>] = Tail(@)]
  BY DEF Collect
<1>2. c \in Channel /\ tagQ[p] # <<>> /\ respQ[<<p, c>>] # <<>>
  BY DEF NextChannel
<1>3. /\ Head(respQ[<<p, c>>]) \in Answer
      /\ Tail(respQ[<<p, c>>]) \in Fitting(Answer, RespDepth)
      /\ Tail(tagQ[p]) \in Fitting(Channel, TagDepth)
  BY <1>1, <1>2, Depths, FittingTail DEF Typed
<1>4. Append(outQ[p], Head(respQ[<<p, c>>])) \in Fitting(Answer, OutDepth)
  BY <1>1, <1>3, Depths, FittingAppended DEF Typed, Collect
<1> QED
  BY <1>1, <1>2, <1>3, <1>4 DEF Typed, Collect

LEMMA TakeTyped ==
  ASSUME Typed, NEW p \in enabled, Take(p), waiting[p] # <<>>
  PROVE  Typed'
<1>1. p \in Port
  BY EnabledIsPort
<1>2. Tail(waiting[p]) \in Seq(Nat)
  BY <1>1, HeadTailProperties DEF Typed
<1>3. Tail(outQ[p]) \in Fitting(Answer, OutDepth)
  BY <1>1, Depths, FittingTail DEF Typed, Take
<1> QED
  BY <1>1, <1>2, <1>3 DEF Typed, Take

-----------------------------------------------------------------------------
(* The requests on their way.                                              *)

\* What AddressTranslate makes of the port's request n.
Made(p, n) ==
  LET pa == Physical(p, sent[p][n].va)
  IN  [port |-> p, n |-> n, isWrite |-> sent[p][n].isWrite,
       channel |-> ChannelSelect(pa), addr |-> TranslatedAddr(pa)]

\* The port's requests that have left AddressTranslate are its first.
Merged(p) == Len(sent[p]) - Len(xlatedQ[p])

\* Numbers of the port's requests behind it that the channel has not executed,
\* and of those that it has.
OnWay(p, c) == Numbers(mergeQ[<<p[1], c>>], p) \cup Numbers(arbQ[c], p)
Done(p, c)  == {n \in 1 .. Merged(p) : Made(p, n).channel = c} \ OnWay(p, c)

Kept(r, c) ==
  r.port \in Port /\ r.channel = c /\ r.n \in 1 .. Merged(r.port) /\ r = Made(r.port, r.n)

RequestsKept ==
  /\ \A p \in Port :
       /\ Len(xlatedQ[p]) <= Len(sent[p])
       /\ \A i \in 1 .. Len(xlatedQ[p]) : xlatedQ[p][i] = Made(p, Merged(p) + i)
  /\ \A a \in App, c \in Channel : \A r \in Entries(mergeQ[<<a, c>>]) : Kept(r, c) /\ r.port[1] = a
  /\ \A c \in Channel : \A r \in Entries(arbQ[c]) : Kept(r, c)

RequestsInOrder ==
  \A p \in Port, c \in Channel :
    /\ Sorted(mergeQ[<<p[1], c>>], p) /\ Sorted(arbQ[c], p)
    /\ \A m \in Numbers(arbQ[c], p), n \in Numbers(mergeQ[<<p[1], c>>], p) : m < n
    /\ \A m \in Done(p, c), n \in OnWay(p, c) : m < n

WayInv == Typed /\ RequestsKept /\ RequestsInOrder

LEMMA Sizes ==
  ASSUME WayInv, NEW p \in Port
  PROVE  /\ p[1] \in App
         /\ Len(sent[p]) \in Nat /\ Len(xlatedQ[p]) \in Nat /\ Merged(p) \in Nat
         /\ Merged(p) <= Len(sent[p]) /\ Len(sent[p]) = Merged(p) + Len(xlatedQ[p])
         /\ \A n \in 1 .. Merged(p) : n \in 1 .. Len(sent[p])
<1>1. sent[p] \in Seq(Sent) /\ xlatedQ[p] \in Seq(Asked)
  BY DEF WayInv, Typed, Fitting
<1>2. Len(sent[p]) \in Nat /\ Len(xlatedQ[p]) \in Nat /\ Len(xlatedQ[p]) <= Len(sent[p])
  BY <1>1, LenProperties DEF WayInv, RequestsKept
<1>3. p[1] \in App
  BY DEF Port
<1> DEFINE all == Len(sent[p])
           left == Len(xlatedQ[p])
<1>4. Merged(p) = all - left /\ all \in Nat /\ left \in Nat /\ left <= all
  BY <1>2 DEF Merged
<1> HIDE DEF all, left
<1>5. Merged(p) \in Nat /\ Merged(p) <= all /\ all = Merged(p) + left
  BY <1>4
<1>6. \A n \in 1 .. Merged(p) : n \in 1 .. all
  BY <1>4, <1>5
<1> QED
  BY <1>3, <1>4, <1>5, <1>6 DEF all, left

LEMMA SentType ==
  ASSUME Typed, NEW p \in Port, NEW n \in 1 .. Len(sent[p])
  PROVE  sent[p][n].va \in Address /\ sent[p][n].isWrite \in BOOLEAN
<1>1. sent[p] \in Seq(Sent)
  BY DEF Typed
<1>2. sent[p][n] \in Sent
  BY <1>1, ElementOfSeq
<1> QED
  BY <1>2 DEF Sent

\* A request on its way is one that was merged, for its channel.
LEMMA OnWayMerged ==
  ASSUME WayInv, NEW p \in Port, NEW c \in Channel, NEW n \in OnWay(p, c)
  PROVE  n \in 1 .. Merged(p) /\ n \in Nat /\ Made(p, n).channel = c
<1>1. \E r : Kept(r, c) /\ r.port = p /\ r.n = n
  BY NumbersOfEntries, Sizes DEF OnWay, WayInv, RequestsKept
<1>2. n \in 1 .. Merged(p) /\ Made(p, n).channel = c
  BY <1>1 DEF Kept
<1> QED
  BY <1>2, Sizes

\* What has been sent stays.
LEMMA SentStays ==
  ASSUME Typed, [Next]_vars, NEW p \in Port
  PROVE  /\ Len(sent[p]) \in Nat /\ Len(sent'[p]) \in Nat /\ Len(sent[p]) <= Len(sent'[p])
         /\ \A n \in 1 .. Len(sent[p]) : sent'[p][n] = sent[p][n] /\ n \in 1 .. Len(sent'[p])
<1>1. sent[p] \in Seq(Sent) /\ Len(sent[p]) \in Nat
  BY LenProperties DEF Typed
<1>2. CASE UNCHANGED sent
  BY <1>1, <1>2
<1>3. ASSUME NEW q \in enabled, NEW isWrite \in BOOLEAN, NEW va \in Address,
             sent' = [sent EXCEPT ![q] = Append(@, [isWrite |-> isWrite, va |-> va])]
      PROVE  /\ Len(sent'[p]) \in Nat /\ Len(sent[p]) <= Len(sent'[p])
             /\ \A n \in 1 .. Len(sent[p]) : sent'[p][n] = sent[p][n] /\ n \in 1 .. Len(sent'[p])
  <2>1. CASE p = q
    <3>1. sent'[p] = Append(sent[p], [isWrite |-> isWrite, va |-> va])
      BY <1>3, <2>1 DEF Typed
    <3>2. [isWrite |-> isWrite, va |-> va] \in Sent
      BY DEF Sent
    <3>3. /\ Len(sent'[p]) = Len(sent[p]) + 1
          /\ \A n \in 1 .. Len(sent[p]) : sent'[p][n] = sent[p][n]
      BY <1>1, <3>1, <3>2, AppendProperties
    <3> QED
      BY <1>1, <3>3
  <2>2. CASE p # q
    BY <1>1, <1>3, <2>2 DEF Typed
  <2> QED
    BY <2>1, <2>2
<1>4. \/ UNCHANGED sent
      \/ \E q \in enabled, isWrite \in BOOLEAN, va \in Address :
           sent' = [sent EXCEPT ![q] = Append(@, [isWrite |-> isWrite, va |-> va])]
  BY DEF Next, AcceptAny, Transfer, Accept, Merge, Collect, Arbitrate, Access, Route, Take, vars
<1> QED
  BY <1>1, <1>2, <1>3, <1>4

LEMMA MadeStays ==
  ASSUME Typed, [Next]_vars, NEW p \in Port, NEW n \in 1 .. Len(sent[p])
  PROVE  Made(p, n)' = Made(p, n)
<1>1. sent'[p][n] = sent[p][n]
  BY SentStays
<1> QED
  BY <1>1 DEF Made

\* LastWrite depends on the earlier writes of the line and on nothing else.
Writes(p, n) == {m \in 1 .. n - 1 : sent[p][m].isWrite /\ sent[p][m].va = sent[p][n].va}
Latest(writes) == IF writes = {} THEN 0 ELSE CHOOSE m \in writes : \A k \in writes : k <= m

LEMMA LastWriteIs == \A p, n : LastWrite(p, n) = Latest(Writes(p, n))
BY DEF LastWrite, Latest, Writes

LEMMA LastWriteStays ==
  ASSUME Typed, [Next]_vars, NEW p \in Port, NEW n \in 1 .. Len(sent[p])
  PROVE  LastWrite(p, n)' = LastWrite(p, n)
<1>1. \A m \in 1 .. n : m \in 1 .. Len(sent[p]) /\ sent'[p][m] = sent[p][m]
  BY SentStays
<1>2. n \in 1 .. n /\ \A m \in 1 .. n - 1 : m \in 1 .. n
  BY SentStays
<1>3. Writes(p, n)' = Writes(p, n)
  BY <1>1, <1>2 DEF Writes
<1>4. LastWrite(p, n) = Latest(Writes(p, n)) /\ LastWrite(p, n)' = Latest(Writes(p, n)')
  BY DEF LastWrite, Latest, Writes
<1> QED
  BY <1>3, <1>4

LEMMA KeptStays ==
  ASSUME WayInv, [Next]_vars, \A q \in Port : Merged(q)' \in Nat /\ Merged(q) <= Merged(q)',
         NEW r, NEW c, Kept(r, c)
  PROVE  Kept(r, c)'
<1>1. r.port \in Port /\ r.channel = c /\ r.n \in 1 .. Merged(r.port) /\ r = Made(r.port, r.n)
  BY DEF Kept
<1>2. r.n \in 1 .. Len(sent[r.port]) /\ Merged(r.port) \in Nat
  BY <1>1, Sizes
<1>3. Made(r.port, r.n)' = Made(r.port, r.n)
  BY <1>1, <1>2, MadeStays DEF WayInv
<1>4. r.n \in 1 .. Merged(r.port)'
  BY <1>1, <1>2
<1> QED
  BY <1>1, <1>3, <1>4 DEF Kept

\* What has been executed depends on what has been merged and is on its way.
LEMMA DoneStays ==
  ASSUME WayInv, [Next]_vars, NEW p \in Port, NEW c \in Channel,
         Merged(p)' = Merged(p), OnWay(p, c)' = OnWay(p, c)
  PROVE  Done(p, c)' = Done(p, c)
<1>1. \A n \in 1 .. Merged(p) : Made(p, n)' = Made(p, n)
  BY Sizes, MadeStays DEF WayInv
<1> QED
  BY <1>1 DEF Done

LEMMA AcceptWay ==
  ASSUME WayInv, [Next]_vars, NEW p \in enabled, NEW isWrite \in BOOLEAN, NEW va \in Address,
         Accept(p, isWrite, va)
  PROVE  /\ RequestsKept' /\ RequestsInOrder'
         /\ \A q \in Port, c \in Channel :
              Merged(q)' = Merged(q) /\ OnWay(q, c)' = OnWay(q, c) /\ Done(q, c)' = Done(q, c)
<1> DEFINE request == Request(p, isWrite, va)
           asked == [isWrite |-> isWrite, va |-> va]
<1>1. p \in Port
  BY EnabledIsPort DEF WayInv
<1>2. /\ sent[p] \in Seq(Sent) /\ xlatedQ[p] \in Seq(Asked) /\ asked \in Sent
      /\ request \in Asked
      /\ sent'[p] = Append(sent[p], asked)
      /\ xlatedQ'[p] = Append(xlatedQ[p], request)
      /\ \A q \in Port : q # p => sent'[q] = sent[q] /\ xlatedQ'[q] = xlatedQ[q]
      /\ UNCHANGED <<mergeQ, arbQ>>
  <2>1. Len(sent[p]) \in Nat
    BY <1>1, LenProperties DEF WayInv, Typed
  <2>2. request \in Asked
    BY <1>1, <2>1, Translated DEF Request, Asked
  <2> QED
    BY <1>1, <2>2 DEF WayInv, Typed, Fitting, Accept, Sent
<1>3. PICK l \in Nat, x \in Nat :
        /\ l = Len(sent[p]) /\ x = Len(xlatedQ[p]) /\ x <= l /\ Merged(p) = l - x
        /\ Len(sent'[p]) = l + 1 /\ Len(xlatedQ'[p]) = x + 1 /\ sent'[p][l + 1] = asked
        /\ \A i \in 1 .. x : xlatedQ'[p][i] = xlatedQ[p][i]
        /\ xlatedQ'[p][x + 1] = request
  <2> HIDE DEF asked, request
  <2>1. /\ Len(sent[p]) \in Nat /\ Len(xlatedQ[p]) \in Nat
        /\ Len(xlatedQ[p]) <= Len(sent[p]) /\ Merged(p) = Len(sent[p]) - Len(xlatedQ[p])
    BY <1>1, Sizes DEF Merged, WayInv, RequestsKept
  <2>2. Len(sent'[p]) = Len(sent[p]) + 1 /\ sent'[p][Len(sent[p]) + 1] = asked
    BY <1>2, AppendProperties
  <2>3. /\ Len(xlatedQ'[p]) = Len(xlatedQ[p]) + 1
        /\ \A i \in 1 .. Len(xlatedQ[p]) : xlatedQ'[p][i] = xlatedQ[p][i]
        /\ xlatedQ'[p][Len(xlatedQ[p]) + 1] = request
    BY <1>2, AppendProperties
  <2> QED
    BY <2>1, <2>2, <2>3
<1>4. request = Made(p, l + 1)'
  BY <1>2, <1>3 DEF Request, Made
<1> HIDE DEF request, asked
<1>5. ASSUME NEW q \in Port PROVE Merged(q)' = Merged(q) /\ Merged(q) \in Nat
  <2>1. CASE q = p
    <3>1. Merged(q)' = Len(sent'[p]) - Len(xlatedQ'[p])
      BY <2>1 DEF Merged
    <3>2. Len(sent'[p]) - Len(xlatedQ'[p]) = l - x /\ l - x \in Nat
      BY <1>3
    <3> QED
      BY <1>3, <2>1, <3>1, <3>2
  <2>2. CASE q # p
    BY <1>2, <2>2, Sizes DEF Merged
  <2> QED
    BY <2>1, <2>2
<1>6. ASSUME NEW q \in Port, NEW i \in 1 .. Len(xlatedQ'[q])
      PROVE  (xlatedQ[q][i] = Made(q, Merged(q) + i))'
  <2>1. PICK n \in Nat : n = Merged(q) + i
    BY <1>5
  <2>2. SUFFICES xlatedQ'[q][i] = Made(q, n)'
    BY <1>5, <2>1 DEF Made
  <2>3. CASE q = p /\ i = x + 1
    <3>1. n = l + 1
      <4>1. Merged(q) = l - x /\ i = x + 1
        BY <1>3, <2>3
      <4> QED
        BY <2>1, <4>1
    <3> QED
      BY <1>3, <1>4, <2>3, <3>1
  <2>4. CASE q # p \/ i # x + 1
    <3>1. i \in 1 .. Len(xlatedQ[q]) /\ xlatedQ'[q][i] = xlatedQ[q][i]
      <4>1. CASE q = p
        BY <1>3, <2>4, <4>1
      <4>2. CASE q # p
        BY <1>2, <4>2
      <4> QED
        BY <4>1, <4>2
    <3>2. xlatedQ[q][i] = Made(q, n)
      BY <2>1, <3>1 DEF WayInv, RequestsKept
    <3>3. n \in 1 .. Len(sent[q])
      BY <2>1, <3>1, Sizes
    <3> QED
      BY <3>1, <3>2, <3>3, MadeStays DEF WayInv
  <2> QED
    BY <2>3, <2>4
<1>7. ASSUME NEW q \in Port PROVE Len(xlatedQ'[q]) <= Len(sent'[q])
  BY <1>2, <1>3 DEF WayInv, RequestsKept
<1>8. \A r, c : Kept(r, c) => Kept(r, c)'
  BY <1>5, KeptStays
<1>9. RequestsKept'
  BY <1>2, <1>6, <1>7, <1>8 DEF WayInv, RequestsKept
<1>10. ASSUME NEW q \in Port, NEW c \in Channel
       PROVE  OnWay(q, c)' = OnWay(q, c) /\ Done(q, c)' = Done(q, c)
  <2>1. OnWay(q, c)' = OnWay(q, c)
    BY <1>2 DEF OnWay
  <2> QED
    BY <1>5, <2>1, DoneStays
<1>11. RequestsInOrder'
  BY <1>2, <1>10 DEF WayInv, RequestsInOrder
<1> QED
  BY <1>5, <1>9, <1>10, <1>11

LEMMA MergeWay ==
  ASSUME WayInv, [Next]_vars, NEW p \in enabled, Merge(p),
         NEW k \in Nat, k = Merged(p), NEW r \in Asked, r = Head(xlatedQ[p])
  PROVE  /\ RequestsKept' /\ RequestsInOrder'
         /\ r = Made(p, k + 1) /\ k + 1 \in 1 .. Len(sent[p]) /\ Merged(p)' = k + 1
         /\ \A q \in Port : q # p => Merged(q)' = Merged(q)
         /\ \A q \in Port, c \in Channel :
              /\ Done(q, c)' = Done(q, c)
              /\ q = p /\ c = r.channel => OnWay(q, c)' = OnWay(q, c) \cup {k + 1}
              /\ ~ (q = p /\ c = r.channel) => OnWay(q, c)' = OnWay(q, c)
<1>1. p \in Port /\ p[1] \in App
  BY EnabledIsPort DEF WayInv
<1>2. /\ xlatedQ[p] \in Seq(Asked) /\ xlatedQ[p] # <<>> /\ xlatedQ'[p] = Tail(xlatedQ[p])
      /\ \A q \in Port : q # p => xlatedQ'[q] = xlatedQ[q]
      /\ UNCHANGED <<sent, arbQ>>
  BY <1>1 DEF WayInv, Typed, Fitting, Merge
<1>3. PICK x \in Nat, l \in Nat :
        /\ l = Len(sent[p]) /\ x = Len(xlatedQ[p]) /\ x > 0 /\ k = l - x
        /\ Len(xlatedQ'[p]) = x - 1
        /\ \A i \in 1 .. x - 1 : xlatedQ'[p][i] = xlatedQ[p][i + 1]
        /\ r = xlatedQ[p][1]
  <2>1. /\ Len(sent[p]) \in Nat /\ Len(xlatedQ[p]) \in Nat
        /\ Merged(p) = Len(sent[p]) - Len(xlatedQ[p])
    BY <1>1, Sizes DEF Merged
  <2>2. /\ Len(xlatedQ[p]) > 0 /\ Len(xlatedQ'[p]) = Len(xlatedQ[p]) - 1
        /\ \A i \in 1 .. Len(xlatedQ[p]) - 1 : xlatedQ'[p][i] = xlatedQ[p][i + 1]
        /\ r = xlatedQ[p][1]
    BY <1>2, <2>1, HeadTailProperties, EmptySeq
  <2> QED
    BY <2>1, <2>2
<1>x. x > 0 /\ k = l - x
  BY <1>3
<1>4. r = Made(p, k + 1) /\ k + 1 \in 1 .. l
  <2>1. 1 \in 1 .. x /\ k + 1 \in 1 .. l
    BY <1>x
  <2> QED
    BY <1>1, <1>3, <2>1 DEF WayInv, RequestsKept
<1>5. r.port = p /\ r.n = k + 1 /\ r.channel \in Channel
  BY <1>4 DEF Made, Asked
<1>6. \A q, n : Made(q, n)' = Made(q, n)
  BY <1>2 DEF Made
<1>7. Merged(p)' = k + 1 /\ \A q \in Port : q # p => Merged(q)' = Merged(q)
  <2>1. l - (x - 1) = k + 1
    BY <1>x
  <2>2. Merged(p)' = l - (x - 1)
    BY <1>2, <1>3 DEF Merged
  <2> QED
    BY <1>2, <2>1, <2>2 DEF Merged
<1>8. PICK ac \in App \X Channel : ac = <<p[1], r.channel>>
  BY <1>1, <1>5
<1>9. /\ mergeQ[ac] \in Seq(Asked) /\ mergeQ'[ac] = Append(mergeQ[ac], r)
      /\ \A bd \in App \X Channel : bd # ac => mergeQ'[bd] = mergeQ[bd]
  BY <1>8 DEF WayInv, Typed, Fitting, Merge
<1>10. ASSUME NEW q \in Port, NEW c \in Channel, q = p /\ c = r.channel
       PROVE  /\ Numbers(mergeQ'[<<q[1], c>>], q) = Numbers(mergeQ[<<q[1], c>>], q) \cup {k + 1}
              /\ Sorted(mergeQ'[<<q[1], c>>], q)
  <2>1. <<q[1], c>> = ac /\ r.port = q
    BY <1>5, <1>8, <1>10
  <2>2. Sorted(mergeQ[ac], q) /\ \A n \in Numbers(mergeQ[ac], q) : n < k + 1
    <3>1. \A n \in Numbers(mergeQ[ac], q) : n \in 1 .. k
      BY <1>10, <2>1, OnWayMerged DEF OnWay
    <3> QED
      BY <2>1, <3>1 DEF WayInv, RequestsInOrder
  <2>3. mergeQ'[ac] = Append(mergeQ[ac], r) /\ mergeQ[ac] \in Seq(Asked)
    BY <1>9
  <2>4. Numbers(Append(mergeQ[ac], r), q) = Numbers(mergeQ[ac], q) \cup {k + 1}
    <3>0. r.port = q /\ mergeQ[ac] \in Seq(Asked)
      BY <2>1, <2>3
    <3>1. Numbers(Append(mergeQ[ac], r), q) = Numbers(mergeQ[ac], q) \cup {r.n}
      BY ZenonT(60), <3>0, NumbersGained
    <3> QED
      BY <1>5, <3>1
  <2>5. Sorted(Append(mergeQ[ac], r), q)
    BY <1>5, <2>2, <2>3, SortedAppended
  <2> QED
    BY <2>1, <2>3, <2>4, <2>5
<1>11. ASSUME NEW q \in Port, NEW c \in Channel, ~ (q = p /\ c = r.channel)
       PROVE  /\ Numbers(mergeQ'[<<q[1], c>>], q) = Numbers(mergeQ[<<q[1], c>>], q)
              /\ Sorted(mergeQ'[<<q[1], c>>], q)
  <2>1. <<q[1], c>> \in App \X Channel /\ Sorted(mergeQ[<<q[1], c>>], q)
    BY Sizes DEF WayInv, RequestsInOrder
  <2>2. CASE <<q[1], c>> = ac
    <3>1. r.port # q
      BY <1>5, <1>8, <1>11, <2>2
    <3>2. mergeQ'[ac] = Append(mergeQ[ac], r) /\ mergeQ[ac] \in Seq(Asked)
      BY <1>9
    <3>3. Numbers(Append(mergeQ[ac], r), q) = Numbers(mergeQ[ac], q)
      BY <3>1, <3>2, NumbersAppended
    <3>4. Sorted(Append(mergeQ[ac], r), q)
      BY <2>1, <2>2, <3>1, <3>2, SortedAppended
    <3> QED
      BY <2>2, <3>2, <3>3, <3>4
  <2>3. CASE <<q[1], c>> # ac
    BY <1>9, <2>1, <2>3
  <2> QED
    BY <2>2, <2>3
<1>12. ASSUME NEW q \in Port, NEW c \in Channel
       PROVE  /\ q = p /\ c = r.channel => OnWay(q, c)' = OnWay(q, c) \cup {k + 1}
              /\ ~ (q = p /\ c = r.channel) => OnWay(q, c)' = OnWay(q, c)
  BY <1>2, <1>10, <1>11 DEF OnWay
<1>13. ASSUME NEW q \in Port, NEW c \in Channel PROVE Done(q, c)' = Done(q, c)
  <2>1. CASE q # p
    BY <1>6, <1>7, <1>12, <2>1 DEF Done
  <2>2. CASE q = p
    <3>1. 1 .. k + 1 = (1 .. k) \cup {k + 1} /\ k + 1 \notin 1 .. k
      OBVIOUS
    <3>2. Made(p, k + 1).channel = r.channel
      BY <1>4
    <3> QED
      BY <1>6, <1>7, <1>12, <2>2, <3>1, <3>2 DEF Done
  <2> QED
    BY <2>1, <2>2
<1>14. RequestsInOrder'
  <2> SUFFICES ASSUME NEW q \in Port, NEW c \in Channel
               PROVE  /\ Sorted(mergeQ'[<<q[1], c>>], q) /\ Sorted(arbQ'[c], q)
                      /\ \A m \in Numbers(arbQ'[c], q), n \in Numbers(mergeQ'[<<q[1], c>>], q) : m < n
                      /\ \A m \in Done(q, c)', n \in OnWay(q, c)' : m < n
    BY DEF RequestsInOrder
  <2>1. /\ Sorted(arbQ[c], q)
        /\ \A m \in Numbers(arbQ[c], q), n \in Numbers(mergeQ[<<q[1], c>>], q) : m < n
        /\ \A m \in Done(q, c), n \in OnWay(q, c) : m < n
    BY DEF WayInv, RequestsInOrder
  <2>2. Done(q, c)' = Done(q, c)
    BY <1>13
  <2>3. CASE q = p /\ c = r.channel
    <3>1. /\ \A m \in Numbers(arbQ[c], q) : m < k + 1
          /\ \A m \in Done(q, c) : m < k + 1
      <4>1. \A m \in Numbers(arbQ[c], q) \cup Done(q, c) : m \in 1 .. k
        BY <2>3, OnWayMerged DEF OnWay, Done
      <4> QED
        BY <4>1
    <3> QED
      BY SMTT(30), <1>2, <1>10, <1>12, <2>1, <2>2, <2>3, <3>1
  <2>4. CASE ~ (q = p /\ c = r.channel)
    BY <1>2, <1>11, <1>12, <2>1, <2>2, <2>4
  <2> QED
    BY <2>3, <2>4
<1>15. RequestsKept'
  <2>1. \A q \in Port : Merged(q)' \in Nat /\ Merged(q) <= Merged(q)'
    BY <1>7, Sizes
  <2>2. \A u, c : Kept(u, c) => Kept(u, c)'
    BY <2>1, KeptStays
  <2>3. Kept(r, r.channel)'
    BY <1>1, <1>4, <1>5, <1>6, <1>7 DEF Kept
  <2>4. ASSUME NEW q \in Port
        PROVE  /\ Len(xlatedQ'[q]) <= Len(sent'[q])
               /\ \A i \in 1 .. Len(xlatedQ'[q]) : (xlatedQ[q][i] = Made(q, Merged(q) + i))'
    <3>1. CASE q # p
      BY <1>2, <1>6, <1>7, <3>1 DEF WayInv, RequestsKept, Made
    <3>2. CASE q = p
      <4>1. Len(xlatedQ'[q]) <= Len(sent'[q])
        <5>1. x - 1 <= l
          BY <1>x
        <5> QED
          BY <1>2, <1>3, <3>2, <5>1
      <4>2. ASSUME NEW i \in 1 .. x - 1
            PROVE  xlatedQ'[p][i] = Made(p, (k + 1) + i)
        <5>1. i + 1 \in 1 .. x /\ k + (i + 1) = (k + 1) + i
          BY <1>x
        <5>2. xlatedQ[p][i + 1] = Made(p, k + (i + 1))
          BY <1>1, <1>3, <5>1 DEF WayInv, RequestsKept
        <5> QED
          BY <1>3, <5>1, <5>2
      <4> QED
        BY <1>2, <1>3, <1>7, <3>2, <4>1, <4>2 DEF Made
    <3> QED
      BY <3>1, <3>2
  <2>5. ASSUME NEW a \in App, NEW c \in Channel, NEW u \in Entries(mergeQ'[<<a, c>>])
        PROVE  Kept(u, c)' /\ u.port[1] = a
    <3>1. CASE <<a, c>> = ac /\ u = r
      BY <1>5, <1>8, <2>3, <3>1
    <3>2. CASE ~ (<<a, c>> = ac /\ u = r)
      <4>1. u \in Entries(mergeQ[<<a, c>>])
        <5>1. CASE <<a, c>> = ac
          <6>1. mergeQ'[ac] = Append(mergeQ[ac], r) /\ mergeQ[ac] \in Seq(Asked)
            BY <1>9
          <6>2. Entries(Append(mergeQ[ac], r)) = Entries(mergeQ[ac]) \cup {r}
            BY <6>1, EntriesAppended
          <6> QED
            BY <3>2, <5>1, <6>1, <6>2
        <5>2. CASE <<a, c>> # ac
          BY <1>9, <5>2
        <5> QED
          BY <5>1, <5>2
      <4> QED
        BY <2>2, <4>1 DEF WayInv, RequestsKept
    <3> QED
      BY <3>1, <3>2
  <2>6. \A c \in Channel : \A u \in Entries(arbQ'[c]) : Kept(u, c)'
    BY <1>2, <2>2 DEF WayInv, RequestsKept
  <2> QED
    BY <2>4, <2>5, <2>6 DEF RequestsKept
<1> QED
  BY <1>3, <1>4, <1>7, <1>12, <1>13, <1>14, <1>15

\* The first entry of a queue of the way, and what is left when it is taken.
LEMMA WayTail ==
  ASSUME NEW r, NEW queue \in Seq(Asked), queue # <<>>, r = Head(queue),
         Sorted(queue, r.port), \A n \in Numbers(queue, r.port) : n \in Nat
  PROVE  /\ Sorted(Tail(queue), r.port)
         /\ r.n \in Numbers(queue, r.port)
         /\ Numbers(Tail(queue), r.port) = Numbers(queue, r.port) \ {r.n}
         /\ \A n \in Numbers(Tail(queue), r.port) : r.n < n
<1> DEFINE q == r.port
<1>1. Numbers(queue, q) \subseteq Int
  OBVIOUS
<1>2. /\ Sorted(Tail(queue), q)
      /\ r.n \in Numbers(queue, q)
      /\ Numbers(Tail(queue), q) = Numbers(queue, q) \ {r.n}
      /\ \A n \in Numbers(queue, q) : r.n <= n
  BY <1>1, NumbersTail
<1>3. \A n \in Numbers(queue, q) \ {r.n} : r.n \in Numbers(queue, q) /\ r.n <= n => r.n < n
  BY <1>1
<1> QED
  BY <1>2, <1>3

LEMMA WayTailOther ==
  ASSUME NEW q, NEW queue \in Seq(Asked), queue # <<>>, Head(queue).port # q, Sorted(queue, q),
         \A n \in Numbers(queue, q) : n \in Nat
  PROVE  Sorted(Tail(queue), q) /\ Numbers(Tail(queue), q) = Numbers(queue, q)
<1>1. Numbers(queue, q) \subseteq Int
  OBVIOUS
<1> QED
  BY <1>1, NumbersTail

LEMMA ArbitrateWay ==
  ASSUME WayInv, [Next]_vars, NEW a \in App, NEW b \in Channel, Arbitrate(a, b)
  PROVE  /\ RequestsKept' /\ RequestsInOrder'
         /\ \A q \in Port, c \in Channel :
              Merged(q)' = Merged(q) /\ OnWay(q, c)' = OnWay(q, c) /\ Done(q, c)' = Done(q, c)
<1>1. PICK ab \in App \X Channel : ab = <<a, b>>
  OBVIOUS
<1>2. /\ mergeQ[ab] \in Seq(Asked) /\ mergeQ[ab] # <<>> /\ mergeQ'[ab] = Tail(mergeQ[ab])
      /\ \A bd \in App \X Channel : bd # ab => mergeQ'[bd] = mergeQ[bd]
      /\ arbQ[b] \in Seq(Asked) /\ arbQ'[b] = Append(arbQ[b], Head(mergeQ[ab]))
      /\ \A c \in Channel : c # b => arbQ'[c] = arbQ[c]
      /\ UNCHANGED <<sent, xlatedQ>>
  BY <1>1 DEF WayInv, Typed, Fitting, Arbitrate
<1>3. PICK r \in Asked : r = Head(mergeQ[ab])
  BY <1>2, HeadTailProperties
<1>4. Kept(r, b) /\ r.port[1] = a /\ r \in Entries(mergeQ[ab])
  <2>1. r \in Entries(mergeQ[ab])
    BY <1>2, <1>3, EntriesTail
  <2> QED
    BY <1>1, <2>1 DEF WayInv, RequestsKept
<1>5. /\ \A q, n : Made(q, n)' = Made(q, n)
      /\ \A q : Merged(q)' = Merged(q)
  BY <1>2 DEF Made, Merged
<1>6. \A u, c : Kept(u, c)' <=> Kept(u, c)
  BY <1>5 DEF Kept
<1>7. ASSUME NEW q \in Port, NEW c \in Channel
      PROVE  /\ OnWay(q, c)' = OnWay(q, c)
             /\ Sorted(mergeQ'[<<q[1], c>>], q) /\ Sorted(arbQ'[c], q)
             /\ \A m \in Numbers(arbQ'[c], q), n \in Numbers(mergeQ'[<<q[1], c>>], q) : m < n
  <2> DEFINE qc == <<q[1], c>>
             merging == Numbers(mergeQ[qc], q)
             waits   == Numbers(arbQ[c], q)
  <2>1. /\ Sorted(mergeQ[qc], q) /\ Sorted(arbQ[c], q)
        /\ \A m \in waits, n \in merging : m < n
        /\ qc \in App \X Channel
    BY Sizes DEF WayInv, RequestsInOrder
  <2>2. \A n \in merging \cup waits : n \in Nat
    BY OnWayMerged DEF OnWay
  <2>3. CASE c # b
    BY <1>1, <1>2, <2>1, <2>3 DEF OnWay
  <2>4. CASE c = b /\ r.port # q
    <3>1. Numbers(arbQ'[c], q) = waits /\ Sorted(arbQ'[c], q)
      <4>1. arbQ'[c] = Append(arbQ[c], r) /\ arbQ[c] \in Seq(Asked)
        BY <1>2, <1>3, <2>4
      <4>2. Numbers(Append(arbQ[c], r), q) = waits
        BY <2>4, <4>1, NumbersAppended
      <4>3. Sorted(Append(arbQ[c], r), q)
        BY <2>1, <2>4, <4>1, SortedAppended
      <4> QED
        BY <4>1, <4>2, <4>3
    <3>2. Numbers(mergeQ'[qc], q) = merging /\ Sorted(mergeQ'[qc], q)
      <4>1. CASE qc = ab
        BY <1>2, <1>3, <2>1, <2>2, <2>4, <4>1, WayTailOther
      <4>2. CASE qc # ab
        BY <1>2, <2>1, <4>2
      <4> QED
        BY <4>1, <4>2
    <3> QED
      BY <2>1, <3>1, <3>2 DEF OnWay
  <2>5. CASE c = b /\ r.port = q
    <3>1. qc = ab
      BY <1>1, <1>4, <2>5
    <3>2. /\ Sorted(mergeQ'[qc], q) /\ r.n \in merging
          /\ Numbers(mergeQ'[qc], q) = merging \ {r.n}
          /\ \A n \in Numbers(mergeQ'[qc], q) : r.n < n
      <4>1. /\ mergeQ[ab] \in Seq(Asked) /\ mergeQ[ab] # <<>> /\ r = Head(mergeQ[ab])
            /\ Sorted(mergeQ[ab], r.port) /\ \A n \in Numbers(mergeQ[ab], r.port) : n \in Nat
        BY <1>2, <1>3, <2>1, <2>2, <2>5, <3>1
      <4>2. /\ Sorted(Tail(mergeQ[ab]), r.port)
            /\ r.n \in Numbers(mergeQ[ab], r.port)
            /\ Numbers(Tail(mergeQ[ab]), r.port) = Numbers(mergeQ[ab], r.port) \ {r.n}
            /\ \A n \in Numbers(Tail(mergeQ[ab]), r.port) : r.n < n
        BY <4>1, WayTail
      <4> QED
        BY <1>2, <2>5, <3>1, <4>2
    <3>3. Numbers(arbQ'[c], q) = waits \cup {r.n} /\ Sorted(arbQ'[c], q)
      <4>1. arbQ'[c] = Append(arbQ[c], r) /\ arbQ[c] \in Seq(Asked) /\ r.port = q
        BY <1>2, <1>3, <2>5
      <4>2. Numbers(Append(arbQ[c], r), q) = waits \cup {r.n}
        <5>1. arbQ[c] \in Seq(Asked) /\ r.port = q
          BY <4>1
        <5>2. Numbers(Append(arbQ[c], r), q) = Numbers(arbQ[c], q) \cup {r.n}
          <6> HIDE DEF qc, merging, waits
          <6>1. ASSUME NEW queue \in Seq(Asked)
                PROVE  Numbers(Append(queue, r), r.port) = Numbers(queue, r.port) \cup {r.n}
            BY NumbersGained
          <6> QED
            BY <5>1, <6>1
        <5> QED
          BY <5>2
      <4>3. Sorted(Append(arbQ[c], r), q)
        BY <2>1, <3>2, <4>1, SortedAppended
      <4> QED
        BY <4>1, <4>2, <4>3
    <3> HIDE DEF qc, merging, waits
    <3>4. \A m \in waits \cup {r.n}, n \in merging \ {r.n} : m < n
      BY <2>1, <3>2
    <3> QED
      BY <3>2, <3>3, <3>4 DEF OnWay, qc, merging, waits
  <2> QED
    BY <2>3, <2>4, <2>5
<1>8. ASSUME NEW q \in Port, NEW c \in Channel
      PROVE  Done(q, c)' = Done(q, c) /\ OnWay(q, c)' = OnWay(q, c) /\ Merged(q)' = Merged(q)
  BY <1>5, <1>7 DEF Done
<1>9. RequestsInOrder'
  BY <1>7, <1>8 DEF WayInv, RequestsInOrder
<1>10. RequestsKept'
  <2>1. \A ad \in App \X Channel : Entries(mergeQ'[ad]) \subseteq Entries(mergeQ[ad])
    BY <1>2, EntriesTail
  <2>2. \A a1 \in App, c \in Channel : \A u \in Entries(mergeQ'[<<a1, c>>]) :
          Kept(u, c) /\ u.port[1] = a1
    BY <2>1 DEF WayInv, RequestsKept
  <2>3. \A c \in Channel : \A u \in Entries(arbQ'[c]) : Kept(u, c)
    <3> TAKE c \in Channel
    <3>1. CASE c = b
      <4>1. Entries(Append(arbQ[b], r)) = Entries(arbQ[b]) \cup {r}
        BY <1>2, EntriesAppended
      <4> QED
        BY <1>2, <1>3, <1>4, <3>1, <4>1 DEF WayInv, RequestsKept
    <3>2. CASE c # b
      BY <1>2, <3>2 DEF WayInv, RequestsKept
    <3> QED
      BY <3>1, <3>2
  <2>4. \A p \in Port :
          /\ Len(xlatedQ'[p]) <= Len(sent'[p])
          /\ \A i \in 1 .. Len(xlatedQ'[p]) : (xlatedQ[p][i] = Made(p, Merged(p) + i))'
    BY <1>2, <1>5 DEF WayInv, RequestsKept, Made
  <2> QED
    BY <1>6, <2>2, <2>3, <2>4 DEF RequestsKept
<1> QED
  BY <1>8, <1>9, <1>10

LEMMA AccessWay ==
  ASSUME WayInv, [Next]_vars, NEW b \in Channel, Access(b), NEW r \in Asked, r = Head(arbQ[b])
  PROVE  /\ RequestsKept' /\ RequestsInOrder'
         /\ Kept(r, b) /\ r.n \in OnWay(r.port, b) /\ r.n \notin OnWay(r.port, b)'
         /\ \A n \in OnWay(r.port, b) : r.n <= n
         /\ \A q \in Port : Merged(q)' = Merged(q)
         /\ OnWay(r.port, b)' = OnWay(r.port, b) \ {r.n}
         /\ Done(r.port, b)' = Done(r.port, b) \cup {r.n}
         /\ \A q \in Port, c \in Channel : ~ (q = r.port /\ c = b) =>
              Done(q, c)' = Done(q, c) /\ OnWay(q, c)' = OnWay(q, c)
<1>1. /\ arbQ[b] \in Seq(Asked) /\ arbQ[b] # <<>> /\ arbQ'[b] = Tail(arbQ[b])
      /\ \A c \in Channel : c # b => arbQ'[c] = arbQ[c]
      /\ UNCHANGED <<sent, xlatedQ, mergeQ>>
  BY DEF WayInv, Typed, Fitting, Access
<1>2. Kept(r, b) /\ r.port \in Port
  <2>1. r \in Entries(arbQ[b])
    BY <1>1, EntriesTail
  <2> QED
    BY <2>1 DEF WayInv, RequestsKept, Kept
<1>3. /\ \A q, n : Made(q, n)' = Made(q, n)
      /\ \A q : Merged(q)' = Merged(q)
  BY <1>1 DEF Made, Merged
<1>4. \A u, c : Kept(u, c)' <=> Kept(u, c)
  BY <1>3 DEF Kept
<1>5. ASSUME NEW q \in Port
      PROVE  /\ Sorted(arbQ[b], q) /\ Sorted(mergeQ[<<q[1], b>>], q)
             /\ \A n \in OnWay(q, b) : n \in Nat
             /\ \A m \in Numbers(arbQ[b], q), n \in Numbers(mergeQ[<<q[1], b>>], q) : m < n
             /\ \A m \in Done(q, b), n \in OnWay(q, b) : m < n
             /\ Numbers(arbQ[b], q) \subseteq OnWay(q, b)
  BY OnWayMerged DEF WayInv, RequestsInOrder, OnWay
<1>6. ASSUME NEW q \in Port, NEW c \in Channel, ~ (q = r.port /\ c = b)
      PROVE  /\ OnWay(q, c)' = OnWay(q, c) /\ Done(q, c)' = Done(q, c)
             /\ Sorted(arbQ'[c], q) /\ Numbers(arbQ'[c], q) = Numbers(arbQ[c], q)
  <2>1. Sorted(arbQ'[c], q) /\ Numbers(arbQ'[c], q) = Numbers(arbQ[c], q)
    <3>1. CASE c = b
      <4>1. Head(arbQ[b]).port # q
        BY <1>6, <3>1
      <4>2. Sorted(arbQ[b], q) /\ \A n \in Numbers(arbQ[b], q) : n \in Nat
        BY <1>5
      <4> QED
        BY <1>1, <3>1, <4>1, <4>2, WayTailOther
    <3>2. CASE c # b
      BY <1>1, <3>2 DEF WayInv, RequestsInOrder
    <3> QED
      BY <3>1, <3>2
  <2> QED
    BY <1>1, <1>3, <2>1 DEF OnWay, Done
<1> DEFINE p == r.port
           merging == Numbers(mergeQ[<<p[1], b>>], p)
           waits   == Numbers(arbQ[b], p)
<1>7. /\ Sorted(arbQ'[b], p) /\ r.n \in waits
      /\ Numbers(arbQ'[b], p) = waits \ {r.n}
      /\ \A n \in Numbers(arbQ'[b], p) : r.n < n
  <2>1. Sorted(arbQ[b], r.port) /\ \A n \in Numbers(arbQ[b], r.port) : n \in Nat
    BY <1>2, <1>5
  <2>2. /\ Sorted(Tail(arbQ[b]), r.port)
        /\ r.n \in Numbers(arbQ[b], r.port)
        /\ Numbers(Tail(arbQ[b]), r.port) = Numbers(arbQ[b], r.port) \ {r.n}
        /\ \A n \in Numbers(Tail(arbQ[b]), r.port) : r.n < n
    BY <1>1, <2>1, WayTail
  <2> QED
    BY <1>1, <2>2
<1>8. r.n \notin merging /\ \A n \in merging : r.n < n
  <2>1. \A m \in waits, n \in merging : m < n /\ m \in Nat
    BY <1>2, <1>5
  <2>2. r.n \in waits /\ r.n \in Nat
    BY <1>7, <1>2, <1>5
  <2> HIDE DEF waits, merging
  <2> QED
    BY <2>1, <2>2
<1>9. /\ OnWay(p, b) = merging \cup waits /\ OnWay(p, b)' = merging \cup (waits \ {r.n})
      /\ OnWay(p, b)' = OnWay(p, b) \ {r.n}
  BY <1>1, <1>7, <1>8 DEF OnWay
<1>10. Done(p, b)' = Done(p, b) \cup {r.n}
  <2>1. r.n \in 1 .. Merged(p) /\ Made(p, r.n).channel = b
    BY <1>2 DEF Kept
  <2> HIDE DEF p
  <2> QED
    BY <1>3, <1>9, <2>1 DEF Done
<1>11. \A n \in OnWay(p, b) : r.n <= n
  BY <1>2, <1>5, <1>7, <1>8, <1>9
<1>12. RequestsInOrder'
  <2> SUFFICES ASSUME NEW q \in Port, NEW c \in Channel
               PROVE  /\ Sorted(mergeQ'[<<q[1], c>>], q) /\ Sorted(arbQ'[c], q)
                      /\ \A m \in Numbers(arbQ'[c], q), n \in Numbers(mergeQ'[<<q[1], c>>], q) : m < n
                      /\ \A m \in Done(q, c)', n \in OnWay(q, c)' : m < n
    BY DEF RequestsInOrder
  <2>1. CASE q = p /\ c = b
    <3>1. \A m \in Done(p, b) \cup {r.n}, n \in OnWay(p, b) \ {r.n} : m < n
      BY <1>2, <1>5, <1>7, <1>8, <1>9
    <3> QED
      BY <1>1, <1>2, <1>5, <1>7, <1>9, <1>10, <2>1, <3>1
  <2>2. CASE ~ (q = p /\ c = b)
    BY <1>1, <1>6, <2>2 DEF WayInv, RequestsInOrder
  <2> QED
    BY <2>1, <2>2
<1>13. RequestsKept'
  <2>1. \A c \in Channel : Entries(arbQ'[c]) \subseteq Entries(arbQ[c])
    BY <1>1, EntriesTail
  <2>2. \A p1 \in Port :
          /\ Len(xlatedQ'[p1]) <= Len(sent'[p1])
          /\ \A i \in 1 .. Len(xlatedQ'[p1]) : (xlatedQ[p1][i] = Made(p1, Merged(p1) + i))'
    BY <1>1, <1>3 DEF WayInv, RequestsKept, Made
  <2> QED
    BY ZenonT(60), <1>1, <1>4, <2>1, <2>2 DEF WayInv, RequestsKept
<1> QED
  BY <1>2, <1>3, <1>6, <1>7, <1>9, <1>10, <1>11, <1>12, <1>13

\* The other steps leave the requests alone.
LEMMA QuietWay ==
  ASSUME WayInv, UNCHANGED <<sent, xlatedQ, mergeQ, arbQ>>
  PROVE  /\ RequestsKept' /\ RequestsInOrder'
         /\ \A q \in Port, c \in Channel :
              Merged(q)' = Merged(q) /\ OnWay(q, c)' = OnWay(q, c) /\ Done(q, c)' = Done(q, c)
<1>1. \A q, n : Made(q, n)' = Made(q, n)
  BY DEF Made
<1>2. \A q, c : Merged(q)' = Merged(q) /\ OnWay(q, c)' = OnWay(q, c)
  BY DEF Merged, OnWay
<1>3. \A q, c : Done(q, c)' = Done(q, c)
  BY <1>1, <1>2 DEF Done
<1>4. \A u, c : Kept(u, c)' <=> Kept(u, c)
  BY <1>1, <1>2 DEF Kept
<1>5. \A p \in Port : \A i \in 1 .. Len(xlatedQ[p]) : (xlatedQ[p][i] = Made(p, Merged(p) + i))'
  BY <1>1, <1>2 DEF WayInv, RequestsKept, Made
<1>6. RequestsKept'
  BY <1>4, <1>5 DEF WayInv, RequestsKept
<1>7. RequestsInOrder'
  BY <1>2, <1>3 DEF WayInv, RequestsInOrder
<1> QED
  BY <1>2, <1>3, <1>6, <1>7

-----------------------------------------------------------------------------
(* The channel's memory: what it holds is the last write that was executed.*)

Stored(w, c, l) ==
  /\ w.port \in Port /\ w.n \in Done(w.port, c)
  /\ sent[w.port][w.n].isWrite /\ Made(w.port, w.n).addr = l

MemoryHolds ==
  /\ \A p \in Port, c \in Channel : \A m \in Done(p, c) : sent[p][m].isWrite =>
       LET w == memory[<<c, Made(p, m).addr>>]
       IN  w # Nothing /\ (w.port = p => m <= w.n)
  /\ \A c \in Channel, l \in Line :
       memory[<<c, l>>] # Nothing => Stored(memory[<<c, l>>], c, l)

LEMMA DoneSent ==
  ASSUME WayInv, NEW p \in Port, NEW c \in Channel, NEW m \in Done(p, c)
  PROVE  m \in 1 .. Len(sent[p]) /\ m \in Nat /\ Made(p, m).channel = c
<1>1. m \in 1 .. Merged(p) /\ Made(p, m).channel = c
  BY DEF Done
<1> QED
  BY <1>1, Sizes

LEMMA SameMemory ==
  ASSUME WayInv, MemoryHolds, [Next]_vars, UNCHANGED memory,
         \A p \in Port, c \in Channel : Done(p, c)' = Done(p, c)
  PROVE  MemoryHolds'
<1>1. ASSUME NEW p \in Port, NEW c \in Channel, NEW m \in Done(p, c)
      PROVE  sent'[p][m] = sent[p][m] /\ Made(p, m)' = Made(p, m)
  BY <1>1, DoneSent, SentStays, MadeStays DEF WayInv
<1>2. ASSUME NEW p \in Port, NEW c \in Channel, NEW m \in Done(p, c), sent'[p][m].isWrite
      PROVE  LET w == memory[<<c, Made(p, m)'.addr>>]
             IN  w # Nothing /\ (w.port = p => m <= w.n)
  BY <1>1, <1>2 DEF MemoryHolds
<1>3. ASSUME NEW w, NEW c \in Channel, NEW l \in Line, Stored(w, c, l)
      PROVE  Stored(w, c, l)'
  BY <1>1, <1>3 DEF Stored
<1> QED
  BY <1>2, <1>3 DEF MemoryHolds

LEMMA AccessMemory ==
  ASSUME WayInv, MemoryHolds, [Next]_vars, NEW b \in Channel, Access(b),
         NEW r \in Asked, r = Head(arbQ[b])
  PROVE  MemoryHolds'
<1> DEFINE p == r.port
           place == <<b, r.addr>>
           new == [port |-> p, n |-> r.n]
<1>1. /\ p \in Port /\ r.n \in OnWay(p, b) /\ r = Made(p, r.n)
      /\ Done(p, b)' = Done(p, b) \cup {r.n}
      /\ \A q \in Port, c \in Channel : ~ (q = p /\ c = b) => Done(q, c)' = Done(q, c)
  BY AccessWay DEF Kept
<1>2. UNCHANGED sent
  BY DEF Access
<1>3. \A q, n : Made(q, n)' = Made(q, n)
  BY <1>2 DEF Made
<1>4. r.isWrite = sent[p][r.n].isWrite /\ Made(p, r.n).addr = r.addr /\ place \in Channel \X Line
  <2>1. r.isWrite = Made(p, r.n).isWrite /\ r.addr = Made(p, r.n).addr
    BY Zenon, <1>1
  <2>2. Made(p, r.n).isWrite = sent[p][r.n].isWrite
    BY DEF Made
  <2>3. r.addr \in Line
    BY DEF Asked
  <2> QED
    BY <2>1, <2>2, <2>3
<1>5. \A m \in Done(p, b) : m < r.n /\ m \in Nat
  BY <1>1, DoneSent DEF WayInv, RequestsInOrder
<1>6. \A w, c, l : c \in Channel /\ Stored(w, c, l) => Stored(w, c, l)'
  BY <1>1, <1>2, <1>3 DEF Stored
<1>7. CASE ~ r.isWrite
  <2>1. UNCHANGED memory
    BY <1>7 DEF Access
  <2> HIDE DEF p, new, place
  <2> QED
    BY <1>1, <1>2, <1>3, <1>4, <1>6, <1>7, <2>1 DEF MemoryHolds
<1>8. CASE r.isWrite
  <2>1. memory' = [memory EXCEPT ![place] = new]
    BY <1>8 DEF Access
  <2>2. new # Nothing /\ new.port = p /\ new.n = r.n
    BY <1>1, NothingIsWritten
  <2>3. /\ memory'[place] = new
        /\ \A at \in Channel \X Line : at # place => memory'[at] = memory[at]
    BY <1>4, <2>1 DEF WayInv, Typed
  <2>4. Stored(new, b, r.addr)'
    BY <1>1, <1>2, <1>3, <1>4, <1>8, <2>2 DEF Stored
  <2>5. ASSUME NEW c \in Channel, NEW l \in Line, memory'[<<c, l>>] # Nothing
        PROVE  Stored(memory[<<c, l>>], c, l)'
    <3>1. CASE <<c, l>> = place
      <4>1. c = b /\ l = r.addr /\ memory'[<<c, l>>] = new
        BY <2>3, <3>1
      <4> HIDE DEF new, p
      <4> QED
        BY <2>4, <4>1 DEF Stored
    <3>2. CASE <<c, l>> # place
      <4>1. PICK w : w = memory[<<c, l>>] /\ memory'[<<c, l>>] = w
        BY <2>3, <3>2
      <4>2. Stored(w, c, l)'
        BY <1>6, <2>5, <4>1 DEF MemoryHolds
      <4> QED
        BY <4>1, <4>2 DEF Stored
    <3> QED
      BY <3>1, <3>2
  <2>6. ASSUME NEW q \in Port, NEW c \in Channel, NEW m \in Done(q, c)', sent[q][m].isWrite
        PROVE  LET w == memory'[<<c, Made(q, m).addr>>]
               IN  w # Nothing /\ (w.port = q => m <= w.n)
    <3> DEFINE at == <<c, Made(q, m).addr>>
    <3>1. m \in Done(q, c) \/ (q = p /\ c = b /\ m = r.n)
      BY <1>1, <2>6
    <3>2. CASE at = place
      <4>1. q = p => m <= r.n
        <5>1. c = b /\ r.n \in Nat
          BY <3>2 DEF Asked
        <5> QED
          BY <1>5, <3>1, <5>1
      <4> HIDE DEF new, p, place
      <4> QED
        BY <2>2, <2>3, <3>2, <4>1
    <3>3. CASE at # place
      <4>1. m \in Done(q, c)
        BY <1>4, <3>1, <3>3
      <4>2. Made(q, m).addr \in Line
        <5>1. sent[q][m].va \in Address
          BY <4>1, DoneSent, SentType DEF WayInv
        <5> QED
          BY <5>1, Translated DEF Made
      <4>3. memory'[at] = memory[at]
        BY <2>3, <3>3, <4>2
      <4> HIDE DEF new, p, place
      <4> QED
        BY <2>6, <4>1, <4>3 DEF MemoryHolds
    <3> QED
      BY <3>2, <3>3
  <2>7. \A q \in Port, c \in Channel : \A m \in Done(q, c)' : sent'[q][m].isWrite =>
          LET w == memory'[<<c, Made(q, m)'.addr>>]
          IN  w # Nothing /\ (w.port = q => m <= w.n)
    BY <1>2, <1>3, <2>6
  <2> QED
    BY <2>5, <2>7 DEF MemoryHolds
<1> QED
  BY <1>7, <1>8

-----------------------------------------------------------------------------
(* The answers.                                                            *)

\* What the port's read n may be answered with.
Good(p, n, w) ==
  /\ n \in 1 .. Len(sent[p])
  /\ IF w = Nothing THEN LastWrite(p, n) = 0
     ELSE /\ w.port \in Port /\ w.n \in 1 .. Len(sent[w.port])
          /\ w.port[1] = p[1]
          /\ sent[w.port][w.n].va = sent[p][n].va
          /\ w.port = p => w.n = LastWrite(p, n)

LEMMA GoodStays ==
  ASSUME Typed, [Next]_vars, NEW p \in Port, NEW n, NEW w, Good(p, n, w)
  PROVE  Good(p, n, w)'
<1>1. n \in 1 .. Len(sent'[p]) /\ sent'[p][n] = sent[p][n] /\ LastWrite(p, n)' = LastWrite(p, n)
  BY SentStays, LastWriteStays DEF Good
<1>2. CASE w = Nothing
  BY <1>1, <1>2 DEF Good
<1>3. CASE w # Nothing
  <2>1. /\ w.port \in Port /\ w.n \in 1 .. Len(sent[w.port]) /\ w.port[1] = p[1]
        /\ sent[w.port][w.n].va = sent[p][n].va
        /\ w.port = p => w.n = LastWrite(p, n)
    BY <1>3 DEF Good
  <2>2. w.n \in 1 .. Len(sent'[w.port]) /\ sent'[w.port][w.n] = sent[w.port][w.n]
    BY <2>1, SentStays
  <2> QED
    BY <1>1, <1>3, <2>1, <2>2 DEF Good
<1> QED
  BY <1>2, <1>3

LEMMA LatestIs ==
  ASSUME NEW writes \in SUBSET Nat, NEW m \in writes, \A k \in writes : k <= m
  PROVE  Latest(writes) = m
<1>1. \A j \in writes : (\A k \in writes : k <= j) => j = m
  <2> TAKE j \in writes
  <2> HAVE \A k \in writes : k <= j
  <2>1. m <= j /\ j <= m /\ m \in Nat /\ j \in Nat
    OBVIOUS
  <2> QED
    BY <2>1
<1> QED
  BY <1>1 DEF Latest

\* A read finds in the memory what it may be answered with.
LEMMA ReadIsGood ==
  ASSUME WayInv, MemoryHolds, [Next]_vars, NEW b \in Channel, Access(b),
         NEW r \in Asked, r = Head(arbQ[b])
  PROVE  r.port \in Port /\ Good(r.port, r.n, memory[<<b, r.addr>>])
<1> DEFINE p == r.port
           w == memory[<<b, r.addr>>]
<1>1. /\ p \in Port /\ r.n \in 1 .. Merged(p) /\ r = Made(p, r.n) /\ r.channel = b
      /\ r.n \in OnWay(p, b) /\ \A n \in OnWay(p, b) : r.n <= n
  BY AccessWay DEF Kept
<1> PICK n \in Nat : n = r.n
  BY DEF Asked
<1>2. /\ n \in 1 .. Len(sent[p]) /\ Merged(p) \in Nat
      /\ \A m \in 1 .. n - 1 : m \in 1 .. Merged(p) /\ m < n /\ m \in Nat
  BY <1>1, Sizes
<1>3. \A m \in 1 .. Len(sent[p]) : sent[p][m].va \in Address
  BY <1>1, SentType DEF WayInv
<1>4. Made(p, n).addr = r.addr /\ Made(p, n).channel = b /\ r.addr \in Line
  BY <1>1 DEF Asked
<1>5. ASSUME NEW m \in Writes(p, n)
      PROVE  m \in Done(p, b) /\ Made(p, m).addr = r.addr /\ sent[p][m].isWrite
  <2>1. m \in 1 .. n - 1 /\ sent[p][m].isWrite /\ sent[p][m].va = sent[p][n].va
    BY DEF Writes
  <2>2. Made(p, m).addr = Made(p, n).addr /\ Made(p, m).channel = Made(p, n).channel
    BY <2>1 DEF Made
  <2>3. m \notin OnWay(p, b)
    <3>1. m < n /\ m \in Nat /\ ~ (n <= m)
      BY <1>2, <2>1
    <3> QED
      BY <1>1, <3>1
  <2> QED
    BY <1>2, <1>4, <2>1, <2>2, <2>3 DEF Done
<1>6. \A m \in Writes(p, n) : w # Nothing /\ (w.port = p => m <= w.n)
  BY <1>1, <1>5 DEF MemoryHolds
<1>7. CASE w = Nothing
  <2>1. LastWrite(p, n) = 0
    BY <1>6, <1>7, LastWriteIs DEF Latest
  <2> QED
    BY <1>1, <1>2, <1>7, <2>1 DEF Good
<1>8. CASE w # Nothing
  <2>1. Stored(w, b, r.addr)
    BY <1>4, <1>8 DEF MemoryHolds
  <2> HIDE DEF w
  <2>2. /\ w.port \in Port /\ w.n \in Done(w.port, b)
        /\ sent[w.port][w.n].isWrite /\ Made(w.port, w.n).addr = r.addr
    BY <2>1 DEF Stored
  <2>3. w.n \in 1 .. Len(sent[w.port]) /\ w.n \in Nat /\ Made(w.port, w.n).channel = b
    BY <2>2, DoneSent
  <2>4. w.port[1] = p[1] /\ sent[w.port][w.n].va = sent[p][n].va
    <3>1. sent[w.port][w.n].va \in Address /\ sent[p][n].va \in Address
      BY <1>1, <1>2, <1>3, <2>2, <2>3, SentType DEF WayInv
    <3>2. ChannelSelect(Physical(w.port, sent[w.port][w.n].va))
          = ChannelSelect(Physical(p, sent[p][n].va))
      BY <1>4, <2>3 DEF Made
    <3>3. TranslatedAddr(Physical(w.port, sent[w.port][w.n].va))
          = TranslatedAddr(Physical(p, sent[p][n].va))
      BY <1>4, <2>2 DEF Made
    <3> QED
      BY <1>1, <2>2, <3>1, <3>2, <3>3, OnePlace
  <2>5. ASSUME w.port = p PROVE w.n = LastWrite(p, n)
    <3>1. w.n < n
      BY <1>1, <2>2, <2>5 DEF WayInv, RequestsInOrder
    <3>2. w.n \in 1 .. n - 1
      BY <2>3, <2>5, <3>1
    <3>3. w.n \in Writes(p, n)
      BY <2>2, <2>4, <2>5, <3>2 DEF Writes
    <3>4. Writes(p, n) \in SUBSET Nat
      BY <1>2 DEF Writes
    <3> QED
      BY <1>6, <2>5, <3>3, <3>4, LatestIs, LastWriteIs
  <2> QED
    BY <1>1, <1>2, <1>8, <2>2, <2>3, <2>4, <2>5 DEF Good, w
<1> QED
  BY <1>7, <1>8
-----------------------------------------------------------------------------
(* Answers with the ports they are for: one behind the other's tags,       *)
Paired(tags, answers) ==
  [i \in 1 .. Len(answers) |->
     [port |-> tags[i], n |-> answers[i].n, data |-> answers[i].data]]

(* or all for one port.                                                    *)
Labelled(p, answers) ==
  [i \in 1 .. Len(answers) |-> [port |-> p, n |-> answers[i].n, data |-> answers[i].data]]

LabelledOne(p, answer) == [port |-> p, n |-> answer.n, data |-> answer.data]

Addressed == [port : Port, n : Nat, data : Written]

LEMMA PairedType ==
  ASSUME NEW tags \in Seq(Port), NEW answers \in Seq(Answer), Len(answers) <= Len(tags)
  PROVE  /\ Paired(tags, answers) \in Seq(Addressed)
         /\ Len(Paired(tags, answers)) = Len(answers)
<1>1. Len(tags) \in Nat /\ Len(answers) \in Nat
  BY LenProperties
<1>2. \A i \in 1 .. Len(answers) : i \in 1 .. Len(tags)
  BY <1>1
<1>3. ASSUME NEW i \in 1 .. Len(answers)
      PROVE  [port |-> tags[i], n |-> answers[i].n, data |-> answers[i].data] \in Addressed
  <2>1. tags[i] \in Port /\ answers[i] \in Answer
    BY <1>2, ElementOfSeq
  <2> QED
    BY <2>1 DEF Answer, Addressed
<1>4. Paired(tags, answers) \in [1 .. Len(answers) -> Addressed]
  BY <1>3 DEF Paired
<1>5. Paired(tags, answers) \in Seq(Addressed)
  BY <1>1, <1>4, SeqDef
<1>6. DOMAIN Paired(tags, answers) = 1 .. Len(answers)
  BY DEF Paired
<1>7. Len(Paired(tags, answers)) = Len(answers)
  <2>1. /\ DOMAIN Paired(tags, answers) = 1 .. Len(Paired(tags, answers))
        /\ Len(Paired(tags, answers)) \in Nat
    BY <1>5, LenProperties
  <2> QED
    BY <1>1, <1>6, <2>1
<1> QED
  BY <1>5, <1>7

LEMMA LabelledType ==
  ASSUME NEW p \in Port, NEW answers \in Seq(Answer)
  PROVE  /\ Labelled(p, answers) \in Seq(Addressed)
         /\ Len(Labelled(p, answers)) = Len(answers)
<1>1. Len(answers) \in Nat
  BY LenProperties
<1>2. ASSUME NEW i \in 1 .. Len(answers)
      PROVE  [port |-> p, n |-> answers[i].n, data |-> answers[i].data] \in Addressed
  <2>1. answers[i] \in Answer
    BY ElementOfSeq
  <2> QED
    BY <2>1 DEF Answer, Addressed
<1>3. Labelled(p, answers) \in [1 .. Len(answers) -> Addressed]
  BY <1>2 DEF Labelled
<1>4. Labelled(p, answers) \in Seq(Addressed)
  BY <1>1, <1>3, SeqDef
<1>5. DOMAIN Labelled(p, answers) = 1 .. Len(answers)
  BY DEF Labelled
<1>6. Len(Labelled(p, answers)) = Len(answers)
  <2>1. /\ DOMAIN Labelled(p, answers) = 1 .. Len(Labelled(p, answers))
        /\ Len(Labelled(p, answers)) \in Nat
    BY <1>4, LenProperties
  <2> QED
    BY <1>1, <1>5, <2>1
<1> QED
  BY <1>4, <1>6

LEMMA PairedTag ==
  ASSUME NEW tags \in Seq(Port), NEW answers \in Seq(Answer), Len(answers) <= Len(tags),
         NEW tag \in Port
  PROVE  Paired(Append(tags, tag), answers) = Paired(tags, answers)
<1>1. Len(tags) \in Nat /\ Len(answers) \in Nat
  BY LenProperties
<1>2. \A i \in 1 .. Len(tags) : Append(tags, tag)[i] = tags[i]
  BY AppendProperties
<1>3. \A i \in 1 .. Len(answers) : i \in 1 .. Len(tags)
  BY <1>1
<1> QED
  BY <1>2, <1>3 DEF Paired

LEMMA PairedAnswer ==
  ASSUME NEW tags \in Seq(Port), NEW answers \in Seq(Answer), Len(answers) < Len(tags),
         NEW answer \in Answer
  PROVE  Paired(tags, Append(answers, answer))
         = Append(Paired(tags, answers), LabelledOne(tags[Len(answers) + 1], answer))
<1> DEFINE new == Append(answers, answer)
           p == tags[Len(answers) + 1]
           old == Paired(tags, answers)
<1>1. Len(tags) \in Nat /\ Len(answers) \in Nat
  BY LenProperties
<1>2. /\ new \in Seq(Answer) /\ Len(new) = Len(answers) + 1 /\ new[Len(answers) + 1] = answer
      /\ \A i \in 1 .. Len(answers) : new[i] = answers[i]
  BY AppendProperties
<1>3. p \in Port
  <2>1. Len(answers) + 1 \in 1 .. Len(tags)
    BY <1>1
  <2> QED
    BY <2>1, ElementOfSeq
<1>4. LabelledOne(p, answer) \in Addressed
  BY <1>3 DEF LabelledOne, Addressed, Answer
<1>5. /\ Paired(tags, new) \in Seq(Addressed) /\ Len(Paired(tags, new)) = Len(new)
      /\ old \in Seq(Addressed) /\ Len(old) = Len(answers)
  <2>1. Len(new) <= Len(tags) /\ Len(answers) <= Len(tags)
    BY <1>1, <1>2
  <2> QED
    BY <1>2, <2>1, PairedType
<1>6. /\ Append(old, LabelledOne(p, answer)) \in Seq(Addressed)
      /\ Len(Append(old, LabelledOne(p, answer))) = Len(answers) + 1
      /\ \A i \in 1 .. Len(answers) : Append(old, LabelledOne(p, answer))[i] = old[i]
      /\ Append(old, LabelledOne(p, answer))[Len(answers) + 1] = LabelledOne(p, answer)
  BY <1>4, <1>5, AppendProperties
<1>7. ASSUME NEW i \in 1 .. Len(answers) + 1
      PROVE  Paired(tags, new)[i] = Append(old, LabelledOne(p, answer))[i]
  <2>1. Paired(tags, new)[i] = [port |-> tags[i], n |-> new[i].n, data |-> new[i].data]
    BY <1>2 DEF Paired
  <2>2. CASE i = Len(answers) + 1
    BY <1>2, <1>6, <2>1, <2>2 DEF LabelledOne
  <2>3. CASE i # Len(answers) + 1
    <3>1. i \in 1 .. Len(answers)
      BY <1>1, <2>3
    <3>2. old[i] = [port |-> tags[i], n |-> answers[i].n, data |-> answers[i].data]
      BY <3>1 DEF Paired
    <3> QED
      BY <1>2, <1>6, <2>1, <3>1, <3>2
  <2> QED
    BY <2>2, <2>3
<1> HIDE DEF new, p, old
<1>8. Paired(tags, new) = Append(old, LabelledOne(p, answer))
  BY <1>2, <1>5, <1>6, <1>7, SeqEqual
<1> QED
  BY <1>8 DEF new, p, old

LEMMA PairedTail ==
  ASSUME NEW tags \in Seq(Port), NEW answers \in Seq(Answer), Len(answers) <= Len(tags),
         answers # <<>>
  PROVE  /\ tags # <<>> /\ Paired(tags, answers) # <<>>
         /\ Head(Paired(tags, answers)) = LabelledOne(Head(tags), Head(answers))
         /\ Tail(Paired(tags, answers)) = Paired(Tail(tags), Tail(answers))
<1> DEFINE old == Paired(tags, answers)
           new == Paired(Tail(tags), Tail(answers))
<1>1. Len(tags) \in Nat /\ Len(answers) \in Nat /\ Len(answers) > 0
  BY LenProperties, EmptySeq
<1>2. tags # <<>>
  BY <1>1, EmptySeq
<1>3. /\ Head(tags) = tags[1] /\ Tail(tags) \in Seq(Port) /\ Len(Tail(tags)) = Len(tags) - 1
      /\ \A i \in 1 .. Len(Tail(tags)) : Tail(tags)[i] = tags[i + 1]
  BY <1>2, HeadTailProperties
<1>4. /\ Head(answers) = answers[1]
      /\ Tail(answers) \in Seq(Answer) /\ Len(Tail(answers)) = Len(answers) - 1
      /\ \A i \in 1 .. Len(Tail(answers)) : Tail(answers)[i] = answers[i + 1]
  BY HeadTailProperties
<1>5. old \in Seq(Addressed) /\ Len(old) = Len(answers)
  BY PairedType
<1>6. new \in Seq(Addressed) /\ Len(new) = Len(answers) - 1
  <2>1. Len(Tail(answers)) <= Len(Tail(tags))
    BY <1>1, <1>3, <1>4
  <2> QED
    BY <1>3, <1>4, <2>1, PairedType
<1>7. old # <<>>
  BY <1>1, <1>5, EmptySeq
<1>8. /\ Head(old) = old[1] /\ Tail(old) \in Seq(Addressed) /\ Len(Tail(old)) = Len(old) - 1
      /\ \A i \in 1 .. Len(Tail(old)) : Tail(old)[i] = old[i + 1]
  BY <1>5, <1>7, HeadTailProperties
<1>9. Head(old) = LabelledOne(Head(tags), Head(answers))
  <2>1. 1 \in 1 .. Len(answers)
    BY <1>1
  <2> QED
    BY <1>3, <1>4, <1>8, <2>1 DEF Paired, LabelledOne
<1>10. ASSUME NEW i \in 1 .. Len(answers) - 1 PROVE Tail(old)[i] = new[i]
  <2>1. i + 1 \in 1 .. Len(answers) /\ i \in 1 .. Len(tags) - 1
    BY <1>1
  <2>2. old[i + 1] = [port |-> tags[i + 1], n |-> answers[i + 1].n, data |-> answers[i + 1].data]
    BY <2>1 DEF Paired
  <2>3. new[i] = [port |-> Tail(tags)[i], n |-> Tail(answers)[i].n, data |-> Tail(answers)[i].data]
    BY <1>4 DEF Paired
  <2> QED
    BY <1>3, <1>4, <1>5, <1>8, <2>1, <2>2, <2>3
<1> HIDE DEF old, new
<1>11. Tail(old) = new
  BY <1>5, <1>6, <1>8, <1>10, SeqEqual
<1> QED
  BY <1>2, <1>7, <1>9, <1>11 DEF old, new

LEMMA LabelledAppended ==
  ASSUME NEW p \in Port, NEW answers \in Seq(Answer), NEW answer \in Answer
  PROVE  Labelled(p, Append(answers, answer)) = Append(Labelled(p, answers), LabelledOne(p, answer))
<1> DEFINE new == Append(answers, answer)
           old == Labelled(p, answers)
<1>1. Len(answers) \in Nat
  BY LenProperties
<1>2. /\ new \in Seq(Answer) /\ Len(new) = Len(answers) + 1 /\ new[Len(answers) + 1] = answer
      /\ \A i \in 1 .. Len(answers) : new[i] = answers[i]
  BY AppendProperties
<1>3. LabelledOne(p, answer) \in Addressed
  BY DEF LabelledOne, Addressed, Answer
<1>4. /\ Labelled(p, new) \in Seq(Addressed) /\ Len(Labelled(p, new)) = Len(new)
      /\ old \in Seq(Addressed) /\ Len(old) = Len(answers)
  BY <1>2, LabelledType
<1>5. /\ Append(old, LabelledOne(p, answer)) \in Seq(Addressed)
      /\ Len(Append(old, LabelledOne(p, answer))) = Len(answers) + 1
      /\ \A i \in 1 .. Len(answers) : Append(old, LabelledOne(p, answer))[i] = old[i]
      /\ Append(old, LabelledOne(p, answer))[Len(answers) + 1] = LabelledOne(p, answer)
  BY <1>3, <1>4, AppendProperties
<1>6. ASSUME NEW i \in 1 .. Len(answers) + 1
      PROVE  Labelled(p, new)[i] = Append(old, LabelledOne(p, answer))[i]
  <2>1. Labelled(p, new)[i] = [port |-> p, n |-> new[i].n, data |-> new[i].data]
    BY <1>2 DEF Labelled
  <2>2. CASE i = Len(answers) + 1
    BY <1>2, <1>5, <2>1, <2>2 DEF LabelledOne
  <2>3. CASE i # Len(answers) + 1
    <3>1. i \in 1 .. Len(answers)
      BY <1>1, <2>3
    <3>2. old[i] = [port |-> p, n |-> answers[i].n, data |-> answers[i].data]
      BY <3>1 DEF Labelled
    <3> QED
      BY <1>2, <1>5, <2>1, <3>1, <3>2
  <2> QED
    BY <2>2, <2>3
<1> HIDE DEF new, old
<1>7. Labelled(p, new) = Append(old, LabelledOne(p, answer))
  BY <1>2, <1>4, <1>5, <1>6, SeqEqual
<1> QED
  BY <1>7 DEF new, old

LEMMA LabelledTail ==
  ASSUME NEW p \in Port, NEW answers \in Seq(Answer), answers # <<>>
  PROVE  /\ Labelled(p, answers) # <<>>
         /\ Head(Labelled(p, answers)) = LabelledOne(p, Head(answers))
         /\ Tail(Labelled(p, answers)) = Labelled(p, Tail(answers))
<1> DEFINE old == Labelled(p, answers)
           new == Labelled(p, Tail(answers))
<1>1. Len(answers) \in Nat /\ Len(answers) > 0
  BY LenProperties, EmptySeq
<1>2. /\ Head(answers) = answers[1]
      /\ Tail(answers) \in Seq(Answer) /\ Len(Tail(answers)) = Len(answers) - 1
      /\ \A i \in 1 .. Len(Tail(answers)) : Tail(answers)[i] = answers[i + 1]
  BY HeadTailProperties
<1>3. /\ old \in Seq(Addressed) /\ Len(old) = Len(answers)
      /\ new \in Seq(Addressed) /\ Len(new) = Len(answers) - 1
  BY <1>2, LabelledType
<1>4. old # <<>>
  BY <1>1, <1>3, EmptySeq
<1>5. /\ Head(old) = old[1] /\ Tail(old) \in Seq(Addressed) /\ Len(Tail(old)) = Len(old) - 1
      /\ \A i \in 1 .. Len(Tail(old)) : Tail(old)[i] = old[i + 1]
  BY <1>3, <1>4, HeadTailProperties
<1>6. Head(old) = LabelledOne(p, Head(answers))
  <2>1. 1 \in 1 .. Len(answers)
    BY <1>1
  <2> QED
    BY <1>2, <1>5, <2>1 DEF Labelled, LabelledOne
<1>7. ASSUME NEW i \in 1 .. Len(answers) - 1 PROVE Tail(old)[i] = new[i]
  <2>1. i + 1 \in 1 .. Len(answers)
    BY <1>1
  <2>2. old[i + 1] = [port |-> p, n |-> answers[i + 1].n, data |-> answers[i + 1].data]
    BY <2>1 DEF Labelled
  <2>3. new[i] = [port |-> p, n |-> Tail(answers)[i].n, data |-> Tail(answers)[i].data]
    BY <1>2 DEF Labelled
  <2> QED
    BY <1>2, <1>3, <1>5, <2>1, <2>2, <2>3
<1> HIDE DEF old, new
<1>8. Tail(old) = new
  BY <1>3, <1>5, <1>7, SeqEqual
<1> QED
  BY <1>4, <1>6, <1>8 DEF old, new
-----------------------------------------------------------------------------
(* A channel's tags behind those of its answers are of the reads it has to *)
(* execute, in their order.                                                *)
ReadsIn(queue) == {j \in 1 .. Len(queue) : ~ queue[j].isWrite}

Matching(f, tags, m, queue) ==
  /\ \A j \in ReadsIn(queue) :
       f[j] \in Nat /\ m < f[j] /\ f[j] <= Len(tags) /\ tags[f[j]] = queue[j].port
  /\ \A t \in m + 1 .. Len(tags) : \E j \in ReadsIn(queue) : f[j] = t
  /\ \A i, j \in ReadsIn(queue) : i < j => f[i] < f[j]

Aligned(tags, m, queue) == m <= Len(tags) /\ \E f : Matching(f, tags, m, queue)

LEMMA ReadsInStays ==
  ASSUME NEW queue \in Seq(Asked), NEW r \in Asked, NEW j \in ReadsIn(queue)
  PROVE  /\ j \in ReadsIn(Append(queue, r)) /\ Append(queue, r)[j] = queue[j]
         /\ j \in Nat /\ j < Len(queue) + 1
<1> DEFINE new == Append(queue, r)
<1>1. /\ Len(queue) \in Nat /\ Len(new) = Len(queue) + 1
      /\ \A i \in 1 .. Len(queue) : new[i] = queue[i]
  BY AppendProperties, LenProperties
<1>2. j \in 1 .. Len(queue) /\ ~ queue[j].isWrite
  BY DEF ReadsIn
<1> HIDE DEF new
<1>3. j \in Nat /\ j < Len(queue) + 1 /\ j \in 1 .. Len(new)
  BY <1>1, <1>2
<1> QED
  BY <1>1, <1>2, <1>3 DEF ReadsIn, new

LEMMA ReadsInAppended ==
  ASSUME NEW queue \in Seq(Asked), NEW r \in Asked
  PROVE  /\ \A j \in ReadsIn(Append(queue, r)) :
              j \in ReadsIn(queue) \/ (j = Len(queue) + 1 /\ ~ r.isWrite)
         /\ ~ r.isWrite => Len(queue) + 1 \in ReadsIn(Append(queue, r))
         /\ Append(queue, r)[Len(queue) + 1] = r
<1> DEFINE new == Append(queue, r)
<1>1. /\ Len(queue) \in Nat /\ Len(new) = Len(queue) + 1
      /\ \A i \in 1 .. Len(queue) : new[i] = queue[i]
      /\ new[Len(queue) + 1] = r
  BY AppendProperties, LenProperties
<1> HIDE DEF new
<1>2. /\ \A j \in 1 .. Len(new) : j \in 1 .. Len(queue) \/ j = Len(queue) + 1
      /\ Len(queue) + 1 \in 1 .. Len(new)
  BY <1>1
<1>3. \A j \in ReadsIn(new) : j \in ReadsIn(queue) \/ (j = Len(queue) + 1 /\ ~ r.isWrite)
  BY <1>1, <1>2 DEF ReadsIn
<1>4. ~ r.isWrite => Len(queue) + 1 \in ReadsIn(new)
  BY <1>1, <1>2 DEF ReadsIn
<1> QED
  BY <1>1, <1>3, <1>4 DEF new

LEMMA ReadsInTail ==
  ASSUME NEW queue \in Seq(Asked), queue # <<>>
  PROVE  /\ \A j \in ReadsIn(Tail(queue)) : /\ j + 1 \in ReadsIn(queue)
                                            /\ Tail(queue)[j] = queue[j + 1]
                                            /\ j \in Nat /\ j > 0
         /\ \A j \in ReadsIn(queue) :
              \/ j = 1 /\ ~ Head(queue).isWrite
              \/ j \in Nat /\ j > 1 /\ j - 1 \in ReadsIn(Tail(queue))
         /\ ~ Head(queue).isWrite => 1 \in ReadsIn(queue)
         /\ Head(queue) = queue[1]
<1> DEFINE left == Tail(queue)
<1>1. /\ Len(queue) \in Nat /\ Len(queue) > 0 /\ Len(left) = Len(queue) - 1
      /\ Head(queue) = queue[1]
      /\ \A i \in 1 .. Len(left) : left[i] = queue[i + 1]
  BY HeadTailProperties, LenProperties, EmptySeq
<1> HIDE DEF left
<1>2. /\ \A i \in 1 .. Len(left) : i + 1 \in 1 .. Len(queue) /\ i \in Nat /\ i > 0
      /\ \A i \in 1 .. Len(queue) : i = 1 \/ (i \in Nat /\ i > 1 /\ i - 1 \in 1 .. Len(left) /\ (i - 1) + 1 = i)
      /\ 1 \in 1 .. Len(queue)
  BY <1>1
<1>3. \A j \in ReadsIn(left) : j + 1 \in ReadsIn(queue) /\ left[j] = queue[j + 1] /\ j \in Nat /\ j > 0
  BY <1>1, <1>2 DEF ReadsIn
<1>4. ASSUME NEW j \in ReadsIn(queue)
      PROVE  \/ j = 1 /\ ~ Head(queue).isWrite
             \/ j \in Nat /\ j > 1 /\ j - 1 \in ReadsIn(left)
  <2>1. j \in 1 .. Len(queue) /\ ~ queue[j].isWrite
    BY DEF ReadsIn
  <2>2. CASE j = 1
    BY <1>1, <2>1, <2>2
  <2>3. CASE j # 1
    <3>1. j \in Nat /\ j > 1 /\ j - 1 \in 1 .. Len(left) /\ left[j - 1] = queue[j]
      BY <1>1, <1>2, <2>1, <2>3
    <3> QED
      BY <2>1, <3>1 DEF ReadsIn
  <2> QED
    BY <2>2, <2>3
<1>5. ~ Head(queue).isWrite => 1 \in ReadsIn(queue)
  BY <1>1, <1>2 DEF ReadsIn
<1> QED
  BY <1>1, <1>3, <1>4, <1>5 DEF left

LEMMA AlignedWriteAppended ==
  ASSUME NEW tags \in Seq(Port), NEW m \in Nat, NEW queue \in Seq(Asked),
         Aligned(tags, m, queue), NEW r \in Asked, r.isWrite
  PROVE  Aligned(tags, m, Append(queue, r))
<1> PICK f : Matching(f, tags, m, queue)
  BY DEF Aligned
<1>1. /\ \A j \in ReadsIn(queue) : j \in ReadsIn(Append(queue, r)) /\ Append(queue, r)[j] = queue[j]
      /\ \A j \in ReadsIn(Append(queue, r)) : j \in ReadsIn(queue)
  <2>1. \A j \in ReadsIn(queue) : j \in ReadsIn(Append(queue, r)) /\ Append(queue, r)[j] = queue[j]
    BY ReadsInStays
  <2>2. \A j \in ReadsIn(Append(queue, r)) : j \in ReadsIn(queue)
    BY ReadsInAppended
  <2> QED
    BY <2>1, <2>2
<1>2. Matching(f, tags, m, Append(queue, r))
  BY <1>1 DEF Matching
<1> QED
  BY <1>2 DEF Aligned

LEMMA AlignedReadAppended ==
  ASSUME NEW tags \in Seq(Port), NEW m \in Nat, NEW queue \in Seq(Asked),
         Aligned(tags, m, queue), NEW r \in Asked, ~ r.isWrite
  PROVE  Aligned(Append(tags, r.port), m, Append(queue, r))
<1>0. /\ \A j \in ReadsIn(queue) : /\ j \in ReadsIn(Append(queue, r))
                                    /\ Append(queue, r)[j] = queue[j]
                                    /\ j \in Nat /\ j < Len(queue) + 1
      /\ \A j \in ReadsIn(Append(queue, r)) : j \in ReadsIn(queue) \/ j = Len(queue) + 1
      /\ Len(queue) + 1 \in ReadsIn(Append(queue, r))
      /\ Append(queue, r)[Len(queue) + 1] = r
  <2>1. \A u \in Asked : ~ u.isWrite => Len(queue) + 1 \in ReadsIn(Append(queue, u))
    BY ReadsInAppended
  <2>2. Len(queue) + 1 \in ReadsIn(Append(queue, r))
    BY <2>1
  <2>3. \A j \in ReadsIn(queue) : /\ j \in ReadsIn(Append(queue, r))
                                    /\ Append(queue, r)[j] = queue[j]
                                    /\ j \in Nat /\ j < Len(queue) + 1
    BY ReadsInStays
  <2>4. \A j \in ReadsIn(Append(queue, r)) : j \in ReadsIn(queue) \/ j = Len(queue) + 1
    BY ReadsInAppended
  <2>5. Append(queue, r)[Len(queue) + 1] = r
    BY ReadsInAppended
  <2> QED
    BY <2>2, <2>3, <2>4, <2>5
<1> PICK f : Matching(f, tags, m, queue)
  BY DEF Aligned
<1> PICK l \in Nat : l = Len(queue)
  BY LenProperties
<1> PICK k \in Nat : k = Len(tags)
  BY LenProperties
<1> PICK new : new = Append(queue, r)
  OBVIOUS
<1> PICK newTags : newTags = Append(tags, r.port)
  OBVIOUS
<1>1. /\ \A j \in ReadsIn(queue) : j \in ReadsIn(new) /\ new[j] = queue[j] /\ j \in Nat /\ j < l + 1
      /\ \A j \in ReadsIn(new) : j \in ReadsIn(queue) \/ j = l + 1
      /\ l + 1 \in ReadsIn(new) /\ new[l + 1] = r
  BY <1>0
<1>2. /\ Len(newTags) = k + 1 /\ newTags[k + 1] = r.port
      /\ \A t \in 1 .. k : newTags[t] = tags[t]
      /\ m <= k
  BY AppendProperties DEF Asked, Aligned
<1> DEFINE g == [j \in ReadsIn(new) |-> IF j = l + 1 THEN k + 1 ELSE f[j]]
<1>3. /\ g[l + 1] = k + 1
      /\ \A j \in ReadsIn(queue) : g[j] = f[j]
  BY <1>1
<1> HIDE DEF g
<1>4. \A j \in ReadsIn(queue) :
        f[j] \in Nat /\ m < f[j] /\ f[j] <= k /\ f[j] < k + 1 /\ tags[f[j]] = queue[j].port /\ f[j] \in 1 .. k
  BY DEF Matching
<1>5. ASSUME NEW j \in ReadsIn(new)
      PROVE  g[j] \in Nat /\ m < g[j] /\ g[j] <= k + 1 /\ newTags[g[j]] = new[j].port
  <2>1. CASE j = l + 1
    BY <1>1, <1>2, <1>3, <2>1
  <2>2. CASE j \in ReadsIn(queue)
    <3>1. g[j] = f[j] /\ new[j] = queue[j]
      BY <1>1, <1>3, <2>2
    <3>2. /\ f[j] \in Nat /\ m < f[j] /\ f[j] <= k + 1
          /\ tags[f[j]] = queue[j].port /\ f[j] \in 1 .. k
      BY <1>4, <2>2
    <3>3. newTags[f[j]] = tags[f[j]]
      BY <1>2, <3>2
    <3> QED
      BY <3>1, <3>2, <3>3
  <2> QED
    BY <1>1, <2>1, <2>2
<1>6. ASSUME NEW t \in m + 1 .. k + 1 PROVE \E j \in ReadsIn(new) : g[j] = t
  <2>1. CASE t = k + 1
    BY <1>1, <1>3, <2>1
  <2>2. CASE t # k + 1
    <3>1. t \in m + 1 .. k
      BY <2>2
    <3>2. \E j \in ReadsIn(queue) : f[j] = t
      BY <3>1 DEF Matching
    <3> QED
      BY <1>1, <1>3, <3>2
  <2> QED
    BY <2>1, <2>2
<1>7. ASSUME NEW i \in ReadsIn(new), NEW j \in ReadsIn(new), i < j PROVE g[i] < g[j]
  <2>1. i \in ReadsIn(queue)
    BY <1>1, <1>7
  <2>2. CASE j = l + 1
    BY <1>3, <1>4, <2>1, <2>2
  <2>3. CASE j \in ReadsIn(queue)
    BY <1>3, <1>7, <2>1, <2>3 DEF Matching
  <2> QED
    BY <1>1, <2>2, <2>3
<1>8. Matching(g, newTags, m, new)
  BY <1>2, <1>5, <1>6, <1>7 DEF Matching
<1> QED
  BY <1>2, <1>8 DEF Aligned

LEMMA AlignedWriteTaken ==
  ASSUME NEW tags \in Seq(Port), NEW m \in Nat, NEW queue \in Seq(Asked), queue # <<>>,
         Aligned(tags, m, queue), Head(queue).isWrite
  PROVE  Aligned(tags, m, Tail(queue))
<1> PICK f : Matching(f, tags, m, queue)
  BY DEF Aligned
<1> PICK left : left = Tail(queue)
  OBVIOUS
<1>1. /\ \A j \in ReadsIn(left) : j + 1 \in ReadsIn(queue) /\ left[j] = queue[j + 1] /\ j \in Nat
      /\ \A j \in ReadsIn(queue) : j \in Nat /\ j - 1 \in ReadsIn(left) /\ (j - 1) + 1 = j
  <2>1. /\ \A j \in ReadsIn(left) : j + 1 \in ReadsIn(queue) /\ left[j] = queue[j + 1] /\ j \in Nat
        /\ \A j \in ReadsIn(queue) : j \in Nat /\ j - 1 \in ReadsIn(left)
    BY ReadsInTail
  <2>2. \A j \in Nat : (j - 1) + 1 = j
    OBVIOUS
  <2> QED
    BY <2>1, <2>2
<1> DEFINE g == [j \in ReadsIn(left) |-> f[j + 1]]
<1>2. \A j \in ReadsIn(left) : g[j] = f[j + 1]
  OBVIOUS
<1>3. \A j \in ReadsIn(queue) : g[j - 1] = f[j]
  BY <1>1, <1>2
<1> HIDE DEF g
<1>4. \A j \in ReadsIn(left) :
        g[j] \in Nat /\ m < g[j] /\ g[j] <= Len(tags) /\ tags[g[j]] = left[j].port
  <2> TAKE j \in ReadsIn(left)
  <2>1. PICK i \in ReadsIn(queue) : i = j + 1 /\ left[j] = queue[i] /\ g[j] = f[i]
    BY <1>1, <1>2
  <2> QED
    BY <2>1 DEF Matching
<1>5. ASSUME NEW t \in m + 1 .. Len(tags) PROVE \E j \in ReadsIn(left) : g[j] = t
  <2>1. PICK j \in ReadsIn(queue) : f[j] = t
    BY DEF Matching
  <2> QED
    BY <1>1, <1>3, <2>1
<1>6. ASSUME NEW i \in ReadsIn(left), NEW j \in ReadsIn(left), i < j PROVE g[i] < g[j]
  <2>1. i + 1 < j + 1
    BY <1>1, <1>6
  <2> QED
    BY <1>1, <1>2, <2>1 DEF Matching
<1>7. Matching(g, tags, m, left)
  BY <1>4, <1>5, <1>6 DEF Matching
<1> QED
  BY <1>7 DEF Aligned

LEMMA AlignedReadTaken ==
  ASSUME NEW tags \in Seq(Port), NEW m \in Nat, NEW queue \in Seq(Asked), queue # <<>>,
         Aligned(tags, m, queue), ~ Head(queue).isWrite
  PROVE  /\ m < Len(tags) /\ tags[m + 1] = Head(queue).port
         /\ Aligned(tags, m + 1, Tail(queue))
<1> PICK f : Matching(f, tags, m, queue)
  BY DEF Aligned
<1> PICK left : left = Tail(queue)
  OBVIOUS
<1> PICK k \in Nat : k = Len(tags)
  BY LenProperties
<1>1. /\ \A j \in ReadsIn(left) : j + 1 \in ReadsIn(queue) /\ left[j] = queue[j + 1] /\ j \in Nat /\ j > 0
      /\ \A j \in ReadsIn(queue) : j = 1 \/ (j \in Nat /\ j > 1 /\ j - 1 \in ReadsIn(left))
      /\ 1 \in ReadsIn(queue) /\ Head(queue) = queue[1]
  BY ReadsInTail
<1>2. /\ f[1] \in Nat /\ m < f[1] /\ f[1] <= k
      /\ \A j \in ReadsIn(queue) : 1 < j => f[1] < f[j]
      /\ tags[f[1]] = Head(queue).port
  BY <1>1 DEF Matching
<1>3. f[1] = m + 1
  <2>1. m + 1 \in m + 1 .. k
    BY <1>2
  <2>2. PICK j \in ReadsIn(queue) : f[j] = m + 1
    BY <2>1 DEF Matching
  <2>3. ~ (f[1] < m + 1)
    BY <1>2
  <2> QED
    BY <1>1, <1>2, <2>2, <2>3
<1> DEFINE g == [j \in ReadsIn(left) |-> f[j + 1]]
<1>4. \A j \in ReadsIn(left) : g[j] = f[j + 1]
  OBVIOUS
<1> HIDE DEF g
<1>5. ASSUME NEW j \in ReadsIn(left)
      PROVE  g[j] \in Nat /\ m + 1 < g[j] /\ g[j] <= k /\ tags[g[j]] = left[j].port
  <2>1. j + 1 \in ReadsIn(queue) /\ 1 < j + 1 /\ left[j] = queue[j + 1]
    <3>1. j \in Nat /\ j > 0
      BY <1>1
    <3>2. 1 < j + 1
      BY <3>1
    <3> QED
      BY <1>1, <3>2
  <2>2. f[1] < f[j + 1]
    BY <1>2, <2>1
  <2> QED
    BY <1>3, <1>4, <2>1, <2>2 DEF Matching
<1>6. ASSUME NEW t \in (m + 1) + 1 .. k PROVE \E j \in ReadsIn(left) : g[j] = t
  <2>1. t \in m + 1 .. k /\ t # m + 1
    OBVIOUS
  <2>2. PICK j \in ReadsIn(queue) : f[j] = t
    BY <2>1 DEF Matching
  <2>3. j \in Nat /\ j - 1 \in ReadsIn(left) /\ (j - 1) + 1 = j
    BY <1>1, <1>3, <2>1, <2>2
  <2> QED
    BY <1>4, <2>2, <2>3
<1>7. ASSUME NEW i \in ReadsIn(left), NEW j \in ReadsIn(left), i < j PROVE g[i] < g[j]
  <2>1. i + 1 < j + 1
    BY <1>1, <1>7
  <2> QED
    BY <1>1, <1>4, <2>1 DEF Matching
<1>8. Matching(g, tags, m + 1, left)
  BY <1>5, <1>6, <1>7 DEF Matching
<1>9. m < k /\ m + 1 <= k
  BY <1>2
<1> QED
  BY <1>2, <1>3, <1>8, <1>9 DEF Aligned

LEMMA AlignedTagTaken ==
  ASSUME NEW tags \in Seq(Port), NEW m \in Nat, m > 0, NEW queue \in Seq(Asked),
         Aligned(tags, m, queue)
  PROVE  Aligned(Tail(tags), m - 1, queue)
<1> PICK f : Matching(f, tags, m, queue)
  BY DEF Aligned
<1> PICK k \in Nat : k = Len(tags)
  BY LenProperties
<1> PICK left : left = Tail(tags)
  OBVIOUS
<1>1. m <= k
  BY DEF Aligned
<1>2. Len(left) = k - 1 /\ \A t \in 1 .. k - 1 : left[t] = tags[t + 1]
  <2>1. tags # <<>>
    BY <1>1, EmptySeq
  <2> QED
    BY <2>1, HeadTailProperties
<1> DEFINE g == [j \in ReadsIn(queue) |-> f[j] - 1]
<1>3. \A j \in ReadsIn(queue) : g[j] = f[j] - 1
  OBVIOUS
<1> HIDE DEF g
<1>4. ASSUME NEW j \in ReadsIn(queue)
      PROVE  g[j] \in Nat /\ m - 1 < g[j] /\ g[j] <= k - 1 /\ left[g[j]] = queue[j].port
  <2>1. f[j] \in Nat /\ m < f[j] /\ f[j] <= k /\ tags[f[j]] = queue[j].port
    BY DEF Matching
  <2>2. f[j] - 1 \in 1 .. k - 1 /\ (f[j] - 1) + 1 = f[j]
    BY <2>1
  <2> QED
    BY <1>2, <1>3, <2>1, <2>2
<1>5. ASSUME NEW t \in (m - 1) + 1 .. k - 1 PROVE \E j \in ReadsIn(queue) : g[j] = t
  <2>1. t + 1 \in m + 1 .. k /\ (t + 1) - 1 = t
    OBVIOUS
  <2>2. PICK j \in ReadsIn(queue) : f[j] = t + 1
    BY <2>1 DEF Matching
  <2> QED
    BY <1>3, <2>1, <2>2
<1>6. ASSUME NEW i \in ReadsIn(queue), NEW j \in ReadsIn(queue), i < j PROVE g[i] < g[j]
  <2>1. f[i] < f[j] /\ f[i] \in Nat /\ f[j] \in Nat
    BY <1>6 DEF Matching
  <2> QED
    BY <1>3, <2>1
<1>7. Matching(g, left, m - 1, queue)
  BY <1>2, <1>4, <1>5, <1>6 DEF Matching
<1> QED
  BY <1>1, <1>2, <1>7 DEF Aligned

LEMMA AlignedEmpty == Aligned(<<>>, 0, <<>>)
BY DEF Aligned, Matching, ReadsIn

-----------------------------------------------------------------------------
(* The numbers of a port's reads without an answer, of which the first     *)
(* have their answer at its output, the next have a tag, the others none.  *)
Rising(numbers) ==
  \A i, j \in 1 .. Len(numbers) : i < j => numbers[i] < numbers[j]

TaggedWith(numbers, out, tags, c) ==
  {numbers[out + i] : i \in {j \in 1 .. Len(tags) : tags[j] = c}}

Beyond(numbers, k) == {numbers[i] : i \in k + 1 .. Len(numbers)}

LEMMA RisingAppended ==
  ASSUME NEW numbers \in Seq(Nat), Rising(numbers),
         NEW n \in Nat, \A i \in 1 .. Len(numbers) : numbers[i] < n
  PROVE  Rising(Append(numbers, n))
<1> PICK new : new = Append(numbers, n)
  OBVIOUS
<1>1. /\ Len(numbers) \in Nat /\ Len(new) = Len(numbers) + 1
      /\ \A i \in 1 .. Len(numbers) : new[i] = numbers[i]
      /\ new[Len(numbers) + 1] = n
  BY AppendProperties, LenProperties
<1>2. ASSUME NEW i \in 1 .. Len(new), NEW j \in 1 .. Len(new), i < j
      PROVE  new[i] < new[j]
  <2>1. i \in 1 .. Len(numbers) /\ (j \in 1 .. Len(numbers) \/ j = Len(numbers) + 1)
    BY <1>1, <1>2
  <2>2. CASE j \in 1 .. Len(numbers)
    BY <1>1, <1>2, <2>1, <2>2 DEF Rising
  <2>3. CASE j = Len(numbers) + 1
    BY <1>1, <2>1, <2>3
  <2> QED
    BY <2>1, <2>2, <2>3
<1> QED
  BY <1>2 DEF Rising

LEMMA BeyondAppended ==
  ASSUME NEW numbers \in Seq(Nat), NEW n \in Nat, NEW k \in Nat, k <= Len(numbers)
  PROVE  Beyond(Append(numbers, n), k) = Beyond(numbers, k) \cup {n}
<1> PICK new : new = Append(numbers, n)
  OBVIOUS
<1>1. /\ Len(numbers) \in Nat /\ Len(new) = Len(numbers) + 1
      /\ \A i \in 1 .. Len(numbers) : new[i] = numbers[i]
      /\ new[Len(numbers) + 1] = n
  BY AppendProperties, LenProperties
<1>2. /\ \A i \in k + 1 .. Len(numbers) : i \in 1 .. Len(numbers)
      /\ k + 1 .. Len(new) = (k + 1 .. Len(numbers)) \cup {Len(numbers) + 1}
  BY <1>1
<1> QED
  BY <1>1, <1>2 DEF Beyond

LEMMA TaggedWithAppended ==
  ASSUME NEW numbers \in Seq(Nat), NEW n \in Nat, NEW out \in Nat,
         NEW tags \in Seq(Channel), NEW c, out + Len(tags) <= Len(numbers)
  PROVE  TaggedWith(Append(numbers, n), out, tags, c) = TaggedWith(numbers, out, tags, c)
<1>1. Len(numbers) \in Nat /\ Len(tags) \in Nat
  BY LenProperties
<1>2. \A i \in 1 .. Len(numbers) : Append(numbers, n)[i] = numbers[i]
  BY AppendProperties
<1>3. \A i \in 1 .. Len(tags) : out + i \in 1 .. Len(numbers)
  BY <1>1
<1> QED
  BY <1>2, <1>3 DEF TaggedWith

LEMMA TaggedWithTag ==
  ASSUME NEW numbers, NEW out \in Nat, NEW tags \in Seq(Channel), NEW d \in Channel
  PROVE  /\ TaggedWith(numbers, out, Append(tags, d), d)
            = TaggedWith(numbers, out, tags, d) \cup {numbers[out + (Len(tags) + 1)]}
         /\ \A c : c # d =>
              TaggedWith(numbers, out, Append(tags, d), c) = TaggedWith(numbers, out, tags, c)
<1> PICK new : new = Append(tags, d)
  OBVIOUS
<1>1. /\ Len(tags) \in Nat /\ Len(new) = Len(tags) + 1
      /\ \A i \in 1 .. Len(tags) : new[i] = tags[i]
      /\ new[Len(tags) + 1] = d
  BY AppendProperties, LenProperties
<1>2. 1 .. Len(new) = (1 .. Len(tags)) \cup {Len(tags) + 1}
  BY <1>1
<1> QED
  BY <1>1, <1>2 DEF TaggedWith

LEMMA BeyondFirst ==
  ASSUME NEW numbers \in Seq(Nat), Rising(numbers), NEW k \in Nat, k < Len(numbers)
  PROVE  /\ numbers[k + 1] \in Beyond(numbers, k)
         /\ \A n \in Beyond(numbers, k) : numbers[k + 1] <= n
         /\ Beyond(numbers, k + 1) = Beyond(numbers, k) \ {numbers[k + 1]}
<1>1. Len(numbers) \in Nat /\ \A i \in 1 .. Len(numbers) : numbers[i] \in Nat
  BY LenProperties, ElementOfSeq
<1>2. /\ k + 1 \in 1 .. Len(numbers)
      /\ \A i \in k + 1 .. Len(numbers) : i \in 1 .. Len(numbers) /\ (i = k + 1 \/ k + 1 < i)
      /\ k + 1 .. Len(numbers) = ((k + 1) + 1 .. Len(numbers)) \cup {k + 1}
  BY <1>1
<1>3. \A i \in (k + 1) + 1 .. Len(numbers) : i \in 1 .. Len(numbers) /\ k + 1 < i
  BY <1>1
<1>4. \A i \in (k + 1) + 1 .. Len(numbers) : numbers[k + 1] < numbers[i]
  BY <1>2, <1>3 DEF Rising
<1>5. \A n \in Beyond(numbers, k + 1) : numbers[k + 1] < n /\ n \in Nat
  BY <1>1, <1>3, <1>4 DEF Beyond
<1>6. Beyond(numbers, k) = Beyond(numbers, k + 1) \cup {numbers[k + 1]}
  BY <1>2 DEF Beyond
<1>7. numbers[k + 1] \in Nat
  BY <1>1, <1>2
<1> HIDE DEF Beyond
<1> PICK first \in Nat : first = numbers[k + 1]
  BY <1>7
<1>8. \A n \in Beyond(numbers, k + 1) : first <= n /\ first # n
  BY <1>5
<1> QED
  BY <1>6, <1>8

LEMMA TaggedWithTail ==
  ASSUME NEW numbers \in Seq(Nat), Rising(numbers), NEW out \in Nat,
         NEW tags \in Seq(Channel), tags # <<>>, out + Len(tags) <= Len(numbers)
  PROVE  /\ numbers[out + 1] \in TaggedWith(numbers, out, tags, Head(tags))
         /\ \A n \in TaggedWith(numbers, out, tags, Head(tags)) : numbers[out + 1] <= n
         /\ TaggedWith(numbers, out + 1, Tail(tags), Head(tags))
            = TaggedWith(numbers, out, tags, Head(tags)) \ {numbers[out + 1]}
         /\ \A c : c # Head(tags) =>
              TaggedWith(numbers, out + 1, Tail(tags), c) = TaggedWith(numbers, out, tags, c)
<1> PICK left : left = Tail(tags)
  OBVIOUS
<1> PICK first : first = Head(tags)
  OBVIOUS
<1>1. /\ Len(numbers) \in Nat /\ Len(tags) \in Nat /\ Len(tags) > 0 /\ Len(left) = Len(tags) - 1
      /\ tags[1] = first /\ \A i \in 1 .. Len(left) : left[i] = tags[i + 1]
  BY HeadTailProperties, LenProperties, EmptySeq
<1>2. \A i \in 1 .. Len(numbers) : numbers[i] \in Nat
  BY ElementOfSeq
<1>3. /\ \A i \in 1 .. Len(tags) : out + i \in 1 .. Len(numbers) /\ (i = 1 \/ out + 1 < out + i)
      /\ 1 \in 1 .. Len(tags)
      /\ \A i \in 1 .. Len(left) : i + 1 \in 1 .. Len(tags) /\ (out + 1) + i = out + (i + 1) /\ i + 1 # 1
      /\ \A i \in 1 .. Len(tags) : i = 1 \/ (i - 1 \in 1 .. Len(left) /\ (i - 1) + 1 = i
                                             /\ (out + 1) + (i - 1) = out + i)
  BY <1>1
<1>4. \A i \in 1 .. Len(tags) : i # 1 => numbers[out + 1] < numbers[out + i]
  BY <1>3 DEF Rising
<1>5. numbers[out + 1] \in TaggedWith(numbers, out, tags, first)
  BY <1>1, <1>3 DEF TaggedWith
<1>6. ASSUME NEW c, NEW n \in TaggedWith(numbers, out + 1, left, c)
      PROVE  n \in TaggedWith(numbers, out, tags, c) /\ numbers[out + 1] < n /\ n \in Nat
  <2>1. PICK i \in 1 .. Len(left) : left[i] = c /\ n = numbers[(out + 1) + i]
    BY <1>6 DEF TaggedWith
  <2>2. i + 1 \in 1 .. Len(tags) /\ n = numbers[out + (i + 1)] /\ tags[i + 1] = c /\ i + 1 # 1
    BY <1>1, <1>3, <2>1
  <2>3. n \in TaggedWith(numbers, out, tags, c)
    BY <2>2 DEF TaggedWith
  <2> QED
    BY <1>2, <1>3, <1>4, <2>2, <2>3
<1>7. ASSUME NEW c, NEW n \in TaggedWith(numbers, out, tags, c)
      PROVE  (c = first /\ n = numbers[out + 1]) \/ n \in TaggedWith(numbers, out + 1, left, c)
  <2>1. PICK i \in 1 .. Len(tags) : tags[i] = c /\ n = numbers[out + i]
    BY <1>7 DEF TaggedWith
  <2>2. CASE i = 1
    BY <1>1, <2>1, <2>2
  <2>3. CASE i # 1
    <3>1. i - 1 \in 1 .. Len(left) /\ left[i - 1] = c /\ n = numbers[(out + 1) + (i - 1)]
      BY <1>1, <1>3, <2>1, <2>3
    <3> QED
      BY <3>1 DEF TaggedWith
  <2> QED
    BY <2>2, <2>3
<1> PICK least \in Nat : least = numbers[out + 1]
  BY <1>2, <1>3
<1>8. \A n \in TaggedWith(numbers, out + 1, left, first) : n # least /\ least <= n
  <2> TAKE n \in TaggedWith(numbers, out + 1, left, first)
  <2>1. least < n /\ n \in Nat
    BY Zenon, <1>6
  <2> QED
    BY <2>1
<1>9. \A c : TaggedWith(numbers, out + 1, left, c) \subseteq TaggedWith(numbers, out, tags, c)
  BY <1>6
<1>10. ASSUME NEW c, c # first
       PROVE  TaggedWith(numbers, out + 1, left, c) = TaggedWith(numbers, out, tags, c)
  <2>1. \A n \in TaggedWith(numbers, out, tags, c) : n \in TaggedWith(numbers, out + 1, left, c)
    BY <1>7, <1>10
  <2> QED
    BY <1>9, <2>1
<1>11. TaggedWith(numbers, out + 1, left, first) = TaggedWith(numbers, out, tags, first) \ {least}
  BY <1>7, <1>8, <1>9
<1>12. \A n \in TaggedWith(numbers, out, tags, first) : least <= n
  BY <1>7, <1>8
<1> QED
  BY <1>5, <1>10, <1>11, <1>12

LEMMA WaitingTail ==
  ASSUME NEW numbers \in Seq(Nat), Rising(numbers), NEW out \in Nat, out > 0,
         NEW tags \in Seq(Channel), out + Len(tags) <= Len(numbers)
  PROVE  /\ Tail(numbers) \in Seq(Nat) /\ Len(Tail(numbers)) = Len(numbers) - 1
         /\ \A i \in 1 .. Len(numbers) - 1 : Tail(numbers)[i] = numbers[i + 1]
         /\ Rising(Tail(numbers))
         /\ \A c : TaggedWith(Tail(numbers), out - 1, tags, c) = TaggedWith(numbers, out, tags, c)
         /\ Beyond(Tail(numbers), (out - 1) + Len(tags)) = Beyond(numbers, out + Len(tags))
<1> PICK left : left = Tail(numbers)
  OBVIOUS
<1>0. Len(numbers) \in Nat /\ Len(tags) \in Nat
  BY LenProperties
<1>1. numbers # <<>>
  BY <1>0, EmptySeq
<1>2. /\ left \in Seq(Nat) /\ Len(left) = Len(numbers) - 1
      /\ \A i \in 1 .. Len(left) : left[i] = numbers[i + 1]
  BY <1>1, HeadTailProperties
<1>3. /\ \A i \in 1 .. Len(left) : i + 1 \in 1 .. Len(numbers)
      /\ \A i, j \in 1 .. Len(left) : i < j => i + 1 < j + 1
  BY <1>0, <1>2
<1>4. Rising(left)
  BY <1>2, <1>3 DEF Rising
<1>5. \A i \in 1 .. Len(tags) : (out - 1) + i \in 1 .. Len(left) /\ ((out - 1) + i) + 1 = out + i
  BY <1>0, <1>2
<1>6. \A i \in 1 .. Len(tags) : left[(out - 1) + i] = numbers[out + i]
  BY <1>2, <1>5
<1>7. \A c : TaggedWith(left, out - 1, tags, c) = TaggedWith(numbers, out, tags, c)
  BY <1>6 DEF TaggedWith
<1> PICK k \in Nat : k = (out - 1) + Len(tags) /\ out + Len(tags) = k + 1
  <2>1. (out - 1) + Len(tags) \in Nat /\ out + Len(tags) = ((out - 1) + Len(tags)) + 1
    BY <1>0
  <2> QED
    BY <2>1
<1>8. /\ \A i \in k + 1 .. Len(left) : i \in 1 .. Len(left) /\ i + 1 \in (k + 1) + 1 .. Len(numbers)
      /\ \A i \in (k + 1) + 1 .. Len(numbers) : i - 1 \in k + 1 .. Len(left) /\ (i - 1) + 1 = i
  BY <1>0, <1>2
<1>9. Beyond(left, k) = Beyond(numbers, k + 1)
  <2>1. \A i \in k + 1 .. Len(left) : left[i] = numbers[i + 1]
    BY <1>2, <1>8
  <2>2. Beyond(left, k) \subseteq Beyond(numbers, k + 1)
    BY <1>8, <2>1 DEF Beyond
  <2>3. ASSUME NEW i \in (k + 1) + 1 .. Len(numbers) PROVE numbers[i] \in Beyond(left, k)
    BY ZenonT(60), <1>8, <2>1 DEF Beyond
  <2>4. Beyond(numbers, k + 1) \subseteq Beyond(left, k)
    BY <2>3 DEF Beyond
  <2> QED
    BY <2>2, <2>4
<1> QED
  BY <1>2, <1>4, <1>7, <1>8, <1>9

-----------------------------------------------------------------------------
(* The answers on their way back.                                          *)
Answers(c) == Paired(arbTagQ[c], arbRespQ[c])
Back(p, c) == Labelled(p, respQ[<<p, c>>])

TagsMatch == \A c \in Channel : Aligned(arbTagQ[c], Len(arbRespQ[c]), arbQ[c])

LEMMA AnswersFit ==
  ASSUME Typed, TagsMatch, NEW c \in Channel
  PROVE  /\ arbTagQ[c] \in Seq(Port) /\ arbRespQ[c] \in Seq(Answer) /\ arbQ[c] \in Seq(Asked)
         /\ Len(arbTagQ[c]) \in Nat /\ Len(arbRespQ[c]) \in Nat
         /\ Len(arbRespQ[c]) <= Len(arbTagQ[c])
         /\ Aligned(arbTagQ[c], Len(arbRespQ[c]), arbQ[c])
         /\ Answers(c) \in Seq(Addressed)
<1>1. /\ arbTagQ[c] \in Seq(Port) /\ arbRespQ[c] \in Seq(Answer) /\ arbQ[c] \in Seq(Asked)
      /\ Len(arbTagQ[c]) \in Nat /\ Len(arbRespQ[c]) \in Nat
  BY LenProperties DEF Typed, Fitting
<1>2. Aligned(arbTagQ[c], Len(arbRespQ[c]), arbQ[c])
  BY DEF TagsMatch
<1>3. Len(arbRespQ[c]) <= Len(arbTagQ[c])
  BY <1>2 DEF Aligned
<1>4. Answers(c) \in Seq(Addressed)
  BY <1>1, <1>3, PairedType DEF Answers
<1> QED
  BY <1>1, <1>2, <1>3, <1>4

LEMMA ArbitrateAnswers ==
  ASSUME Typed, TagsMatch, NEW a \in App, NEW b \in Channel, Arbitrate(a, b)
  PROVE  TagsMatch' /\ \A c \in Channel : Answers(c)' = Answers(c)
<1>1. PICK ab \in App \X Channel : ab = <<a, b>>
  OBVIOUS
<1>2. /\ mergeQ[ab] \in Seq(Asked) /\ mergeQ[ab] # <<>>
      /\ arbQ'[b] = Append(arbQ[b], Head(mergeQ[ab]))
      /\ \A c \in Channel : c # b => arbQ'[c] = arbQ[c]
      /\ UNCHANGED arbRespQ
  BY <1>1 DEF Typed, Fitting, Arbitrate
<1>3. PICK r \in Asked : r = Head(mergeQ[ab])
  BY <1>2, HeadTailProperties
<1>4. \A c \in Channel : c # b => arbTagQ'[c] = arbTagQ[c]
  BY DEF Typed, Arbitrate
<1>5. \A c \in Channel : c # b => Answers(c)' = Answers(c) /\ Aligned(arbTagQ[c], Len(arbRespQ[c]), arbQ[c])'
  BY <1>2, <1>4 DEF Answers, TagsMatch
<1>6. /\ arbTagQ[b] \in Seq(Port) /\ arbRespQ[b] \in Seq(Answer) /\ arbQ[b] \in Seq(Asked)
      /\ Len(arbRespQ[b]) \in Nat
      /\ Len(arbRespQ[b]) <= Len(arbTagQ[b])
      /\ Aligned(arbTagQ[b], Len(arbRespQ[b]), arbQ[b])
  BY AnswersFit
<1>7. CASE r.isWrite
  <2>1. UNCHANGED arbTagQ
    BY <1>1, <1>3, <1>7 DEF Arbitrate
  <2>2. Aligned(arbTagQ[b], Len(arbRespQ[b]), Append(arbQ[b], r))
    BY <1>6, <1>7, AlignedWriteAppended
  <2>3. Answers(b)' = Answers(b) /\ Aligned(arbTagQ[b], Len(arbRespQ[b]), arbQ[b])'
    BY <1>2, <1>3, <2>1, <2>2 DEF Answers
  <2> QED
    BY <1>5, <2>3 DEF TagsMatch
<1>8. CASE ~ r.isWrite
  <2>1. arbTagQ'[b] = Append(arbTagQ[b], r.port) /\ r.port \in Port
    BY <1>1, <1>3, <1>8 DEF Arbitrate, Typed, Asked
  <2>2. Aligned(Append(arbTagQ[b], r.port), Len(arbRespQ[b]), Append(arbQ[b], r))
    BY <1>6, <1>8, AlignedReadAppended
  <2>3. Paired(Append(arbTagQ[b], r.port), arbRespQ[b]) = Paired(arbTagQ[b], arbRespQ[b])
    BY <1>6, <2>1, PairedTag
  <2>4. Answers(b)' = Answers(b) /\ Aligned(arbTagQ[b], Len(arbRespQ[b]), arbQ[b])'
    BY <1>2, <1>3, <2>1, <2>2, <2>3 DEF Answers
  <2> QED
    BY <1>5, <2>4 DEF TagsMatch
<1> QED
  BY <1>7, <1>8

\* What Access makes of the read at the head of the channel's queue.
Read(r, b) == [n |-> r.n, data |-> memory[<<b, r.addr>>]]

LEMMA AccessAnswers ==
  ASSUME Typed, TagsMatch, NEW b \in Channel, Access(b), NEW r \in Asked, r = Head(arbQ[b])
  PROVE  /\ TagsMatch'
         /\ \A c \in Channel : c # b => Answers(c)' = Answers(c)
         /\ \/ r.isWrite /\ Answers(b)' = Answers(b)
            \/ /\ ~ r.isWrite /\ UNCHANGED memory
               /\ Answers(b)' = Append(Answers(b), LabelledOne(r.port, Read(r, b)))
         /\ LabelledOne(r.port, Read(r, b)) \in Addressed
<1>1. /\ arbTagQ[b] \in Seq(Port) /\ arbRespQ[b] \in Seq(Answer) /\ arbQ[b] \in Seq(Asked)
      /\ Len(arbTagQ[b]) \in Nat /\ Len(arbRespQ[b]) \in Nat
      /\ Len(arbRespQ[b]) <= Len(arbTagQ[b])
      /\ Aligned(arbTagQ[b], Len(arbRespQ[b]), arbQ[b])
  BY AnswersFit
<1>2. /\ arbQ[b] # <<>> /\ arbQ'[b] = Tail(arbQ[b])
      /\ \A c \in Channel : c # b => arbQ'[c] = arbQ[c]
      /\ UNCHANGED arbTagQ
  BY DEF Typed, Access
<1>3. \A c \in Channel : c # b => arbRespQ'[c] = arbRespQ[c]
  BY DEF Typed, Access
<1>4. \A c \in Channel : c # b => Answers(c)' = Answers(c) /\ Aligned(arbTagQ[c], Len(arbRespQ[c]), arbQ[c])'
  BY <1>2, <1>3 DEF Answers, TagsMatch
<1>5. Read(r, b) \in Answer /\ LabelledOne(r.port, Read(r, b)) \in Addressed
  <2>1. <<b, r.addr>> \in Channel \X Line
    BY DEF Asked
  <2> QED
    BY <2>1 DEF Typed, Asked, Answer, Addressed, LabelledOne, Read
<1>6. CASE r.isWrite
  <2>1. UNCHANGED arbRespQ
    BY <1>6 DEF Access
  <2>2. Aligned(arbTagQ[b], Len(arbRespQ[b]), Tail(arbQ[b]))
    BY <1>1, <1>2, <1>6, AlignedWriteTaken
  <2>3. Answers(b)' = Answers(b) /\ Aligned(arbTagQ[b], Len(arbRespQ[b]), arbQ[b])'
    BY <1>2, <2>1, <2>2 DEF Answers
  <2>4. TagsMatch'
    BY <1>4, <2>3 DEF TagsMatch
  <2> QED
    BY <1>4, <1>5, <1>6, <2>3, <2>4
<1>7. CASE ~ r.isWrite
  <2>1. UNCHANGED memory /\ arbRespQ'[b] = Append(arbRespQ[b], Read(r, b))
    BY <1>7 DEF Access, Typed, Read
  <2>2. /\ Len(arbRespQ[b]) < Len(arbTagQ[b]) /\ arbTagQ[b][Len(arbRespQ[b]) + 1] = r.port
        /\ Aligned(arbTagQ[b], Len(arbRespQ[b]) + 1, Tail(arbQ[b]))
    BY <1>1, <1>2, <1>7, AlignedReadTaken
  <2>3. Paired(arbTagQ[b], Append(arbRespQ[b], Read(r, b)))
        = Append(Paired(arbTagQ[b], arbRespQ[b]), LabelledOne(r.port, Read(r, b)))
    BY <1>1, <1>5, <2>2, PairedAnswer
  <2>4. Len(Append(arbRespQ[b], Read(r, b))) = Len(arbRespQ[b]) + 1
    BY <1>1, <1>5, AppendProperties
  <2>5. Answers(b)' = Append(Answers(b), LabelledOne(r.port, Read(r, b)))
    BY <1>2, <2>1, <2>3 DEF Answers
  <2>6. Aligned(arbTagQ[b], Len(arbRespQ[b]), arbQ[b])'
    BY <1>2, <2>1, <2>2, <2>4
  <2>7. TagsMatch'
    BY <1>4, <2>6 DEF TagsMatch
  <2> QED
    BY <1>4, <1>5, <1>7, <2>1, <2>5, <2>7
<1> QED
  BY <1>6, <1>7

LEMMA RouteAnswers ==
  ASSUME Typed, TagsMatch, NEW b \in Channel, Route(b),
         NEW p, p = Head(arbTagQ[b]), NEW answer, answer = Head(arbRespQ[b])
  PROVE  /\ TagsMatch' /\ p \in Port /\ answer \in Answer
         /\ \A c \in Channel : c # b => Answers(c)' = Answers(c)
         /\ Answers(b) # <<>> /\ Head(Answers(b)) = LabelledOne(p, answer)
         /\ Answers(b)' = Tail(Answers(b))
         /\ respQ'[<<p, b>>] = Append(respQ[<<p, b>>], answer)
         /\ Back(p, b)' = Append(Back(p, b), LabelledOne(p, answer))
         /\ \A q \in Port, c \in Channel : ~ (q = p /\ c = b) =>
              respQ'[<<q, c>>] = respQ[<<q, c>>] /\ Back(q, c)' = Back(q, c)
<1>1. /\ arbTagQ[b] \in Seq(Port) /\ arbRespQ[b] \in Seq(Answer) /\ arbQ[b] \in Seq(Asked)
      /\ Len(arbTagQ[b]) \in Nat /\ Len(arbRespQ[b]) \in Nat
      /\ Len(arbRespQ[b]) <= Len(arbTagQ[b])
      /\ Aligned(arbTagQ[b], Len(arbRespQ[b]), arbQ[b])
  BY AnswersFit
<1>2. /\ arbTagQ[b] # <<>> /\ arbRespQ[b] # <<>>
      /\ arbTagQ'[b] = Tail(arbTagQ[b]) /\ arbRespQ'[b] = Tail(arbRespQ[b])
      /\ \A c \in Channel : c # b => arbTagQ'[c] = arbTagQ[c] /\ arbRespQ'[c] = arbRespQ[c]
      /\ UNCHANGED arbQ
  BY DEF Typed, Route, Routable
<1>3. p \in Port /\ answer \in Answer
  BY <1>1, <1>2, HeadTailProperties
<1>4. \A c \in Channel : c # b => Answers(c)' = Answers(c) /\ Aligned(arbTagQ[c], Len(arbRespQ[c]), arbQ[c])'
  BY <1>2 DEF Answers, TagsMatch
<1>5. /\ Answers(b) # <<>> /\ Head(Answers(b)) = LabelledOne(p, answer)
      /\ Answers(b)' = Tail(Answers(b))
  BY <1>1, <1>2, PairedTail DEF Answers
<1>6. Aligned(arbTagQ[b], Len(arbRespQ[b]), arbQ[b])'
  <2>1. Len(arbRespQ[b]) > 0
    BY <1>1, <1>2, EmptySeq
  <2>2. Aligned(Tail(arbTagQ[b]), Len(arbRespQ[b]) - 1, arbQ[b])
    BY <1>1, <2>1, AlignedTagTaken
  <2>3. Len(Tail(arbRespQ[b])) = Len(arbRespQ[b]) - 1
    BY <1>1, <1>2, HeadTailProperties
  <2> QED
    BY <1>2, <2>2, <2>3
<1>7. TagsMatch'
  BY <1>4, <1>6 DEF TagsMatch
<1>8. PICK pc \in Port \X Channel : pc = <<p, b>>
  BY <1>3
<1>9. /\ respQ[pc] \in Seq(Answer) /\ respQ'[pc] = Append(respQ[pc], answer)
      /\ \A qc \in Port \X Channel : qc # pc => respQ'[qc] = respQ[qc]
  BY <1>8 DEF Typed, Fitting, Route
<1>10. Labelled(p, Append(respQ[pc], answer)) = Append(Labelled(p, respQ[pc]), LabelledOne(p, answer))
  BY <1>3, <1>9, LabelledAppended
<1>11. Back(p, b)' = Append(Back(p, b), LabelledOne(p, answer))
  BY <1>8, <1>9, <1>10 DEF Back
<1>12. ASSUME NEW q \in Port, NEW c \in Channel, ~ (q = p /\ c = b)
       PROVE  respQ'[<<q, c>>] = respQ[<<q, c>>] /\ Back(q, c)' = Back(q, c)
  <2>1. <<q, c>> # pc /\ <<q, c>> \in Port \X Channel
    BY <1>8, <1>12
  <2> QED
    BY <1>9, <2>1 DEF Back
<1> QED
  BY <1>3, <1>4, <1>5, <1>7, <1>8, <1>9, <1>11, <1>12

LEMMA CollectAnswers ==
  ASSUME Typed, NEW p \in enabled, Collect(p)
  PROVE  \E b \in Channel, answer \in Answer :
           /\ tagQ[p] # <<>> /\ b = Head(tagQ[p]) /\ tagQ'[p] = Tail(tagQ[p])
           /\ \A q \in Port : q # p => tagQ'[q] = tagQ[q] /\ outQ'[q] = outQ[q]
           /\ respQ[<<p, b>>] # <<>> /\ answer = Head(respQ[<<p, b>>])
           /\ respQ'[<<p, b>>] = Tail(respQ[<<p, b>>])
           /\ outQ'[p] = Append(outQ[p], answer)
           /\ Back(p, b) # <<>> /\ Head(Back(p, b)) = LabelledOne(p, answer)
           /\ Back(p, b)' = Tail(Back(p, b))
           /\ \A q \in Port, c \in Channel : ~ (q = p /\ c = b) =>
                respQ'[<<q, c>>] = respQ[<<q, c>>] /\ Back(q, c)' = Back(q, c)
<1>1. p \in Port
  BY EnabledIsPort
<1> PICK b \in NextChannel(p) :
           /\ outQ' = [outQ EXCEPT ![p] = Append(@, Head(respQ[<<p, b>>]))]
           /\ respQ' = [respQ EXCEPT ![<<p, b>>] = Tail(@)]
  BY DEF Collect
<1>2. b \in Channel /\ tagQ[p] # <<>> /\ b = Head(tagQ[p]) /\ respQ[<<p, b>>] # <<>>
  BY DEF NextChannel
<1>3. PICK pc \in Port \X Channel : pc = <<p, b>>
  BY <1>1, <1>2
<1>4. /\ respQ[pc] \in Seq(Answer) /\ respQ'[pc] = Tail(respQ[pc])
      /\ \A qc \in Port \X Channel : qc # pc => respQ'[qc] = respQ[qc]
  BY <1>3 DEF Typed, Fitting
<1>5. PICK answer \in Answer : answer = Head(respQ[pc])
  BY <1>2, <1>3, <1>4, HeadTailProperties
<1>6. /\ tagQ'[p] = Tail(tagQ[p]) /\ outQ'[p] = Append(outQ[p], answer)
      /\ \A q \in Port : q # p => tagQ'[q] = tagQ[q] /\ outQ'[q] = outQ[q]
  BY <1>1, <1>3, <1>5 DEF Typed, Collect
<1>7. /\ Labelled(p, respQ[pc]) # <<>>
      /\ Head(Labelled(p, respQ[pc])) = LabelledOne(p, Head(respQ[pc]))
      /\ Tail(Labelled(p, respQ[pc])) = Labelled(p, Tail(respQ[pc]))
  BY <1>1, <1>2, <1>3, <1>4, LabelledTail
<1>8. /\ Back(p, b) # <<>> /\ Head(Back(p, b)) = LabelledOne(p, answer)
      /\ Back(p, b)' = Tail(Back(p, b))
  BY <1>3, <1>4, <1>5, <1>7 DEF Back
<1>9. ASSUME NEW q \in Port, NEW c \in Channel, ~ (q = p /\ c = b)
      PROVE  respQ'[<<q, c>>] = respQ[<<q, c>>] /\ Back(q, c)' = Back(q, c)
  <2>1. <<q, c>> # pc /\ <<q, c>> \in Port \X Channel
    BY <1>3, <1>9
  <2> QED
    BY <1>4, <2>1 DEF Back
<1>10. /\ b \in Channel /\ answer \in Answer
       /\ tagQ[p] # <<>> /\ b = Head(tagQ[p]) /\ tagQ'[p] = Tail(tagQ[p])
       /\ \A q \in Port : q # p => tagQ'[q] = tagQ[q] /\ outQ'[q] = outQ[q]
       /\ respQ[<<p, b>>] # <<>> /\ answer = Head(respQ[<<p, b>>])
       /\ respQ'[<<p, b>>] = Tail(respQ[<<p, b>>])
       /\ outQ'[p] = Append(outQ[p], answer)
       /\ Back(p, b) # <<>> /\ Head(Back(p, b)) = LabelledOne(p, answer)
       /\ Back(p, b)' = Tail(Back(p, b))
       /\ \A q \in Port, c \in Channel : ~ (q = p /\ c = b) =>
            respQ'[<<q, c>>] = respQ[<<q, c>>] /\ Back(q, c)' = Back(q, c)
  BY <1>2, <1>3, <1>4, <1>5, <1>6, <1>8, <1>9
<1> QED
  BY <1>10

LEMMA QuietAnswers ==
  ASSUME TagsMatch, UNCHANGED <<arbQ, arbTagQ, arbRespQ>>
  PROVE  TagsMatch' /\ \A c \in Channel : Answers(c)' = Answers(c)
BY DEF TagsMatch, Answers

\* Every answer on its way is one that its read may have.
AnswersGood ==
  /\ \A p \in Port : \A a \in Entries(outQ[p]) : Good(p, a.n, a.data)
  /\ \A p \in Port, c \in Channel : \A a \in Entries(respQ[<<p, c>>]) : Good(p, a.n, a.data)
  /\ \A c \in Channel : \A a \in Entries(Answers(c)) : Good(a.port, a.n, a.data)

LEMMA AnswersGoodStay ==
  ASSUME Typed, TagsMatch, AnswersGood, [Next]_vars,
         \A p \in Port : \A a \in Entries(outQ'[p]) :
           a \in Entries(outQ[p]) \/ \E c \in Channel : a \in Entries(respQ[<<p, c>>]),
         \A p \in Port, c \in Channel : \A a \in Entries(respQ'[<<p, c>>]) :
           a \in Entries(respQ[<<p, c>>]) \/ LabelledOne(p, a) \in Entries(Answers(c)),
         \A c \in Channel : \A a \in Entries(Answers(c)') :
           a \in Entries(Answers(c)) \/ (a.port \in Port /\ Good(a.port, a.n, a.data))
  PROVE  AnswersGood'
<1>1. \A p \in Port : \A n, w : Good(p, n, w) => Good(p, n, w)'
  BY GoodStays
<1>2. ASSUME NEW p \in Port, NEW a \in Entries(outQ'[p]) PROVE Good(p, a.n, a.data)
  BY DEF AnswersGood
<1>3. ASSUME NEW p \in Port, NEW c \in Channel, NEW a \in Entries(respQ'[<<p, c>>])
      PROVE  Good(p, a.n, a.data)
  <2>1. CASE a \in Entries(respQ[<<p, c>>])
    BY <2>1 DEF AnswersGood
  <2>2. CASE LabelledOne(p, a) \in Entries(Answers(c))
    BY <2>2 DEF AnswersGood, LabelledOne
  <2> QED
    BY <2>1, <2>2
<1>4. ASSUME NEW c \in Channel, NEW a \in Entries(Answers(c)')
      PROVE  a.port \in Port /\ Good(a.port, a.n, a.data)
  <2>1. CASE a \in Entries(Answers(c))
    <3>1. Answers(c) \in Seq(Addressed)
      BY AnswersFit
    <3>2. \A i \in 1 .. Len(Answers(c)) : Answers(c)[i] \in Addressed
      BY <3>1, ElementOfSeq
    <3> QED
      BY <2>1, <3>2 DEF AnswersGood, Entries, Addressed
  <2> QED
    BY <2>1
<1>5. /\ \A p \in Port : \A a \in Entries(outQ'[p]) : Good(p, a.n, a.data)'
      /\ \A p \in Port, c \in Channel : \A a \in Entries(respQ'[<<p, c>>]) : Good(p, a.n, a.data)'
      /\ \A c \in Channel : \A a \in Entries(Answers(c)') : Good(a.port, a.n, a.data)'
  BY <1>1, <1>2, <1>3, <1>4
<1> QED
  BY <1>5 DEF AnswersGood

LEMMA AccessGood ==
  ASSUME WayInv, MemoryHolds, TagsMatch, AnswersGood, [Next]_vars, NEW b \in Channel, Access(b)
  PROVE  AnswersGood'
<1>1. PICK r \in Asked : r = Head(arbQ[b])
  <2>1. arbQ[b] \in Seq(Asked) /\ arbQ[b] # <<>>
    BY DEF WayInv, Typed, Fitting, Access
  <2> QED
    BY <2>1, HeadTailProperties
<1> PICK e : e = LabelledOne(r.port, Read(r, b))
  OBVIOUS
<1>2. /\ \A c \in Channel : c # b => Answers(c)' = Answers(c)
      /\ Answers(b)' = Answers(b) \/ Answers(b)' = Append(Answers(b), e)
      /\ e \in Addressed
  BY <1>1, AccessAnswers DEF WayInv
<1>3. e.port \in Port /\ Good(e.port, e.n, e.data)
  BY <1>1, ReadIsGood DEF LabelledOne, Read
<1>4. \A a \in Entries(Append(Answers(b), e)) : a \in Entries(Answers(b)) \/ a = e
  <2>1. Answers(b) \in Seq(Addressed)
    BY AnswersFit DEF WayInv
  <2>2. Entries(Append(Answers(b), e)) = Entries(Answers(b)) \cup {e}
    BY <1>2, <2>1, EntriesAppended
  <2> QED
    BY <2>2
<1>5. ASSUME NEW c \in Channel, NEW a \in Entries(Answers(c)')
      PROVE  a \in Entries(Answers(c)) \/ (a.port \in Port /\ Good(a.port, a.n, a.data))
  <2>1. CASE Answers(c)' = Answers(c)
    BY <2>1
  <2>2. CASE c = b /\ Answers(b)' = Append(Answers(b), e)
    BY <1>3, <1>4, <2>2
  <2> QED
    BY <1>2, <2>1, <2>2
<1>6. UNCHANGED <<outQ, respQ>>
  BY DEF Access
<1> QED
  BY <1>5, <1>6, AnswersGoodStay DEF WayInv

LEMMA RouteGood ==
  ASSUME WayInv, TagsMatch, AnswersGood, [Next]_vars, NEW b \in Channel, Route(b)
  PROVE  AnswersGood'
<1> PICK p : p = Head(arbTagQ[b])
  OBVIOUS
<1> PICK answer : answer = Head(arbRespQ[b])
  OBVIOUS
<1>1. /\ p \in Port /\ answer \in Answer
      /\ \A c \in Channel : c # b => Answers(c)' = Answers(c)
      /\ Answers(b) # <<>> /\ Head(Answers(b)) = LabelledOne(p, answer)
      /\ Answers(b)' = Tail(Answers(b))
      /\ respQ'[<<p, b>>] = Append(respQ[<<p, b>>], answer)
      /\ \A q \in Port, c \in Channel : ~ (q = p /\ c = b) => respQ'[<<q, c>>] = respQ[<<q, c>>]
  BY SMTT(30), RouteAnswers DEF WayInv
<1>2. /\ LabelledOne(p, answer) \in Entries(Answers(b))
      /\ \A a \in Entries(Answers(b)') : a \in Entries(Answers(b))
  <2>1. Answers(b) \in Seq(Addressed)
    BY AnswersFit DEF WayInv
  <2>2. Head(Answers(b)) \in Entries(Answers(b)) /\ Entries(Tail(Answers(b))) \subseteq Entries(Answers(b))
    BY <1>1, <2>1, EntriesTail
  <2> QED
    BY <1>1, <2>2
<1>3. \A c \in Channel : \A a \in Entries(Answers(c)') : a \in Entries(Answers(c))
  BY <1>1, <1>2
<1>4. ASSUME NEW q \in Port, NEW c \in Channel, NEW a \in Entries(respQ'[<<q, c>>])
      PROVE  a \in Entries(respQ[<<q, c>>]) \/ LabelledOne(q, a) \in Entries(Answers(c))
  <2>1. CASE q = p /\ c = b
    <3>1. respQ[<<p, b>>] \in Seq(Answer)
      BY <1>1 DEF WayInv, Typed, Fitting
    <3>2. Entries(Append(respQ[<<p, b>>], answer)) = Entries(respQ[<<p, b>>]) \cup {answer}
      BY <1>1, <3>1, EntriesAppended
    <3> QED
      BY <1>1, <1>2, <2>1, <3>2
  <2>2. CASE ~ (q = p /\ c = b)
    BY <1>1, <2>2
  <2> QED
    BY <2>1, <2>2
<1>5. UNCHANGED outQ
  BY DEF Route
<1> QED
  BY <1>3, <1>4, <1>5, AnswersGoodStay DEF WayInv

LEMMA CollectGood ==
  ASSUME WayInv, TagsMatch, AnswersGood, [Next]_vars, NEW p \in enabled, Collect(p)
  PROVE  AnswersGood'
<1>0. p \in Port
  BY EnabledIsPort DEF WayInv
<1>1. PICK b \in Channel, answer \in Answer :
        /\ \A q \in Port : q # p => outQ'[q] = outQ[q]
        /\ respQ[<<p, b>>] # <<>> /\ answer = Head(respQ[<<p, b>>])
        /\ respQ'[<<p, b>>] = Tail(respQ[<<p, b>>])
        /\ outQ'[p] = Append(outQ[p], answer)
        /\ \A q \in Port, c \in Channel : ~ (q = p /\ c = b) => respQ'[<<q, c>>] = respQ[<<q, c>>]
  BY CollectAnswers DEF WayInv
<1>2. respQ[<<p, b>>] \in Seq(Answer) /\ outQ[p] \in Seq(Answer)
  BY <1>0 DEF WayInv, Typed, Fitting
<1>3. /\ answer \in Entries(respQ[<<p, b>>])
      /\ Entries(Tail(respQ[<<p, b>>])) \subseteq Entries(respQ[<<p, b>>])
  BY <1>1, <1>2, EntriesTail
<1>4. Entries(Append(outQ[p], answer)) = Entries(outQ[p]) \cup {answer}
  BY <1>2, EntriesAppended
<1>5. ASSUME NEW q \in Port, NEW a \in Entries(outQ'[q])
      PROVE  a \in Entries(outQ[q]) \/ \E c \in Channel : a \in Entries(respQ[<<q, c>>])
  BY <1>1, <1>3, <1>4
<1>6. ASSUME NEW q \in Port, NEW c \in Channel, NEW a \in Entries(respQ'[<<q, c>>])
      PROVE  a \in Entries(respQ[<<q, c>>])
  BY <1>1, <1>3
<1>7. \A c \in Channel : Answers(c)' = Answers(c)
  BY DEF Collect, Answers
<1> QED
  BY <1>5, <1>6, <1>7, AnswersGoodStay DEF WayInv

LEMMA TakeGood ==
  ASSUME WayInv, TagsMatch, AnswersGood, [Next]_vars, NEW p \in enabled, Take(p)
  PROVE  AnswersGood'
<1>1. p \in Port
  BY EnabledIsPort DEF WayInv
<1>2. /\ outQ[p] \in Seq(Answer) /\ outQ[p] # <<>> /\ outQ'[p] = Tail(outQ[p])
      /\ \A q \in Port : q # p => outQ'[q] = outQ[q]
  BY <1>1 DEF WayInv, Typed, Fitting, Take
<1>3. Entries(Tail(outQ[p])) \subseteq Entries(outQ[p])
  BY <1>2, EntriesTail
<1>4. \A q \in Port : \A a \in Entries(outQ'[q]) : a \in Entries(outQ[q])
  BY <1>2, <1>3
<1>5. UNCHANGED respQ /\ \A c \in Channel : Answers(c)' = Answers(c)
  BY DEF Take, Answers
<1> QED
  BY <1>4, <1>5, AnswersGoodStay DEF WayInv

LEMMA OtherGood ==
  ASSUME Typed, TagsMatch, AnswersGood, [Next]_vars, UNCHANGED <<outQ, respQ>>,
         \A c \in Channel : Answers(c)' = Answers(c)
  PROVE  AnswersGood'
BY AnswersGoodStay

LEMMA AnswersGoodImplies ==
  ASSUME Typed, AnswersGood
  PROVE  ReadsSeeWrites
<1> SUFFICES ASSUME NEW p \in Port, NEW i \in DOMAIN outQ[p]
             PROVE  LET n == outQ[p][i].n
                        w == outQ[p][i].data
                    IN  IF w = Nothing THEN LastWrite(p, n) = 0
                        ELSE /\ w.port[1] = p[1]
                             /\ sent[w.port][w.n].va = sent[p][n].va
                             /\ w.port = p => w.n = LastWrite(p, n)
  BY DEF ReadsSeeWrites
<1>1. outQ[p] \in Seq(Answer)
  BY DEF Typed, Fitting
<1>2. i \in 1 .. Len(outQ[p])
  BY <1>1, LenProperties
<1>3. outQ[p][i] \in Entries(outQ[p])
  BY <1>2 DEF Entries
<1>4. Good(p, outQ[p][i].n, outQ[p][i].data)
  BY <1>3 DEF AnswersGood
<1> QED
  BY <1>4 DEF Good

-----------------------------------------------------------------------------
(* The order of the answers.                                               *)

\* The port's reads that are still in AddressTranslate, and those on their way.
Unmerged(p)      == {n \in Merged(p) + 1 .. Len(sent[p]) : ~ sent[p][n].isWrite}
ReadsOnWay(p, c) == {n \in OnWay(p, c) : ~ sent[p][n].isWrite}

Tags(p, c) == TaggedWith(waiting[p], Len(outQ[p]), tagQ[p], c)

\* First wait the reads whose answers are at the output, then those with a tag,
\* then those in AddressTranslate.
WaitingOk(p) ==
  /\ Rising(waiting[p])
  /\ \A i \in 1 .. Len(waiting[p]) : waiting[p][i] \in 1 .. Len(sent[p])
  /\ Len(outQ[p]) + Len(tagQ[p]) <= Len(waiting[p])
  /\ \A i \in 1 .. Len(outQ[p]) : outQ[p][i].n = waiting[p][i]
  /\ Beyond(waiting[p], Len(outQ[p]) + Len(tagQ[p])) = Unmerged(p)

\* The reads with a tag of the channel are on their way to it or back from it.
TagsOk(p, c) ==
  Tags(p, c) = Numbers(Back(p, c), p) \cup Numbers(Answers(c), p) \cup ReadsOnWay(p, c)

\* Those on the way back are executed, and in the order they were sent.
BackOk(p, c) ==
  /\ Numbers(Back(p, c), p) \subseteq Done(p, c)
  /\ Numbers(Answers(c), p) \subseteq Done(p, c)
  /\ Sorted(Back(p, c), p) /\ Sorted(Answers(c), p)
  /\ \A k \in Numbers(Back(p, c), p), m \in Numbers(Answers(c), p) : k < m

OrderInv ==
  /\ \A p \in Port : WaitingOk(p)
  /\ \A p \in Port, c \in Channel : TagsOk(p, c) /\ BackOk(p, c)

LEMMA PortTypes ==
  ASSUME Typed, NEW p \in Port
  PROVE  /\ waiting[p] \in Seq(Nat) /\ tagQ[p] \in Seq(Channel) /\ outQ[p] \in Seq(Answer)
         /\ Len(waiting[p]) \in Nat /\ Len(tagQ[p]) \in Nat /\ Len(outQ[p]) \in Nat
         /\ Len(outQ[p]) + Len(tagQ[p]) \in Nat
         /\ \A c \in Channel : Back(p, c) \in Seq(Addressed)
<1>1. /\ waiting[p] \in Seq(Nat) /\ tagQ[p] \in Seq(Channel) /\ outQ[p] \in Seq(Answer)
      /\ \A c \in Channel : respQ[<<p, c>>] \in Seq(Answer)
  BY DEF Typed, Fitting
<1>2. /\ Len(waiting[p]) \in Nat /\ Len(tagQ[p]) \in Nat /\ Len(outQ[p]) \in Nat
  BY <1>1, LenProperties
<1>3. \A c \in Channel : Back(p, c) \in Seq(Addressed)
  BY <1>1, LabelledType DEF Back
<1>4. \A i, j \in Nat : i + j \in Nat
  OBVIOUS
<1>5. Len(outQ[p]) + Len(tagQ[p]) \in Nat
  BY <1>2, <1>4
<1> QED
  BY <1>1, <1>2, <1>3, <1>5

LEMMA WaySentStays ==
  ASSUME WayInv, [Next]_vars, NEW p \in Port, NEW c \in Channel, NEW n \in OnWay(p, c)
  PROVE  sent'[p][n] = sent[p][n]
<1>1. n \in 1 .. Len(sent[p])
  BY OnWayMerged, Sizes
<1> QED
  BY <1>1, SentStays DEF WayInv

(* Steps that leave what a port waits for, or what comes back, alone.      *)
LEMMA WaitingStays ==
  ASSUME NEW p, WaitingOk(p), waiting'[p] = waiting[p], tagQ'[p] = tagQ[p],
         outQ'[p] = outQ[p], sent'[p] = sent[p], xlatedQ'[p] = xlatedQ[p]
  PROVE  WaitingOk(p)' /\ \A c : Tags(p, c)' = Tags(p, c)
<1>1. Unmerged(p)' = Unmerged(p)
  BY DEF Unmerged, Merged
<1> QED
  BY <1>1 DEF WaitingOk, Tags

LEMMA TagsStay ==
  ASSUME WayInv, [Next]_vars, NEW p \in Port, NEW c \in Channel, TagsOk(p, c),
         Tags(p, c)' = Tags(p, c), Back(p, c)' = Back(p, c), Answers(c)' = Answers(c),
         OnWay(p, c)' = OnWay(p, c)
  PROVE  TagsOk(p, c)'
<1>1. ReadsOnWay(p, c)' = ReadsOnWay(p, c)
  BY WaySentStays DEF ReadsOnWay
<1> QED
  BY <1>1 DEF TagsOk

LEMMA BackStays ==
  ASSUME NEW p, NEW c, BackOk(p, c), Back(p, c)' = Back(p, c), Answers(c)' = Answers(c),
         Done(p, c) \subseteq Done(p, c)'
  PROVE  BackOk(p, c)'
BY DEF BackOk

LEMMA AcceptOrder ==
  ASSUME WayInv, OrderInv, [Next]_vars, NEW p \in enabled, NEW isWrite \in BOOLEAN,
         NEW va \in Address, Accept(p, isWrite, va)
  PROVE  OrderInv'
<1>1. p \in Port
  BY EnabledIsPort DEF WayInv
<1>2. /\ \A q \in Port, c \in Channel :
           Merged(q)' = Merged(q) /\ OnWay(q, c)' = OnWay(q, c) /\ Done(q, c)' = Done(q, c)
  BY AcceptWay
<1>3. UNCHANGED <<tagQ, outQ, respQ, arbTagQ, arbRespQ>>
  BY DEF Accept
<1>4. \A q \in Port, c \in Channel : Back(q, c)' = Back(q, c) /\ Answers(c)' = Answers(c)
  BY <1>3 DEF Back, Answers
<1> DEFINE asked == [isWrite |-> isWrite, va |-> va]
           n == Len(sent[p]) + 1
<1>5. /\ asked \in Sent /\ sent[p] \in Seq(Sent) /\ sent'[p] = Append(sent[p], asked)
      /\ \A q \in Port : q # p => /\ sent'[q] = sent[q] /\ xlatedQ'[q] = xlatedQ[q]
                                  /\ waiting'[q] = waiting[q]
      /\ waiting'[p] = IF isWrite THEN waiting[p] ELSE Append(waiting[p], n)
  BY <1>1 DEF WayInv, Typed, Accept, Sent
<1>6. /\ n \in Nat /\ Len(sent'[p]) = n /\ sent'[p][n].isWrite = isWrite
      /\ \A m \in 1 .. Len(sent[p]) : sent'[p][m] = sent[p][m] /\ m < n
      /\ 1 .. Len(sent'[p]) = (1 .. Len(sent[p])) \cup {n}
      /\ Merged(p) + 1 .. Len(sent'[p]) = (Merged(p) + 1 .. Len(sent[p])) \cup {n}
      /\ \A m \in Merged(p) + 1 .. Len(sent[p]) : m \in 1 .. Len(sent[p])
  <2>1. Len(sent[p]) \in Nat /\ Merged(p) \in Nat /\ Merged(p) <= Len(sent[p])
    BY <1>1, Sizes
  <2>2. Len(sent'[p]) = n /\ sent'[p][n] = asked /\ \A m \in 1 .. Len(sent[p]) : sent'[p][m] = sent[p][m]
    BY <1>5, AppendProperties
  <2>3. /\ n \in Nat /\ \A m \in 1 .. Len(sent[p]) : m < n
        /\ 1 .. n = (1 .. Len(sent[p])) \cup {n}
        /\ Merged(p) + 1 .. n = (Merged(p) + 1 .. Len(sent[p])) \cup {n}
        /\ \A m \in Merged(p) + 1 .. Len(sent[p]) : m \in 1 .. Len(sent[p])
    BY <2>1
  <2> QED
    BY <2>2, <2>3
<1> HIDE DEF asked, n
<1>7. Unmerged(p)' = IF isWrite THEN Unmerged(p) ELSE Unmerged(p) \cup {n}
  <2>1. Unmerged(p)' = {m \in Merged(p) + 1 .. Len(sent'[p]) : ~ sent'[p][m].isWrite}
    <3>1. 0 \in Channel
      BY MemAssumption DEF Channel
    <3>2. Merged(p)' = Merged(p)
      BY <1>1, <1>2, <3>1
    <3> QED
      BY <3>2 DEF Unmerged
  <2>2. \A m \in Merged(p) + 1 .. Len(sent[p]) : sent'[p][m] = sent[p][m]
    BY <1>6
  <2>3. CASE isWrite
    BY <1>6, <2>1, <2>2, <2>3 DEF Unmerged
  <2>4. CASE ~ isWrite
    BY <1>6, <2>1, <2>2, <2>4 DEF Unmerged
  <2> QED
    BY <2>3, <2>4
<1>8. /\ waiting[p] \in Seq(Nat) /\ tagQ[p] \in Seq(Channel)
      /\ Len(waiting[p]) \in Nat /\ Len(tagQ[p]) \in Nat /\ Len(outQ[p]) \in Nat
      /\ Len(outQ[p]) + Len(tagQ[p]) \in Nat
      /\ WaitingOk(p)
  BY <1>1, PortTypes DEF WayInv, OrderInv
<1>9. CASE isWrite
  <2>1. waiting'[p] = waiting[p] /\ Unmerged(p)' = Unmerged(p)
    BY <1>5, <1>7, <1>9
  <2>2. WaitingOk(p)' /\ \A c \in Channel : Tags(p, c)' = Tags(p, c)
    BY <1>3, <1>6, <1>8, <2>1 DEF WaitingOk, Tags
  <2>3. \A q \in Port : WaitingOk(q)' /\ \A c \in Channel : Tags(q, c)' = Tags(q, c)
    BY <1>3, <1>5, <2>2, WaitingStays DEF OrderInv
  <2> QED
    BY <1>2, <1>4, <2>3, TagsStay, BackStays DEF OrderInv
<1>10. CASE ~ isWrite
  <2>1. waiting'[p] = Append(waiting[p], n) /\ Unmerged(p)' = Unmerged(p) \cup {n}
    BY <1>5, <1>7, <1>10
  <2> PICK k \in Nat : k = Len(outQ[p]) + Len(tagQ[p])
    BY <1>8
  <2>2. /\ Len(waiting'[p]) = Len(waiting[p]) + 1 /\ waiting'[p][Len(waiting[p]) + 1] = n
        /\ \A i \in 1 .. Len(waiting[p]) : waiting'[p][i] = waiting[p][i]
    BY <1>6, <1>8, <2>1, AppendProperties
  <2>3. Rising(Append(waiting[p], n))
    <3>1. \A i \in 1 .. Len(waiting[p]) : waiting[p][i] < n
      BY <1>6, <1>8 DEF WaitingOk
    <3>2. Rising(waiting[p])
      BY <1>8 DEF WaitingOk
    <3> QED
      BY <1>6, <1>8, <3>1, <3>2, RisingAppended
  <2>4. k <= Len(waiting[p]) /\ Beyond(waiting[p], k) = Unmerged(p)
    BY <1>8 DEF WaitingOk
  <2>5. Beyond(Append(waiting[p], n), k) = Beyond(waiting[p], k) \cup {n}
    BY <1>6, <1>8, <2>4, BeyondAppended
  <2>6. ASSUME NEW c
        PROVE  TaggedWith(Append(waiting[p], n), Len(outQ[p]), tagQ[p], c)
               = TaggedWith(waiting[p], Len(outQ[p]), tagQ[p], c)
    <3>1. n \in Nat /\ Len(outQ[p]) + Len(tagQ[p]) <= Len(waiting[p])
      BY <1>6, <2>4
    <3>2. ASSUME NEW out \in Nat, out + Len(tagQ[p]) <= Len(waiting[p])
          PROVE  TaggedWith(Append(waiting[p], n), out, tagQ[p], c)
                 = TaggedWith(waiting[p], out, tagQ[p], c)
      <4>1. n \in Nat /\ waiting[p] \in Seq(Nat) /\ tagQ[p] \in Seq(Channel)
        BY <1>6, <1>8
      <4> QED
        BY <3>2, <4>1, TaggedWithAppended
    <3> QED
      BY <1>8, <3>1, <3>2
  <2>7. ASSUME NEW i \in 1 .. Len(waiting'[p]) PROVE waiting'[p][i] \in 1 .. Len(sent'[p])
    <3>1. i \in 1 .. Len(waiting[p]) \/ i = Len(waiting[p]) + 1
      BY <1>8, <2>2
    <3> QED
      BY <1>6, <1>8, <2>2, <3>1 DEF WaitingOk
  <2>8. k <= Len(waiting'[p]) /\ \A i \in 1 .. Len(outQ[p]) : i \in 1 .. Len(waiting[p])
    <3>1. ASSUME NEW o \in Nat, NEW t \in Nat, NEW l \in Nat, o + t <= l
          PROVE  o + t <= l + 1 /\ \A i \in 1 .. o : i \in 1 .. l
      BY <3>1
    <3> QED
      BY <1>8, <2>2, <2>4, <3>1
  <2>9. \A i \in 1 .. Len(outQ[p]) : outQ[p][i].n = waiting'[p][i]
    BY <1>8, <2>2, <2>8 DEF WaitingOk
  <2>10. WaitingOk(p)' /\ \A c \in Channel : Tags(p, c)' = Tags(p, c)
    BY <1>3, <2>1, <2>3, <2>4, <2>5, <2>6, <2>7, <2>8, <2>9 DEF WaitingOk, Tags
  <2>11. \A q \in Port : WaitingOk(q)' /\ \A c \in Channel : Tags(q, c)' = Tags(q, c)
    BY <1>3, <1>5, <2>10, WaitingStays DEF OrderInv
  <2> QED
    BY <1>2, <1>4, <2>11, TagsStay, BackStays DEF OrderInv
<1> QED
  BY <1>9, <1>10

LEMMA SomeBetween == ASSUME NEW t \in Nat, NEW l \in Nat, NEW i \in t + 1 .. l PROVE t < l
OBVIOUS
LEMMA BothWays == ASSUME NEW i \in Nat, NEW j \in Nat, i <= j, j <= i PROVE i = j
OBVIOUS

\* The port's next read without a tag is the one that AddressTranslate offers.
LEMMA NextUntagged ==
  ASSUME WayInv, NEW p \in Port, WaitingOk(p), NEW k \in Nat, k = Merged(p),
         k + 1 \in 1 .. Len(sent[p]), ~ sent[p][k + 1].isWrite,
         NEW t \in Nat, t = Len(outQ[p]) + Len(tagQ[p])
  PROVE  /\ t < Len(waiting[p]) /\ waiting[p][t + 1] = k + 1
         /\ Beyond(waiting[p], t + 1) = Unmerged(p) \ {k + 1}
<1>1. /\ waiting[p] \in Seq(Nat) /\ Len(waiting[p]) \in Nat /\ Rising(waiting[p])
      /\ t <= Len(waiting[p]) /\ Beyond(waiting[p], t) = Unmerged(p)
  BY PortTypes DEF WayInv, WaitingOk
<1>2. Len(sent[p]) \in Nat /\ k + 1 \in k + 1 .. Len(sent[p])
  <2>1. Len(sent[p]) \in Nat
    BY Sizes
  <2> QED
    BY <2>1
<1>3. k + 1 \in Beyond(waiting[p], t)
  BY <1>1, <1>2 DEF Unmerged
<1>4. t < Len(waiting[p])
  <2>1. \E i : i \in t + 1 .. Len(waiting[p])
    BY <1>3 DEF Beyond
  <2> QED
    BY <1>1, <2>1, SomeBetween
<1>5. /\ waiting[p][t + 1] \in Beyond(waiting[p], t)
      /\ \A n \in Beyond(waiting[p], t) : waiting[p][t + 1] <= n
      /\ Beyond(waiting[p], t + 1) = Beyond(waiting[p], t) \ {waiting[p][t + 1]}
  BY <1>1, <1>4, BeyondFirst
<1>6. \A n \in Unmerged(p) : n \in Nat /\ k + 1 <= n
  BY <1>2 DEF Unmerged
<1>7. waiting[p][t + 1] = k + 1
  <2> PICK w : w = waiting[p][t + 1]
    OBVIOUS
  <2>1. w \in Nat /\ k + 1 <= w
    BY <1>1, <1>5, <1>6
  <2>2. w <= k + 1
    BY <1>3, <1>5
  <2>3. k + 1 \in Nat
    OBVIOUS
  <2>4. w = k + 1
    BY <2>1, <2>2, <2>3, BothWays
  <2> QED
    BY <2>4
<1> QED
  BY <1>1, <1>4, <1>5, <1>7

LEMMA MergeOrder ==
  ASSUME WayInv, OrderInv, [Next]_vars, NEW p \in enabled, Merge(p)
  PROVE  OrderInv'
<1>1. p \in Port /\ p[1] \in App
  BY EnabledIsPort DEF WayInv
<1> PICK k \in Nat : k = Merged(p)
  BY <1>1, Sizes
<1>2. PICK r \in Asked : r = Head(xlatedQ[p])
  <2>1. xlatedQ[p] \in Seq(Asked) /\ xlatedQ[p] # <<>>
    BY <1>1 DEF WayInv, Typed, Fitting, Merge
  <2> QED
    BY <2>1, HeadTailProperties
<1>3. /\ r = Made(p, k + 1) /\ k + 1 \in 1 .. Len(sent[p]) /\ Merged(p)' = k + 1
      /\ \A q \in Port, c \in Channel :
           /\ Done(q, c)' = Done(q, c)
           /\ q = p /\ c = r.channel => OnWay(q, c)' = OnWay(q, c) \cup {k + 1}
           /\ ~ (q = p /\ c = r.channel) => OnWay(q, c)' = OnWay(q, c)
  BY <1>2, MergeWay
<1>4. /\ r.isWrite = sent[p][k + 1].isWrite /\ r.channel \in Channel
  BY <1>3 DEF Made, Asked
<1>5. /\ UNCHANGED <<sent, waiting, outQ, respQ, arbTagQ, arbRespQ>>
      /\ \A q \in Port : q # p => xlatedQ'[q] = xlatedQ[q]
      /\ \A q \in Port : q # p => tagQ'[q] = tagQ[q]
  BY <1>1 DEF WayInv, Typed, Merge
<1>6. \A q \in Port, c \in Channel : Back(q, c)' = Back(q, c) /\ Answers(c)' = Answers(c)
  BY <1>5 DEF Back, Answers
<1>7. \A q \in Port, c \in Channel : BackOk(q, c)'
  BY <1>3, <1>6, BackStays DEF OrderInv
<1>8. ASSUME NEW q \in Port, q # p
      PROVE  WaitingOk(q)' /\ \A c \in Channel : TagsOk(q, c)'
  <2>1. WaitingOk(q)' /\ \A c : Tags(q, c)' = Tags(q, c)
    BY <1>5, <1>8, WaitingStays DEF OrderInv
  <2> QED
    BY <1>3, <1>6, <1>8, <2>1, TagsStay DEF OrderInv
<1>9. Unmerged(p)' = Unmerged(p) \ {k + 1}
  <2>1. k + 1 .. Len(sent[p]) = ((k + 1) + 1 .. Len(sent[p])) \cup {k + 1}
    <3>1. Len(sent[p]) \in Nat
      BY <1>1, Sizes
    <3> QED
      BY <1>3, <3>1
  <2>2. k + 1 \notin (k + 1) + 1 .. Len(sent[p])
    OBVIOUS
  <2>3. Unmerged(p)' = {n \in (k + 1) + 1 .. Len(sent[p]) : ~ sent[p][n].isWrite}
    BY <1>3, <1>5 DEF Unmerged
  <2> QED
    BY <2>1, <2>2, <2>3 DEF Unmerged
<1>10. /\ waiting[p] \in Seq(Nat) /\ tagQ[p] \in Seq(Channel)
       /\ Len(waiting[p]) \in Nat /\ Len(tagQ[p]) \in Nat /\ Len(outQ[p]) \in Nat
       /\ Len(outQ[p]) + Len(tagQ[p]) \in Nat
       /\ WaitingOk(p)
  BY <1>1, PortTypes DEF WayInv, OrderInv
<1>11. CASE r.isWrite
  <2>1. tagQ'[p] = tagQ[p]
    BY <1>2, <1>11 DEF Merge
  <2>2. Unmerged(p)' = Unmerged(p)
    BY <1>4, <1>9, <1>11 DEF Unmerged
  <2>3. WaitingOk(p)'
    BY <1>5, <1>10, <2>1, <2>2 DEF WaitingOk
  <2>4. ASSUME NEW c \in Channel PROVE TagsOk(p, c)'
    <3>1. Tags(p, c)' = Tags(p, c)
      BY <1>5, <2>1 DEF Tags
    <3>2. ReadsOnWay(p, c)' = ReadsOnWay(p, c)
      BY <1>1, <1>3, <1>4, <1>5, <1>11 DEF ReadsOnWay
    <3> QED
      BY <1>1, <1>6, <3>1, <3>2 DEF TagsOk, OrderInv
  <2> QED
    BY <1>7, <1>8, <2>3, <2>4 DEF OrderInv
<1>12. CASE ~ r.isWrite
  <2>1. tagQ'[p] = Append(tagQ[p], r.channel)
    BY <1>1, <1>2, <1>12 DEF Merge, WayInv, Typed
  <2> PICK t \in Nat : t = Len(outQ[p]) + Len(tagQ[p])
    BY <1>10
  <2>2. /\ t < Len(waiting[p]) /\ waiting[p][t + 1] = k + 1
        /\ Beyond(waiting[p], t + 1) = Unmerged(p) \ {k + 1}
    BY <1>1, <1>3, <1>4, <1>10, <1>12, NextUntagged
  <2>3. Len(tagQ'[p]) = Len(tagQ[p]) + 1
    BY <1>4, <1>10, <2>1, AppendProperties
  <2>4. /\ Len(outQ[p]) + Len(tagQ'[p]) = t + 1 /\ t + 1 <= Len(waiting[p])
        /\ Len(outQ[p]) + (Len(tagQ[p]) + 1) = t + 1
    <3>1. ASSUME NEW o \in Nat, NEW s \in Nat, NEW l \in Nat, o + s < l
          PROVE  o + (s + 1) = (o + s) + 1 /\ (o + s) + 1 <= l
      BY <3>1
    <3>2. /\ Len(outQ[p]) + (Len(tagQ[p]) + 1) = (Len(outQ[p]) + Len(tagQ[p])) + 1
          /\ (Len(outQ[p]) + Len(tagQ[p])) + 1 <= Len(waiting[p])
      <4>1. Len(outQ[p]) + Len(tagQ[p]) < Len(waiting[p])
        BY <2>2
      <4> QED
        BY <1>10, <3>1, <4>1
    <3> QED
      BY <2>3, <3>2
  <2>5. WaitingOk(p)'
    BY <1>5, <1>9, <1>10, <2>2, <2>4 DEF WaitingOk
  <2>6. /\ Tags(p, r.channel)' = Tags(p, r.channel) \cup {k + 1}
        /\ \A c : c # r.channel => Tags(p, c)' = Tags(p, c)
    <3>0. ASSUME NEW d \in Channel, NEW o \in Nat
          PROVE  /\ TaggedWith(waiting[p], o, Append(tagQ[p], d), d)
                    = TaggedWith(waiting[p], o, tagQ[p], d) \cup {waiting[p][o + (Len(tagQ[p]) + 1)]}
                 /\ \A c : c # d => TaggedWith(waiting[p], o, Append(tagQ[p], d), c)
                                    = TaggedWith(waiting[p], o, tagQ[p], c)
      <4>1. tagQ[p] \in Seq(Channel)
        BY <1>10
      <4>2. TaggedWith(waiting[p], o, Append(tagQ[p], d), d)
            = TaggedWith(waiting[p], o, tagQ[p], d) \cup {waiting[p][o + (Len(tagQ[p]) + 1)]}
        BY <4>1, TaggedWithTag
      <4>3. ASSUME NEW c, c # d
            PROVE  TaggedWith(waiting[p], o, Append(tagQ[p], d), c)
                   = TaggedWith(waiting[p], o, tagQ[p], c)
        BY <4>1, <4>3, TaggedWithTag
      <4> QED
        BY <4>2, <4>3
    <3>1. PICK d \in Channel : d = r.channel
      BY <1>4
    <3>2. PICK o \in Nat : o = Len(outQ[p])
      BY <1>10
    <3>3. /\ TaggedWith(waiting[p], o, Append(tagQ[p], d), d)
             = TaggedWith(waiting[p], o, tagQ[p], d) \cup {waiting[p][o + (Len(tagQ[p]) + 1)]}
          /\ \A c : c # d => TaggedWith(waiting[p], o, Append(tagQ[p], d), c)
                             = TaggedWith(waiting[p], o, tagQ[p], c)
      BY <3>0
    <3> QED
      BY <1>5, <2>1, <2>2, <2>4, <3>1, <3>2, <3>3 DEF Tags
  <2>7. ASSUME NEW c \in Channel PROVE TagsOk(p, c)'
    <3>1. CASE c = r.channel
      <4>1. ReadsOnWay(p, c)' = ReadsOnWay(p, c) \cup {k + 1}
        BY <1>1, <1>3, <1>4, <1>5, <1>12, <3>1 DEF ReadsOnWay
      <4> QED
        BY <1>1, <1>6, <2>6, <3>1, <4>1 DEF TagsOk, OrderInv
    <3>2. CASE c # r.channel
      <4>1. ReadsOnWay(p, c)' = ReadsOnWay(p, c)
        BY <1>1, <1>3, <1>5, <3>2 DEF ReadsOnWay
      <4> QED
        BY <1>1, <1>6, <2>6, <3>2, <4>1 DEF TagsOk, OrderInv
    <3> QED
      BY <3>1, <3>2
  <2> QED
    BY <1>7, <1>8, <2>5, <2>7 DEF OrderInv
<1> QED
  BY <1>11, <1>12

LEMMA ArbitrateOrder ==
  ASSUME WayInv, TagsMatch, OrderInv, [Next]_vars, NEW a \in App, NEW b \in Channel, Arbitrate(a, b)
  PROVE  OrderInv'
<1>1. \A q \in Port, c \in Channel :
        Merged(q)' = Merged(q) /\ OnWay(q, c)' = OnWay(q, c) /\ Done(q, c)' = Done(q, c)
  BY ArbitrateWay
<1>2. \A c \in Channel : Answers(c)' = Answers(c)
  BY ArbitrateAnswers DEF WayInv
<1>3. UNCHANGED <<sent, waiting, xlatedQ, tagQ, respQ, outQ>>
  BY DEF Arbitrate
<1>4. \A q \in Port : WaitingOk(q)' /\ \A c : Tags(q, c)' = Tags(q, c)
  BY <1>3, WaitingStays DEF OrderInv
<1>5. \A q \in Port, c \in Channel : Back(q, c)' = Back(q, c)
  BY <1>3 DEF Back
<1> QED
  BY <1>1, <1>2, <1>4, <1>5, TagsStay, BackStays DEF OrderInv

\* Numbers that come back are of reads the channel executed before those on
\* their way to it.
LEMMA BackBeforeWay ==
  ASSUME WayInv, NEW p \in Port, NEW c \in Channel, BackOk(p, c)
  PROVE  /\ \A n \in Numbers(Back(p, c), p) \cup Numbers(Answers(c), p) :
              n \in Nat /\ n \notin OnWay(p, c) /\ \A m \in OnWay(p, c) : n < m
         /\ \A m \in OnWay(p, c) : m \in Nat
<1>1. \A n \in Done(p, c) : n \in Nat /\ n \notin OnWay(p, c)
  BY DoneSent DEF Done
<1>2. \A n \in Done(p, c), m \in OnWay(p, c) : n < m
  BY DEF WayInv, RequestsInOrder
<1>3. \A m \in OnWay(p, c) : m \in Nat
  BY OnWayMerged
<1> QED
  BY <1>1, <1>2, <1>3 DEF BackOk

LEMMA AccessOrder ==
  ASSUME WayInv, TagsMatch, OrderInv, [Next]_vars, NEW b \in Channel, Access(b)
  PROVE  OrderInv'
<1>1. PICK r \in Asked : r = Head(arbQ[b])
  <2>1. arbQ[b] \in Seq(Asked) /\ arbQ[b] # <<>>
    BY DEF WayInv, Typed, Fitting, Access
  <2> QED
    BY <2>1, HeadTailProperties
<1> PICK e : e = LabelledOne(r.port, Read(r, b))
  OBVIOUS
<1> PICK p : p = r.port
  OBVIOUS
<1>2. /\ Kept(r, b) /\ r.n \in OnWay(p, b)
      /\ OnWay(p, b)' = OnWay(p, b) \ {r.n} /\ Done(p, b)' = Done(p, b) \cup {r.n}
      /\ \A q \in Port, c \in Channel : ~ (q = p /\ c = b) =>
           Done(q, c)' = Done(q, c) /\ OnWay(q, c)' = OnWay(q, c)
  BY <1>1, AccessWay
<1>3. p \in Port /\ r.isWrite = sent[p][r.n].isWrite
  BY <1>2 DEF Kept, Made
<1>4. /\ \A c \in Channel : c # b => Answers(c)' = Answers(c)
      /\ \/ r.isWrite /\ Answers(b)' = Answers(b)
         \/ ~ r.isWrite /\ Answers(b)' = Append(Answers(b), e)
      /\ e \in Addressed
  BY <1>1, AccessAnswers DEF WayInv
<1>5. UNCHANGED <<sent, waiting, xlatedQ, tagQ, respQ, outQ>>
  BY DEF Access
<1>6. \A q \in Port : WaitingOk(q)' /\ \A c : Tags(q, c)' = Tags(q, c)
  BY <1>5, WaitingStays DEF OrderInv
<1>7. \A q \in Port, c \in Channel : Back(q, c)' = Back(q, c)
  BY <1>5 DEF Back
<1>8. Answers(b) \in Seq(Addressed) /\ e.port = p /\ e.n = r.n
  BY AnswersFit DEF WayInv, LabelledOne, Read
<1>9. \A n \in Numbers(Back(p, b), p) \cup Numbers(Answers(b), p) : n < r.n
  BY <1>2, <1>3, BackBeforeWay DEF OrderInv
<1>10. ASSUME NEW q \in Port, NEW c \in Channel, Answers(c)' = Answers(c),
              ~ (q = p /\ c = b) \/ r.isWrite
       PROVE  TagsOk(q, c)' /\ BackOk(q, c)'
  <2>1. ReadsOnWay(q, c)' = ReadsOnWay(q, c)
    <3>1. CASE ~ (q = p /\ c = b)
      BY <1>2, <1>5, <3>1 DEF ReadsOnWay
    <3>2. CASE q = p /\ c = b /\ r.isWrite
      BY <1>2, <1>3, <1>5, <3>2 DEF ReadsOnWay
    <3> QED
      BY <1>10, <3>1, <3>2
  <2>2. Done(q, c) \subseteq Done(q, c)'
    BY <1>2
  <2>3. TagsOk(q, c)'
    BY <1>6, <1>7, <1>10, <2>1 DEF TagsOk, OrderInv
  <2>4. BackOk(q, c)'
    BY <1>7, <1>10, <2>2, BackStays DEF OrderInv
  <2> QED
    BY <2>3, <2>4
<1>11. CASE r.isWrite
  <2>1. \A c \in Channel : Answers(c)' = Answers(c)
    BY <1>4, <1>11
  <2> QED
    BY <1>6, <1>10, <1>11, <2>1 DEF OrderInv
<1>12. CASE ~ r.isWrite
  <2>1. Answers(b)' = Append(Answers(b), e)
    BY <1>4, <1>12
  <2>2. /\ Numbers(Append(Answers(b), e), p) = Numbers(Answers(b), p) \cup {r.n}
        /\ \A q : q # p => Numbers(Append(Answers(b), e), q) = Numbers(Answers(b), q)
    BY SMTT(30), <1>4, <1>8, NumbersAppended
  <2>3. ASSUME NEW q \in Port PROVE Sorted(Append(Answers(b), e), q)
    <3>1. Sorted(Answers(b), q)
      BY DEF OrderInv, BackOk
    <3>2. e.port = q => \A n \in Numbers(Answers(b), q) : n < e.n
      BY <1>8, <1>9
    <3> QED
      BY <1>4, <1>8, <3>1, <3>2, SortedAppended
  <2>4. TagsOk(p, b)' /\ BackOk(p, b)'
    <3>1. ReadsOnWay(p, b)' = ReadsOnWay(p, b) \ {r.n} /\ r.n \in ReadsOnWay(p, b)
      BY <1>2, <1>3, <1>5, <1>12 DEF ReadsOnWay
    <3>2. TagsOk(p, b) /\ BackOk(p, b)
      BY <1>3 DEF OrderInv
    <3>3. TagsOk(p, b)'
      BY <1>3, <1>6, <1>7, <2>1, <2>2, <3>1, <3>2 DEF TagsOk
    <3>4. BackOk(p, b)'
      BY <1>2, <1>3, <1>7, <1>9, <2>1, <2>2, <2>3, <3>2 DEF BackOk
    <3> QED
      BY <3>3, <3>4
  <2>5. ASSUME NEW q \in Port, q # p PROVE TagsOk(q, b)' /\ BackOk(q, b)'
    <3>1. TagsOk(q, b) /\ BackOk(q, b)
      BY DEF OrderInv
    <3>2. ReadsOnWay(q, b)' = ReadsOnWay(q, b)
      BY <1>2, <1>5, <2>5 DEF ReadsOnWay
    <3>3. Done(q, b)' = Done(q, b)
      BY <1>2, <2>5
    <3>4. TagsOk(q, b)'
      BY <1>6, <1>7, <2>1, <2>2, <2>5, <3>1, <3>2 DEF TagsOk
    <3>5. BackOk(q, b)'
      BY <1>7, <2>1, <2>2, <2>3, <2>5, <3>1, <3>3 DEF BackOk
    <3> QED
      BY <3>4, <3>5
  <2>6. ASSUME NEW q \in Port, NEW c \in Channel, c # b PROVE TagsOk(q, c)' /\ BackOk(q, c)'
    BY <1>4, <1>10, <2>6
  <2> QED
    BY <1>6, <2>4, <2>5, <2>6 DEF OrderInv
<1> QED
  BY <1>11, <1>12

\* The first answer on the way back, and what is left when it is taken.
LEMMA BackTail ==
  ASSUME NEW e, NEW queue \in Seq(Addressed), queue # <<>>, e = Head(queue),
         Sorted(queue, e.port), \A n \in Numbers(queue, e.port) : n \in Nat
  PROVE  /\ Sorted(Tail(queue), e.port)
         /\ e.n \in Numbers(queue, e.port)
         /\ Numbers(Tail(queue), e.port) = Numbers(queue, e.port) \ {e.n}
         /\ \A n \in Numbers(queue, e.port) : e.n <= n
         /\ \A n \in Numbers(Tail(queue), e.port) : e.n < n
<1> DEFINE q == e.port
<1>1. Numbers(queue, q) \subseteq Int
  OBVIOUS
<1>2. /\ Sorted(Tail(queue), q)
      /\ e.n \in Numbers(queue, q)
      /\ Numbers(Tail(queue), q) = Numbers(queue, q) \ {e.n}
      /\ \A n \in Numbers(queue, q) : e.n <= n
  BY <1>1, NumbersTail
<1>3. \A n \in Numbers(queue, q) \ {e.n} : e.n \in Numbers(queue, q) /\ e.n <= n => e.n < n
  BY <1>1
<1> QED
  BY <1>2, <1>3

LEMMA BackTailOther ==
  ASSUME NEW q, NEW queue \in Seq(Addressed), queue # <<>>, Head(queue).port # q, Sorted(queue, q),
         \A n \in Numbers(queue, q) : n \in Nat
  PROVE  Sorted(Tail(queue), q) /\ Numbers(Tail(queue), q) = Numbers(queue, q)
<1>1. Numbers(queue, q) \subseteq Int
  OBVIOUS
<1> QED
  BY <1>1, NumbersTail

LEMMA PassedOn ==
  ASSUME NEW A, NEW B, NEW C, NEW n \in B
  PROVE  (A \cup {n}) \cup (B \ {n}) \cup C = A \cup B \cup C
OBVIOUS

LEMMA TakenOut ==
  ASSUME NEW A, NEW B, NEW C, NEW n, n \notin B, n \notin C
  PROVE  (A \cup B \cup C) \ {n} = (A \ {n}) \cup B \cup C
OBVIOUS

\* What Route(b) takes from the arbiter's answers and puts on the port's.
LEMMA RoutePassesOn ==
  ASSUME Typed, TagsMatch, NEW b \in Channel, Route(b)
  PROVE  \E p \in Port, e \in Addressed :
           /\ e.port = p
           /\ \A c \in Channel : c # b => Answers(c)' = Answers(c)
           /\ Answers(b) # <<>> /\ Head(Answers(b)) = e
           /\ Answers(b)' = Tail(Answers(b))
           /\ Back(p, b)' = Append(Back(p, b), e)
           /\ \A q \in Port, c \in Channel : ~ (q = p /\ c = b) => Back(q, c)' = Back(q, c)
<1> PICK p : p = Head(arbTagQ[b])
  OBVIOUS
<1> PICK answer : answer = Head(arbRespQ[b])
  OBVIOUS
<1>1. p \in Port /\ answer \in Answer
  BY RouteAnswers
<1>2. \A c \in Channel : c # b => Answers(c)' = Answers(c)
  BY RouteAnswers
<1>3. /\ respQ'[<<p, b>>] = Append(respQ[<<p, b>>], answer)
      /\ Answers(b) # <<>> /\ Head(Answers(b)) = LabelledOne(p, answer)
  BY RouteAnswers
<1>4. Answers(b)' = Tail(Answers(b))
  BY RouteAnswers
<1>5. /\ respQ'[<<p, b>>] = Append(respQ[<<p, b>>], answer)
      /\ Back(p, b)' = Append(Back(p, b), LabelledOne(p, answer))
  BY SMTT(30), RouteAnswers
<1>6. \A q \in Port, c \in Channel : ~ (q = p /\ c = b) => Back(q, c)' = Back(q, c)
  BY ZenonT(60), RouteAnswers
<1>7. LabelledOne(p, answer) \in Addressed /\ LabelledOne(p, answer).port = p
  BY <1>1 DEF LabelledOne, Addressed, Answer
<1> QED
  BY <1>1, <1>2, <1>3, <1>4, <1>5, <1>6, <1>7

LEMMA RouteOrder ==
  ASSUME WayInv, TagsMatch, OrderInv, [Next]_vars, NEW b \in Channel, Route(b)
  PROVE  OrderInv'
<1>1. PICK p \in Port, e \in Addressed :
        /\ e.port = p
        /\ \A c \in Channel : c # b => Answers(c)' = Answers(c)
        /\ Answers(b) # <<>> /\ Head(Answers(b)) = e
        /\ Answers(b)' = Tail(Answers(b))
        /\ Back(p, b)' = Append(Back(p, b), e)
        /\ \A q \in Port, c \in Channel : ~ (q = p /\ c = b) => Back(q, c)' = Back(q, c)
  BY RoutePassesOn DEF WayInv
<1>2. UNCHANGED <<sent, waiting, xlatedQ, mergeQ, arbQ, tagQ, outQ>>
  BY DEF Route
<1>3. \A q \in Port, c \in Channel : OnWay(q, c)' = OnWay(q, c) /\ Done(q, c)' = Done(q, c)
  BY <1>2, QuietWay
<1>4. \A q \in Port : WaitingOk(q)' /\ \A c : Tags(q, c)' = Tags(q, c)
  BY <1>2, WaitingStays DEF OrderInv
<1>5. \A q \in Port, c \in Channel : ReadsOnWay(q, c)' = ReadsOnWay(q, c)
  BY <1>2, <1>3 DEF ReadsOnWay
<1>6. \A q \in Port, c \in Channel : c # b => TagsOk(q, c)' /\ BackOk(q, c)'
  BY <1>1, <1>3, <1>4, TagsStay, BackStays DEF OrderInv
<1>7. /\ Answers(b) \in Seq(Addressed) /\ Back(p, b) \in Seq(Addressed)
      /\ e \in Addressed /\ e.port = p
  <2>1. Answers(b) \in Seq(Addressed) /\ Back(p, b) \in Seq(Addressed)
    BY <1>1, AnswersFit, PortTypes DEF WayInv
  <2>2. e \in Addressed /\ e.port = p
    BY <1>1
  <2> QED
    BY <2>1, <2>2
<1>8. ASSUME NEW q \in Port
      PROVE  /\ TagsOk(q, b) /\ BackOk(q, b) /\ Sorted(Answers(b), q)
             /\ \A n \in Numbers(Answers(b), q) \cup Numbers(Back(q, b), q) : n \in Nat
  BY BackBeforeWay DEF OrderInv, BackOk
<1>9. ASSUME NEW q \in Port, q # p PROVE TagsOk(q, b)' /\ BackOk(q, b)'
  <2>1. Sorted(Tail(Answers(b)), q) /\ Numbers(Tail(Answers(b)), q) = Numbers(Answers(b), q)
    BY <1>1, <1>7, <1>8, <1>9, BackTailOther
  <2>2. Back(q, b)' = Back(q, b)
    BY <1>1, <1>9
  <2>3. TagsOk(q, b)'
    BY <1>1, <1>4, <1>5, <1>8, <2>1, <2>2 DEF TagsOk
  <2>4. BackOk(q, b)'
    BY <1>1, <1>3, <1>8, <2>1, <2>2 DEF BackOk
  <2> QED
    BY <2>3, <2>4
<1>10. TagsOk(p, b)' /\ BackOk(p, b)'
  <2>1. TagsOk(p, b) /\ BackOk(p, b) /\ Sorted(Answers(b), p)
        /\ \A n \in Numbers(Answers(b), p) : n \in Nat
    BY <1>1, <1>8
  <2>2. /\ Sorted(Tail(Answers(b)), p)
        /\ e.n \in Numbers(Answers(b), p)
        /\ Numbers(Tail(Answers(b)), p) = Numbers(Answers(b), p) \ {e.n}
        /\ \A n \in Numbers(Tail(Answers(b)), p) : e.n < n
    <3>1. Sorted(Answers(b), e.port) /\ \A n \in Numbers(Answers(b), e.port) : n \in Nat
      BY <1>7, <2>1
    <3>2. e = Head(Answers(b)) /\ Answers(b) # <<>> /\ Answers(b) \in Seq(Addressed)
      BY <1>1, <1>7
    <3>3. /\ Sorted(Tail(Answers(b)), e.port)
          /\ e.n \in Numbers(Answers(b), e.port)
          /\ Numbers(Tail(Answers(b)), e.port) = Numbers(Answers(b), e.port) \ {e.n}
          /\ \A n \in Numbers(Tail(Answers(b)), e.port) : e.n < n
      BY <3>1, <3>2, BackTail
    <3> QED
      BY <1>7, <3>3
  <2>3. Numbers(Append(Back(p, b), e), p) = Numbers(Back(p, b), p) \cup {e.n}
    <3>1. Numbers(Append(Back(p, b), e), e.port) = Numbers(Back(p, b), e.port) \cup {e.n}
      BY <1>7, NumbersGained
    <3> QED
      BY <1>7, <3>1
  <2>4. \A k \in Numbers(Back(p, b), p) : k < e.n
    BY <2>1, <2>2 DEF BackOk
  <2>5. Sorted(Append(Back(p, b), e), p)
    <3>1. Sorted(Back(p, b), p)
      BY <2>1 DEF BackOk
    <3> QED
      BY <1>7, <2>4, <3>1, SortedAppended
  <2>6. (Numbers(Back(p, b), p) \cup {e.n}) \cup (Numbers(Answers(b), p) \ {e.n})
          \cup ReadsOnWay(p, b)
        = Numbers(Back(p, b), p) \cup Numbers(Answers(b), p) \cup ReadsOnWay(p, b)
    BY <2>2, PassedOn
  <2>7. TagsOk(p, b)'
    <3>1. Tags(p, b)' = Numbers(Back(p, b), p) \cup Numbers(Answers(b), p) \cup ReadsOnWay(p, b)
      BY <1>1, <1>4, <2>1 DEF TagsOk
    <3>2. Numbers(Back(p, b)', p) = Numbers(Back(p, b), p) \cup {e.n}
      BY <1>1, <2>3
    <3>3. Numbers(Answers(b)', p) = Numbers(Answers(b), p) \ {e.n}
      BY <1>1, <2>2
    <3> QED
      BY <1>1, <1>5, <2>6, <3>1, <3>2, <3>3 DEF TagsOk
  <2>8. \A k \in Numbers(Back(p, b), p) \cup {e.n}, m \in Numbers(Answers(b), p) \ {e.n} : k < m
    BY <2>1, <2>2 DEF BackOk
  <2>9. /\ Numbers(Back(p, b), p) \cup {e.n} \subseteq Done(p, b)
        /\ Numbers(Answers(b), p) \ {e.n} \subseteq Done(p, b)
    BY <2>1, <2>2 DEF BackOk
  <2>10. BackOk(p, b)'
    BY <1>1, <1>3, <2>2, <2>3, <2>5, <2>8, <2>9 DEF BackOk
  <2> QED
    BY <2>7, <2>10
<1> QED
  BY <1>4, <1>6, <1>9, <1>10 DEF OrderInv

LEMMA TaggedWithTailOther ==
  ASSUME NEW numbers \in Seq(Nat), Rising(numbers), NEW out \in Nat,
         NEW tags \in Seq(Channel), tags # <<>>, out + Len(tags) <= Len(numbers),
         NEW c, c # Head(tags)
  PROVE  TaggedWith(numbers, out + 1, Tail(tags), c) = TaggedWith(numbers, out, tags, c)
BY TaggedWithTail

LEMMA CollectOrder ==
  ASSUME WayInv, TagsMatch, OrderInv, [Next]_vars, NEW p \in enabled, Collect(p)
  PROVE  OrderInv'
<1>0. p \in Port
  BY EnabledIsPort DEF WayInv
<1>1. PICK b \in Channel, answer \in Answer :
        /\ tagQ[p] # <<>> /\ b = Head(tagQ[p]) /\ tagQ'[p] = Tail(tagQ[p])
        /\ \A q \in Port : q # p => tagQ'[q] = tagQ[q] /\ outQ'[q] = outQ[q]
        /\ outQ'[p] = Append(outQ[p], answer)
        /\ Back(p, b) # <<>> /\ Head(Back(p, b)) = LabelledOne(p, answer)
        /\ Back(p, b)' = Tail(Back(p, b))
        /\ \A q \in Port, c \in Channel : ~ (q = p /\ c = b) => Back(q, c)' = Back(q, c)
  BY CollectAnswers DEF WayInv
<1>2. UNCHANGED <<sent, waiting, xlatedQ, mergeQ, arbQ, arbTagQ, arbRespQ>>
  BY DEF Collect
<1>3. \A q \in Port, c \in Channel : OnWay(q, c)' = OnWay(q, c) /\ Done(q, c)' = Done(q, c)
  BY <1>2, QuietWay
<1>4. \A c \in Channel : Answers(c)' = Answers(c)
  BY <1>2 DEF Answers
<1>5. \A q \in Port, c \in Channel : ReadsOnWay(q, c)' = ReadsOnWay(q, c)
  BY <1>2, <1>3 DEF ReadsOnWay
<1>6. ASSUME NEW q \in Port, q # p
      PROVE  WaitingOk(q)' /\ \A c \in Channel : TagsOk(q, c)' /\ BackOk(q, c)'
  <2>1. WaitingOk(q)' /\ \A c : Tags(q, c)' = Tags(q, c)
    BY <1>1, <1>2, <1>6, WaitingStays DEF OrderInv
  <2> QED
    BY <1>1, <1>3, <1>4, <1>6, <2>1, TagsStay, BackStays DEF OrderInv
<1> PICK e : e = LabelledOne(p, answer)
  OBVIOUS
<1>7. e.port = p /\ e.n = answer.n /\ e.n \in Nat
  BY DEF LabelledOne, Answer
<1>8. TagsOk(p, b) /\ BackOk(p, b) /\ WaitingOk(p) /\ Back(p, b) \in Seq(Addressed)
  BY <1>0, PortTypes DEF OrderInv, WayInv
<1>9. /\ \A n \in Numbers(Back(p, b), p) \cup Numbers(Answers(b), p) \cup ReadsOnWay(p, b) : n \in Nat
      /\ \A n \in Numbers(Back(p, b), p), m \in Numbers(Answers(b), p) \cup ReadsOnWay(p, b) : n < m
  BY <1>0, <1>8, BackBeforeWay DEF BackOk, ReadsOnWay
<1>10. /\ Sorted(Tail(Back(p, b)), p)
       /\ e.n \in Numbers(Back(p, b), p)
       /\ Numbers(Tail(Back(p, b)), p) = Numbers(Back(p, b), p) \ {e.n}
       /\ \A n \in Numbers(Back(p, b), p) : e.n <= n
  <2>1. /\ Back(p, b) \in Seq(Addressed) /\ Back(p, b) # <<>> /\ e = Head(Back(p, b))
        /\ Sorted(Back(p, b), e.port) /\ \A n \in Numbers(Back(p, b), e.port) : n \in Nat
    BY <1>1, <1>7, <1>8, <1>9 DEF BackOk
  <2>2. /\ Sorted(Tail(Back(p, b)), e.port)
        /\ e.n \in Numbers(Back(p, b), e.port)
        /\ Numbers(Tail(Back(p, b)), e.port) = Numbers(Back(p, b), e.port) \ {e.n}
        /\ \A n \in Numbers(Back(p, b), e.port) : e.n <= n
    BY <2>1, BackTail
  <2> QED
    BY <1>7, <2>2
<1>11. /\ waiting[p] \in Seq(Nat) /\ tagQ[p] \in Seq(Channel) /\ outQ[p] \in Seq(Answer)
       /\ Len(waiting[p]) \in Nat /\ Len(tagQ[p]) \in Nat /\ Len(outQ[p]) \in Nat
       /\ Rising(waiting[p]) /\ Len(outQ[p]) + Len(tagQ[p]) <= Len(waiting[p])
  BY <1>0, <1>8, PortTypes DEF WayInv, WaitingOk
<1>12. /\ waiting[p][Len(outQ[p]) + 1] \in Tags(p, b)
       /\ \A n \in Tags(p, b) : waiting[p][Len(outQ[p]) + 1] <= n
       /\ TaggedWith(waiting[p], Len(outQ[p]) + 1, Tail(tagQ[p]), b)
          = Tags(p, b) \ {waiting[p][Len(outQ[p]) + 1]}
       /\ \A c : c # b => TaggedWith(waiting[p], Len(outQ[p]) + 1, Tail(tagQ[p]), c) = Tags(p, c)
  <2> PICK numbers \in Seq(Nat) : numbers = waiting[p]
    BY <1>11
  <2> PICK tags \in Seq(Channel) : tags = tagQ[p]
    BY <1>11
  <2>1. ASSUME NEW o \in Nat, o + Len(tags) <= Len(numbers)
        PROVE  /\ numbers[o + 1] \in TaggedWith(numbers, o, tags, b)
               /\ \A n \in TaggedWith(numbers, o, tags, b) : numbers[o + 1] <= n
               /\ TaggedWith(numbers, o + 1, Tail(tags), b)
                  = TaggedWith(numbers, o, tags, b) \ {numbers[o + 1]}
               /\ \A c : c # b => TaggedWith(numbers, o + 1, Tail(tags), c)
                                  = TaggedWith(numbers, o, tags, c)
    <3>1. Rising(numbers) /\ tags # <<>> /\ Head(tags) = b
      BY <1>1, <1>11
    <3>2. /\ numbers[o + 1] \in TaggedWith(numbers, o, tags, Head(tags))
          /\ \A n \in TaggedWith(numbers, o, tags, Head(tags)) : numbers[o + 1] <= n
          /\ TaggedWith(numbers, o + 1, Tail(tags), Head(tags))
             = TaggedWith(numbers, o, tags, Head(tags)) \ {numbers[o + 1]}
      BY <2>1, <3>1, TaggedWithTail
    <3>3. ASSUME NEW c, c # Head(tags)
          PROVE  TaggedWith(numbers, o + 1, Tail(tags), c) = TaggedWith(numbers, o, tags, c)
      BY <2>1, <3>1, <3>3, TaggedWithTailOther
    <3> QED
      BY <3>1, <3>2, <3>3
  <2>2. Len(outQ[p]) \in Nat /\ Len(outQ[p]) + Len(tags) <= Len(numbers)
    BY <1>11
  <2> QED
    BY <2>1, <2>2 DEF Tags
<1>13. /\ Len(outQ'[p]) = Len(outQ[p]) + 1 /\ outQ'[p][Len(outQ[p]) + 1] = answer
       /\ \A i \in 1 .. Len(outQ[p]) : outQ'[p][i] = outQ[p][i]
       /\ Len(tagQ'[p]) = Len(tagQ[p]) - 1
  BY <1>1, <1>11, AppendProperties, HeadTailProperties
<1>14. /\ \A n \in Tags(p, b) : e.n <= n
       /\ e.n \in Tags(p, b)
  <2>1. \A n \in Numbers(Answers(b), p) \cup ReadsOnWay(p, b) : e.n <= n
    BY <1>7, <1>9, <1>10
  <2> QED
    BY <1>8, <1>10, <2>1 DEF TagsOk
<1>15. waiting[p][Len(outQ[p]) + 1] = e.n
  <2> PICK w : w = waiting[p][Len(outQ[p]) + 1]
    OBVIOUS
  <2>1. w <= e.n /\ e.n <= w
    BY <1>12, <1>14
  <2>2. w \in Nat
    <3>1. ASSUME NEW o \in Nat, NEW t \in Nat, NEW l \in Nat, o + t <= l, t > 0
          PROVE  o + 1 \in 1 .. l
      BY <3>1
    <3>2. Len(tagQ[p]) > 0
      BY <1>1, <1>11, EmptySeq
    <3>3. Len(outQ[p]) + 1 \in 1 .. Len(waiting[p])
      BY <1>11, <3>1, <3>2
    <3> QED
      BY <1>11, <3>3, ElementOfSeq
  <2> QED
    BY <1>7, <2>1, <2>2, BothWays
<1>16. WaitingOk(p)'
  <2>1. Unmerged(p)' = Unmerged(p)
    BY <1>2 DEF Unmerged, Merged
  <2>2. Len(outQ'[p]) + Len(tagQ'[p]) = Len(outQ[p]) + Len(tagQ[p])
    <3>1. \A o, t \in Nat : (o + 1) + (t - 1) = o + t
      OBVIOUS
    <3> QED
      BY <1>11, <1>13, <3>1
  <2>3. ASSUME NEW i \in 1 .. Len(outQ'[p]) PROVE outQ'[p][i].n = waiting[p][i]
    <3>1. i \in 1 .. Len(outQ[p]) \/ i = Len(outQ[p]) + 1
      BY <1>11, <1>13
    <3> QED
      BY <1>7, <1>8, <1>13, <1>15, <3>1 DEF WaitingOk
  <2> QED
    BY <1>2, <1>8, <2>1, <2>2, <2>3 DEF WaitingOk
<1>17. Tags(p, b)' = Tags(p, b) \ {e.n} /\ \A c : c # b => Tags(p, c)' = Tags(p, c)
  BY <1>1, <1>2, <1>12, <1>13, <1>15 DEF Tags
<1>18. TagsOk(p, b)'
  <2>1. e.n \notin Numbers(Answers(b), p) \cup ReadsOnWay(p, b)
    <3>1. \A m \in Numbers(Answers(b), p) \cup ReadsOnWay(p, b) : e.n < m
      BY <1>9, <1>10
    <3>2. ~ (e.n < e.n)
      BY <1>7
    <3> QED
      BY <3>1, <3>2
  <2>2. Tags(p, b)' = (Numbers(Back(p, b), p) \cup Numbers(Answers(b), p) \cup ReadsOnWay(p, b)) \ {e.n}
    BY <1>8, <1>17 DEF TagsOk
  <2>3. Tags(p, b)' = (Numbers(Back(p, b), p) \ {e.n}) \cup Numbers(Answers(b), p) \cup ReadsOnWay(p, b)
    BY <2>1, <2>2, TakenOut
  <2>4. Numbers(Back(p, b)', p) = Numbers(Back(p, b), p) \ {e.n}
    BY <1>1, <1>10
  <2> QED
    BY <1>0, <1>4, <1>5, <2>3, <2>4 DEF TagsOk
<1>19. BackOk(p, b)'
  BY <1>0, <1>1, <1>3, <1>4, <1>8, <1>10 DEF BackOk
<1>20. ASSUME NEW c \in Channel, c # b PROVE TagsOk(p, c)' /\ BackOk(p, c)'
  BY <1>0, <1>1, <1>3, <1>4, <1>17, <1>20, TagsStay, BackStays DEF OrderInv
<1> QED
  BY <1>6, <1>16, <1>18, <1>19, <1>20 DEF OrderInv

\* The app takes the answer of the read that has waited longest.
LEMMA TakeOrder ==
  ASSUME WayInv, TagsMatch, OrderInv, [Next]_vars, NEW p \in enabled, Take(p)
  PROVE  OrderInv' /\ waiting[p] # <<>>
<1>1. p \in Port
  BY EnabledIsPort DEF WayInv
<1>2. /\ outQ[p] # <<>> /\ outQ'[p] = Tail(outQ[p]) /\ waiting'[p] = Tail(waiting[p])
      /\ \A q \in Port : q # p => outQ'[q] = outQ[q] /\ waiting'[q] = waiting[q]
      /\ UNCHANGED <<sent, xlatedQ, mergeQ, arbQ, arbTagQ, arbRespQ, tagQ, respQ>>
  BY <1>1 DEF WayInv, Typed, Take
<1>3. \A q \in Port, c \in Channel : OnWay(q, c)' = OnWay(q, c) /\ Done(q, c)' = Done(q, c)
  BY <1>2, QuietWay
<1>4. \A q \in Port, c \in Channel : Answers(c)' = Answers(c) /\ Back(q, c)' = Back(q, c)
  BY <1>2 DEF Answers, Back
<1>5. WaitingOk(p)
  BY <1>1 DEF OrderInv
<1>6. /\ waiting[p] \in Seq(Nat) /\ tagQ[p] \in Seq(Channel) /\ outQ[p] \in Seq(Answer)
      /\ Len(waiting[p]) \in Nat /\ Len(tagQ[p]) \in Nat /\ Len(outQ[p]) \in Nat
      /\ Rising(waiting[p]) /\ Len(outQ[p]) + Len(tagQ[p]) <= Len(waiting[p])
  BY <1>1, <1>5, PortTypes DEF WayInv, WaitingOk
<1>7. Len(outQ[p]) > 0
  BY <1>2, <1>6, EmptySeq
<1>8. /\ Len(Tail(waiting[p])) = Len(waiting[p]) - 1
      /\ \A i \in 1 .. Len(waiting[p]) - 1 : Tail(waiting[p])[i] = waiting[p][i + 1]
      /\ Rising(Tail(waiting[p]))
      /\ \A c : TaggedWith(Tail(waiting[p]), Len(outQ[p]) - 1, tagQ[p], c) = Tags(p, c)
      /\ Beyond(Tail(waiting[p]), (Len(outQ[p]) - 1) + Len(tagQ[p]))
         = Beyond(waiting[p], Len(outQ[p]) + Len(tagQ[p]))
  BY <1>6, <1>7, WaitingTail DEF Tags
<1>9. /\ Len(outQ'[p]) = Len(outQ[p]) - 1
      /\ \A i \in 1 .. Len(outQ[p]) - 1 : outQ'[p][i] = outQ[p][i + 1]
  BY <1>2, <1>6, HeadTailProperties
<1>10. ASSUME NEW o \in Nat, NEW t \in Nat, NEW l \in Nat, o > 0, o + t <= l
       PROVE  /\ l > 0 /\ (o - 1) + t <= l - 1
              /\ \A i \in 1 .. l - 1 : i + 1 \in 1 .. l
              /\ \A i \in 1 .. o - 1 : i + 1 \in 1 .. o /\ i \in 1 .. l - 1
  BY <1>10
<1>11. /\ Len(waiting[p]) > 0
       /\ (Len(outQ[p]) - 1) + Len(tagQ[p]) <= Len(waiting[p]) - 1
       /\ \A i \in 1 .. Len(waiting[p]) - 1 : i + 1 \in 1 .. Len(waiting[p])
       /\ \A i \in 1 .. Len(outQ[p]) - 1 :
            i + 1 \in 1 .. Len(outQ[p]) /\ i \in 1 .. Len(waiting[p]) - 1
  BY <1>6, <1>7, <1>10
<1>12. Unmerged(p)' = Unmerged(p)
  BY <1>2 DEF Unmerged, Merged
<1>13. WaitingOk(p)'
  <2>1. \A i \in 1 .. Len(waiting'[p]) : waiting'[p][i] \in 1 .. Len(sent'[p])
    BY <1>2, <1>5, <1>8, <1>11 DEF WaitingOk
  <2>2. \A i \in 1 .. Len(outQ'[p]) : outQ'[p][i].n = waiting'[p][i]
    BY <1>2, <1>5, <1>8, <1>9, <1>11 DEF WaitingOk
  <2>3. Len(outQ'[p]) + Len(tagQ'[p]) <= Len(waiting'[p])
    BY <1>2, <1>8, <1>9, <1>11
  <2>4. Beyond(waiting'[p], Len(outQ'[p]) + Len(tagQ'[p])) = Unmerged(p)'
    BY <1>2, <1>5, <1>8, <1>9, <1>12 DEF WaitingOk
  <2>5. Rising(waiting'[p])
    BY <1>2, <1>8
  <2> QED
    BY <2>1, <2>2, <2>3, <2>4, <2>5 DEF WaitingOk
<1>14. \A c : Tags(p, c)' = Tags(p, c)
  BY <1>2, <1>8, <1>9 DEF Tags
<1>15. \A q \in Port : WaitingOk(q)' /\ \A c : Tags(q, c)' = Tags(q, c)
  BY <1>2, <1>13, <1>14, WaitingStays DEF OrderInv
<1>16. OrderInv'
  BY <1>3, <1>4, <1>15, TagsStay, BackStays DEF OrderInv
<1>17. waiting[p] # <<>>
  BY <1>11, EmptySeq
<1> QED
  BY <1>16, <1>17

LEMMA StutterOrder ==
  ASSUME WayInv, OrderInv, [Next]_vars, UNCHANGED vars
  PROVE  OrderInv'
<1>1. UNCHANGED <<sent, waiting, xlatedQ, mergeQ, arbQ, arbTagQ, arbRespQ, tagQ, respQ, outQ>>
  BY DEF vars
<1>2. \A q \in Port, c \in Channel : OnWay(q, c)' = OnWay(q, c) /\ Done(q, c)' = Done(q, c)
  BY <1>1, QuietWay
<1>3. \A q \in Port, c \in Channel : Answers(c)' = Answers(c) /\ Back(q, c)' = Back(q, c)
  BY <1>1 DEF Answers, Back
<1>4. \A q \in Port : WaitingOk(q)' /\ \A c : Tags(q, c)' = Tags(q, c)
  BY <1>1, WaitingStays DEF OrderInv
<1> QED
  BY <1>2, <1>3, <1>4, TagsStay, BackStays DEF OrderInv

\* The first elements of a sequence.
LEMMA FirstOnes ==
  ASSUME NEW S, NEW s \in Seq(S), NEW k \in Nat, k <= Len(s)
  PROVE  /\ SubSeq(s, 1, k) \in Seq(S) /\ Len(SubSeq(s, 1, k)) = k
         /\ \A i \in 1 .. k : SubSeq(s, 1, k)[i] = s[i]
<1>1. \A i \in 1 .. k : s[i] \in S
  BY LenProperties, ElementOfSeq
<1>2. /\ SubSeq(s, 1, k) \in Seq(S)
      /\ Len(SubSeq(s, 1, k)) = IF 1 <= k THEN k - 1 + 1 ELSE 0
      /\ \A i \in 1 .. k - 1 + 1 : SubSeq(s, 1, k)[i] = s[1 + i - 1]
  BY <1>1, SubSeqProperties
<1>3. (IF 1 <= k THEN k - 1 + 1 ELSE 0) = k /\ k - 1 + 1 = k /\ \A i \in 1 .. k : 1 + i - 1 = i
  OBVIOUS
<1> QED
  BY <1>2, <1>3

LEMMA SameFirstOnes ==
  ASSUME NEW s \in Seq(Nat), NEW t \in Seq(Nat), NEW k \in Nat, k <= Len(s), k <= Len(t),
         \A i \in 1 .. k : s[i] = t[i]
  PROVE  SubSeq(s, 1, k) = SubSeq(t, 1, k)
<1>1. /\ SubSeq(s, 1, k) \in Seq(Nat) /\ Len(SubSeq(s, 1, k)) = k
      /\ \A i \in 1 .. k : SubSeq(s, 1, k)[i] = s[i]
  BY FirstOnes
<1>2. /\ SubSeq(t, 1, k) \in Seq(Nat) /\ Len(SubSeq(t, 1, k)) = k
      /\ \A i \in 1 .. k : SubSeq(t, 1, k)[i] = t[i]
  BY FirstOnes
<1> PICK a : a = SubSeq(s, 1, k)
  OBVIOUS
<1> PICK b : b = SubSeq(t, 1, k)
  OBVIOUS
<1>3. a \in Seq(Nat) /\ b \in Seq(Nat) /\ Len(a) = Len(b) /\ \A i \in 1 .. Len(a) : a[i] = b[i]
  BY <1>1, <1>2
<1> QED
  BY <1>3, SeqEqual

LEMMA IsPrefixByElements ==
  ASSUME NEW s \in Seq(Nat), NEW t \in Seq(Nat), Len(s) <= Len(t),
         \A i \in 1 .. Len(s) : s[i] = t[i]
  PROVE  IsPrefix(s, t)
<1> PICK k \in Nat : k = Len(s)
  BY LenProperties
<1>1. k <= Len(s)
  OBVIOUS
<1>2. SubSeq(s, 1, k) = SubSeq(t, 1, k)
  BY <1>1, SameFirstOnes
<1> QED
  BY <1>2 DEF IsPrefix

LEMMA OrderImplies ==
  ASSUME Typed, OrderInv
  PROVE  AnswersInOrder
<1> SUFFICES ASSUME NEW p \in Port
             PROVE  IsPrefix([i \in DOMAIN outQ[p] |-> outQ[p][i].n], waiting[p])
  BY DEF AnswersInOrder
<1> PICK s : s = [i \in DOMAIN outQ[p] |-> outQ[p][i].n]
  OBVIOUS
<1> PICK w \in Seq(Nat) : w = waiting[p]
  BY PortTypes
<1>1. /\ outQ[p] \in Seq(Answer) /\ Len(outQ[p]) \in Nat /\ Len(tagQ[p]) \in Nat
      /\ DOMAIN outQ[p] = 1 .. Len(outQ[p])
      /\ \A i \in 1 .. Len(outQ[p]) : outQ[p][i] \in Answer
  BY PortTypes, LenProperties, ElementOfSeq
<1> PICK o \in Nat : o = Len(outQ[p])
  BY <1>1
<1>2. /\ o <= Len(w) /\ \A i \in 1 .. o : s[i] = w[i] /\ s[i] \in Nat
  <2>1. Len(outQ[p]) + Len(tagQ[p]) <= Len(waiting[p]) /\ Len(w) \in Nat
    BY LenProperties DEF OrderInv, WaitingOk
  <2>2. ASSUME NEW t \in Nat, NEW l \in Nat, NEW k \in Nat, k + t <= l PROVE k <= l
    BY <2>2
  <2>3. o <= Len(w)
    BY <1>1, <2>1, <2>2
  <2>4. \A i \in 1 .. o : outQ[p][i].n = w[i]
    BY DEF OrderInv, WaitingOk
  <2> QED
    BY <1>1, <2>3, <2>4 DEF Answer
<1>3. s \in Seq(Nat) /\ Len(s) = o
  <2>1. s \in [1 .. o -> Nat] /\ DOMAIN s = 1 .. o
    BY <1>1, <1>2
  <2>2. s \in Seq(Nat)
    BY ZenonT(30), <2>1, SeqDef
  <2>3. DOMAIN s = 1 .. Len(s) /\ Len(s) \in Nat
    BY <2>2, LenProperties
  <2> QED
    BY <2>1, <2>2, <2>3
<1> QED
  BY <1>2, <1>3, IsPrefixByElements

-----------------------------------------------------------------------------
(* Every read that was given a tag is in one place: merged, accepted by the *)
(* channel's arbiter, or answered; so the answers of a channel that wait at *)
(* a port never outnumber the port's tags.                                 *)
ReadsBy(p) == {r \in Asked : r.port = p /\ ~ r.isWrite}

Merging(p, c)  == Held(mergeQ[<<p[1], c>>], ReadsBy(p))
Asking(p, c)   == Held(arbTagQ[c], {p})
Answered(p, c) == Len(respQ[<<p, c>>])
Reserved(p, c) == Held(tagQ[p], {c})

RoomKept ==
  \A p \in Port, c \in Channel : Answered(p, c) + Asking(p, c) + Merging(p, c) = Reserved(p, c)

LEMMA RoomTypes ==
  ASSUME Typed, NEW p \in Port, NEW c \in Channel
  PROVE  /\ Merging(p, c) \in Nat /\ Asking(p, c) \in Nat
         /\ Answered(p, c) \in Nat /\ Reserved(p, c) \in Nat
         /\ Reserved(p, c) <= Len(tagQ[p]) /\ Len(tagQ[p]) \in Nat /\ Len(tagQ[p]) <= TagDepth
<1>1. PICK pc \in App \X Channel : pc = <<p[1], c>>
  BY DEF Port
<1>2. PICK qc \in Port \X Channel : qc = <<p, c>>
  OBVIOUS
<1>3. /\ mergeQ[pc] \in Seq(Asked) /\ arbTagQ[c] \in Seq(Port)
      /\ respQ[qc] \in Seq(Answer) /\ tagQ[p] \in Seq(Channel) /\ Len(tagQ[p]) <= TagDepth
  BY DEF Typed, Fitting
<1>4. Held(mergeQ[pc], ReadsBy(p)) \in Nat
  BY <1>3, HeldType
<1>5. Held(arbTagQ[c], {p}) \in Nat
  BY <1>3, HeldType
<1>6. Held(tagQ[p], {c}) \in Nat /\ Held(tagQ[p], {c}) <= Len(tagQ[p])
  BY <1>3, HeldType
<1>7. Len(respQ[qc]) \in Nat /\ Len(tagQ[p]) \in Nat
  BY <1>3, LenProperties
<1> QED
  BY <1>1, <1>2, <1>3, <1>4, <1>5, <1>6, <1>7 DEF Merging, Asking, Answered, Reserved

LEMMA MovedOn ==
  ASSUME NEW x \in Nat, NEW y \in Nat, NEW z \in Nat, NEW w \in Nat, x + y + z = w
  PROVE  /\ x + y + (z + 1) = w + 1
         /\ \A m \in Nat : z = m + 1 => x + (y + 1) + m = w
         /\ \A m \in Nat : y = m + 1 => (x + 1) + m + z = w
         /\ \A m \in Nat, v \in Nat : x = m + 1 /\ w = v + 1 => m + y + z = v
OBVIOUS

LEMMA RoomStays ==
  ASSUME NEW p \in Port, NEW c \in Channel, RoomKept,
         Merging(p, c)' = Merging(p, c), Asking(p, c)' = Asking(p, c),
         Answered(p, c)' = Answered(p, c), Reserved(p, c)' = Reserved(p, c)
  PROVE  Answered(p, c)' + Asking(p, c)' + Merging(p, c)' = Reserved(p, c)'
BY DEF RoomKept

LEMMA QuietRoom ==
  ASSUME RoomKept, UNCHANGED <<mergeQ, arbTagQ, respQ, tagQ>>
  PROVE  RoomKept'
BY DEF RoomKept, Merging, Asking, Answered, Reserved

LEMMA RoomAppended ==
  ASSUME NEW Entry, NEW queue \in Seq(Entry), NEW data \in Entry, NEW S
  PROVE  /\ data \in S => Held(Append(queue, data), S) = Held(queue, S) + 1
         /\ data \notin S => Held(Append(queue, data), S) = Held(queue, S)
<1>1. Held(queue, S) \in Nat
  BY HeldType
<1>2. Held(Append(queue, data), S) = Held(queue, S) + (IF data \in S THEN 1 ELSE 0)
  BY HeldAppended
<1> QED
  BY <1>1, <1>2

LEMMA RoomTail ==
  ASSUME NEW Entry, NEW queue \in Seq(Entry), queue # <<>>, NEW S
  PROVE  /\ Held(Tail(queue), S) \in Nat
         /\ Head(queue) \in S => Held(queue, S) = Held(Tail(queue), S) + 1
         /\ Head(queue) \notin S => Held(queue, S) = Held(Tail(queue), S)
<1>1. Held(queue, S) \in Nat /\ Held(Tail(queue), S) \in Nat
  BY HeldType, HeadTailProperties
<1>2. Held(queue, S) = Held(Tail(queue), S) + (IF Head(queue) \in S THEN 1 ELSE 0)
  BY HeldTail
<1> QED
  BY <1>1, <1>2

LEMMA MergeKeepsRoom ==
  ASSUME WayInv, [Next]_vars, RoomKept, NEW p \in enabled, Merge(p)
  PROVE  RoomKept'
<1>1. p \in Port /\ p[1] \in App
  BY EnabledIsPort DEF WayInv
<1>2. PICK k \in Nat : k = Merged(p)
  BY <1>1, Sizes
<1>3. PICK r \in Asked : r = Head(xlatedQ[p])
  BY <1>1, HeadTailProperties DEF WayInv, Typed, Fitting, Merge
<1>4. r.port = p /\ r.channel \in Channel
  <2>1. r = Made(p, k + 1)
    BY <1>2, <1>3, MergeWay
  <2> QED
    BY <2>1 DEF Made, Asked
<1>5. PICK ac \in App \X Channel : ac = <<p[1], r.channel>>
  BY <1>1, <1>4
<1>6. /\ mergeQ[ac] \in Seq(Asked) /\ mergeQ'[ac] = Append(mergeQ[ac], r)
      /\ \A bd \in App \X Channel : bd # ac => mergeQ'[bd] = mergeQ[bd]
      /\ UNCHANGED <<arbTagQ, respQ>>
  BY <1>3, <1>5 DEF WayInv, Typed, Fitting, Merge
<1>7. /\ tagQ[p] \in Seq(Channel)
      /\ ~ r.isWrite => tagQ'[p] = Append(tagQ[p], r.channel)
      /\ \A q \in Port : q # p \/ r.isWrite => tagQ'[q] = tagQ[q]
  BY <1>1, <1>3 DEF WayInv, Typed, Fitting, Merge
<1>8. ASSUME NEW q \in Port, NEW c \in Channel
      PROVE  /\ Asking(q, c)' = Asking(q, c) /\ Answered(q, c)' = Answered(q, c)
             /\ q = p /\ c = r.channel /\ ~ r.isWrite =>
                  Merging(q, c)' = Merging(q, c) + 1 /\ Reserved(q, c)' = Reserved(q, c) + 1
             /\ ~ (q = p /\ c = r.channel /\ ~ r.isWrite) =>
                  Merging(q, c)' = Merging(q, c) /\ Reserved(q, c)' = Reserved(q, c)
  <2>1. Asking(q, c)' = Asking(q, c) /\ Answered(q, c)' = Answered(q, c)
    BY <1>6 DEF Asking, Answered
  <2>2. PICK qc \in App \X Channel : qc = <<q[1], c>>
    BY DEF Port
  <2>3. CASE q = p /\ c = r.channel /\ ~ r.isWrite
    <3>1. Held(Append(mergeQ[ac], r), ReadsBy(p)) = Held(mergeQ[ac], ReadsBy(p)) + 1
      <4>1. r \in ReadsBy(p)
        BY <1>4, <2>3 DEF ReadsBy
      <4> QED
        BY <1>6, <4>1, RoomAppended
    <3>2. Held(Append(tagQ[p], r.channel), {c}) = Held(tagQ[p], {c}) + 1
      BY <1>4, <1>7, <2>3, RoomAppended
    <3>3. Merging(q, c)' = Merging(q, c) + 1
      BY <1>5, <1>6, <2>3, <3>1 DEF Merging
    <3>4. Reserved(q, c)' = Reserved(q, c) + 1
      BY <1>7, <2>3, <3>2 DEF Reserved
    <3> QED
      BY <2>1, <2>3, <3>3, <3>4
  <2>4. CASE ~ (q = p /\ c = r.channel /\ ~ r.isWrite)
    <3>1. Merging(q, c)' = Merging(q, c)
      <4>1. CASE qc = ac
        <5>1. r \notin ReadsBy(q)
          BY <1>4, <1>5, <2>2, <2>4, <4>1 DEF ReadsBy
        <5>2. Held(Append(mergeQ[ac], r), ReadsBy(q)) = Held(mergeQ[ac], ReadsBy(q))
          BY <1>6, <5>1, RoomAppended
        <5> QED
          BY <1>6, <2>2, <4>1, <5>2 DEF Merging
      <4>2. CASE qc # ac
        BY <1>6, <2>2, <4>2 DEF Merging
      <4> QED
        BY <4>1, <4>2
    <3>2. Reserved(q, c)' = Reserved(q, c)
      <4>1. CASE q # p \/ r.isWrite
        BY <1>7, <4>1 DEF Reserved
      <4>2. CASE q = p /\ ~ r.isWrite
        <5>1. r.channel \notin {c}
          BY <2>4, <4>2
        <5>2. Held(Append(tagQ[p], r.channel), {c}) = Held(tagQ[p], {c})
          BY <1>4, <1>7, <5>1, RoomAppended
        <5> QED
          BY <1>7, <4>2, <5>2 DEF Reserved
      <4> QED
        BY <4>1, <4>2
    <3> QED
      BY <2>1, <2>4, <3>1, <3>2
  <2> QED
    BY <2>3, <2>4
<1>9. ASSUME NEW q \in Port, NEW c \in Channel
      PROVE  Answered(q, c)' + Asking(q, c)' + Merging(q, c)' = Reserved(q, c)'
  <2>1. CASE ~ (q = p /\ c = r.channel /\ ~ r.isWrite)
    BY <1>8, <2>1, RoomStays
  <2>2. CASE q = p /\ c = r.channel /\ ~ r.isWrite
    <3>1. Answered(q, c) + Asking(q, c) + (Merging(q, c) + 1) = Reserved(q, c) + 1
      BY RoomTypes, MovedOn DEF RoomKept, WayInv
    <3> QED
      BY <1>8, <2>2, <3>1
  <2> QED
    BY <2>1, <2>2
<1> QED
  BY <1>9 DEF RoomKept

LEMMA ArbitrateKeepsRoom ==
  ASSUME WayInv, RoomKept, NEW a \in App, NEW b \in Channel, Arbitrate(a, b)
  PROVE  RoomKept'
<1>1. PICK ab \in App \X Channel : ab = <<a, b>>
  OBVIOUS
<1>2. /\ mergeQ[ab] \in Seq(Asked) /\ mergeQ[ab] # <<>> /\ mergeQ'[ab] = Tail(mergeQ[ab])
      /\ \A bd \in App \X Channel : bd # ab => mergeQ'[bd] = mergeQ[bd]
      /\ UNCHANGED <<tagQ, respQ>>
  BY <1>1 DEF WayInv, Typed, Fitting, Arbitrate
<1>3. PICK r \in Asked : r = Head(mergeQ[ab])
  BY <1>2, HeadTailProperties
<1>4. r.port \in Port /\ r.port[1] = a
  <2>1. r \in Entries(mergeQ[ab])
    BY <1>2, <1>3, EntriesTail
  <2> QED
    BY <1>1, <1>3, <2>1 DEF WayInv, RequestsKept, Asked
<1>5. /\ arbTagQ[b] \in Seq(Port)
      /\ ~ r.isWrite => arbTagQ'[b] = Append(arbTagQ[b], r.port)
      /\ \A c \in Channel : c # b \/ r.isWrite => arbTagQ'[c] = arbTagQ[c]
  BY <1>1, <1>3 DEF WayInv, Typed, Fitting, Arbitrate
<1>6. ASSUME NEW q \in Port, NEW c \in Channel
      PROVE  /\ Reserved(q, c)' = Reserved(q, c) /\ Answered(q, c)' = Answered(q, c)
             /\ Merging(q, c)' \in Nat
             /\ q = r.port /\ c = b /\ ~ r.isWrite =>
                  Merging(q, c) = Merging(q, c)' + 1 /\ Asking(q, c)' = Asking(q, c) + 1
             /\ ~ (q = r.port /\ c = b /\ ~ r.isWrite) =>
                  Merging(q, c)' = Merging(q, c) /\ Asking(q, c)' = Asking(q, c)
  <2>1. Reserved(q, c)' = Reserved(q, c) /\ Answered(q, c)' = Answered(q, c)
    BY <1>2 DEF Reserved, Answered
  <2>2. PICK qc \in App \X Channel : qc = <<q[1], c>>
    BY DEF Port
  <2>3. Tail(mergeQ[ab]) \in Seq(Asked) /\ mergeQ[qc] \in Seq(Asked)
    BY <1>2, HeadTailProperties DEF WayInv, Typed, Fitting
  <2>4. mergeQ'[qc] \in Seq(Asked)
    BY <1>2, <2>3
  <2>5. Merging(q, c)' \in Nat
    BY <2>2, <2>4, HeldType DEF Merging
  <2>6. CASE q = r.port /\ c = b /\ ~ r.isWrite
    <3>1. Held(mergeQ[ab], ReadsBy(q)) = Held(Tail(mergeQ[ab]), ReadsBy(q)) + 1
      <4>1. Head(mergeQ[ab]) \in ReadsBy(q)
        BY <1>3, <2>6 DEF ReadsBy
      <4> QED
        BY <1>2, <4>1, RoomTail
    <3>2. Held(Append(arbTagQ[b], r.port), {q}) = Held(arbTagQ[b], {q}) + 1
      BY <1>4, <1>5, <2>6, RoomAppended
    <3>3. Merging(q, c) = Merging(q, c)' + 1
      BY <1>1, <1>2, <1>4, <2>6, <3>1 DEF Merging
    <3>4. Asking(q, c)' = Asking(q, c) + 1
      BY <1>5, <2>6, <3>2 DEF Asking
    <3> QED
      BY <2>1, <2>5, <2>6, <3>3, <3>4
  <2>7. CASE ~ (q = r.port /\ c = b /\ ~ r.isWrite)
    <3>1. Merging(q, c)' = Merging(q, c)
      <4>1. CASE qc = ab
        <5>1. Head(mergeQ[ab]) \notin ReadsBy(q)
          BY <1>1, <1>3, <2>2, <2>7, <4>1 DEF ReadsBy
        <5>2. Held(mergeQ[ab], ReadsBy(q)) = Held(Tail(mergeQ[ab]), ReadsBy(q))
          BY <1>2, <5>1, RoomTail
        <5> QED
          BY <1>2, <2>2, <4>1, <5>2 DEF Merging
      <4>2. CASE qc # ab
        BY <1>2, <2>2, <4>2 DEF Merging
      <4> QED
        BY <4>1, <4>2
    <3>2. Asking(q, c)' = Asking(q, c)
      <4>1. CASE c # b \/ r.isWrite
        BY <1>5, <4>1 DEF Asking
      <4>2. CASE c = b /\ ~ r.isWrite
        <5>1. r.port \notin {q}
          BY <2>7, <4>2
        <5>2. Held(Append(arbTagQ[b], r.port), {q}) = Held(arbTagQ[b], {q})
          BY <1>4, <1>5, <5>1, RoomAppended
        <5> QED
          BY <1>5, <4>2, <5>2 DEF Asking
      <4> QED
        BY <4>1, <4>2
    <3> QED
      BY <2>1, <2>5, <2>7, <3>1, <3>2
  <2> QED
    BY <2>6, <2>7
<1>7. ASSUME NEW q \in Port, NEW c \in Channel
      PROVE  Answered(q, c)' + Asking(q, c)' + Merging(q, c)' = Reserved(q, c)'
  <2>1. CASE ~ (q = r.port /\ c = b /\ ~ r.isWrite)
    BY <1>6, <2>1, RoomStays
  <2>2. CASE q = r.port /\ c = b /\ ~ r.isWrite
    <3> PICK m \in Nat : m = Merging(q, c)'
      BY <1>6
    <3>1. Answered(q, c) + (Asking(q, c) + 1) + m = Reserved(q, c)
      <4>1. Merging(q, c) = m + 1
        BY <1>6, <2>2
      <4>2. /\ Merging(q, c) \in Nat /\ Asking(q, c) \in Nat
            /\ Answered(q, c) \in Nat /\ Reserved(q, c) \in Nat
            /\ Answered(q, c) + Asking(q, c) + Merging(q, c) = Reserved(q, c)
        BY RoomTypes DEF RoomKept, WayInv
      <4> QED
        BY <4>1, <4>2, MovedOn
    <3> QED
      BY <1>6, <2>2, <3>1
  <2> QED
    BY <2>1, <2>2
<1> QED
  BY <1>7 DEF RoomKept

LEMMA RouteKeepsRoom ==
  ASSUME Typed, RoomKept, NEW b \in Channel, Route(b)
  PROVE  RoomKept'
<1>1. /\ arbTagQ[b] \in Seq(Port) /\ arbTagQ[b] # <<>>
      /\ arbTagQ'[b] = Tail(arbTagQ[b])
      /\ \A c \in Channel : c # b => arbTagQ'[c] = arbTagQ[c]
      /\ UNCHANGED <<mergeQ, tagQ>>
  BY DEF Typed, Fitting, Route, Routable
<1>2. PICK p \in Port : p = Head(arbTagQ[b])
  BY <1>1, HeadTailProperties
<1>3. PICK pb \in Port \X Channel : pb = <<p, b>>
  OBVIOUS
<1>4. /\ respQ[pb] \in Seq(Answer) /\ arbRespQ[b] \in Seq(Answer) /\ arbRespQ[b] # <<>>
      /\ respQ'[pb] = Append(respQ[pb], Head(arbRespQ[b]))
      /\ \A qc \in Port \X Channel : qc # pb => respQ'[qc] = respQ[qc]
  BY <1>2, <1>3 DEF Typed, Fitting, Route, Routable
<1>5. Len(respQ'[pb]) = Len(respQ[pb]) + 1
  BY <1>4, AppendProperties, HeadTailProperties
<1>6. \A q \in Port, c \in Channel : Merging(q, c)' = Merging(q, c) /\ Reserved(q, c)' = Reserved(q, c)
  BY <1>1 DEF Merging, Reserved
<1>7. ASSUME NEW q \in Port, NEW c \in Channel, ~ (q = p /\ c = b)
      PROVE  Asking(q, c)' = Asking(q, c) /\ Answered(q, c)' = Answered(q, c)
  <2>1. <<q, c>> # pb /\ <<q, c>> \in Port \X Channel
    BY <1>3, <1>7
  <2>2. Answered(q, c)' = Answered(q, c)
    BY <1>4, <2>1 DEF Answered
  <2>3. Asking(q, c)' = Asking(q, c)
    <3>1. CASE c # b
      BY <1>1, <3>1 DEF Asking
    <3>2. CASE c = b
      <4>1. Head(arbTagQ[b]) \notin {q}
        BY <1>2, <1>7, <3>2
      <4>2. Held(arbTagQ[b], {q}) = Held(Tail(arbTagQ[b]), {q})
        BY <1>1, <4>1, RoomTail
      <4> QED
        BY <1>1, <3>2, <4>2 DEF Asking
    <3> QED
      BY <3>1, <3>2
  <2> QED
    BY <2>2, <2>3
<1>8. ASSUME NEW q \in Port, NEW c \in Channel
      PROVE  Answered(q, c)' + Asking(q, c)' + Merging(q, c)' = Reserved(q, c)'
  <2>1. CASE ~ (q = p /\ c = b)
    BY <1>6, <1>7, <2>1, RoomStays
  <2>2. CASE q = p /\ c = b
    <3>1. Head(arbTagQ[b]) \in {p}
      BY <1>2
    <3>2. PICK m \in Nat : m = Held(Tail(arbTagQ[b]), {p}) /\ Held(arbTagQ[b], {p}) = m + 1
      BY <1>1, <3>1, RoomTail
    <3>3. (Answered(p, b) + 1) + m + Merging(p, b) = Reserved(p, b)
      <4>1. Asking(p, b) = m + 1
        BY <3>2 DEF Asking
      <4>2. /\ Merging(p, b) \in Nat /\ Asking(p, b) \in Nat
            /\ Answered(p, b) \in Nat /\ Reserved(p, b) \in Nat
            /\ Answered(p, b) + Asking(p, b) + Merging(p, b) = Reserved(p, b)
        BY RoomTypes DEF RoomKept
      <4> QED
        BY <4>1, <4>2, MovedOn
    <3>4. Answered(p, b)' = Answered(p, b) + 1
      BY <1>3, <1>5 DEF Answered
    <3>5. Asking(p, b)' = m
      BY <1>1, <3>2 DEF Asking
    <3> QED
      BY <1>6, <2>2, <3>3, <3>4, <3>5
  <2> QED
    BY <2>1, <2>2
<1> QED
  BY <1>8 DEF RoomKept

LEMMA OneLess ==
  ASSUME NEW Entry, NEW queue \in Seq(Entry), queue # <<>>
  PROVE  \E m \in Nat : m = Len(Tail(queue)) /\ Len(queue) = m + 1
<1>1. Len(queue) \in Nat /\ Len(queue) > 0 /\ Len(Tail(queue)) = Len(queue) - 1
  BY HeadTailProperties, LenProperties, EmptySeq
<1>2. \A n \in Nat : n > 0 => n - 1 \in Nat /\ n = (n - 1) + 1
  OBVIOUS
<1> QED
  BY <1>1, <1>2

LEMMA CollectKeepsRoom ==
  ASSUME Typed, RoomKept, NEW p \in enabled, Collect(p)
  PROVE  RoomKept'
<1>1. p \in Port
  BY EnabledIsPort
<1>2. PICK b \in Channel :
        /\ tagQ[p] # <<>> /\ b = Head(tagQ[p]) /\ tagQ'[p] = Tail(tagQ[p])
        /\ \A q \in Port : q # p => tagQ'[q] = tagQ[q]
        /\ respQ[<<p, b>>] # <<>> /\ respQ'[<<p, b>>] = Tail(respQ[<<p, b>>])
        /\ \A q \in Port, c \in Channel : ~ (q = p /\ c = b) => respQ'[<<q, c>>] = respQ[<<q, c>>]
  BY CollectAnswers
<1>3. tagQ[p] \in Seq(Channel) /\ respQ[<<p, b>>] \in Seq(Answer)
  BY <1>1 DEF Typed, Fitting
<1>4. \A q \in Port, c \in Channel : Merging(q, c)' = Merging(q, c) /\ Asking(q, c)' = Asking(q, c)
  BY DEF Merging, Asking, Collect
<1>5. ASSUME NEW q \in Port, NEW c \in Channel, ~ (q = p /\ c = b)
      PROVE  Reserved(q, c)' = Reserved(q, c) /\ Answered(q, c)' = Answered(q, c)
  <2>1. Answered(q, c)' = Answered(q, c)
    BY <1>2, <1>5 DEF Answered
  <2>2. Reserved(q, c)' = Reserved(q, c)
    <3>1. CASE q # p
      BY <1>2, <3>1 DEF Reserved
    <3>2. CASE q = p
      <4>1. Head(tagQ[p]) \notin {c}
        BY <1>2, <1>5, <3>2
      <4>2. Held(tagQ[p], {c}) = Held(Tail(tagQ[p]), {c})
        BY <1>2, <1>3, <4>1, RoomTail
      <4> QED
        BY <1>2, <3>2, <4>2 DEF Reserved
    <3> QED
      BY <3>1, <3>2
  <2> QED
    BY <2>1, <2>2
<1>6. ASSUME NEW q \in Port, NEW c \in Channel
      PROVE  Answered(q, c)' + Asking(q, c)' + Merging(q, c)' = Reserved(q, c)'
  <2>1. CASE ~ (q = p /\ c = b)
    BY <1>4, <1>5, <2>1, RoomStays
  <2>2. CASE q = p /\ c = b
    <3>1. Head(tagQ[p]) \in {b}
      BY <1>2
    <3>2. PICK v \in Nat : v = Held(Tail(tagQ[p]), {b}) /\ Held(tagQ[p], {b}) = v + 1
      BY <1>2, <1>3, <3>1, RoomTail
    <3>3. PICK m \in Nat : m = Len(Tail(respQ[<<p, b>>])) /\ Len(respQ[<<p, b>>]) = m + 1
      BY <1>2, <1>3, OneLess
    <3>4. m + Asking(p, b) + Merging(p, b) = v
      <4>1. Answered(p, b) = m + 1 /\ Reserved(p, b) = v + 1
        BY <3>2, <3>3 DEF Answered, Reserved
      <4>2. /\ Merging(p, b) \in Nat /\ Asking(p, b) \in Nat
            /\ Answered(p, b) \in Nat /\ Reserved(p, b) \in Nat
            /\ Answered(p, b) + Asking(p, b) + Merging(p, b) = Reserved(p, b)
        BY <1>1, RoomTypes DEF RoomKept
      <4> QED
        BY <4>1, <4>2, MovedOn
    <3>5. Answered(p, b)' = m /\ Reserved(p, b)' = v
      BY <1>2, <3>2, <3>3 DEF Answered, Reserved
    <3> QED
      BY <1>4, <2>2, <3>4, <3>5
  <2> QED
    BY <2>1, <2>2
<1> QED
  BY <1>6 DEF RoomKept

\* An answer at the head of its channel is one of the port's reads that have a
\* tag, so the answers already at the port are fewer than its tags.
LEMMA RoomImplies ==
  ASSUME Typed, RoomKept
  PROVE  RoomForAnswers
<1> SUFFICES ASSUME NEW c \in Channel, Routable(c)
             PROVE  ~ Full(respQ[<<Head(arbTagQ[c]), c>>], RespDepth)
  BY DEF RoomForAnswers
<1>1. arbTagQ[c] \in Seq(Port) /\ arbTagQ[c] # <<>>
  BY DEF Typed, Fitting, Routable
<1>2. PICK p \in Port : p = Head(arbTagQ[c])
  BY <1>1, HeadTailProperties
<1>3. Head(arbTagQ[c]) \in {p}
  BY <1>2
<1>4. PICK m \in Nat : Asking(p, c) = m + 1
  BY <1>1, <1>3, RoomTail DEF Asking
<1>5. /\ Merging(p, c) \in Nat /\ Answered(p, c) \in Nat /\ Reserved(p, c) \in Nat
      /\ Reserved(p, c) <= Len(tagQ[p]) /\ Len(tagQ[p]) \in Nat /\ Len(tagQ[p]) <= TagDepth
      /\ Answered(p, c) + Asking(p, c) + Merging(p, c) = Reserved(p, c)
  BY RoomTypes DEF RoomKept
<1>6. ASSUME NEW x \in Nat, NEW y \in Nat, NEW z \in Nat, NEW w \in Nat, NEW l \in Nat,
             NEW t \in Nat, NEW d \in Nat, x + (y + 1) + z = w, w <= l, l <= t, t <= d
      PROVE  x # d
  BY <1>6
<1>7. Answered(p, c) # RespDepth
  BY <1>4, <1>5, <1>6, Depths
<1> QED
  BY <1>2, <1>7 DEF Answered, Full

-----------------------------------------------------------------------------
(* The inductive invariant, and what it shows.                             *)
IInv == WayInv /\ MemoryHolds /\ TagsMatch /\ AnswersGood /\ OrderInv /\ RoomKept

LEMMA EmptyAtFirst ==
  ASSUME Init
  PROVE  /\ \A p \in Port : sent[p] = <<>> /\ waiting[p] = <<>> /\ xlatedQ[p] = <<>>
                            /\ tagQ[p] = <<>> /\ outQ[p] = <<>>
         /\ \A a \in App, c \in Channel : mergeQ[<<a, c>>] = <<>>
         /\ \A c \in Channel : arbQ[c] = <<>> /\ arbTagQ[c] = <<>> /\ arbRespQ[c] = <<>>
         /\ \A p \in Port, c \in Channel : respQ[<<p, c>>] = <<>>
         /\ \A c \in Channel, l \in Line : memory[<<c, l>>] = Nothing
BY DEF Init

LEMMA EmptyQueues ==
  /\ Len(<<>>) = 0 /\ 1 .. Len(<<>>) = {}
  /\ \A p : Numbers(<<>>, p) = {} /\ Sorted(<<>>, p)
  /\ Entries(<<>>) = {}
  /\ \A p : Labelled(p, <<>>) = <<>>
  /\ Paired(<<>>, <<>>) = <<>>
<1>1. Len(<<>>) = 0 /\ 1 .. 0 = {}
  OBVIOUS
<1>2. \A p : Numbers(<<>>, p) = {} /\ Sorted(<<>>, p)
  BY NumbersEmpty
<1>3. \A p : Labelled(p, <<>>) = <<>>
  <2> SUFFICES ASSUME NEW p PROVE Labelled(p, <<>>) = <<>>
    OBVIOUS
  <2> QED
    BY <1>1, EmptySeq DEF Labelled
<1>4. Paired(<<>>, <<>>) = <<>>
  BY <1>1, EmptySeq DEF Paired
<1> QED
  BY <1>1, <1>2, <1>3, <1>4, EntriesEmpty

LEMMA InitWay ==
  ASSUME Init
  PROVE  /\ WayInv
         /\ \A p \in Port : Merged(p) = 0
         /\ \A p \in Port, c \in Channel : OnWay(p, c) = {} /\ Done(p, c) = {}
<1>1. \A p \in Port : Merged(p) = 0 /\ Len(xlatedQ[p]) <= Len(sent[p]) /\ 1 .. Len(xlatedQ[p]) = {}
  BY EmptyAtFirst, EmptyQueues DEF Merged
<1>2. \A p \in Port, c \in Channel :
        /\ mergeQ[<<p[1], c>>] = <<>> /\ arbQ[c] = <<>>
        /\ OnWay(p, c) = {} /\ Done(p, c) = {}
  <2>1. \A p \in Port, c \in Channel : mergeQ[<<p[1], c>>] = <<>> /\ arbQ[c] = <<>>
    BY EmptyAtFirst DEF Port
  <2>2. 1 .. 0 = {}
    OBVIOUS
  <2> QED
    BY <1>1, <2>1, <2>2, EmptyQueues DEF OnWay, Done
<1>3. RequestsKept
  <2>1. \A a \in App, c \in Channel : Entries(mergeQ[<<a, c>>]) = {} /\ Entries(arbQ[c]) = {}
    BY EmptyAtFirst, EmptyQueues
  <2>2. \A c \in Channel : Entries(arbQ[c]) = {}
    BY EmptyAtFirst, EmptyQueues
  <2> QED
    BY <1>1, <2>1, <2>2 DEF RequestsKept
<1>4. RequestsInOrder
  BY <1>2, EmptyQueues DEF RequestsInOrder
<1> QED
  BY <1>1, <1>2, <1>3, <1>4, InitTyped DEF WayInv

LEMMA InitOrder ==
  ASSUME Init
  PROVE  OrderInv
<1>1. ASSUME NEW p \in Port PROVE WaitingOk(p)
  <2>1. waiting[p] = <<>> /\ tagQ[p] = <<>> /\ outQ[p] = <<>> /\ sent[p] = <<>> /\ Merged(p) = 0
    BY EmptyAtFirst, InitWay
  <2>2. Unmerged(p) = {}
    BY <2>1, EmptyQueues DEF Unmerged
  <2>3. Beyond(<<>>, Len(<<>>) + Len(<<>>)) = {}
    BY EmptyQueues DEF Beyond
  <2>4. Rising(<<>>)
    BY EmptyQueues DEF Rising
  <2> QED
    BY <2>1, <2>2, <2>3, <2>4, EmptyQueues DEF WaitingOk
<1>2. ASSUME NEW p \in Port, NEW c \in Channel PROVE TagsOk(p, c) /\ BackOk(p, c)
  <2>1. /\ Back(p, c) = <<>> /\ Answers(c) = <<>> /\ ReadsOnWay(p, c) = {}
        /\ tagQ[p] = <<>>
    BY EmptyAtFirst, EmptyQueues, InitWay DEF Back, Answers, ReadsOnWay
  <2>2. Tags(p, c) = {}
    BY <2>1, EmptyQueues DEF Tags, TaggedWith
  <2> QED
    BY <2>1, <2>2, EmptyQueues DEF TagsOk, BackOk
<1> QED
  BY <1>1, <1>2 DEF OrderInv

LEMMA InitInv == Init => IInv
<1> SUFFICES ASSUME Init PROVE IInv
  OBVIOUS
<1>1. MemoryHolds
  BY InitWay, EmptyAtFirst DEF MemoryHolds
<1>2. TagsMatch
  BY EmptyAtFirst, EmptyQueues, AlignedEmpty DEF TagsMatch
<1>3. AnswersGood
  <2>1. \A p \in Port : Entries(outQ[p]) = {}
    BY EmptyAtFirst, EmptyQueues
  <2>2. \A p \in Port, c \in Channel : Entries(respQ[<<p, c>>]) = {}
    BY EmptyAtFirst, EmptyQueues
  <2>3. \A c \in Channel : Entries(Answers(c)) = {}
    BY EmptyAtFirst, EmptyQueues DEF Answers
  <2> QED
    BY <2>1, <2>2, <2>3 DEF AnswersGood
<1>4. RoomKept
  <2> SUFFICES ASSUME NEW p \in Port, NEW c \in Channel
               PROVE  Answered(p, c) + Asking(p, c) + Merging(p, c) = Reserved(p, c)
    BY DEF RoomKept
  <2>1. /\ mergeQ[<<p[1], c>>] = <<>> /\ arbTagQ[c] = <<>> /\ respQ[<<p, c>>] = <<>>
        /\ tagQ[p] = <<>>
    BY EmptyAtFirst DEF Port
  <2>2. /\ Answered(p, c) = 0 /\ Asking(p, c) = 0 /\ Merging(p, c) = 0 /\ Reserved(p, c) = 0
    BY <2>1, EmptyQueues, HeldEmpty DEF Answered, Asking, Merging, Reserved
  <2> QED
    BY <2>2
<1> QED
  BY <1>1, <1>2, <1>3, <1>4, InitWay, InitOrder DEF IInv

\* The parts that a step leaves alone when it moves no request and no answer
\* of a channel.
LEMMA AcceptInv ==
  ASSUME IInv, [Next]_vars, AcceptAny
  PROVE  IInv'
<1>1. PICK p \in enabled, isWrite \in BOOLEAN, va \in Address : Accept(p, isWrite, va)
  BY DEF AcceptAny
<1>2. UNCHANGED <<mergeQ, arbQ, arbTagQ, memory, arbRespQ, tagQ, respQ, outQ>>
  BY <1>1 DEF Accept
<1>3. WayInv' /\ \A q \in Port, c \in Channel : Done(q, c)' = Done(q, c)
  BY <1>1, AcceptTyped, AcceptWay DEF IInv, WayInv
<1>4. MemoryHolds'
  BY <1>2, <1>3, SameMemory DEF IInv
<1>5. TagsMatch' /\ \A c \in Channel : Answers(c)' = Answers(c)
  BY <1>2, QuietAnswers DEF IInv
<1>6. AnswersGood'
  BY <1>2, <1>5, OtherGood DEF IInv, WayInv
<1>7. OrderInv'
  BY <1>1, AcceptOrder DEF IInv
<1>8. RoomKept'
  BY <1>2, QuietRoom DEF IInv
<1> QED
  BY <1>3, <1>4, <1>5, <1>6, <1>7, <1>8 DEF IInv

LEMMA MergeInv ==
  ASSUME IInv, [Next]_vars, NEW p \in enabled, Merge(p)
  PROVE  IInv'
<1>1. p \in Port
  BY EnabledIsPort DEF IInv, WayInv
<1>2. UNCHANGED <<arbQ, arbTagQ, memory, arbRespQ, respQ, outQ>>
  BY DEF Merge
<1>3. PICK k \in Nat : k = Merged(p)
  BY <1>1, Sizes DEF IInv
<1>4. PICK r \in Asked : r = Head(xlatedQ[p])
  BY <1>1, HeadTailProperties DEF IInv, WayInv, Typed, Fitting, Merge
<1>5. WayInv' /\ \A q \in Port, c \in Channel : Done(q, c)' = Done(q, c)
  <2>1. RequestsKept' /\ RequestsInOrder'
    BY <1>3, <1>4, MergeWay DEF IInv
  <2>2. \A q \in Port, c \in Channel : Done(q, c)' = Done(q, c)
    BY <1>3, <1>4, MergeWay DEF IInv
  <2> QED
    BY <2>1, <2>2, MergeTyped DEF IInv, WayInv
<1>6. MemoryHolds'
  BY <1>2, <1>5, SameMemory DEF IInv
<1>7. TagsMatch' /\ \A c \in Channel : Answers(c)' = Answers(c)
  BY <1>2, QuietAnswers DEF IInv
<1>8. AnswersGood'
  BY <1>2, <1>7, OtherGood DEF IInv, WayInv
<1>9. OrderInv'
  BY MergeOrder DEF IInv
<1>10. RoomKept'
  BY MergeKeepsRoom DEF IInv
<1> QED
  BY <1>5, <1>6, <1>7, <1>8, <1>9, <1>10 DEF IInv

LEMMA ArbitrateInv ==
  ASSUME IInv, [Next]_vars, NEW a \in App, NEW c \in Channel, Arbitrate(a, c)
  PROVE  IInv'
<1>1. UNCHANGED <<memory, arbRespQ, tagQ, respQ, outQ>>
  BY DEF Arbitrate
<1>2. WayInv' /\ \A q \in Port, b \in Channel : Done(q, b)' = Done(q, b)
  BY ArbitrateTyped, ArbitrateWay DEF IInv, WayInv
<1>3. MemoryHolds'
  BY <1>1, <1>2, SameMemory DEF IInv
<1>4. TagsMatch' /\ \A b \in Channel : Answers(b)' = Answers(b)
  BY ArbitrateAnswers DEF IInv, WayInv
<1>5. AnswersGood'
  BY <1>1, <1>4, OtherGood DEF IInv, WayInv
<1>6. OrderInv'
  BY ArbitrateOrder DEF IInv
<1>7. RoomKept'
  BY ArbitrateKeepsRoom DEF IInv
<1> QED
  BY <1>2, <1>3, <1>4, <1>5, <1>6, <1>7 DEF IInv

LEMMA AccessInv ==
  ASSUME IInv, [Next]_vars, NEW c \in Channel, Access(c)
  PROVE  IInv'
<1>1. PICK r \in Asked : r = Head(arbQ[c])
  BY HeadTailProperties DEF IInv, WayInv, Typed, Fitting, Access
<1>2. WayInv'
  <2>1. RequestsKept' /\ RequestsInOrder'
    BY <1>1, AccessWay DEF IInv
  <2> QED
    BY <2>1, AccessTyped DEF IInv, WayInv
<1>3. MemoryHolds'
  BY <1>1, AccessMemory DEF IInv
<1>4. TagsMatch'
  BY <1>1, AccessAnswers DEF IInv, WayInv
<1>5. AnswersGood'
  BY AccessGood DEF IInv
<1>6. OrderInv'
  BY AccessOrder DEF IInv
<1>7. RoomKept'
  BY QuietRoom DEF IInv, Access
<1> QED
  BY <1>2, <1>3, <1>4, <1>5, <1>6, <1>7 DEF IInv

LEMMA RouteInv ==
  ASSUME IInv, [Next]_vars, NEW c \in Channel, Route(c)
  PROVE  IInv'
<1>1. UNCHANGED <<sent, xlatedQ, mergeQ, arbQ, memory>>
  BY DEF Route
<1>2. WayInv' /\ \A q \in Port, b \in Channel : Done(q, b)' = Done(q, b)
  BY <1>1, RouteTyped, QuietWay DEF IInv, WayInv
<1>3. MemoryHolds'
  BY <1>1, <1>2, SameMemory DEF IInv
<1>4. TagsMatch'
  BY RouteAnswers DEF IInv, WayInv
<1>5. AnswersGood'
  BY RouteGood DEF IInv
<1>6. OrderInv'
  BY RouteOrder DEF IInv
<1>7. RoomKept'
  BY RouteKeepsRoom DEF IInv, WayInv
<1> QED
  BY <1>2, <1>3, <1>4, <1>5, <1>6, <1>7 DEF IInv

LEMMA CollectInv ==
  ASSUME IInv, [Next]_vars, NEW p \in enabled, Collect(p)
  PROVE  IInv'
<1>1. UNCHANGED <<sent, xlatedQ, mergeQ, arbQ, arbTagQ, memory, arbRespQ>>
  BY DEF Collect
<1>2. WayInv' /\ \A q \in Port, b \in Channel : Done(q, b)' = Done(q, b)
  BY <1>1, CollectTyped, QuietWay DEF IInv, WayInv
<1>3. MemoryHolds'
  BY <1>1, <1>2, SameMemory DEF IInv
<1>4. TagsMatch'
  BY <1>1, QuietAnswers DEF IInv
<1>5. AnswersGood'
  BY CollectGood DEF IInv
<1>6. OrderInv'
  BY CollectOrder DEF IInv
<1>7. RoomKept'
  BY CollectKeepsRoom DEF IInv, WayInv
<1> QED
  BY <1>2, <1>3, <1>4, <1>5, <1>6, <1>7 DEF IInv

LEMMA TakeInv ==
  ASSUME IInv, [Next]_vars, NEW p \in enabled, Take(p)
  PROVE  IInv'
<1>1. UNCHANGED <<sent, xlatedQ, mergeQ, arbQ, arbTagQ, memory, arbRespQ, tagQ, respQ>>
  BY DEF Take
<1>2. OrderInv' /\ waiting[p] # <<>>
  BY TakeOrder DEF IInv
<1>3. WayInv' /\ \A q \in Port, b \in Channel : Done(q, b)' = Done(q, b)
  BY <1>1, <1>2, TakeTyped, QuietWay DEF IInv, WayInv
<1>4. MemoryHolds'
  BY <1>1, <1>3, SameMemory DEF IInv
<1>5. TagsMatch'
  BY <1>1, QuietAnswers DEF IInv
<1>6. AnswersGood'
  BY TakeGood DEF IInv
<1>7. RoomKept'
  BY <1>1, QuietRoom DEF IInv
<1> QED
  BY <1>2, <1>3, <1>4, <1>5, <1>6, <1>7 DEF IInv

LEMMA StutterInv ==
  ASSUME IInv, [Next]_vars, UNCHANGED vars
  PROVE  IInv'
<1>1. UNCHANGED <<sent, xlatedQ, mergeQ, arbQ, arbTagQ, memory, arbRespQ, tagQ, respQ, outQ>>
  BY DEF vars
<1>2. Typed'
  BY DEF IInv, WayInv, Typed, vars
<1>3. WayInv' /\ \A q \in Port, b \in Channel : Done(q, b)' = Done(q, b)
  BY <1>1, <1>2, QuietWay DEF IInv, WayInv
<1>4. MemoryHolds'
  BY <1>1, <1>3, SameMemory DEF IInv
<1>5. TagsMatch' /\ \A b \in Channel : Answers(b)' = Answers(b)
  BY <1>1, QuietAnswers DEF IInv
<1>6. AnswersGood'
  BY <1>1, <1>5, OtherGood DEF IInv, WayInv
<1>7. OrderInv'
  BY StutterOrder DEF IInv
<1>8. RoomKept'
  BY <1>1, QuietRoom DEF IInv
<1> QED
  BY <1>3, <1>4, <1>5, <1>6, <1>7, <1>8 DEF IInv

LEMMA StepInv == IInv /\ [Next]_vars => IInv'
<1> SUFFICES ASSUME IInv, [Next]_vars PROVE IInv'
  OBVIOUS
<1>1. CASE AcceptAny
  BY <1>1, AcceptInv
<1>2. ASSUME NEW p \in enabled, Merge(p) PROVE IInv'
  BY <1>2, MergeInv
<1>3. ASSUME NEW p \in enabled, Collect(p) PROVE IInv'
  BY <1>3, CollectInv
<1>4. ASSUME NEW a \in App, NEW c \in Channel, Arbitrate(a, c) PROVE IInv'
  BY <1>4, ArbitrateInv
<1>5. ASSUME NEW c \in Channel, Access(c) PROVE IInv'
  BY <1>5, AccessInv
<1>6. ASSUME NEW c \in Channel, Route(c) PROVE IInv'
  BY <1>6, RouteInv
<1>7. ASSUME NEW p \in enabled, Take(p) PROVE IInv'
  BY <1>7, TakeInv
<1>8. CASE UNCHANGED vars
  BY <1>8, StutterInv
<1> QED
  BY <1>1, <1>2, <1>3, <1>4, <1>5, <1>6, <1>7, <1>8 DEF Next, Transfer

LEMMA AlwaysInv == Spec => []IInv
BY InitInv, StepInv, PTL DEF Spec

\* No queue of the memory virtualization holds more than it has room for.
THEOREM MemoryTypeCorrect == Spec => []TypeOK
<1>1. IInv => TypeOK
  BY TypedImplies DEF IInv, WayInv
<1> QED
  BY <1>1, AlwaysInv, PTL

\* RespMerge hands an app the answers of its oldest reads in the order the app
\* sent them, in whatever order the channels answer: the tags and the numbers
\* of what is on its way to each channel and back tell whose answer is next.
THEOREM AnswersAlwaysInOrder == Spec => []AnswersInOrder
<1>1. IInv => AnswersInOrder
  BY OrderImplies DEF IInv, WayInv
<1> QED
  BY <1>1, AlwaysInv, PTL

\* AddressTranslate, ChannelMerge, ChannelArbiter and RespMerge together are a
\* memory: a read gets what its port wrote last before it to the line, or what
\* another port of the same app wrote there.
THEOREM ReadsAlwaysSeeWrites == Spec => []ReadsSeeWrites
<1>1. IInv => ReadsSeeWrites
  BY AnswersGoodImplies DEF IInv, WayInv
<1> QED
  BY <1>1, AlwaysInv, PTL

\* RespMerge has room for every answer a channel offers it, because a read goes
\* on only when there is room for its tag and the queues of the answers are at
\* least as deep as the one of the tags: no app backs up another.
THEOREM RoomAlwaysForAnswers == Spec => []RoomForAnswers
<1>1. IInv => RoomForAnswers
  BY RoomImplies DEF IInv, WayInv
<1> QED
  BY <1>1, AlwaysInv, PTL
=============================================================================
