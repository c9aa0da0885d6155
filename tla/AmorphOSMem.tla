---------------------------- MODULE AmorphOSMem -----------------------------
(***************************************************************************)
(* Memory virtualization.  The requests of every port of every app are     *)
(* translated (AddressTranslate, AppLevelTranslate), merged per app and    *)
(* channel (ChannelMerge), arbitrated per channel (ChannelArbiter), and    *)
(* the answers of the channels are put back into the order of the port's   *)
(* reads (RespMerge).                                                      *)
(*                                                                         *)
(* An action is what one unit transfers from its FIFOs to those behind it  *)
(* at an edge.  The transfers of one edge are a sequence of these actions: *)
(* taken from the memory side to the app side for requests, and then from  *)
(* the app side to the memory side for answers, none sees what another has *)
(* done.  The arbiters' choice is left open; Arbiter has it.  The writes   *)
(* are the data they store, the reads the number they have at their port.  *)
(***************************************************************************)
EXTENDS Integers, Sequences, SequencesExt, Fifo

CONSTANTS
  NumApps, NumPorts, NumChannels,  (* 8, 2 and 4                             *)
  EnabledPorts,  (* the sets of ports app_enable and port_enable may enable  *)
  AppSpan,       (* memory of an app, in lines of 64 bytes: 8 GB             *)
  Address,       (* lines the apps access                                    *)
  XlateDepth,    (* of AddressTranslate's two FIFOs together: 2 * 2^3        *)
  MergeDepth,    (* of ChannelMerge's: 2^3                                   *)
  ArbDepth,      (* of each of ChannelArbiter's three: 2^2                   *)
  TagDepth,      (* of RespMerge's tags: 2^3                                 *)
  RespDepth,     (* of RespMerge's FIFO of a channel: 2^3                    *)
  OutDepth,      (* of RespMerge's output: 2^3                               *)
  MaxSent,       (* bound: requests sent in all                              *)
  Deaf           (* ports whose app may leave its answers for ever           *)

App     == 0 .. NumApps - 1
Port    == App \X (0 .. NumPorts - 1)
Channel == 0 .. NumChannels - 1
Line    == 0 .. (NumApps * AppSpan) \div NumChannels - 1

ASSUME MemAssumption ==
  /\ NumApps \in Nat \ {0} /\ NumPorts \in Nat \ {0} /\ NumChannels \in Nat \ {0}
  /\ EnabledPorts \subseteq SUBSET Port
  /\ Deaf \subseteq Port
  /\ AppSpan \in Nat \ {0} /\ AppSpan % NumChannels = 0
  (* An app stays in its memory: AddrXlater adds the base and looks no further. *)
  /\ Address \subseteq 0 .. AppSpan - 1
  /\ \A depth \in {XlateDepth, MergeDepth, ArbDepth, TagDepth, RespDepth, OutDepth} :
       depth \in Nat \ {0}
  (* "Ensure these are sized so one app can not backup another" *)
  /\ TagDepth <= RespDepth
  /\ MaxSent \in Nat

VARIABLES
  enabled,    \* app_port_enable
  sent,       \* history: port -> its requests
  waiting,    \* history: port -> the numbers of its reads without an answer
  xlatedQ,    \* AddressTranslate: port -> requests
  mergeQ,     \* ChannelMerge: <<app, channel>> -> requests
  arbQ,       \* ChannelArbiter: channel -> requests
  arbTagQ,    \* ChannelArbiter: channel -> the ports its reads are of
  memory,     \* environment: <<channel, address>> -> the last write
  arbRespQ,   \* ChannelArbiter: channel -> answers
  tagQ,       \* RespMerge: port -> the channels its reads are with
  respQ,      \* RespMerge: <<port, channel>> -> answers
  outQ        \* RespMerge: port -> answers

vars == <<enabled, sent, waiting, xlatedQ, mergeQ, arbQ, arbTagQ, memory,
          arbRespQ, tagQ, respQ, outQ>>

Nothing == [port |-> <<>>, n |-> 0]

Init ==
  /\ enabled \in EnabledPorts
  /\ sent = [p \in Port |-> <<>>]
  /\ waiting = [p \in Port |-> <<>>]
  /\ xlatedQ = [p \in Port |-> <<>>]
  /\ mergeQ = [ac \in App \X Channel |-> <<>>]
  /\ arbQ = [c \in Channel |-> <<>>]
  /\ arbTagQ = [c \in Channel |-> <<>>]
  /\ memory = [cl \in Channel \X Line |-> Nothing]
  /\ arbRespQ = [c \in Channel |-> <<>>]
  /\ tagQ = [p \in Port |-> <<>>]
  /\ respQ = [pc \in Port \X Channel |-> <<>>]
  /\ outQ = [p \in Port |-> <<>>]

-----------------------------------------------------------------------------
\* Wrong variant: every app gets the memory of app 0.
PhysicalOfFirst(p, va) == va

\* AddrXlater.
Physical(p, va) == va + p[1] * AppSpan

\* The lines are dealt out to the channels in turn.
ChannelSelect(pa)  == pa % NumChannels
TranslatedAddr(pa) == pa \div NumChannels

Request(p, isWrite, va) ==
  LET pa == Physical(p, va)
  IN  [port |-> p, n |-> Len(sent[p]) + 1, isWrite |-> isWrite,
       channel |-> ChannelSelect(pa), addr |-> TranslatedAddr(pa)]

Accept(p, isWrite, va) ==
  /\ p \in enabled
  /\ ~ Full(xlatedQ[p], XlateDepth)
  /\ sent' = [sent EXCEPT ![p] = Append(@, [isWrite |-> isWrite, va |-> va])]
  /\ waiting' = IF isWrite THEN waiting
                ELSE [waiting EXCEPT ![p] = Append(@, Len(sent[p]) + 1)]
  /\ xlatedQ' = [xlatedQ EXCEPT ![p] = Append(@, Request(p, isWrite, va))]
  /\ UNCHANGED <<enabled, mergeQ, arbQ, arbTagQ, memory, arbRespQ, tagQ, respQ, outQ>>

\* Wrong variant: a read goes on although there is no room for its tag.
TagRoomAlways(p) == TRUE

TagRoom(p) == ~ Full(tagQ[p], TagDepth)

\* Wrong variant: the merged queue may be full.
MergeRoomAlways(ac) == Len(mergeQ[ac]) <= MergeDepth

MergeRoom(ac) == ~ Full(mergeQ[ac], MergeDepth)

\* AddressTranslate offers its head to the channel it is for, ChannelMerge
\* grants it, and RespMerge keeps the channel of a read as its tag.
Merge(p) ==
  /\ xlatedQ[p] # <<>>
  /\ LET request == Head(xlatedQ[p])
         ac      == <<p[1], request.channel>>
     IN  /\ request.isWrite \/ TagRoom(p)
         /\ MergeRoom(ac)
         /\ mergeQ' = [mergeQ EXCEPT ![ac] = Append(@, request)]
         /\ tagQ' = IF request.isWrite THEN tagQ
                    ELSE [tagQ EXCEPT ![p] = Append(@, request.channel)]
  /\ xlatedQ' = [xlatedQ EXCEPT ![p] = Tail(@)]
  /\ UNCHANGED <<enabled, sent, waiting, arbQ, arbTagQ, memory, arbRespQ, respQ, outQ>>

\* ChannelArbiter grants the request of an app.
Arbitrate(a, c) ==
  /\ mergeQ[<<a, c>>] # <<>>
  /\ ~ Full(arbQ[c], ArbDepth)
  /\ LET request == Head(mergeQ[<<a, c>>])
     IN  /\ request.isWrite \/ ~ Full(arbTagQ[c], ArbDepth)
         /\ arbQ' = [arbQ EXCEPT ![c] = Append(@, request)]
         /\ arbTagQ' = IF request.isWrite THEN arbTagQ
                       ELSE [arbTagQ EXCEPT ![c] = Append(@, request.port)]
  /\ mergeQ' = [mergeQ EXCEPT ![<<a, c>>] = Tail(@)]
  /\ UNCHANGED <<enabled, sent, waiting, xlatedQ, memory, arbRespQ, tagQ, respQ, outQ>>

\* A channel's memory (environment) does what it is told in the order it is
\* told, and ChannelArbiter keeps its answer to a read.  Answers that take their
\* time are Routed late.
Access(c) ==
  /\ arbQ[c] # <<>>
  /\ LET request == Head(arbQ[c])
         place   == <<c, request.addr>>
     IN  \/ /\ request.isWrite
            /\ memory' = [memory EXCEPT ![place] = [port |-> request.port, n |-> request.n]]
            /\ UNCHANGED arbRespQ
         \/ /\ ~ request.isWrite
            /\ ~ Full(arbRespQ[c], ArbDepth)
            /\ arbRespQ' = [arbRespQ EXCEPT ![c] =
                              Append(@, [n |-> request.n, data |-> memory[place]])]
            /\ UNCHANGED memory
  /\ arbQ' = [arbQ EXCEPT ![c] = Tail(@)]
  /\ UNCHANGED <<enabled, sent, waiting, xlatedQ, mergeQ, arbTagQ, tagQ, respQ, outQ>>

Routable(c) == arbTagQ[c] # <<>> /\ arbRespQ[c] # <<>>

\* ChannelArbiter offers its first answer to the port its first tag names,
\* whose RespMerge grants it unless its queue of the channel is full.
Route(c) ==
  /\ Routable(c)
  /\ LET pc == <<Head(arbTagQ[c]), c>>
     IN  /\ ~ Full(respQ[pc], RespDepth)
         /\ respQ' = [respQ EXCEPT ![pc] = Append(@, Head(arbRespQ[c]))]
  /\ arbTagQ' = [arbTagQ EXCEPT ![c] = Tail(@)]
  /\ arbRespQ' = [arbRespQ EXCEPT ![c] = Tail(@)]
  /\ UNCHANGED <<enabled, sent, waiting, xlatedQ, mergeQ, arbQ, memory, tagQ, outQ>>

\* Wrong variant: whichever channel has an answer.
NextChannelAny(p) == {c \in Channel : tagQ[p] # <<>> /\ respQ[<<p, c>>] # <<>>}

\* Wrong variant: the loop over the channels ends too early.
NextChannelButLast(p) ==
  {c \in 0 .. NumChannels - 2 : tagQ[p] # <<>> /\ c = Head(tagQ[p]) /\ respQ[<<p, c>>] # <<>>}

\* The channel whose answer is the port's next one, if it is there.
NextChannel(p) == {c \in Channel : tagQ[p] # <<>> /\ c = Head(tagQ[p]) /\ respQ[<<p, c>>] # <<>>}

\* RespMerge moves the answer that is next to its output.
Collect(p) ==
  /\ ~ Full(outQ[p], OutDepth)
  /\ \E c \in NextChannel(p) :
       /\ outQ' = [outQ EXCEPT ![p] = Append(@, Head(respQ[<<p, c>>]))]
       /\ respQ' = [respQ EXCEPT ![<<p, c>>] = Tail(@)]
  /\ tagQ' = [tagQ EXCEPT ![p] = Tail(@)]
  /\ UNCHANGED <<enabled, sent, waiting, xlatedQ, mergeQ, arbQ, arbTagQ, memory, arbRespQ>>

\* The app takes an answer.
Take(p) ==
  /\ p \in enabled
  /\ outQ[p] # <<>>
  /\ outQ' = [outQ EXCEPT ![p] = Tail(@)]
  /\ waiting' = [waiting EXCEPT ![p] = Tail(@)]
  /\ UNCHANGED <<enabled, sent, xlatedQ, mergeQ, arbQ, arbTagQ, memory, arbRespQ, tagQ, respQ>>

TotalSent == FoldFunction(LAMBDA requests, total : Len(requests) + total, 0, sent)

AcceptAny ==
  /\ TotalSent < MaxSent
  /\ \E p \in enabled, isWrite \in BOOLEAN, va \in Address : Accept(p, isWrite, va)

Transfer ==
  \/ \E p \in enabled : Merge(p) \/ Collect(p)
  \/ \E a \in App, c \in Channel : Arbitrate(a, c)
  \/ \E c \in Channel : Access(c) \/ Route(c)

Next == AcceptAny \/ Transfer \/ \E p \in enabled : Take(p)

\* A unit transfers what it can at every edge, the memory answers, and an app
\* that is not deaf takes what it is given.
Served   == Transfer \/ \E p \in enabled \ Deaf : Take(p)
Fairness == WF_vars(Served)

Spec == Init /\ [][Next]_vars /\ Fairness

-----------------------------------------------------------------------------
TypeOK ==
  /\ enabled \in EnabledPorts
  /\ \A p \in Port :
       /\ Len(xlatedQ[p]) <= XlateDepth
       /\ tagQ[p] \in Seq(Channel) /\ Len(tagQ[p]) <= TagDepth
       /\ Len(outQ[p]) <= OutDepth
       /\ \A c \in Channel : Len(respQ[<<p, c>>]) <= RespDepth
  /\ \A c \in Channel :
       /\ Len(arbQ[c]) <= ArbDepth
       /\ arbTagQ[c] \in Seq(Port) /\ Len(arbTagQ[c]) <= ArbDepth
       /\ Len(arbRespQ[c]) <= ArbDepth
       /\ \A a \in App : Len(mergeQ[<<a, c>>]) <= MergeDepth

\* The answers that RespMerge hands to an app are those of its oldest reads in
\* the order it sent them, although the channels answer in any order
\* ("ensures they are put in the proper order").
AnswersInOrder ==
  \A p \in Port : IsPrefix([i \in DOMAIN outQ[p] |-> outQ[p][i].n], waiting[p])

\* The number of the port's last write of the line that its request n is for.
LastWrite(p, n) ==
  LET before == {m \in 1 .. n - 1 : sent[p][m].isWrite /\ sent[p][m].va = sent[p][n].va}
  IN  IF before = {} THEN 0 ELSE CHOOSE m \in before : \A k \in before : k <= m

\* A read is answered with what its own port wrote last before it to the same
\* line, or another port of the same app has: nothing overtakes on the way to
\* the channel, the channels share no line, and no app sees another's memory.
ReadsSeeWrites ==
  \A p \in Port : \A i \in DOMAIN outQ[p] :
    LET n == outQ[p][i].n
        w == outQ[p][i].data
    IN  IF w = Nothing THEN LastWrite(p, n) = 0
        ELSE /\ w.port[1] = p[1]
             /\ sent[w.port][w.n].va = sent[p][n].va
             /\ w.port = p => w.n = LastWrite(p, n)

\* An answer at the head of a channel always has room at the port it is for,
\* so that an app that does not take its answers never holds up the channel
\* ("Ensure these are sized so one app can not backup another").
RoomForAnswers ==
  \A c \in Channel : Routable(c) => ~ Full(respQ[<<Head(arbTagQ[c]), c>>], RespDepth)

\* The reads of a port whose app takes its answers are all answered, whatever
\* the others do, also if they never take theirs.
ReadsAnswered ==
  \A p \in UNION EnabledPorts \ Deaf : waiting[p] # <<>> ~> waiting[p] = <<>>
=============================================================================
