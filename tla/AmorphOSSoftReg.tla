-------------------------- MODULE AmorphOSSoftReg ---------------------------
(***************************************************************************)
(* SoftReg virtualization: the host's requests go straight to the app that *)
(* the upper address bits name, and the apps' responses wait in a FIFO per *)
(* app until the arbiter sends them back, one in a cycle.                  *)
(*                                                                         *)
(* An action is a rising clock edge.  A read, and the response to it, is   *)
(* represented by the app that the host has addressed.  Writes are not     *)
(* answered and leave nothing behind here.                                 *)
(***************************************************************************)
EXTENDS Arbiter, Fifo

CONSTANTS
  NumApps,   (* AMI_NUM_APPS, 8 in the repository                        *)
  Enabled,   (* apps with app_enable, all of them in cl_aos              *)
  Depth,     (* of a response FIFO, 2^4                                  *)
  Window     (* reads the host has out at an app                         *)

App == Requester(NumApps)

\* "has to accept it, SW makes sure it isn't swamped" (cl_aos)
ASSUME SoftRegAssumption ==
  /\ NumApps \in {2, 4, 8}
  /\ Enabled \subseteq App
  /\ Depth \in Nat /\ Window \in 1 .. Depth

NoApp == -1

VARIABLES
  outstanding,    \* history: app -> reads of it the host has no answer to
  serving,        \* environment: app -> reads it has yet to answer
  respQ,          \* app -> its FIFO of responses
  last_serviced,  \* of the nodes of the arbiter
  passed          \* history: app -> grants to others its response has seen

vars == <<outstanding, serving, respQ, last_serviced, passed>>

Init ==
  /\ outstanding = [a \in App |-> <<>>]
  /\ serving = [a \in App |-> <<>>]
  /\ respQ = [a \in App |-> <<>>]
  /\ last_serviced = ResetArbiter(NumApps)
  /\ passed = [a \in App |-> 0]

-----------------------------------------------------------------------------
\* Wrong variant: the app select is one bit short.
RoutedShort(a, addressed) == addressed # NoApp /\ a = addressed % (NumApps \div 2)

\* valid_route: the request is for this app.
Routed(a, addressed) == a = addressed

\* The arbiter's request and grant vectors.
Req   == {a \in App : respQ[a] # <<>>}
Grant == Granted(NumApps, last_serviced, Req)

\* Wrong variant: a response is stored only when none is sent.
StoredWhenIdle(a, responding) == a \in Enabled /\ a \in responding /\ Req = {}

\* A response that finds its FIFO full is dropped, as is that of an app that is
\* not enabled.
Stored(a, responding) == a \in Enabled /\ a \in responding /\ ~ Full(respQ[a], Depth)

\* softreg_resp: the head of the FIFO that is granted.
Response(grant) == Head(respQ[CHOOSE a \in grant : TRUE])

\* addressed is the app that the host reads, or NoApp; responding are the apps
\* with a valid app_softreg_resp, each in a later cycle than the read.
Clock(addressed, responding, grant) ==
  /\ addressed # NoApp => addressed \in Enabled /\ Len(outstanding[addressed]) < Window
  /\ \A a \in responding : serving[a] # <<>>
  /\ outstanding' = [a \in App |->
       LET left == Dequeued(outstanding[a], grant # {} /\ Response(grant) = a)
       IN  IF a = addressed THEN Append(left, a) ELSE left]
  /\ serving' = [a \in App |->
       LET left == Dequeued(serving[a], a \in responding)
       IN  IF Routed(a, addressed) THEN Append(left, addressed) ELSE left]
  /\ respQ' = [a \in App |->
       Clocked(respQ[a], Depth, Stored(a, responding), Head(serving[a]), a \in grant)]
  /\ passed' = [a \in App |-> IF a \in Req \ grant THEN passed[a] + 1 ELSE 0]

Next ==
  LET grant == Grant
  IN  /\ last_serviced' = Serviced(NumApps, last_serviced, Req)
      /\ \E addressed \in App \cup {NoApp}, responding \in SUBSET App :
           Clock(addressed, responding, grant)

Spec == Init /\ [][Next]_vars

-----------------------------------------------------------------------------
TypeOK ==
  /\ \A a \in App : {outstanding[a], serving[a], respQ[a]} \subseteq Seq({a})
  /\ \A a \in App : Len(respQ[a]) <= Depth
  /\ last_serviced \in [1 .. NumApps - 1 -> {0, 1}]
  /\ passed \in [App -> Nat]

\* Every read the host waits for is with the app it has addressed or its
\* response is in that app's FIFO, and nothing else is: no response is dropped
\* ("potential to drop an incoming response if queue is backed up"), repeated
\* or sent by another app, and those of one app keep their order.
NoneDropped ==
  \A a \in App : outstanding[a] = respQ[a] \o serving[a]

\* No response is passed over more often than there are other apps, although
\* an inner arbiter does not know whether the tree above it will grant it.
ServedInTurn == \A a \in App : passed[a] < NumApps
=============================================================================
