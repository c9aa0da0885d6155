------------------------------ MODULE Arbiter -------------------------------
(***************************************************************************)
(* RRWCArbiter: a tree of two-input arbiters for n = 2, 4 or 8 requesters, *)
(* of which each remembers the input it served last.                       *)
(*                                                                         *)
(* Node 1 is the root, 2 * k and 2 * k + 1 are the inputs of node k, and   *)
(* requester i is node n + i.  The state of the tree is a function last    *)
(* from the nodes 1 .. n - 1 to their last_serviced, and req is the set of *)
(* requesters in the cycle.                                                *)
(***************************************************************************)
EXTENDS Integers

Requester(n) == 0 .. n - 1

\* How far a node may be from another above it, for n <= 8.
Level == 0 .. 3

ResetArbiter(n) == [k \in 1 .. n - 1 |-> 1]

\* What a requester or a node's arb_req drives: node k requests when one of the
\* requesters at or below it does, which are those it is an ancestor of.
Requests(n, req) ==
  [k \in 1 .. 2 * n - 1 |-> \E i \in req : \E d \in Level : (n + i) \div 2^d = k]

\* The input a two-input arbiter grants if it is granted itself.
Chosen(last_serviced, req0, req1) ==
  IF req0 /\ (last_serviced # 0 \/ ~ req1) THEN 0 ELSE 1

ChosenInput(last, asks, k) == Chosen(last[k], asks[2 * k], asks[2 * k + 1])

\* The nodes that are granted: those whose arbiter, and every arbiter above it,
\* has chosen the input they come from.
Grants(n, last, req) ==
  LET asks   == Requests(n, req)
      chosen == [k \in 1 .. n - 1 |-> ChosenInput(last, asks, k)]
  IN  [k \in 1 .. 2 * n - 1 |->
         /\ req # {}
         /\ \A d \in Level : LET node == k \div 2^d
                            IN  node > 1 => node % 2 = chosen[node \div 2]]

Granted(n, last, req) ==
  LET granted == Grants(n, last, req)
  IN  {i \in Requester(n) : granted[n + i]}

\* Wrong variant: a node's choice counts also when it was not granted itself.
ServicedAlways(n, last, req) ==
  LET asks == Requests(n, req)
  IN  [k \in 1 .. n - 1 |-> IF asks[k] THEN ChosenInput(last, asks, k) ELSE last[k]]

Serviced(n, last, req) ==
  LET asks    == Requests(n, req)
      granted == Grants(n, last, req)
  IN  [k \in 1 .. n - 1 |-> IF granted[k] THEN ChosenInput(last, asks, k) ELSE last[k]]
=============================================================================
