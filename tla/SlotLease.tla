----------------------------- MODULE SlotLease -----------------------------
(***************************************************************************)
(* What the daemon promises its clients: a session id is issued once, and  *)
(* an open session has at most one slot on lease, whose image offers the   *)
(* session's app and which nobody else has on lease.  How slots are found, *)
(* in which maps leases are recorded and what the FPGA management library  *)
(* does is left to HostScheduler, which implements this module.            *)
(***************************************************************************)
CONSTANTS Session, App, Fpga, Slot, Null,
  Image   (* what one FPGA can be configured as: slot -> app or Null *)

Place == Fpga \X Slot

ASSUME LeaseAssumption ==
  /\ Image \subseteq [Slot -> App \cup {Null}]
  /\ Null \notin App
  /\ Null \notin Place

VARIABLES
  issued,   \* sessions ever opened
  app,      \* session -> the app it was opened for, Null when it is not open
  lease,    \* session -> place or Null
  config    \* FPGA -> the image it has, all Null before the first one

vars == <<issued, app, lease, config>>

Init ==
  /\ issued = {}
  /\ app = [s \in Session |-> Null]
  /\ lease = [s \in Session |-> Null]
  /\ config = [f \in Fpga |-> [k \in Slot |-> Null]]

Offers(p, a)  == config[p[1]][p[2]] = a
Idle(f)       == \A s \in Session : lease[s] # Null => lease[s][1] # f
Waiting(s)    == app[s] # Null /\ lease[s] = Null

-----------------------------------------------------------------------------
Open(s, a) ==
  /\ s \notin issued
  /\ issued' = issued \cup {s}
  /\ app' = [app EXCEPT ![s] = a]
  /\ UNCHANGED <<lease, config>>

Close(s) ==
  /\ app[s] # Null
  /\ app' = [app EXCEPT ![s] = Null]
  /\ lease' = [lease EXCEPT ![s] = Null]
  /\ UNCHANGED <<issued, config>>

\* A waiting session gets a place nobody leases.
Grant(s, p) ==
  /\ Waiting(s)
  /\ Offers(p, app[s])
  /\ \A t \in Session : lease[t] # p
  /\ lease' = [lease EXCEPT ![s] = p]
  /\ UNCHANGED <<issued, app, config>>

\* It takes a place over from the session that leases it, and from no other.
Take(s, t, p) ==
  /\ Waiting(s)
  /\ Offers(p, app[s])
  /\ lease[t] = p
  /\ lease' = [lease EXCEPT ![s] = p, ![t] = Null]
  /\ UNCHANGED <<issued, app, config>>

\* An FPGA is given an image that offers the app of s.  Its leases end, so it
\* must have none, or no place of any FPGA offers the app.
Reconfigure(s, p) ==
  /\ Waiting(s)
  /\ Idle(p[1]) \/ \A q \in Place : ~ Offers(q, app[s])
  /\ \E image \in Image : /\ image[p[2]] = app[s]
                          /\ config' = [config EXCEPT ![p[1]] = image]
  /\ lease' = [t \in Session |->
                 IF t = s THEN p
                 ELSE IF lease[t] # Null /\ lease[t][1] = p[1] THEN Null
                 ELSE lease[t]]
  /\ UNCHANGED <<issued, app>>

\* An FPGA nobody leases a place of may be given any image.
Flash(f) ==
  /\ Idle(f)
  /\ \E image \in Image : config' = [config EXCEPT ![f] = image]
  /\ UNCHANGED <<issued, app, lease>>

Next ==
  \/ \E s \in Session, a \in App : Open(s, a)
  \/ \E s \in Session : Close(s)
  \/ \E s \in Session, p \in Place : Grant(s, p) \/ Reconfigure(s, p)
  \/ \E s, t \in Session, p \in Place : Take(s, t, p)
  \/ \E f \in Fpga : Flash(f)

Spec == Init /\ [][Next]_vars

-----------------------------------------------------------------------------
TypeOK ==
  /\ issued \subseteq Session
  /\ app \in [Session -> App \cup {Null}]
  /\ lease \in [Session -> Place \cup {Null}]
  /\ config \in [Fpga -> [Slot -> App \cup {Null}]]

\* No place is on lease to two sessions (slot_session_map and the sessions'
\* own fpga_id and fpga_slot could only then tell different stories).
Exclusive ==
  \A s, t \in Session : lease[s] # Null /\ lease[s] = lease[t] => s = t

\* A lease is held by an open session, for a place that offers its app: what
\* every register access of handleCntrlRegWriteRequest relies on.
Fits ==
  \A s \in Session :
    lease[s] # Null => app[s] # Null /\ Offers(lease[s], app[s])
=============================================================================
