--------------------------- MODULE HostScheduler ---------------------------
(***************************************************************************)
(* The session and slot scheduler of the host daemon (class aos_host with  *)
(* aos_scheduler and aos_app_session).  The daemon serves one command per  *)
(* connection and finishes it before it accepts the next one, so a command *)
(* is one action: every call its handler makes, down to handleScheduling,  *)
(* switchImage and bindAppToSlot.                                          *)
(*                                                                         *)
(* FPGA management calls can fail, and the daemon goes on after most of    *)
(* the failures; Faults says which of them a run allows.  A failed assert  *)
(* and a null dereference end the daemon.                                  *)
(***************************************************************************)
EXTENDS SlotScan

CONSTANTS
  MaxSessions,  (* bound: sessions opened in one life of the daemon      *)
  Faults        (* what may go wrong, a subset of FaultKinds             *)

FaultKinds ==
  { "clear",       \* fpga-clear-local-image fails
    "load",        \* fpga-load-local-image fails, the FPGA stays as it is
    "attach",      \* fpga_pci_attach fails
    "detach",      \* fpga_pci_detach fails
    "end_twice" }  \* a client ends a session that is not open

ASSUME HostAssumption == MaxSessions \in Nat \ {0} /\ Faults \subseteq FaultKinds

SessionId == 0 .. MaxSessions - 1
Bars      == {"BAR1", "BAR4"}

VARIABLES
  daemon,              \* "boot" in main's loop, "run" in listen_loop, "down"
  booting,             \* main's fpga_id, the next FPGA to get the default image
  next_session_id,
  sessions,            \* sessions: id -> app_id of the session, Null if absent
  binding,             \* its active_slot, fpga_id and fpga_slot, Null unbound
  slot_session,        \* slot_session_map
  slot_appid,          \* slot_appid_map
  current_image,       \* current_image of aos_scheduler, Null when cleared
  loaded,              \* the image the FPGA really has, Null for none
  interfaces_enabled,
  attached,            \* bar1_attached and bar4_attached
  mishaps,             \* history: FPGAs on which switchImage has last met with
                       \* a load or an attach that failed
  reply                \* the response packet of the last command

books  == <<sessions, binding, slot_session, slot_appid>>
device == <<current_image, loaded, interfaces_enabled, attached, mishaps>>
vars   == <<daemon, booting, next_session_id, books, device, reply>>

NoSlots  == [k \in Slot |-> Null]
NoAnswer == [code |-> "NONE", session |-> Null, place |-> Null]

\* Wrong variant: the id of the session that comes next.
AnswerNextId(code, s, p) ==
  [code |-> code, session |-> IF s = Null THEN Null ELSE s + 1, place |-> p]

Answer(code, s, p) == [code |-> code, session |-> s, place |-> p]

\* The FPGAs of a fresh F1 instance have no image.
Init ==
  /\ daemon = "boot"
  /\ booting = 0
  /\ next_session_id = 0
  /\ sessions = [s \in SessionId |-> Null]
  /\ binding = [s \in SessionId |-> Null]
  /\ slot_session = [f \in Fpga |-> NoSlots]
  /\ slot_appid = [f \in Fpga |-> NoSlots]
  /\ current_image = [f \in Fpga |-> Null]
  /\ loaded = [f \in Fpga |-> Null]
  /\ interfaces_enabled = [f \in Fpga |-> FALSE]
  /\ attached = [f \in Fpga |-> {}]
  /\ mishaps = {}
  /\ reply = NoAnswer

-----------------------------------------------------------------------------
(* switchImage from its call of detach_from_image on: what becomes of the  *)
(* FPGA f when image i is put on it.                                       *)

MayFail(kind)    == IF kind \in Faults THEN BOOLEAN ELSE {FALSE}
MayRefuse(kind)  == IF kind \in Faults THEN SUBSET Bars ELSE {{}}

\* clearImage drops the result of the command, so an image may stay.
AfterClear(f) == IF "clear" \in Faults THEN {loaded[f], Null} ELSE {Null}

\* Wrong variant: the default image is loaded whatever the index.
LoadDefaultOnly(f, i, failed) ==
  \E image \in IF failed THEN AfterClear(f) ELSE {0} :
    loaded' = [loaded EXCEPT ![f] = image]

\* clearImage and loadImage, which drops its command's result as well.
ClearAndLoad(f, i, failed) ==
  \E image \in IF failed THEN AfterClear(f) ELSE {i} :
    loaded' = [loaded EXCEPT ![f] = image]

\* detach_from_image asserts that both BARs are attached, attach_to_image that
\* none is; what a BAR's attach returns is dropped, and so is check_slot's.
SwitchDevice(f, i) ==
  /\ interfaces_enabled[f] => attached[f] = Bars
  /\ \E failed \in MayFail("load"), refused \in MayRefuse("attach") :
       /\ ClearAndLoad(f, i, failed)
       /\ attached' = [attached EXCEPT ![f] = Bars \ refused]
       /\ mishaps' = IF failed \/ refused # {} THEN mishaps \cup {f} ELSE mishaps \ {f}
  /\ current_image' = [current_image EXCEPT ![f] = i]
  /\ interfaces_enabled' = [interfaces_enabled EXCEPT ![f] = TRUE]

\* The assertion of a detach fails on a BAR an earlier attach failed on, or the
\* one of the attach on a BAR whose detach has just failed.
SwitchAborts(f, i) ==
  /\ interfaces_enabled[f]
  /\ \/ attached[f] # Bars /\ UNCHANGED loaded
     \/ /\ attached[f] = Bars
        /\ "detach" \in Faults
        /\ \E failed \in MayFail("load") : ClearAndLoad(f, i, failed)
  /\ daemon' = "down"
  /\ reply' = NoAnswer
  /\ UNCHANGED <<booting, next_session_id, books, current_image,
                 interfaces_enabled, attached, mishaps>>

-----------------------------------------------------------------------------
(* main: every FPGA gets image 0 before the socket is opened.              *)

LoadDefaultImage ==
  /\ daemon = "boot"
  /\ SwitchDevice(booting, 0)
  /\ slot_session' = [slot_session EXCEPT ![booting] = NoSlots]
  /\ slot_appid' = [slot_appid EXCEPT ![booting] = ImageLibrary[0]]
  /\ booting' = booting + 1
  /\ daemon' = IF booting + 1 = NumFpga THEN "run" ELSE "boot"
  /\ UNCHANGED <<next_session_id, sessions, binding, reply>>

-----------------------------------------------------------------------------
(* Sessions.                                                               *)

IsSessionIdValid(s) == sessions[s] # Null
Waiting(s) == daemon = "run" /\ IsSessionIdValid(s) /\ binding[s] = Null

\* Wrong variant: unbindFromSlot is not called for the evicted sessions.
RebindOnly(s, p, evicted) ==
  binding' = [t \in SessionId |-> IF t = s THEN p ELSE binding[t]]

\* The session's binding becomes p, and those of the evicted sessions go.
Rebind(s, p, evicted) ==
  binding' = [t \in SessionId |-> IF t = s THEN p
                                  ELSE IF t \in evicted THEN Null ELSE binding[t]]

InitiateSession(app) ==
  /\ daemon = "run" /\ AppIdExists(app)
  /\ next_session_id < MaxSessions
  /\ sessions' = [sessions EXCEPT ![next_session_id] = app]
  /\ binding' = [binding EXCEPT ![next_session_id] = Null]
  /\ next_session_id' = next_session_id + 1
  /\ reply' = Answer("SUCCESS", next_session_id, Null)
  /\ UNCHANGED <<daemon, booting, slot_session, slot_appid, device>>

RefuseSession(app) ==
  /\ daemon = "run" /\ ~ AppIdExists(app)
  /\ reply' = Answer("APP_DOES_NOT_EXIST", Null, Null)
  /\ UNCHANGED <<daemon, booting, next_session_id, books, device>>

\* unbindAppFromSlot, and resetSlotState, which does nothing.  No reply.
EndSession(s) ==
  /\ daemon = "run" /\ IsSessionIdValid(s)
  /\ slot_session' =
       IF binding[s] = Null THEN slot_session
       ELSE [slot_session EXCEPT ![binding[s][1]][binding[s][2]] = Null]
  /\ binding' = [binding EXCEPT ![s] = Null]
  /\ sessions' = [sessions EXCEPT ![s] = Null]
  /\ reply' = NoAnswer
  /\ UNCHANGED <<daemon, booting, next_session_id, slot_appid, device>>

\* The body of the validity check is empty: sessions[session_id] makes a null
\* entry for the unknown id, which isSessionScheduled then dereferences.
EndUnknownSession(s) ==
  /\ daemon = "run" /\ ~ IsSessionIdValid(s) /\ "end_twice" \in Faults
  /\ daemon' = "down"
  /\ reply' = NoAnswer
  /\ UNCHANGED <<booting, next_session_id, books, device>>

-----------------------------------------------------------------------------
(* An access: handleCntrlRegWriteRequest or handleCntrlReqReadRequest up   *)
(* to its use of the session's slot.                                       *)

AccessRefused(s) ==
  /\ daemon = "run" /\ ~ IsSessionIdValid(s)
  /\ reply' = Answer("INVALID_SESSION_ID", s, Null)
  /\ UNCHANGED <<daemon, booting, next_session_id, books, device>>

AccessBound(s) ==
  /\ daemon = "run" /\ IsSessionIdValid(s) /\ binding[s] # Null
  /\ reply' = Answer("SUCCESS", s, binding[s])
  /\ UNCHANGED <<daemon, booting, next_session_id, books, device>>

Bind(s, p, evicted, ss) ==
  /\ slot_session' = [ss EXCEPT ![p[1]][p[2]] = s]
  /\ Rebind(s, p, evicted)
  /\ reply' = Answer("SUCCESS", s, p)
  /\ UNCHANGED <<daemon, booting, next_session_id, sessions>>

-----------------------------------------------------------------------------
(* handleScheduling, for a session that is not bound.                      *)

\* Step 1: an FPGA without an image, or else one without a bound session.
Imageless == {f \in Fpga : current_image[f] = Null}
Unloaded  == {f \in Fpga : Load(slot_session, f) = 0}
\* Wrong variant: only an FPGA without an image counts as empty.
IdleFoundImageless == Imageless # {}

IdleFound == Imageless \cup Unloaded # {}
IdleFpga  == IF Imageless # {} THEN First(Imageless) ELSE First(Unloaded)

\* The tables after switchImage(f, ImageLibrary[i]).
CleanTable(f)    == [slot_session EXCEPT ![f] = NoSlots]
ImageTable(f, i) == [slot_appid EXCEPT ![f] = ImageLibrary[i]]

\* Step 1, and step 2 on the tables it leaves.
FlashIdleFpga(s) ==
  /\ Waiting(s) /\ IdleFound
  /\ LET i  == ReplacementImage(sessions[s])
         ss == CleanTable(IdleFpga)
         sa == ImageTable(IdleFpga, i)
     IN  /\ SwitchDevice(IdleFpga, i)
         /\ slot_appid' = sa
         /\ Bind(s, VacantPlace(ss, sa, sessions[s]), {}, ss)

\* Step 2: a vacant slot of the app.
TakeVacantSlot(s) ==
  /\ Waiting(s) /\ ~ IdleFound
  /\ VacantFound(slot_session, slot_appid, sessions[s])
  /\ Bind(s, VacantPlace(slot_session, slot_appid, sessions[s]), {}, slot_session)
  /\ UNCHANGED <<slot_appid, device>>

\* Step 3: an occupied slot of the app, whose session is unbound.
PreemptSlot(s) ==
  /\ Waiting(s) /\ ~ IdleFound
  /\ VictimFound(slot_session, slot_appid, sessions[s])
  /\ LET p == VictimPlace(slot_session, slot_appid, sessions[s])
     IN  Bind(s, p, {slot_session[p[1]][p[2]]}, slot_session)
  /\ UNCHANGED <<slot_appid, device>>

\* Wrong variant: an FPGA is flashed as soon as no slot of the app is vacant.
NoneVacant(app) ==
  \A f \in Fpga : Vacant(slot_session, slot_appid, app, f) = {}

\* Step 4: no FPGA offers the app; the victim FPGA loses all its sessions.
NoneOffers(app) == Candidates(slot_appid, app) = {}

Holders(f) == {slot_session[f][k] : k \in Slot} \ {Null}

ReplaceImage(s) ==
  /\ Waiting(s) /\ ~ IdleFound
  /\ NoneOffers(sessions[s])
  /\ LET i  == ReplacementImage(sessions[s])
         ss == CleanTable(VictimFpga)
         sa == ImageTable(VictimFpga, i)
         k  == First(Vacant(ss, sa, sessions[s], VictimFpga))
     IN  /\ SwitchDevice(VictimFpga, i)
         /\ slot_appid' = sa
         /\ Bind(s, <<VictimFpga, k>>, Holders(VictimFpga), ss)

\* An assertion ends the daemon in the switchImage of step 1 or of step 4.
AbortScheduling(s) ==
  /\ Waiting(s)
  /\ \/ IdleFound /\ SwitchAborts(IdleFpga, ReplacementImage(sessions[s]))
     \/ /\ ~ IdleFound /\ NoneOffers(sessions[s])
        /\ SwitchAborts(VictimFpga, ReplacementImage(sessions[s]))

-----------------------------------------------------------------------------
Next ==
  \/ LoadDefaultImage
  \/ \E app \in AppIds : InitiateSession(app) \/ RefuseSession(app)
  \/ \E s \in SessionId :
       \/ EndSession(s)
       \/ EndUnknownSession(s)
       \/ AccessRefused(s)
       \/ AccessBound(s)
       \/ FlashIdleFpga(s)
       \/ TakeVacantSlot(s)
       \/ PreemptSlot(s)
       \/ ReplaceImage(s)
       \/ AbortScheduling(s)

Spec == Init /\ [][Next]_vars

-----------------------------------------------------------------------------
Codes == {"NONE", "SUCCESS", "APP_DOES_NOT_EXIST", "INVALID_SESSION_ID"}

TypeOK ==
  /\ daemon \in {"boot", "run", "down"}
  /\ booting \in 0 .. NumFpga
  /\ daemon = "boot" => booting \in Fpga
  /\ next_session_id \in 0 .. MaxSessions
  /\ sessions \in [SessionId -> AppIds \cup {Null}]
  /\ binding \in [SessionId -> Place \cup {Null}]
  /\ slot_session \in [Fpga -> [Slot -> SessionId \cup {Null}]]
  /\ slot_appid \in [Fpga -> [Slot -> AppIds \cup {Null}]]
  /\ current_image \in [Fpga -> ImageIdx \cup {Null}]
  /\ loaded \in [Fpga -> ImageIdx \cup {Null}]
  /\ interfaces_enabled \in [Fpga -> BOOLEAN]
  /\ attached \in [Fpga -> SUBSET Bars]
  /\ mishaps \subseteq Fpga
  /\ reply \in [code : Codes, session : SessionId \cup {Null},
                place : Place \cup {Null}]

\* The two records of a binding agree: a slot's entry in slot_session_map names
\* a session exactly when that session's fpga_id and fpga_slot name the slot,
\* and the session is in sessions.  The handlers keep them up in different
\* functions, and switchImage clears the one without looking at the other.
BindingsAgree ==
  /\ \A s \in SessionId, p \in Place : binding[s] = p <=> slot_session[p[1]][p[2]] = s
  /\ \A s \in SessionId : binding[s] # Null => IsSessionIdValid(s)

\* A bound session has a slot of its own app.  A register access goes to the
\* slot without looking at its app again.
AppMatchesSlot ==
  \A s \in SessionId :
    binding[s] # Null => slot_appid[binding[s][1]][binding[s][2]] = sessions[s]

\* The sessions' bindings are leases: they are given, taken over and revoked
\* only in the ways SlotLease allows, whatever the faults.
Lease ==
  INSTANCE SlotLease WITH
    Session <- SessionId, App <- AppIds, Image <- {ImageLibrary[i] : i \in ImageIdx},
    issued <- 0 .. next_session_id - 1, app <- sessions,
    lease <- binding, config <- slot_appid

ImplementsLease == Lease!Spec

\* handleScheduling finds a slot for every session that waits for one, so it
\* never returns false and no access uses the slot id ~0x0 of an unbound
\* session: after the flash of step 1 there is a vacant slot, after that of
\* step 4 one on the victim, and between them steps 2, 3 and 4 miss no case.
SchedulingSucceeds ==
  \A s \in SessionId : Waiting(s) =>
    LET app == sessions[s]
        i   == ReplacementImage(app)
    IN  IF IdleFound
        THEN VacantFound(CleanTable(IdleFpga), ImageTable(IdleFpga, i), app)
        ELSE \/ VacantFound(slot_session, slot_appid, app)
             \/ VictimFound(slot_session, slot_appid, app)
             \/ /\ NoneOffers(app)
                /\ Vacant(CleanTable(VictimFpga), ImageTable(VictimFpga, i), app,
                          VictimFpga) # {}

\* The FPGA of a bound session really has both BARs attached and an image with
\* a slot of its app at the session's place, unless a load or an attach failed
\* when this very FPGA was last given an image.  Nobody looks at these results,
\* so the daemon cannot know; but what has failed on another FPGA, and what an
\* earlier failed load or clear has left behind, does no harm any more.
SlotIsReal ==
  daemon = "run" => \A s \in SessionId : binding[s] # Null =>
    LET f == binding[s][1]
        k == binding[s][2]
    IN  f \notin mishaps =>
          /\ loaded[f] # Null /\ ImageLibrary[loaded[f]][k] = sessions[s]
          /\ attached[f] = Bars

Evicted(s) == binding[s] # Null /\ binding'[s] # binding[s] /\ IsSessionIdValid(s)'

\* An open session loses its slot only to a waiting session that gets bound in
\* the same step, while every FPGA is in use: either to the one that takes this
\* very slot, or together with the other sessions of the FPGA when no image
\* that is loaded offers the app.
EvictionJustified ==
  [][\A s \in SessionId : Evicted(s) =>
       /\ \A f \in Fpga : Load(slot_session, f) > 0
       /\ \E t \in SessionId : /\ Waiting(t) /\ binding'[t] # Null
                              /\ \/ binding'[t] = binding[s]
                                 \/ /\ NoneOffers(sessions[t])
                                    /\ binding'[t][1] = binding[s][1]]_vars

\* "Find an empty slot on any currently flashed FPGA that can accomidate this
\* app" comes before the steps that unbind a session (handleScheduling's list):
\* no session is evicted while a vacant slot offers the app.
NoNeedlessEviction ==
  [][\A s, t \in SessionId :
       Evicted(s) /\ Waiting(t) /\ binding'[t] # Null =>
         \A f \in Fpga : Vacant(slot_session, slot_appid, sessions[t], f) = {}]_vars
=============================================================================
