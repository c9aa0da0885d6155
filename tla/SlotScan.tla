------------------------------ MODULE SlotScan ------------------------------
(***************************************************************************)
(* The pure part of the host scheduler: how aos_host looks for a slot and  *)
(* for an image.  The operators take the two slot tables as arguments      *)
(* because handleScheduling evaluates them both on the tables it found and *)
(* on the tables it has just changed:                                      *)
(*   ss[f][k]  slot_session_map, the session in slot k of FPGA f or Null   *)
(*   sa[f][k]  slot_appid_map, the app id image f offers in slot k or Null *)
(* A table is total on Slot; the slots an image does not have hold Null in *)
(* both tables, which is what size() tells apart in the code.              *)
(***************************************************************************)
EXTENDS Integers, FiniteSets

CONSTANTS
  NumFpga,      (* num_fpga, the first argument of the daemon               *)
  MaxSlots,     (* the largest num_slots of an image                        *)
  AppIds,       (* the app ids clients may name                             *)
  NumImages,    (* image_library.size()                                     *)
  ImageLibrary, (* image_library: index -> slot -> app id, Null for no slot *)
  Null          (* nullptr, an absent map entry, an unset place             *)

Fpga     == 0 .. NumFpga - 1
Slot     == 0 .. MaxSlots - 1
Place    == Fpga \X Slot
ImageIdx == 0 .. NumImages - 1

ASSUME ScanAssumption ==
  /\ NumFpga \in Nat \ {0}
  /\ MaxSlots \in Nat \ {0}
  /\ NumImages \in Nat \ {0}
  /\ ImageLibrary \in [ImageIdx -> [Slot -> AppIds \cup {Null}]]
  /\ \A i \in ImageIdx : \A j, k \in Slot :
       j < k /\ ImageLibrary[i][j] = Null => ImageLibrary[i][k] = Null
  /\ Null \notin AppIds
  /\ Null \notin Int
  /\ Null \notin Place

-----------------------------------------------------------------------------
(* Slots of one FPGA.                                                      *)

\* First index of a loop that runs upwards and stops at the first hit.
First(S) == CHOOSE i \in S : \A j \in S : i <= j

\* Wrong variant: any slot of the image will do.
MatchingAnyApp(sa, app, f) == {k \in Slot : sa[f][k] # Null}

\* Slots whose image app is the wanted one: slot_appid_map_[slot_id] == app_id.
Matching(sa, app, f) == {k \in Slot : sa[f][k] = app}

\* Those of them that no session holds: slot_session_map_[slot_id] == nullptr.
Vacant(ss, sa, app, f) == {k \in Matching(sa, app, f) : ss[f][k] = Null}

\* calcFPGALoad: the slots of f that hold a session.
Load(ss, f) == Cardinality({k \in Slot : ss[f][k] # Null})

-----------------------------------------------------------------------------
(* The image library.                                                      *)

NumSlots(i) == Cardinality({k \in Slot : ImageLibrary[i][k] # Null})

\* getAllFittingImages for one copy of one app.
FittingImages(app) == {i \in ImageIdx : \E k \in Slot : ImageLibrary[i][k] = app}

AppIdExists(app) == FittingImages(app) # {}

\* Wrong variant: selected_idx keeps its initial value.
ReplacementDefault(app) == First(ImageIdx)

\* getReplacementImage: the fitting image with most slots, the first such one.
ReplacementImage(app) ==
  LET most == {i \in FittingImages(app) :
                 \A j \in FittingImages(app) : NumSlots(j) <= NumSlots(i)}
  IN  First(most)

-----------------------------------------------------------------------------
(***************************************************************************)
(* The scan over all FPGAs of handleScheduling, steps 2 and 3, in closed   *)
(* form (SlotScanLoop has the loop as it is written and the runs compare   *)
(* the two).  The loop walks the FPGAs upwards and keeps one candidate.    *)
(*  - Until a vacant slot was seen, the candidate is the first matching    *)
(*    slot of the least loaded FPGA so far, an occupied one.               *)
(*  - A strictly less loaded FPGA whose first matching slot is occupied    *)
(*    becomes the candidate and the inner loop breaks, so the vacant slots *)
(*    behind that first slot are not looked at: the FPGA is Skipped.       *)
(*  - From the first vacant slot seen on, only vacant slots on strictly    *)
(*    less loaded FPGAs improve the candidate.                             *)
(***************************************************************************)
Candidates(sa, app) == {f \in Fpga : Matching(sa, app, f) # {}}

Skipped(ss, sa, app, f) ==
  LET before == {g \in Candidates(sa, app) : g < f}
  IN  /\ ss[f][First(Matching(sa, app, f))] # Null
      /\ before # {}
      /\ \A g \in before : Load(ss, f) < Load(ss, g)

\* FPGAs on which the scan gets to see a vacant slot if none was seen before.
SeenVacant(ss, sa, app) ==
  {f \in Fpga : Vacant(ss, sa, app, f) # {} /\ ~ Skipped(ss, sa, app, f)}

\* max_load > fpga_load as the tie break: least load, the earliest on a tie.
LeastLoaded(ss, S) ==
  First({f \in S : \A g \in S : Load(ss, f) <= Load(ss, g)})

VacantFpgas(ss, sa, app) ==
  {f \in Fpga : /\ Vacant(ss, sa, app, f) # {}
                /\ f >= First(SeenVacant(ss, sa, app))}

\* matching_empty_slot_found, and the slot found.
VacantFound(ss, sa, app) == SeenVacant(ss, sa, app) # {}

VacantPlace(ss, sa, app) ==
  LET f == LeastLoaded(ss, VacantFpgas(ss, sa, app))
  IN  <<f, First(Vacant(ss, sa, app, f))>>

\* matching_slot_found without a vacant one, and the slot to be preempted.
VictimFound(ss, sa, app) ==
  ~ VacantFound(ss, sa, app) /\ Candidates(sa, app) # {}

VictimPlace(ss, sa, app) ==
  LET f == LeastLoaded(ss, Candidates(sa, app))
  IN  <<f, First(Matching(sa, app, f))>>

\* Step 4: max_load is never updated, so the last FPGA is always the victim.
VictimFpga == NumFpga - 1

=============================================================================
