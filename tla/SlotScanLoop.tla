---------------------------- MODULE SlotScanLoop ----------------------------
(***************************************************************************)
(* The double loop of handleScheduling as it is written: one step per slot *)
(* visited, with the loop's locals as variables.  ScanInit ranges over all *)
(* pairs of slot tables, so that a run compares what the loop leaves in    *)
(* its locals with the closed form of SlotScan on all of them.             *)
(***************************************************************************)
EXTENDS SlotScan

CONSTANTS
  Wanted,   (* desired_app_id                                  *)
  Other,    (* any other app id                                *)
  Occupant  (* the session of every slot that is not vacant    *)

\* An app id is a string, and the session of a slot that is in use a pointer.
ASSUME LoopAssumption == Wanted # Null /\ Occupant # Null

VARIABLES
  session_map, appid_map,  \* the tables, which the loop only reads
  fpga_id, slot_id,
  max_load,                \* ~0x0 is written Infinity
  matching_slot_found, matching_empty_slot_found,
  chosen                   \* <<fpga_id_to_use, slot_id_to_use>>

locals == <<max_load, matching_slot_found, matching_empty_slot_found, chosen>>
scan   == <<session_map, appid_map, fpga_id, slot_id, locals>>

\* uint64_t max_load = ~0x0, larger than every load.
Infinity == MaxSlots + 1

\* num_slots of an FPGA: the slots its image has, a prefix of Slot.
TableSlots(f) == {k \in Slot : appid_map[f][k] # Null}

Tables ==
  /\ appid_map \in [Fpga -> [Slot -> {Wanted, Other, Null}]]
  /\ \A f \in Fpga : \A k \in Slot :
       appid_map[f][k] = Null => \A j \in Slot : j > k => appid_map[f][j] = Null
  /\ session_map \in [Fpga -> [Slot -> {Occupant, Null}]]
  /\ \A f \in Fpga : \A k \in Slot : appid_map[f][k] = Null => session_map[f][k] = Null

ScanInit ==
  /\ Tables
  /\ fpga_id = 0
  /\ slot_id = 0
  /\ max_load = Infinity
  /\ matching_slot_found = FALSE
  /\ matching_empty_slot_found = FALSE
  /\ chosen = Null

-----------------------------------------------------------------------------
Here  == <<fpga_id, slot_id>>
Match == fpga_id \in Fpga /\ slot_id \in TableSlots(fpga_id)
           /\ appid_map[fpga_id][slot_id] = Wanted
Idle  == session_map[fpga_id][slot_id] = Null

Continue == slot_id' = slot_id + 1 /\ UNCHANGED <<session_map, appid_map, fpga_id>>
Break    == slot_id' = 0 /\ fpga_id' = fpga_id + 1 /\ UNCHANGED <<session_map, appid_map>>

\* A vacant matching slot: the first one seen, or one on a less loaded FPGA.
TakeVacant ==
  /\ Match /\ Idle
  /\ ~ matching_empty_slot_found \/ max_load > Load(session_map, fpga_id)
  /\ max_load' = Load(session_map, fpga_id)
  /\ matching_slot_found' = TRUE
  /\ matching_empty_slot_found' = TRUE
  /\ chosen' = Here
  /\ Break

\* Wrong variant: the first match ends the look at the FPGA's other slots.
RememberFirstAndBreak ==
  /\ Match /\ ~ Idle
  /\ ~ matching_slot_found
  /\ max_load' = Load(session_map, fpga_id)
  /\ matching_slot_found' = TRUE
  /\ chosen' = Here
  /\ UNCHANGED matching_empty_slot_found
  /\ Break

\* The first match of all is occupied: remember it and look further.
RememberFirst ==
  /\ Match /\ ~ Idle
  /\ ~ matching_slot_found
  /\ max_load' = Load(session_map, fpga_id)
  /\ matching_slot_found' = TRUE
  /\ chosen' = Here
  /\ UNCHANGED matching_empty_slot_found
  /\ Continue

\* An occupied match on a less loaded FPGA, no vacant one seen yet.
ImproveVictim ==
  /\ Match /\ ~ Idle
  /\ matching_slot_found /\ ~ matching_empty_slot_found
  /\ max_load > Load(session_map, fpga_id)
  /\ max_load' = Load(session_map, fpga_id)
  /\ chosen' = Here
  /\ UNCHANGED <<matching_slot_found, matching_empty_slot_found>>
  /\ Break

\* Every other slot leaves the locals alone.
PassSlot ==
  /\ fpga_id \in Fpga /\ slot_id \in TableSlots(fpga_id)
  /\ \/ ~ Match
     \/ Idle /\ matching_empty_slot_found /\ max_load <= Load(session_map, fpga_id)
     \/ ~ Idle /\ matching_empty_slot_found
     \/ ~ Idle /\ matching_slot_found /\ max_load <= Load(session_map, fpga_id)
  /\ UNCHANGED locals
  /\ Continue

NextFpga ==
  /\ fpga_id \in Fpga /\ slot_id \notin TableSlots(fpga_id)
  /\ UNCHANGED locals
  /\ Break

ScanNext == TakeVacant \/ RememberFirst \/ ImproveVictim \/ PassSlot \/ NextFpga

ScanSpec == ScanInit /\ [][ScanNext]_scan

-----------------------------------------------------------------------------
\* When the loop ends, its locals hold what the closed form of SlotScan says:
\* whether there is a vacant slot or a victim to be had, and at which place.
\* This is the outcome handleScheduling branches on (matching_empty_slot_found,
\* matching_slot_found, fpga_id_to_use, slot_id_to_use).
LoopMeetsClosedForm ==
  fpga_id = NumFpga =>
    /\ matching_empty_slot_found = VacantFound(session_map, appid_map, Wanted)
    /\ (matching_slot_found /\ ~ matching_empty_slot_found)
         = VictimFound(session_map, appid_map, Wanted)
    /\ matching_empty_slot_found => chosen = VacantPlace(session_map, appid_map, Wanted)
    /\ (matching_slot_found /\ ~ matching_empty_slot_found)
         => chosen = VictimPlace(session_map, appid_map, Wanted)

=============================================================================
