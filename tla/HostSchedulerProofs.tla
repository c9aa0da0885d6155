------------------------ MODULE HostSchedulerProofs ------------------------
(***************************************************************************)
(* The daemon's records of which session has which slot agree, and         *)
(* handleScheduling always finds a slot: for any number of FPGAs, slots,   *)
(* images, apps and sessions, and whatever FPGA management calls fail.     *)
(* The last part proves that the double loop of handleScheduling, module   *)
(* SlotScanLoop, computes the closed form the scheduler model uses.        *)
(***************************************************************************)
EXTENDS HostScheduler, SlotScanLoop, TLAPS, FiniteSetTheorems, WellFoundedInduction

(* What the operators of SlotScan return.  The choices are minima over sets  *)
(* of naturals, so all of it rests on LeastExists.                           *)

\* A non-empty set of naturals has a least element.
LEMMA LeastExists ==
  ASSUME NEW S \in SUBSET Nat, S # {}
  PROVE  \E m \in S : \A n \in S : m <= n
<1>1. IsWellFoundedOn(OpToRel(<, Nat), Nat)
  BY NatLessThanWellFounded
<1>2. PICK m \in S : \A n \in S : ~ (<<n, m>> \in OpToRel(<, Nat))
  BY <1>1, WFMin
<1>3. \A n \in S : ~ (n < m)
  BY <1>2 DEF OpToRel
<1> QED
  BY <1>3

\* A loop's first hit is one of the hits.
LEMMA FirstIn ==
  ASSUME NEW S \in SUBSET Nat, S # {}
  PROVE  First(S) \in S
BY LeastExists DEF First

LEMMA IndexSets ==
  Fpga \subseteq Nat /\ Slot \subseteq Nat /\ ImageIdx \subseteq Nat /\ VictimFpga \in Fpga
BY ScanAssumption DEF Fpga, Slot, ImageIdx, VictimFpga

\* calcFPGALoad counts the slots, and is 0 exactly when no slot holds a session.
LEMMA LoadType ==
  ASSUME NEW ss, NEW f
  PROVE  /\ Load(ss, f) \in Nat
         /\ Load(ss, f) = 0 <=> \A k \in Slot : ss[f][k] = Null
<1> DEFINE held == {k \in Slot : ss[f][k] # Null}
<1>1. IsFiniteSet(Slot)
  BY ScanAssumption, FS_Interval DEF Slot
<1>2. IsFiniteSet(held)
  BY <1>1, FS_Subset
<1>3. Cardinality(held) \in Nat /\ (Cardinality(held) = 0 <=> held = {})
  BY <1>2, FS_CardinalityType, FS_EmptySet
<1> QED
  BY <1>3 DEF Load

\* The tie break by load picks one of the FPGAs it is given.
LEMMA LeastLoadedIn ==
  ASSUME NEW ss, NEW S \in SUBSET Fpga, S # {}
  PROVE  LeastLoaded(ss, S) \in S
<1> DEFINE loads == {Load(ss, f) : f \in S}
           least == {f \in S : \A g \in S : Load(ss, f) <= Load(ss, g)}
<1>1. loads \in SUBSET Nat /\ loads # {}
  BY LoadType
<1>2. PICK m \in loads : \A n \in loads : m <= n
  BY <1>1, LeastExists
<1>3. PICK f \in S : Load(ss, f) = m
  BY <1>2
<1>4. f \in least
  BY <1>2, <1>3
<1>5. least \in SUBSET Nat /\ least # {}
  BY <1>4, IndexSets
<1>6. First(least) \in least
  BY <1>5, FirstIn
<1> QED
  BY <1>6 DEF LeastLoaded

-----------------------------------------------------------------------------
\* The slot of step 2 is a vacant slot of the app.
LEMMA VacantPlaceIsVacant ==
  ASSUME NEW ss, NEW sa, NEW app, VacantFound(ss, sa, app)
  PROVE  LET p == VacantPlace(ss, sa, app)
         IN  p \in Place /\ ss[p[1]][p[2]] = Null /\ sa[p[1]][p[2]] = app
<1> DEFINE seen == SeenVacant(ss, sa, app)
           fpgas == VacantFpgas(ss, sa, app)
           f == LeastLoaded(ss, fpgas)
           slots == Vacant(ss, sa, app, f)
<1>1. seen \in SUBSET Nat /\ seen # {} /\ seen \subseteq Fpga
  BY IndexSets DEF VacantFound, SeenVacant
<1>2. First(seen) \in seen
  BY <1>1, FirstIn
<1>3. First(seen) \in fpgas
  BY <1>1, <1>2, IndexSets DEF SeenVacant, VacantFpgas
<1>4. fpgas \in SUBSET Fpga /\ fpgas # {}
  BY <1>3 DEF VacantFpgas
<1>5. f \in fpgas
  BY <1>4, LeastLoadedIn
<1>6. slots # {} /\ slots \in SUBSET Slot
  BY <1>5 DEF VacantFpgas, Vacant, Matching
<1>7. First(slots) \in slots
  BY <1>6, FirstIn, IndexSets
<1> QED
  BY <1>4, <1>5, <1>6, <1>7 DEF VacantPlace, Place, Vacant, Matching

\* The slot of step 3 is a slot of the app.
LEMMA VictimPlaceMatches ==
  ASSUME NEW ss, NEW sa, NEW app, VictimFound(ss, sa, app)
  PROVE  LET p == VictimPlace(ss, sa, app)
         IN  p \in Place /\ sa[p[1]][p[2]] = app
<1> DEFINE fpgas == Candidates(sa, app)
           f == LeastLoaded(ss, fpgas)
           slots == Matching(sa, app, f)
<1>1. fpgas \in SUBSET Fpga /\ fpgas # {}
  BY DEF VictimFound, Candidates
<1>2. f \in fpgas
  BY <1>1, LeastLoadedIn
<1>3. slots # {} /\ slots \in SUBSET Slot
  BY <1>2 DEF Candidates, Matching
<1>4. First(slots) \in slots
  BY <1>3, FirstIn, IndexSets
<1> QED
  BY <1>1, <1>2, <1>3, <1>4 DEF VictimPlace, Place, Matching

\* An FPGA that holds no session and offers the app is one whose vacant slot
\* the scan gets to see.
LEMMA EmptyFpgaIsSeen ==
  ASSUME NEW ss, NEW sa, NEW app, NEW f \in Fpga,
         \A k \in Slot : ss[f][k] = Null,
         Matching(sa, app, f) # {}
  PROVE  VacantFound(ss, sa, app)
<1>1. Vacant(ss, sa, app, f) # {}
  BY DEF Vacant, Matching
<1>2. First(Matching(sa, app, f)) \in Slot
  BY FirstIn, IndexSets DEF Matching
<1>3. ~ Skipped(ss, sa, app, f)
  BY <1>2 DEF Skipped
<1> QED
  BY <1>1, <1>3 DEF VacantFound, SeenVacant

\* The replacement image is an image that offers the app.
LEMMA ReplacementFits ==
  ASSUME NEW app, AppIdExists(app)
  PROVE  ReplacementImage(app) \in FittingImages(app)
<1> DEFINE fit == FittingImages(app)
           most == {i \in fit : \A j \in fit : NumSlots(j) <= NumSlots(i)}
           spare == {MaxSlots - NumSlots(i) : i \in fit}
<1>1. \A i \in fit : NumSlots(i) \in Nat /\ NumSlots(i) <= MaxSlots
  <2>1. IsFiniteSet(Slot) /\ Cardinality(Slot) = MaxSlots
    BY ScanAssumption, FS_Interval DEF Slot
  <2> TAKE i \in fit
  <2>2. {k \in Slot : ImageLibrary[i][k] # Null} \in SUBSET Slot
    OBVIOUS
  <2> QED
    BY <2>1, <2>2, FS_Subset, FS_CardinalityType DEF NumSlots
<1>2. spare \in SUBSET Nat /\ spare # {}
  BY <1>1, ScanAssumption DEF AppIdExists
<1>3. PICK m \in spare : \A n \in spare : m <= n
  BY <1>2, LeastExists
<1>4. PICK i \in fit : MaxSlots - NumSlots(i) = m
  BY <1>3
<1>5. \A j \in fit : MaxSlots - NumSlots(i) <= MaxSlots - NumSlots(j)
  BY <1>3, <1>4
<1>6. i \in most
  BY <1>1, <1>4, <1>5, ScanAssumption
<1>7. most \in SUBSET Nat /\ most # {}
  BY <1>6, IndexSets DEF FittingImages
<1>8. First(most) \in most
  BY <1>7, FirstIn
<1> QED
  BY <1>8 DEF ReplacementImage

-----------------------------------------------------------------------------
(* The scheduler.                                                          *)

\* Ids are handed out upwards, for apps the library has, after the boot.
SessionsFresh ==
  /\ \A s \in SessionId : s >= next_session_id => sessions[s] = Null
  /\ \A s \in SessionId : sessions[s] # Null => AppIdExists(sessions[s])
  /\ daemon = "boot" => \A s \in SessionId : sessions[s] = Null

\* The boot gives every FPGA an image, and none is without one afterwards.
BootedImages ==
  /\ \A f \in Fpga : f < booting => current_image[f] # Null
  /\ daemon = "run" => booting = NumFpga

IInv == TypeOK /\ BindingsAgree /\ AppMatchesSlot /\ SessionsFresh /\ BootedImages

LEMMA NullIsNew ==
  /\ Null \notin SessionId /\ Null \notin ImageIdx
  /\ Null \notin Place /\ Null \notin AppIds
  /\ SessionId \subseteq Nat
BY ScanAssumption, HostAssumption DEF SessionId, ImageIdx

LEMMA InitInv == Init => IInv
BY NullIsNew, ScanAssumption, HostAssumption
DEF Init, IInv, TypeOK, BindingsAgree, AppMatchesSlot, SessionsFresh,
    BootedImages, NoSlots, NoAnswer, Codes, Fpga, SessionId, Place,
    IsSessionIdValid, Slot, ImageIdx

-----------------------------------------------------------------------------
(* Facts about a state of the invariant.                                   *)

\* The FPGA step 1 picks holds no session.
LEMMA IdleFpgaIsIdle ==
  ASSUME IInv, daemon = "run", IdleFound
  PROVE  /\ IdleFpga \in Fpga /\ IdleFpga = First(Unloaded)
         /\ \A k \in Slot : slot_session[IdleFpga][k] = Null
<1>1. Imageless = {}
  BY ScanAssumption DEF Imageless, IInv, BootedImages, Fpga
<1>2. Unloaded # {} /\ Unloaded \in SUBSET Nat
  BY <1>1, IndexSets DEF IdleFound, Unloaded
<1>3. IdleFpga \in Unloaded /\ IdleFpga = First(Unloaded)
  BY <1>1, <1>2, FirstIn DEF IdleFpga
<1> QED
  BY <1>3, LoadType DEF Unloaded

\* An image put on an FPGA for a waiting session offers the session's app.
LEMMA ReplacementMatches ==
  ASSUME IInv, NEW s \in SessionId, Waiting(s), NEW f \in Fpga
  PROVE  LET i == ReplacementImage(sessions[s])
         IN  /\ i \in ImageIdx
             /\ Matching(ImageTable(f, i), sessions[s], f) # {}
             /\ ImageTable(f, i) \in [Fpga -> [Slot -> AppIds \cup {Null}]]
<1> DEFINE i == ReplacementImage(sessions[s])
<1>1. i \in FittingImages(sessions[s])
  BY ReplacementFits DEF IInv, SessionsFresh, Waiting, IsSessionIdValid
<1>2. i \in ImageIdx /\ \E k \in Slot : ImageLibrary[i][k] = sessions[s]
  BY <1>1 DEF FittingImages
<1>3. ImageTable(f, i) \in [Fpga -> [Slot -> AppIds \cup {Null}]]
  BY <1>2, ScanAssumption DEF IInv, TypeOK, ImageTable
<1>4. ImageTable(f, i)[f] = ImageLibrary[i]
  BY DEF ImageTable, IInv, TypeOK
<1> QED
  BY <1>2, <1>3, <1>4 DEF Matching

\* The image of an FPGA without sessions leaves a vacant slot of the app on it.
LEMMA FlashedHasVacant ==
  ASSUME IInv, NEW s \in SessionId, Waiting(s), NEW f \in Fpga
  PROVE  LET ss == CleanTable(f)
             sa == ImageTable(f, ReplacementImage(sessions[s]))
         IN  /\ VacantFound(ss, sa, sessions[s])
             /\ Vacant(ss, sa, sessions[s], f) # {}
             /\ ss \in [Fpga -> [Slot -> SessionId \cup {Null}]]
<1> DEFINE ss == CleanTable(f)
           sa == ImageTable(f, ReplacementImage(sessions[s]))
<1>1. \A k \in Slot : ss[f][k] = Null
  BY DEF IInv, TypeOK, CleanTable, NoSlots
<1>2. Matching(sa, sessions[s], f) # {}
  BY ReplacementMatches
<1>3. VacantFound(ss, sa, sessions[s])
  BY <1>1, <1>2, EmptyFpgaIsSeen
<1>4. Vacant(ss, sa, sessions[s], f) # {}
  BY <1>1, <1>2 DEF Vacant, Matching
<1>5. ss \in [Fpga -> [Slot -> SessionId \cup {Null}]]
  BY DEF IInv, TypeOK, CleanTable, NoSlots
<1> QED
  BY <1>3, <1>4, <1>5

\* No waiting session is left without a slot.
LEMMA InvSchedules == IInv => SchedulingSucceeds
<1> SUFFICES ASSUME IInv, NEW s \in SessionId, Waiting(s)
             PROVE  LET app == sessions[s]
                        i   == ReplacementImage(app)
                    IN  IF IdleFound
                        THEN VacantFound(CleanTable(IdleFpga), ImageTable(IdleFpga, i), app)
                        ELSE \/ VacantFound(slot_session, slot_appid, app)
                             \/ VictimFound(slot_session, slot_appid, app)
                             \/ /\ NoneOffers(app)
                                /\ Vacant(CleanTable(VictimFpga),
                                          ImageTable(VictimFpga, i), app, VictimFpga) # {}
  BY DEF SchedulingSucceeds
<1>1. CASE IdleFound
  BY <1>1, IdleFpgaIsIdle, FlashedHasVacant DEF Waiting
<1>2. CASE ~ IdleFound
  <2>1. Vacant(CleanTable(VictimFpga),
               ImageTable(VictimFpga, ReplacementImage(sessions[s])),
               sessions[s], VictimFpga) # {}
    BY FlashedHasVacant, IndexSets
  <2> QED
    BY <1>2, <2>1 DEF NoneOffers, VictimFound
<1> QED
  BY <1>1, <1>2

-----------------------------------------------------------------------------
(* The steps.                                                              *)

LEMMA LoadedType ==
  ASSUME IInv, NEW f \in Fpga, NEW i \in ImageIdx, NEW failed \in MayFail("load"),
         ClearAndLoad(f, i, failed)
  PROVE  loaded' \in [Fpga -> ImageIdx \cup {Null}]
<1>1. loaded \in [Fpga -> ImageIdx \cup {Null}]
  BY DEF IInv, TypeOK
<1>2. AfterClear(f) \subseteq ImageIdx \cup {Null}
  BY <1>1 DEF AfterClear
<1>3. PICK image \in IF failed THEN AfterClear(f) ELSE {i} :
        loaded' = [loaded EXCEPT ![f] = image]
  BY DEF ClearAndLoad
<1> QED
  BY <1>1, <1>2, <1>3

LEMMA DeviceType ==
  ASSUME IInv, NEW f \in Fpga, NEW i \in ImageIdx, SwitchDevice(f, i)
  PROVE  /\ current_image' \in [Fpga -> ImageIdx \cup {Null}]
         /\ loaded' \in [Fpga -> ImageIdx \cup {Null}]
         /\ interfaces_enabled' \in [Fpga -> BOOLEAN]
         /\ attached' \in [Fpga -> SUBSET Bars]
         /\ mishaps' \subseteq Fpga
         /\ \A g \in Fpga : current_image'[g] =
                             IF g = f THEN i ELSE current_image[g]
<1>1. loaded' \in [Fpga -> ImageIdx \cup {Null}]
  BY LoadedType DEF SwitchDevice
<1>2. \A refused \in MayRefuse("attach") : Bars \ refused \in SUBSET Bars
  OBVIOUS
<1> QED
  BY <1>1, <1>2 DEF SwitchDevice, IInv, TypeOK

\* Bind keeps the two records of a binding in step when the table it starts
\* from has lost exactly the sessions it evicts, the holder of p among them,
\* and the slots of all others offer what they did.
LEMMA BindInv ==
  ASSUME IInv, NEW s \in SessionId, Waiting(s), NEW p \in Place,
         NEW evicted, NEW ss \in [Fpga -> [Slot -> SessionId \cup {Null}]],
         Bind(s, p, evicted, ss),
         slot_appid' \in [Fpga -> [Slot -> AppIds \cup {Null}]],
         slot_appid'[p[1]][p[2]] = sessions[s],
         \A q \in Place, t \in SessionId : q # p =>
           (ss[q[1]][q[2]] = t <=> slot_session[q[1]][q[2]] = t /\ t \notin evicted),
         slot_session[p[1]][p[2]] \in evicted \cup {Null},
         \A q \in Place, t \in SessionId :
           slot_session[q[1]][q[2]] = t /\ t \notin evicted =>
             slot_appid'[q[1]][q[2]] = slot_appid[q[1]][q[2]]
  PROVE  /\ binding' \in [SessionId -> Place \cup {Null}]
         /\ slot_session' \in [Fpga -> [Slot -> SessionId \cup {Null}]]
         /\ reply' \in [code : Codes, session : SessionId \cup {Null},
                        place : Place \cup {Null}]
         /\ BindingsAgree'
         /\ AppMatchesSlot'
<1>1. p[1] \in Fpga /\ p[2] \in Slot /\ p = <<p[1], p[2]>>
  BY DEF Place
<1>2. /\ binding' \in [SessionId -> Place \cup {Null}]
      /\ binding'[s] = p
      /\ \A t \in SessionId : t # s =>
           binding'[t] = IF t \in evicted THEN Null ELSE binding[t]
  BY DEF Bind, Rebind, IInv, TypeOK
<1>3. /\ slot_session' \in [Fpga -> [Slot -> SessionId \cup {Null}]]
      /\ slot_session'[p[1]][p[2]] = s
      /\ \A q \in Place : q # p => slot_session'[q[1]][q[2]] = ss[q[1]][q[2]]
  BY <1>1 DEF Bind, Place
<1>4. reply' \in [code : Codes, session : SessionId \cup {Null}, place : Place \cup {Null}]
  BY DEF Bind, Answer, Codes
<1>5. \A q \in Place : slot_session[q[1]][q[2]] # s
  BY NullIsNew DEF IInv, BindingsAgree, Waiting
<1>6. \A t \in SessionId, q \in Place : binding'[t] = q <=> slot_session'[q[1]][q[2]] = t
  <2> TAKE t \in SessionId, q \in Place
  <2>1. CASE q = p
    BY <1>2, <1>3, <2>1, NullIsNew DEF IInv, BindingsAgree
  <2>2. CASE q # p /\ t = s
    BY <1>2, <1>3, <1>5, <2>2
  <2>3. CASE q # p /\ t # s
    BY <1>2, <1>3, <2>3, NullIsNew DEF IInv, BindingsAgree
  <2> QED
    BY <2>1, <2>2, <2>3
<1>7. \A t \in SessionId : binding'[t] # Null => sessions'[t] # Null
  BY <1>2 DEF IInv, BindingsAgree, IsSessionIdValid, Waiting, Bind
<1>8. BindingsAgree'
  BY <1>6, <1>7 DEF BindingsAgree, IsSessionIdValid
<1>9. AppMatchesSlot'
  <2> SUFFICES ASSUME NEW t \in SessionId, binding'[t] # Null
               PROVE  slot_appid'[binding'[t][1]][binding'[t][2]] = sessions'[t]
    BY DEF AppMatchesSlot
  <2>1. CASE t = s
    BY <1>2, <2>1 DEF Bind
  <2>2. CASE t # s
    <3>1. binding'[t] = binding[t] /\ t \notin evicted /\ binding[t] \in Place
      BY <1>2, <2>2 DEF IInv, TypeOK
    <3>2. slot_session[binding[t][1]][binding[t][2]] = t
      BY <3>1 DEF IInv, BindingsAgree
    <3> QED
      BY <3>1, <3>2 DEF IInv, AppMatchesSlot, Bind
  <2> QED
    BY <2>1, <2>2
<1> QED
  BY <1>2, <1>3, <1>4, <1>8, <1>9

LEMMA FlashIdleInv ==
  ASSUME IInv, NEW s \in SessionId, FlashIdleFpga(s)
  PROVE  IInv'
<1> DEFINE f  == IdleFpga
           i  == ReplacementImage(sessions[s])
           ss == CleanTable(f)
           sa == ImageTable(f, i)
           p  == VacantPlace(ss, sa, sessions[s])
<1> USE DEF FlashIdleFpga
<1>1. Waiting(s) /\ SwitchDevice(f, i) /\ slot_appid' = sa /\ Bind(s, p, {}, ss)
  OBVIOUS
<1>2. f \in Fpga /\ \A k \in Slot : slot_session[f][k] = Null
  BY IdleFpgaIsIdle DEF Waiting
<1>3. i \in ImageIdx /\ sa \in [Fpga -> [Slot -> AppIds \cup {Null}]]
  BY <1>1, <1>2, ReplacementMatches
<1>4. VacantFound(ss, sa, sessions[s]) /\ ss \in [Fpga -> [Slot -> SessionId \cup {Null}]]
  BY <1>1, <1>2, FlashedHasVacant
<1>5. p \in Place /\ ss[p[1]][p[2]] = Null /\ sa[p[1]][p[2]] = sessions[s]
  BY <1>4, VacantPlaceIsVacant
<1>6. \A q \in Place : ss[q[1]][q[2]] = slot_session[q[1]][q[2]]
  BY <1>2 DEF CleanTable, NoSlots, Place, IInv, TypeOK
<1>7. \A q \in Place : q[1] # f => sa[q[1]][q[2]] = slot_appid[q[1]][q[2]]
  BY <1>2 DEF ImageTable, Place, IInv, TypeOK
<1>8. \A q \in Place, t \in SessionId :
        slot_session[q[1]][q[2]] = t => sa[q[1]][q[2]] = slot_appid[q[1]][q[2]]
  BY <1>2, <1>7, NullIsNew DEF Place
<1> HIDE DEF f, i, ss, sa, p
<1>9. /\ binding' \in [SessionId -> Place \cup {Null}]
      /\ slot_session' \in [Fpga -> [Slot -> SessionId \cup {Null}]]
      /\ reply' \in [code : Codes, session : SessionId \cup {Null},
                     place : Place \cup {Null}]
      /\ BindingsAgree' /\ AppMatchesSlot'
  BY <1>1, <1>3, <1>4, <1>5, <1>6, <1>8, BindInv
<1>10. TypeOK'
  BY <1>1, <1>2, <1>3, <1>9, DeviceType DEF Bind, IInv, TypeOK
<1>11. SessionsFresh'
  BY <1>1 DEF Bind, IInv, SessionsFresh
<1>12. BootedImages'
  <2>1. \A g \in Fpga : current_image'[g] = IF g = f THEN i ELSE current_image[g]
    BY <1>1, <1>2, <1>3, DeviceType
  <2> QED
    BY <1>1, <1>3, <2>1, NullIsNew DEF Bind, IInv, BootedImages
<1> QED
  BY <1>9, <1>10, <1>11, <1>12 DEF IInv

LEMMA TakeVacantInv ==
  ASSUME IInv, NEW s \in SessionId, TakeVacantSlot(s)
  PROVE  IInv'
<1> DEFINE p == VacantPlace(slot_session, slot_appid, sessions[s])
<1>1. /\ Waiting(s) /\ Bind(s, p, {}, slot_session)
      /\ VacantFound(slot_session, slot_appid, sessions[s])
      /\ UNCHANGED <<slot_appid, device>>
  BY DEF TakeVacantSlot
<1>2. p \in Place /\ slot_session[p[1]][p[2]] = Null /\ slot_appid[p[1]][p[2]] = sessions[s]
  BY <1>1, VacantPlaceIsVacant
<1> HIDE DEF p
<1>3. /\ binding' \in [SessionId -> Place \cup {Null}]
      /\ slot_session' \in [Fpga -> [Slot -> SessionId \cup {Null}]]
      /\ reply' \in [code : Codes, session : SessionId \cup {Null},
                     place : Place \cup {Null}]
      /\ BindingsAgree' /\ AppMatchesSlot'
  BY <1>1, <1>2, BindInv DEF IInv, TypeOK
<1> QED
  BY <1>1, <1>3 DEF Bind, device, IInv, TypeOK, SessionsFresh, BootedImages

LEMMA PreemptInv ==
  ASSUME IInv, NEW s \in SessionId, PreemptSlot(s)
  PROVE  IInv'
<1> DEFINE p == VictimPlace(slot_session, slot_appid, sessions[s])
           holder == slot_session[p[1]][p[2]]
<1>1. /\ Waiting(s) /\ Bind(s, p, {holder}, slot_session)
      /\ VictimFound(slot_session, slot_appid, sessions[s])
      /\ UNCHANGED <<slot_appid, device>>
  BY DEF PreemptSlot
<1>2. p \in Place /\ slot_appid[p[1]][p[2]] = sessions[s]
  BY <1>1, VictimPlaceMatches
<1>3. \A q \in Place, t \in SessionId :
        q # p /\ slot_session[q[1]][q[2]] = t => t # holder
  BY <1>2 DEF IInv, BindingsAgree
<1> HIDE DEF p
<1>4. \A q \in Place, t \in SessionId : q # p =>
        (slot_session[q[1]][q[2]] = t <=> slot_session[q[1]][q[2]] = t /\ t \notin {holder})
  BY <1>3
<1>5. /\ binding' \in [SessionId -> Place \cup {Null}]
      /\ slot_session' \in [Fpga -> [Slot -> SessionId \cup {Null}]]
      /\ reply' \in [code : Codes, session : SessionId \cup {Null},
                     place : Place \cup {Null}]
      /\ BindingsAgree' /\ AppMatchesSlot'
  <2>1. /\ slot_session \in [Fpga -> [Slot -> SessionId \cup {Null}]]
        /\ slot_appid' \in [Fpga -> [Slot -> AppIds \cup {Null}]]
        /\ \A q \in Place, t \in SessionId :
             slot_session[q[1]][q[2]] = t /\ t \notin {holder} =>
               slot_appid'[q[1]][q[2]] = slot_appid[q[1]][q[2]]
        /\ slot_appid'[p[1]][p[2]] = sessions[s]
    BY <1>1, <1>2 DEF IInv, TypeOK
  <2> HIDE DEF holder
  <2> QED
    BY <1>1, <1>2, <1>4, <2>1, BindInv DEF holder
<1> QED
  BY <1>1, <1>5 DEF Bind, device, IInv, TypeOK, SessionsFresh, BootedImages

LEMMA ReplaceImageInv ==
  ASSUME IInv, NEW s \in SessionId, ReplaceImage(s)
  PROVE  IInv'
<1> DEFINE f  == VictimFpga
           i  == ReplacementImage(sessions[s])
           ss == CleanTable(f)
           sa == ImageTable(f, i)
           k  == First(Vacant(ss, sa, sessions[s], f))
           p  == <<f, k>>
<1>1. /\ Waiting(s) /\ SwitchDevice(f, i) /\ slot_appid' = sa
      /\ Bind(s, p, Holders(f), ss)
  BY DEF ReplaceImage
<1>2. f \in Fpga
  BY IndexSets
<1>3. i \in ImageIdx /\ sa \in [Fpga -> [Slot -> AppIds \cup {Null}]]
  BY <1>1, <1>2, ReplacementMatches
<1>4. Vacant(ss, sa, sessions[s], f) # {} /\ ss \in [Fpga -> [Slot -> SessionId \cup {Null}]]
  BY <1>1, <1>2, FlashedHasVacant
<1>5. k \in Vacant(ss, sa, sessions[s], f)
  BY <1>4, FirstIn, IndexSets DEF Vacant, Matching
<1>6. p \in Place /\ sa[p[1]][p[2]] = sessions[s]
  BY <1>2, <1>5 DEF Place, Vacant, Matching
<1>7. \A q \in Place : IF q[1] = f THEN ss[q[1]][q[2]] = Null
                       ELSE /\ ss[q[1]][q[2]] = slot_session[q[1]][q[2]]
                            /\ sa[q[1]][q[2]] = slot_appid[q[1]][q[2]]
  BY <1>2 DEF CleanTable, ImageTable, NoSlots, Place, IInv, TypeOK
<1>8. \A q \in Place, t \in SessionId :
        slot_session[q[1]][q[2]] = t => (t \in Holders(f) <=> q[1] = f)
  <2> TAKE q \in Place, t \in SessionId
  <2> HAVE slot_session[q[1]][q[2]] = t
  <2>1. CASE q[1] = f
    BY <2>1, NullIsNew DEF Holders, Place
  <2>2. CASE q[1] # f
    <3> SUFFICES ASSUME NEW j \in Slot, slot_session[f][j] = t PROVE FALSE
      BY <2>2 DEF Holders
    <3>1. <<f, j>> \in Place /\ binding[t] = <<f, j>> /\ binding[t] = q
      BY <1>2 DEF Place, IInv, BindingsAgree
    <3> QED
      BY <2>2, <3>1
  <2> QED
    BY <2>1, <2>2
<1>9. /\ slot_session[p[1]][p[2]] \in Holders(f) \cup {Null}
      /\ p[1] = f
  BY <1>5 DEF Holders, Vacant, Matching
<1> HIDE DEF f, i, ss, sa, k, p
<1>10. \A q \in Place, t \in SessionId :
         /\ ss[q[1]][q[2]] = t <=> slot_session[q[1]][q[2]] = t /\ t \notin Holders(f)
         /\ slot_session[q[1]][q[2]] = t /\ t \notin Holders(f) =>
              slot_appid'[q[1]][q[2]] = slot_appid[q[1]][q[2]]
  BY <1>1, <1>7, <1>8, NullIsNew
<1>11. /\ binding' \in [SessionId -> Place \cup {Null}]
       /\ slot_session' \in [Fpga -> [Slot -> SessionId \cup {Null}]]
       /\ reply' \in [code : Codes, session : SessionId \cup {Null},
                      place : Place \cup {Null}]
       /\ BindingsAgree' /\ AppMatchesSlot'
  BY <1>1, <1>3, <1>4, <1>6, <1>9, <1>10, BindInv
<1>12. TypeOK'
  BY <1>1, <1>2, <1>3, <1>11, DeviceType DEF Bind, IInv, TypeOK
<1>13. SessionsFresh'
  BY <1>1 DEF Bind, IInv, SessionsFresh
<1>14. BootedImages'
  <2>1. \A g \in Fpga : current_image'[g] = IF g = f THEN i ELSE current_image[g]
    BY <1>1, <1>2, <1>3, DeviceType
  <2> QED
    BY <1>1, <1>3, <2>1, NullIsNew DEF Bind, IInv, BootedImages
<1> QED
  BY <1>11, <1>12, <1>13, <1>14 DEF IInv

LEMMA BootInv ==
  ASSUME IInv, LoadDefaultImage
  PROVE  IInv'
<1> DEFINE f == booting
<1>1. f \in Fpga /\ SwitchDevice(f, 0) /\ 0 \in ImageIdx
  BY ScanAssumption DEF IInv, TypeOK, LoadDefaultImage, ImageIdx
<1>2. \A s \in SessionId : sessions[s] = Null /\ binding[s] = Null
  BY DEF LoadDefaultImage, IInv, SessionsFresh, BindingsAgree, IsSessionIdValid
<1>3. \A q \in Place : slot_session[q[1]][q[2]] = Null
  <2> SUFFICES ASSUME NEW q \in Place
               PROVE  slot_session[q[1]][q[2]] = Null
    OBVIOUS
  <2>1. q[1] \in Fpga /\ q[2] \in Slot
    BY DEF Place
  <2>2. slot_session[q[1]][q[2]] \in SessionId \cup {Null}
    BY <2>1 DEF IInv, TypeOK
  <2>3. ASSUME NEW s \in SessionId
        PROVE  slot_session[q[1]][q[2]] # s
    <3>1. binding[s] # q
      BY <1>2, <2>1, NullIsNew DEF Place
    <3> QED
      BY <3>1 DEF IInv, BindingsAgree
  <2> QED
    BY <2>2, <2>3
<1>4. /\ slot_session' \in [Fpga -> [Slot -> SessionId \cup {Null}]]
      /\ \A q \in Place : slot_session'[q[1]][q[2]] = Null
  BY <1>1, <1>3 DEF LoadDefaultImage, NoSlots, Place, IInv, TypeOK
<1>5. slot_appid' \in [Fpga -> [Slot -> AppIds \cup {Null}]]
  BY <1>1, ScanAssumption DEF LoadDefaultImage, IInv, TypeOK
<1>6. TypeOK'
  BY <1>1, <1>4, <1>5, DeviceType, ScanAssumption
  DEF LoadDefaultImage, IInv, TypeOK, Fpga
<1>7. BindingsAgree' /\ AppMatchesSlot'
  BY <1>2, <1>4, NullIsNew DEF LoadDefaultImage, BindingsAgree, AppMatchesSlot, IsSessionIdValid
<1>8. SessionsFresh'
  BY <1>2 DEF LoadDefaultImage, IInv, SessionsFresh
<1>9. BootedImages'
  <2>1. \A g \in Fpga : current_image'[g] = IF g = f THEN 0 ELSE current_image[g]
    BY <1>1, DeviceType
  <2> QED
    BY <1>1, <2>1, NullIsNew DEF LoadDefaultImage, IInv, TypeOK, BootedImages, Fpga
<1> QED
  BY <1>6, <1>7, <1>8, <1>9 DEF IInv

LEMMA InitiateInv ==
  ASSUME IInv, NEW app \in AppIds, InitiateSession(app)
  PROVE  IInv'
<1> DEFINE n == next_session_id
<1> USE DEF InitiateSession, IInv
<1>1. n \in SessionId /\ sessions[n] = Null /\ binding[n] = Null
  BY HostAssumption DEF TypeOK, SessionId, SessionsFresh, BindingsAgree, IsSessionIdValid
<1>2. binding' = binding
  BY <1>1 DEF TypeOK
<1>3. TypeOK'
  BY <1>1, <1>2, HostAssumption DEF books, device, TypeOK, Answer, Codes
<1>4. \A s \in SessionId : sessions'[s] = IF s = n THEN app ELSE sessions[s]
  BY DEF TypeOK
<1>5. BindingsAgree' /\ AppMatchesSlot'
  BY <1>1, <1>2, <1>4, ScanAssumption DEF BindingsAgree, AppMatchesSlot, IsSessionIdValid
<1>6. SessionsFresh'
  BY <1>1, <1>4, NullIsNew DEF SessionsFresh, TypeOK
<1>7. BootedImages'
  BY DEF device, BootedImages
<1> QED
  BY <1>3, <1>5, <1>6, <1>7

LEMMA EndInv ==
  ASSUME IInv, NEW s \in SessionId, EndSession(s)
  PROVE  IInv'
<1> USE DEF EndSession, IInv
<1>1. \A t \in SessionId : /\ binding'[t] = IF t = s THEN Null ELSE binding[t]
                          /\ sessions'[t] = IF t = s THEN Null ELSE sessions[t]
  BY DEF TypeOK
<1>2. slot_session' \in [Fpga -> [Slot -> SessionId \cup {Null}]]
  BY DEF TypeOK
<1>3. TypeOK'
  BY <1>2 DEF books, device, TypeOK, NoAnswer, Codes
<1>4. \A q \in Place : slot_session'[q[1]][q[2]] =
                       IF q = binding[s] THEN Null ELSE slot_session[q[1]][q[2]]
  <2>1. CASE binding[s] = Null
    BY <2>1, NullIsNew
  <2>2. CASE binding[s] \in Place
    <3>1. PICK f \in Fpga, k \in Slot : binding[s] = <<f, k>>
      BY <2>2 DEF Place
    <3>2. slot_session' = [slot_session EXCEPT ![f][k] = Null]
      BY <2>2, <3>1, NullIsNew
    <3>3. \A g \in Fpga, j \in Slot :
            slot_session'[g][j] = IF g = f /\ j = k THEN Null ELSE slot_session[g][j]
      BY <3>2 DEF TypeOK
    <3> QED
      BY <3>1, <3>3 DEF Place
  <2> QED
    BY <2>1, <2>2 DEF TypeOK
<1>5. BindingsAgree'
  <2>1. ASSUME NEW t \in SessionId, NEW q \in Place
        PROVE  binding'[t] = q <=> slot_session'[q[1]][q[2]] = t
    BY <1>1, <1>4, NullIsNew DEF BindingsAgree
  <2>2. \A t \in SessionId : binding'[t] # Null => sessions'[t] # Null
    BY <1>1 DEF BindingsAgree, IsSessionIdValid
  <2> QED
    BY <2>1, <2>2 DEF BindingsAgree, IsSessionIdValid
<1>6. AppMatchesSlot'
  BY <1>1 DEF AppMatchesSlot
<1>7. SessionsFresh' /\ BootedImages'
  BY <1>1 DEF SessionsFresh, BootedImages, device
<1> QED
  BY <1>3, <1>5, <1>6, <1>7

LEMMA QuietInv ==
  ASSUME IInv, NEW s \in SessionId,
         \/ \E app \in AppIds : RefuseSession(app)
         \/ EndUnknownSession(s) \/ AccessRefused(s) \/ AccessBound(s)
  PROVE  IInv'
<1>1. UNCHANGED <<booting, next_session_id, books, device>>
  BY DEF RefuseSession, EndUnknownSession, AccessRefused, AccessBound
<1>2. daemon' \in {daemon, "down"}
  BY DEF RefuseSession, EndUnknownSession, AccessRefused, AccessBound
<1>3. reply' \in [code : Codes, session : SessionId \cup {Null}, place : Place \cup {Null}]
  BY DEF RefuseSession, EndUnknownSession, AccessRefused, AccessBound,
         Answer, NoAnswer, Codes, IInv, TypeOK
<1> QED
  BY <1>1, <1>2, <1>3
  DEF IInv, TypeOK, books, device, BindingsAgree, AppMatchesSlot, IsSessionIdValid,
      SessionsFresh, BootedImages

LEMMA AbortInv ==
  ASSUME IInv, NEW s \in SessionId, AbortScheduling(s)
  PROVE  IInv'
<1>1. PICK f \in Fpga : SwitchAborts(f, ReplacementImage(sessions[s]))
  BY IdleFpgaIsIdle, IndexSets DEF AbortScheduling, Waiting
<1>2. ReplacementImage(sessions[s]) \in ImageIdx
  BY ReplacementMatches, IndexSets DEF AbortScheduling
<1>3. loaded' \in [Fpga -> ImageIdx \cup {Null}]
  <2>1. loaded \in [Fpga -> ImageIdx \cup {Null}]
    BY DEF IInv, TypeOK
  <2>2. \/ UNCHANGED loaded
        \/ \E failed \in MayFail("load") :
             ClearAndLoad(f, ReplacementImage(sessions[s]), failed)
    BY <1>1 DEF SwitchAborts
  <2> QED
    BY <1>2, <2>1, <2>2, LoadedType
<1> QED
  BY <1>1, <1>3
  DEF SwitchAborts, NoAnswer, Codes, IInv, TypeOK, books, BindingsAgree,
      AppMatchesSlot, IsSessionIdValid, SessionsFresh, BootedImages

LEMMA StepInv == IInv /\ [Next]_vars => IInv'
<1> SUFFICES ASSUME IInv, [Next]_vars PROVE IInv'
  OBVIOUS
<1>1. CASE LoadDefaultImage
  BY <1>1, BootInv
<1>2. ASSUME NEW app \in AppIds, InitiateSession(app) PROVE IInv'
  BY <1>2, InitiateInv
<1>3. ASSUME NEW app \in AppIds, RefuseSession(app) PROVE IInv'
  <2>1. 0 \in SessionId
    BY HostAssumption DEF SessionId
  <2> QED
    BY <1>3, <2>1, QuietInv
<1>4. ASSUME NEW s \in SessionId,
             \/ EndUnknownSession(s) \/ AccessRefused(s) \/ AccessBound(s)
      PROVE  IInv'
  BY <1>4, QuietInv
<1>5. ASSUME NEW s \in SessionId, EndSession(s) PROVE IInv'
  BY <1>5, EndInv
<1>6. ASSUME NEW s \in SessionId, FlashIdleFpga(s) PROVE IInv'
  BY <1>6, FlashIdleInv
<1>7. ASSUME NEW s \in SessionId, TakeVacantSlot(s) PROVE IInv'
  BY <1>7, TakeVacantInv
<1>8. ASSUME NEW s \in SessionId, PreemptSlot(s) PROVE IInv'
  BY <1>8, PreemptInv
<1>9. ASSUME NEW s \in SessionId, ReplaceImage(s) PROVE IInv'
  BY <1>9, ReplaceImageInv
<1>10. ASSUME NEW s \in SessionId, AbortScheduling(s) PROVE IInv'
  BY <1>10, AbortInv
<1>11. CASE UNCHANGED vars
  BY <1>11 DEF vars, books, device, IInv, TypeOK, BindingsAgree, AppMatchesSlot,
               IsSessionIdValid, SessionsFresh, BootedImages
<1> QED
  BY <1>1, <1>2, <1>3, <1>4, <1>5, <1>6, <1>7, <1>8, <1>9, <1>10, <1>11 DEF Next

THEOREM Invariance == Spec => []IInv
BY InitInv, StepInv, PTL DEF Spec

\* The daemon's state has its type in every life of the daemon.
THEOREM TypeCorrect == Spec => []TypeOK
<1>1. IInv => TypeOK
  BY DEF IInv
<1> QED
  BY <1>1, Invariance, PTL

\* slot_session_map and the sessions' fpga_id and fpga_slot always agree, and
\* no slot is held by a session that has been erased.
THEOREM BindingsAlwaysAgree == Spec => []BindingsAgree
<1>1. IInv => BindingsAgree
  BY DEF IInv
<1> QED
  BY <1>1, Invariance, PTL

\* A bound session always has a slot of its own app.
THEOREM AppAlwaysMatches == Spec => []AppMatchesSlot
<1>1. IInv => AppMatchesSlot
  BY DEF IInv
<1> QED
  BY <1>1, Invariance, PTL

\* handleScheduling never returns false: there is a slot for every session
\* that waits for one, however the FPGA management calls turn out.
THEOREM SchedulingAlwaysSucceeds == Spec => []SchedulingSucceeds
BY InvSchedules, Invariance, PTL

-----------------------------------------------------------------------------
(* The tables and the hardware: the slots of an FPGA that was flashed are   *)
(* those of its image, and it really has that image and both BARs unless a *)
(* load or an attach failed when it was last flashed.                      *)
HardwareMatches ==
  daemon # "down" => \A f \in Fpga : current_image[f] # Null =>
    /\ slot_appid[f] = ImageLibrary[current_image[f]]
    /\ f \notin mishaps => loaded[f] = current_image[f] /\ attached[f] = Bars

LEMMA SwitchMatches ==
  ASSUME IInv, HardwareMatches, daemon # "down", NEW f \in Fpga, NEW i \in ImageIdx,
         SwitchDevice(f, i), slot_appid' = [slot_appid EXCEPT ![f] = ImageLibrary[i]]
  PROVE  HardwareMatches'
<1> SUFFICES ASSUME NEW g \in Fpga, current_image'[g] # Null
             PROVE  /\ slot_appid'[g] = ImageLibrary[current_image'[g]]
                    /\ g \notin mishaps' => /\ loaded'[g] = current_image'[g]
                                           /\ attached'[g] = Bars
  BY DEF HardwareMatches
<1>1. PICK failed \in MayFail("load"), refused \in MayRefuse("attach") :
        /\ ClearAndLoad(f, i, failed)
        /\ attached' = [attached EXCEPT ![f] = Bars \ refused]
        /\ mishaps' = IF failed \/ refused # {} THEN mishaps \cup {f} ELSE mishaps \ {f}
  BY DEF SwitchDevice
<1>2. PICK image \in IF failed THEN AfterClear(f) ELSE {i} :
        loaded' = [loaded EXCEPT ![f] = image]
  BY <1>1 DEF ClearAndLoad
<1>3. current_image' = [current_image EXCEPT ![f] = i]
  BY DEF SwitchDevice
<1>4. CASE g = f
  <2>1. slot_appid'[f] = ImageLibrary[current_image'[f]] /\ current_image'[f] = i
    BY <1>3 DEF IInv, TypeOK
  <2>2. loaded'[f] = image /\ attached'[f] = Bars \ refused
    BY <1>1, <1>2 DEF IInv, TypeOK
  <2>3. f \notin mishaps' => failed = FALSE /\ refused = {}
    BY <1>1 DEF MayFail
  <2> QED
    BY <1>2, <1>4, <2>1, <2>2, <2>3
<1>5. CASE g # f
  BY <1>1, <1>2, <1>3, <1>5 DEF HardwareMatches, IInv, TypeOK
<1> QED
  BY <1>4, <1>5

LEMMA MatchesStep == IInv /\ HardwareMatches /\ [Next]_vars => HardwareMatches'
<1> SUFFICES ASSUME IInv, HardwareMatches, [Next]_vars PROVE HardwareMatches'
  OBVIOUS
<1>1. CASE LoadDefaultImage
  <2>1. booting \in Fpga /\ 0 \in ImageIdx
    BY <1>1, ScanAssumption DEF IInv, TypeOK, LoadDefaultImage, ImageIdx
  <2> QED
    BY <1>1, <2>1, SwitchMatches DEF LoadDefaultImage
<1>2. ASSUME NEW s \in SessionId, FlashIdleFpga(s) PROVE HardwareMatches'
  <2>1. IdleFpga \in Fpga /\ ReplacementImage(sessions[s]) \in ImageIdx
    BY <1>2, IdleFpgaIsIdle, ReplacementMatches DEF FlashIdleFpga, Waiting
  <2> QED
    BY <1>2, <2>1, SwitchMatches DEF FlashIdleFpga, ImageTable, Waiting
<1>3. ASSUME NEW s \in SessionId, ReplaceImage(s) PROVE HardwareMatches'
  <2>1. VictimFpga \in Fpga /\ ReplacementImage(sessions[s]) \in ImageIdx
    BY <1>3, IndexSets, ReplacementMatches DEF ReplaceImage
  <2> QED
    BY <1>3, <2>1, SwitchMatches DEF ReplaceImage, ImageTable, Waiting
<1>4. ASSUME NEW s \in SessionId, AbortScheduling(s) PROVE HardwareMatches'
  BY <1>4 DEF AbortScheduling, SwitchAborts, HardwareMatches
<1>5. ASSUME daemon' \in {daemon, "down"}, UNCHANGED <<slot_appid, device>>
      PROVE  HardwareMatches'
  BY <1>5 DEF HardwareMatches, device
<1>6. ASSUME NEW app \in AppIds, InitiateSession(app) \/ RefuseSession(app)
      PROVE  HardwareMatches'
  BY <1>5, <1>6 DEF InitiateSession, RefuseSession, books
<1>7. ASSUME NEW s \in SessionId,
             \/ EndSession(s) \/ EndUnknownSession(s) \/ AccessRefused(s)
             \/ AccessBound(s) \/ TakeVacantSlot(s) \/ PreemptSlot(s)
      PROVE  HardwareMatches'
  BY <1>5, <1>7 DEF EndSession, EndUnknownSession, AccessRefused, AccessBound,
                    TakeVacantSlot, PreemptSlot, Bind, books
<1>8. CASE UNCHANGED vars
  BY <1>5, <1>8 DEF vars, books
<1> QED
  BY <1>1, <1>2, <1>3, <1>4, <1>6, <1>7, <1>8 DEF Next

(* A bound session's FPGA has an image with the session's app in its slot  *)
(* and both BARs, unless a load or an attach failed when this FPGA was last *)
(* flashed (switchImage, which drops the results of clear, load and attach). *)
THEOREM SlotAlwaysReal == Spec => []SlotIsReal
<1>1. Init => HardwareMatches
  BY DEF Init, HardwareMatches
<1>2. IInv /\ HardwareMatches => SlotIsReal
  <2> SUFFICES ASSUME IInv, HardwareMatches, daemon = "run",
                      NEW s \in SessionId, binding[s] # Null
               PROVE  LET f == binding[s][1]
                          k == binding[s][2]
                      IN  f \notin mishaps =>
                            /\ loaded[f] # Null
                            /\ ImageLibrary[loaded[f]][k] = sessions[s]
                            /\ attached[f] = Bars
    BY DEF SlotIsReal
  <2>1. binding[s][1] \in Fpga /\ slot_appid[binding[s][1]][binding[s][2]] = sessions[s]
    BY DEF IInv, TypeOK, Place, AppMatchesSlot
  <2>2. current_image[binding[s][1]] # Null
    BY <2>1, ScanAssumption DEF IInv, BootedImages, Fpga
  <2> QED
    BY <2>1, <2>2 DEF HardwareMatches
<1> QED
  BY <1>1, <1>2, MatchesStep, Invariance, PTL DEF Spec

-----------------------------------------------------------------------------
(* Who loses a slot, and why.                                              *)
EvictsJustly ==
  \A s \in SessionId : Evicted(s) =>
    /\ \A f \in Fpga : Load(slot_session, f) > 0
    /\ \E t \in SessionId : /\ Waiting(t) /\ binding'[t] # Null
                           /\ \/ binding'[t] = binding[s]
                              \/ /\ NoneOffers(sessions[t])
                                 /\ binding'[t][1] = binding[s][1]

\* Bind takes its slot from those it evicts.
LEMMA OnlyEvictedLose ==
  ASSUME IInv, NEW t \in SessionId, Waiting(t), NEW p \in Place, NEW evicted, NEW ss,
         Bind(t, p, evicted, ss), NEW s \in SessionId, Evicted(s)
  PROVE  s \in evicted /\ binding'[t] = p /\ binding'[t] # Null
BY NullIsNew DEF Bind, Rebind, Evicted, Waiting, IInv, TypeOK

LEMMA BusyFpgas ==
  ASSUME ~ IdleFound
  PROVE  \A f \in Fpga : Load(slot_session, f) > 0
BY LoadType DEF IdleFound, Unloaded

\* A holder of a slot is bound to it.
LEMMA HolderBound ==
  ASSUME IInv, NEW p \in Place, NEW s \in SessionId, slot_session[p[1]][p[2]] = s
  PROVE  binding[s] = p
BY DEF IInv, BindingsAgree

LEMMA PreemptEvictsJustly ==
  ASSUME IInv, NEW t \in SessionId, PreemptSlot(t)
  PROVE  EvictsJustly
<1> DEFINE p == VictimPlace(slot_session, slot_appid, sessions[t])
<1> SUFFICES ASSUME NEW s \in SessionId, Evicted(s)
             PROVE  /\ \A f \in Fpga : Load(slot_session, f) > 0
                    /\ Waiting(t) /\ binding'[t] # Null /\ binding'[t] = binding[s]
  BY DEF EvictsJustly
<1>1. /\ Waiting(t) /\ ~ IdleFound
      /\ Bind(t, p, {slot_session[p[1]][p[2]]}, slot_session)
      /\ VictimFound(slot_session, slot_appid, sessions[t])
  BY DEF PreemptSlot
<1>2. p \in Place
  BY <1>1, VictimPlaceMatches
<1> HIDE DEF p
<1>3. slot_session[p[1]][p[2]] = s /\ binding'[t] = p /\ binding'[t] # Null
  BY <1>1, <1>2, OnlyEvictedLose
<1> QED
  BY <1>1, <1>2, <1>3, HolderBound, BusyFpgas

LEMMA ReplaceEvictsJustly ==
  ASSUME IInv, NEW t \in SessionId, ReplaceImage(t)
  PROVE  EvictsJustly
<1> DEFINE f  == VictimFpga
           ss == CleanTable(f)
           sa == ImageTable(f, ReplacementImage(sessions[t]))
           k  == First(Vacant(ss, sa, sessions[t], f))
<1> SUFFICES ASSUME NEW s \in SessionId, Evicted(s)
             PROVE  /\ \A g \in Fpga : Load(slot_session, g) > 0
                    /\ Waiting(t) /\ binding'[t] # Null
                    /\ NoneOffers(sessions[t]) /\ binding'[t][1] = binding[s][1]
  BY DEF EvictsJustly
<1>1. /\ Waiting(t) /\ ~ IdleFound /\ NoneOffers(sessions[t])
      /\ Bind(t, <<f, k>>, Holders(f), ss)
  BY DEF ReplaceImage
<1>2. <<f, k>> \in Place /\ f \in Fpga
  <2>1. f \in Fpga
    BY IndexSets
  <2>2. Vacant(ss, sa, sessions[t], f) # {}
    BY <1>1, <2>1, FlashedHasVacant
  <2>3. k \in Vacant(ss, sa, sessions[t], f)
    BY <2>2, FirstIn, IndexSets DEF Vacant, Matching
  <2> QED
    BY <2>1, <2>3 DEF Place, Vacant, Matching
<1> HIDE DEF f, k, ss
<1>3. s \in Holders(f) /\ binding'[t] = <<f, k>> /\ binding'[t] # Null
  BY <1>1, <1>2, OnlyEvictedLose
<1>4. PICK j \in Slot : slot_session[f][j] = s
  BY <1>3 DEF Holders
<1>5. binding[s] = <<f, j>>
  <2>1. <<f, j>> \in Place
    BY <1>2 DEF Place
  <2> QED
    BY <1>4, <2>1, HolderBound
<1> QED
  BY <1>1, <1>3, <1>5, BusyFpgas

\* The other steps leave every open session its slot.
LEMMA OthersEvictNone ==
  ASSUME IInv, NEW s \in SessionId, Evicted(s), [Next]_vars
  PROVE  \E t \in SessionId : PreemptSlot(t) \/ ReplaceImage(t)
<1>1. CASE LoadDefaultImage
  BY <1>1 DEF LoadDefaultImage, Evicted
<1>2. ASSUME NEW app \in AppIds, InitiateSession(app) PROVE FALSE
  <2>1. binding[next_session_id] = Null /\ next_session_id \in SessionId
    BY <1>2, HostAssumption
    DEF InitiateSession, IInv, TypeOK, SessionId, SessionsFresh, BindingsAgree, IsSessionIdValid
  <2>2. binding' = binding
    BY <1>2, <2>1 DEF InitiateSession, IInv, TypeOK
  <2> QED
    BY <2>2 DEF Evicted
<1>3. ASSUME NEW app \in AppIds, RefuseSession(app) PROVE FALSE
  BY <1>3 DEF RefuseSession, books, Evicted
<1>4. ASSUME NEW t \in SessionId,
             EndUnknownSession(t) \/ AccessRefused(t) \/ AccessBound(t)
      PROVE  FALSE
  BY <1>4 DEF EndUnknownSession, AccessRefused, AccessBound, books, Evicted
<1>5. ASSUME NEW t \in SessionId, EndSession(t) PROVE FALSE
  <2>1. /\ binding'[s] = IF s = t THEN Null ELSE binding[s]
        /\ sessions'[s] = IF s = t THEN Null ELSE sessions[s]
    BY <1>5 DEF EndSession, IInv, TypeOK
  <2> QED
    BY <2>1 DEF Evicted, IsSessionIdValid
<1>6. ASSUME NEW t \in SessionId, AbortScheduling(t) PROVE FALSE
  BY <1>6 DEF AbortScheduling, SwitchAborts, books, Evicted
<1>7. ASSUME NEW t \in SessionId, FlashIdleFpga(t) \/ TakeVacantSlot(t) PROVE FALSE
  <2>1. \E p : Rebind(t, p, {})
    BY <1>7 DEF FlashIdleFpga, TakeVacantSlot, Bind
  <2>2. binding[t] = Null
    BY <1>7 DEF FlashIdleFpga, TakeVacantSlot, Waiting
  <2> QED
    BY <2>1, <2>2 DEF Rebind, Evicted
<1>8. CASE UNCHANGED vars
  BY <1>8 DEF vars, books, Evicted
<1> QED
  BY <1>1, <1>2, <1>3, <1>4, <1>5, <1>6, <1>7, <1>8 DEF Next

(* An open session loses its slot only to a session that waits, with every *)
(* FPGA in use: this very slot, or the whole FPGA when none offers the app.*)
THEOREM EvictionAlwaysJustified == Spec => EvictionJustified
<1>1. IInv /\ [Next]_vars => EvictsJustly
  <2> SUFFICES ASSUME IInv, [Next]_vars, NEW s \in SessionId, Evicted(s)
               PROVE  EvictsJustly
    BY DEF EvictsJustly
  <2> QED
    BY OthersEvictNone, PreemptEvictsJustly, ReplaceEvictsJustly
<1> QED
  BY <1>1, Invariance, PTL DEF Spec, EvictionJustified, EvictsJustly

-----------------------------------------------------------------------------
(***************************************************************************)
(* HostScheduler implements SlotLease: a step of the daemon is one step of *)
(* the leases or leaves them alone.                                        *)
(***************************************************************************)
LEMMA LeaseInit == Init => Lease!Init
<1> SUFFICES ASSUME Init PROVE Lease!Init
  OBVIOUS
<1>1. 0 .. next_session_id - 1 = {}
  BY DEF Init
<1> QED
  BY <1>1 DEF Init, NoSlots, Lease!Init

LEMMA LeaseUnchanged ==
  ASSUME UNCHANGED <<next_session_id, sessions, binding, slot_appid>>
  PROVE  UNCHANGED Lease!vars
BY DEF Lease!vars

LEMMA LeaseBoot ==
  ASSUME IInv, LoadDefaultImage
  PROVE  Lease!Next
<1>1. booting \in Fpga /\ 0 \in ImageIdx
  BY ScanAssumption DEF IInv, TypeOK, LoadDefaultImage, ImageIdx
<1>2. Lease!Idle(booting)
  BY DEF LoadDefaultImage, IInv, SessionsFresh, BindingsAgree, IsSessionIdValid, Lease!Idle
<1>3. Lease!Flash(booting)
  BY <1>1, <1>2 DEF LoadDefaultImage, Lease!Flash
<1> QED
  BY <1>1, <1>3 DEF Lease!Next

LEMMA LeaseOpen ==
  ASSUME IInv, NEW app \in AppIds, InitiateSession(app)
  PROVE  Lease!Next
<1> DEFINE n == next_session_id
<1>1. n \in SessionId /\ n \in Nat /\ sessions[n] = Null /\ binding[n] = Null
  BY HostAssumption
  DEF InitiateSession, IInv, TypeOK, SessionId, SessionsFresh, BindingsAgree, IsSessionIdValid
<1>2. binding' = binding
  BY <1>1 DEF InitiateSession, IInv, TypeOK
<1>3. n \notin 0 .. n - 1 /\ 0 .. (n + 1) - 1 = (0 .. n - 1) \cup {n}
  BY <1>1
<1>4. Lease!Open(n, app)
  BY <1>2, <1>3 DEF InitiateSession, Lease!Open
<1> QED
  BY <1>1, <1>4 DEF Lease!Next

LEMMA LeaseClose ==
  ASSUME IInv, NEW s \in SessionId, EndSession(s)
  PROVE  Lease!Next
<1>1. Lease!Close(s)
  BY DEF EndSession, IsSessionIdValid, Lease!Close
<1> QED
  BY <1>1 DEF Lease!Next

\* The slot of step 2 after the flash of step 1 is on the FPGA just flashed: no
\* FPGA before it is without load.
LEMMA FlashedIsChosen ==
  ASSUME IInv, NEW s \in SessionId, FlashIdleFpga(s)
  PROVE  VacantPlace(CleanTable(IdleFpga),
                     ImageTable(IdleFpga, ReplacementImage(sessions[s])),
                     sessions[s])[1] = IdleFpga
<1> DEFINE f  == IdleFpga
           ss == CleanTable(f)
           sa == ImageTable(f, ReplacementImage(sessions[s]))
           seen == SeenVacant(ss, sa, sessions[s])
           fpgas == VacantFpgas(ss, sa, sessions[s])
           least == {g \in fpgas : \A h \in fpgas : Load(ss, g) <= Load(ss, h)}
<1>1. Waiting(s) /\ IdleFound /\ daemon = "run"
  BY DEF FlashIdleFpga, Waiting
<1>2. f \in Fpga /\ f = First(Unloaded) /\ \A k \in Slot : slot_session[f][k] = Null
  BY <1>1, IdleFpgaIsIdle
<1>3. ss = slot_session
  BY <1>2 DEF CleanTable, NoSlots, IInv, TypeOK
<1>4. Load(ss, f) = 0
  BY <1>2, <1>3, LoadType
<1>5. \A g \in Unloaded : f <= g
  <2>1. Unloaded \in SUBSET Nat /\ f \in Unloaded
    BY <1>2, <1>3, <1>4, IndexSets DEF Unloaded
  <2> QED
    BY <1>2, <2>1, LeastExists DEF First
<1>6. f \in fpgas
  <2>1. Vacant(ss, sa, sessions[s], f) # {}
    BY <1>1, <1>2, FlashedHasVacant
  <2>2. First(Matching(sa, sessions[s], f)) \in Slot
    BY <2>1, FirstIn, IndexSets DEF Vacant, Matching
  <2>3. f \in seen
    BY <1>2, <1>3, <2>1, <2>2 DEF SeenVacant, Skipped
  <2>4. seen \in SUBSET Nat
    BY IndexSets DEF SeenVacant
  <2>5. First(seen) <= f
    BY <2>3, <2>4, LeastExists DEF First
  <2> QED
    BY <1>2, <2>1, <2>5 DEF VacantFpgas
<1>7. fpgas \subseteq Fpga /\ \A g \in fpgas : Load(ss, g) \in Nat
  BY LoadType DEF VacantFpgas
<1>8. f \in least
  BY <1>4, <1>6, <1>7
<1>9. least \in SUBSET Nat /\ First(least) \in least /\ First(least) <= f
  <2>1. least \in SUBSET Nat
    BY <1>7, IndexSets
  <2> QED
    BY <1>8, <2>1, LeastExists DEF First
<1>10. Load(ss, First(least)) = 0
  BY <1>4, <1>6, <1>7, <1>9
<1>11. First(least) \in Unloaded
  BY <1>3, <1>7, <1>9, <1>10 DEF Unloaded
<1>12. First(least) = f
  BY <1>2, <1>5, <1>9, <1>11, IndexSets
<1> QED
  BY <1>12 DEF VacantPlace, LeastLoaded

LEMMA LeaseFlashIdle ==
  ASSUME IInv, NEW s \in SessionId, FlashIdleFpga(s)
  PROVE  Lease!Next
<1> DEFINE f  == IdleFpga
           i  == ReplacementImage(sessions[s])
           ss == CleanTable(f)
           sa == ImageTable(f, i)
           p  == VacantPlace(ss, sa, sessions[s])
<1>1. Waiting(s) /\ slot_appid' = sa /\ Bind(s, p, {}, ss) /\ IdleFound
  BY DEF FlashIdleFpga
<1>2. f \in Fpga /\ \A k \in Slot : slot_session[f][k] = Null
  BY <1>1, IdleFpgaIsIdle DEF Waiting
<1>3. i \in ImageIdx
  BY <1>1, <1>2, ReplacementMatches
<1>4. VacantFound(ss, sa, sessions[s])
  BY <1>1, <1>2, FlashedHasVacant
<1>5. p \in Place /\ p[1] = f /\ sa[p[1]][p[2]] = sessions[s]
  BY <1>4, VacantPlaceIsVacant, FlashedIsChosen
<1>6. sa = [slot_appid EXCEPT ![p[1]] = ImageLibrary[i]] /\ ImageLibrary[i][p[2]] = sessions[s]
  BY <1>2, <1>5 DEF ImageTable, IInv, TypeOK
<1>7. Lease!Idle(p[1])
  <2> SUFFICES ASSUME NEW t \in SessionId, binding[t] # Null, binding[t][1] = f
               PROVE  FALSE
    BY <1>5 DEF Lease!Idle
  <2>1. binding[t] \in Place
    BY DEF IInv, TypeOK
  <2>2. slot_session[f][binding[t][2]] = t /\ binding[t][2] \in Slot
    BY <2>1 DEF Place, IInv, BindingsAgree
  <2> QED
    BY <1>2, <2>2, NullIsNew
<1> HIDE DEF f, i, ss, sa, p
<1>8. binding' = [t \in SessionId |->
                   IF t = s THEN p
                   ELSE IF binding[t] # Null /\ binding[t][1] = p[1] THEN Null
                   ELSE binding[t]]
  BY <1>1, <1>7 DEF Bind, Rebind, Lease!Idle
<1>9. Lease!Reconfigure(s, p)
  BY <1>1, <1>3, <1>6, <1>7, <1>8
  DEF Lease!Reconfigure, Lease!Waiting, Waiting, IsSessionIdValid, Bind
<1> QED
  BY <1>5, <1>9 DEF Lease!Next, Lease!Place, Place

LEMMA LeaseTakeVacant ==
  ASSUME IInv, NEW s \in SessionId, TakeVacantSlot(s)
  PROVE  Lease!Next
<1> DEFINE p == VacantPlace(slot_session, slot_appid, sessions[s])
<1>1. /\ Waiting(s) /\ Bind(s, p, {}, slot_session) /\ UNCHANGED slot_appid
      /\ VacantFound(slot_session, slot_appid, sessions[s])
  BY DEF TakeVacantSlot
<1>2. p \in Place /\ slot_session[p[1]][p[2]] = Null /\ slot_appid[p[1]][p[2]] = sessions[s]
  BY <1>1, VacantPlaceIsVacant
<1> HIDE DEF p
<1>3. \A t \in SessionId : binding[t] # p
  BY <1>2, NullIsNew DEF IInv, BindingsAgree
<1>4. binding' = [binding EXCEPT ![s] = p]
  BY <1>1 DEF Bind, Rebind, IInv, TypeOK
<1>5. Lease!Grant(s, p)
  BY <1>1, <1>2, <1>3, <1>4
  DEF Lease!Grant, Lease!Waiting, Lease!Offers, Waiting, IsSessionIdValid, Bind
<1> QED
  BY <1>2, <1>5 DEF Lease!Next, Lease!Place, Place

LEMMA LeasePreempt ==
  ASSUME IInv, NEW s \in SessionId, PreemptSlot(s)
  PROVE  Lease!Next
<1> DEFINE p == VictimPlace(slot_session, slot_appid, sessions[s])
           holder == slot_session[p[1]][p[2]]
<1>1. /\ Waiting(s) /\ Bind(s, p, {holder}, slot_session) /\ UNCHANGED slot_appid
      /\ VictimFound(slot_session, slot_appid, sessions[s])
  BY DEF PreemptSlot
<1>2. p \in Place /\ slot_appid[p[1]][p[2]] = sessions[s]
  BY <1>1, VictimPlaceMatches
<1>3. holder \in SessionId \cup {Null}
  BY <1>2 DEF Place, IInv, TypeOK
<1> HIDE DEF p
<1>4. CASE holder = Null
  <2>1. \A t \in SessionId : binding[t] # p
    BY <1>2, <1>4, NullIsNew DEF IInv, BindingsAgree
  <2>2. binding' = [binding EXCEPT ![s] = p]
    BY <1>1, <1>4, NullIsNew DEF Bind, Rebind, IInv, TypeOK
  <2>3. Lease!Grant(s, p)
    BY <1>1, <1>2, <2>1, <2>2
    DEF Lease!Grant, Lease!Waiting, Lease!Offers, Waiting, IsSessionIdValid, Bind
  <2> QED
    BY <1>2, <2>3 DEF Lease!Next, Lease!Place, Place
<1>5. CASE holder # Null
  <2>1. holder \in SessionId /\ binding[holder] = p
    BY <1>2, <1>3, <1>5 DEF IInv, BindingsAgree
  <2>2. holder # s
    BY <1>1, <1>2, <2>1, NullIsNew DEF Waiting
  <2> HIDE DEF holder
  <2>3. binding' = [binding EXCEPT ![s] = p, ![holder] = Null]
    BY <1>1, <2>1, <2>2 DEF Bind, Rebind, IInv, TypeOK
  <2>4. Lease!Take(s, holder, p)
    BY <1>1, <1>2, <2>1, <2>3
    DEF Lease!Take, Lease!Waiting, Lease!Offers, Waiting, IsSessionIdValid, Bind
  <2> QED
    BY <1>2, <2>1, <2>4 DEF Lease!Next, Lease!Place, Place
<1> QED
  BY <1>4, <1>5

LEMMA LeaseReplaceImage ==
  ASSUME IInv, NEW s \in SessionId, ReplaceImage(s)
  PROVE  Lease!Next
<1> DEFINE f  == VictimFpga
           i  == ReplacementImage(sessions[s])
           ss == CleanTable(f)
           sa == ImageTable(f, i)
           k  == First(Vacant(ss, sa, sessions[s], f))
           p  == <<f, k>>
<1>1. /\ Waiting(s) /\ slot_appid' = sa /\ Bind(s, p, Holders(f), ss)
      /\ NoneOffers(sessions[s])
  BY DEF ReplaceImage
<1>2. f \in Fpga
  BY IndexSets
<1>3. i \in ImageIdx
  BY <1>1, <1>2, ReplacementMatches
<1>4. Vacant(ss, sa, sessions[s], f) # {}
  BY <1>1, <1>2, FlashedHasVacant
<1>5. k \in Slot /\ sa[f][k] = sessions[s]
  BY <1>4, FirstIn, IndexSets DEF Vacant, Matching
<1>6. /\ sa = [slot_appid EXCEPT ![p[1]] = ImageLibrary[i]]
      /\ ImageLibrary[i][p[2]] = sessions[s]
  BY <1>2, <1>5 DEF ImageTable, IInv, TypeOK
<1>7. \A t \in SessionId : t \in Holders(f) <=> binding[t] # Null /\ binding[t][1] = f
  <2> TAKE t \in SessionId
  <2>1. ASSUME t \in Holders(f) PROVE binding[t] # Null /\ binding[t][1] = f
    <3>1. PICK j \in Slot : slot_session[f][j] = t
      BY <2>1 DEF Holders
    <3>2. <<f, j>> \in Place
      BY <1>2 DEF Place
    <3> QED
      BY <3>1, <3>2, NullIsNew DEF IInv, BindingsAgree
  <2>2. ASSUME binding[t] # Null, binding[t][1] = f PROVE t \in Holders(f)
    <3>1. binding[t] \in Place
      BY <2>2 DEF IInv, TypeOK
    <3>2. slot_session[f][binding[t][2]] = t /\ binding[t][2] \in Slot
      BY <2>2, <3>1 DEF Place, IInv, BindingsAgree
    <3> QED
      BY <3>2, NullIsNew DEF Holders
  <2> QED
    BY <2>1, <2>2
<1>8. \A q \in Place : slot_appid[q[1]][q[2]] # sessions[s]
  BY <1>1 DEF NoneOffers, Candidates, Matching, Place
<1>9. p \in Place /\ p[1] = f
  BY <1>2, <1>5 DEF Place
<1> HIDE DEF f, i, ss, sa, k, p
<1>10. binding' = [t \in SessionId |->
                    IF t = s THEN p
                    ELSE IF binding[t] # Null /\ binding[t][1] = p[1] THEN Null
                    ELSE binding[t]]
  BY <1>1, <1>7, <1>9 DEF Bind, Rebind
<1>11. Lease!Reconfigure(s, p)
  BY <1>1, <1>3, <1>6, <1>8, <1>10
  DEF Lease!Reconfigure, Lease!Waiting, Lease!Offers, Lease!Place, Place, Waiting,
      IsSessionIdValid, Bind
<1> QED
  BY <1>9, <1>11 DEF Lease!Next, Lease!Place, Place

LEMMA LeaseStep == IInv /\ [Next]_vars => [Lease!Next]_(Lease!vars)
<1> SUFFICES ASSUME IInv, [Next]_vars PROVE Lease!Next \/ UNCHANGED Lease!vars
  OBVIOUS
<1>1. CASE LoadDefaultImage
  BY <1>1, LeaseBoot
<1>2. ASSUME NEW app \in AppIds, InitiateSession(app) PROVE Lease!Next
  BY <1>2, LeaseOpen
<1>3. ASSUME NEW s \in SessionId, EndSession(s) PROVE Lease!Next
  BY <1>3, LeaseClose
<1>4. ASSUME NEW s \in SessionId,
             FlashIdleFpga(s) \/ TakeVacantSlot(s) \/ PreemptSlot(s) \/ ReplaceImage(s)
      PROVE  Lease!Next
  BY <1>4, LeaseFlashIdle, LeaseTakeVacant, LeasePreempt, LeaseReplaceImage
<1>5. ASSUME NEW s \in SessionId,
             EndUnknownSession(s) \/ AccessRefused(s) \/ AccessBound(s) \/ AbortScheduling(s)
      PROVE  UNCHANGED Lease!vars
  BY <1>5, LeaseUnchanged
  DEF EndUnknownSession, AccessRefused, AccessBound, AbortScheduling, SwitchAborts, books
<1>6. ASSUME NEW app \in AppIds, RefuseSession(app) PROVE UNCHANGED Lease!vars
  BY <1>6, LeaseUnchanged DEF RefuseSession, books
<1>7. CASE UNCHANGED vars
  BY <1>7, LeaseUnchanged DEF vars, books
<1> QED
  BY <1>1, <1>2, <1>3, <1>4, <1>5, <1>6, <1>7 DEF Next

\* Sessions are given, take over and lose slots only in the ways SlotLease
\* allows, whatever becomes of the FPGA management calls and of the daemon.
THEOREM Refinement == Spec => ImplementsLease
BY LeaseInit, LeaseStep, Invariance, PTL DEF Spec, Lease!Spec, ImplementsLease

-----------------------------------------------------------------------------
(* The double loop of handleScheduling, on any tables ss and sa, computes  *)
(* the closed form.  What it has found when it is done with the FPGAs      *)
(* below n is stated with the sets of the closed form cut off at n.        *)
Offering(sa, n) == {f \in Candidates(sa, Wanted) : f < n}
Seen(ss, sa, n) == {f \in SeenVacant(ss, sa, Wanted) : f < n}
Vacating(ss, sa, n) ==
  {f \in Fpga : /\ f < n
                /\ Vacant(ss, sa, Wanted, f) # {}
                /\ \E g \in Seen(ss, sa, n) : g <= f}

Foremost(k, S) == k \in S /\ \A j \in S : k <= j
Least(ss, f, S) ==
  /\ f \in S
  /\ \A g \in S : Load(ss, f) < Load(ss, g) \/ (Load(ss, f) = Load(ss, g) /\ f <= g)

LEMMA FirstIs ==
  ASSUME NEW S \in SUBSET Nat, NEW k, Foremost(k, S)
  PROVE  First(S) = k
<1>1. First(S) \in S /\ \A j \in S : First(S) <= j
  BY DEF First, Foremost
<1>2. k \in Nat /\ First(S) \in Nat
  BY <1>1 DEF Foremost
<1>3. First(S) <= k /\ k <= First(S)
  BY <1>1 DEF Foremost
<1> QED
  BY <1>2, <1>3

LEMMA LeastLoadedIs ==
  ASSUME NEW ss, NEW S \in SUBSET Fpga, NEW m, Least(ss, m, S)
  PROVE  LeastLoaded(ss, S) = m
<1> DEFINE least == {f \in S : \A g \in S : Load(ss, f) <= Load(ss, g)}
<1>1. \A f : Load(ss, f) \in Nat
  BY LoadType
<1>2. least \in SUBSET Nat /\ Foremost(m, least)
  <2>1. m \in S /\ \A g \in S : Load(ss, m) <= Load(ss, g)
    BY <1>1 DEF Least
  <2>2. \A g \in least : g \in S /\ Load(ss, g) <= Load(ss, m)
    BY <2>1
  <2>3. \A g \in least : m <= g
    BY <1>1, <2>2 DEF Least
  <2> QED
    BY <2>1, <2>3, IndexSets DEF Foremost
<1>3. First(least) = m
  BY <1>2, FirstIs
<1> QED
  BY <1>3 DEF LeastLoaded

\* One FPGA more: it wins only if its load is smaller.
LEMMA LeastStays ==
  ASSUME NEW ss, NEW S \in SUBSET Fpga, NEW m, Least(ss, m, S),
         NEW f \in Fpga, \A g \in S : g < f, Load(ss, m) <= Load(ss, f)
  PROVE  Least(ss, m, S \cup {f})
<1>1. \A g : Load(ss, g) \in Nat
  BY LoadType
<1>2. m \in Nat /\ f \in Nat /\ m < f
  BY IndexSets DEF Least
<1> QED
  BY <1>1, <1>2 DEF Least

LEMMA LeastChanges ==
  ASSUME NEW ss, NEW S \in SUBSET Fpga, NEW m, Least(ss, m, S),
         NEW f \in Fpga, Load(ss, f) < Load(ss, m)
  PROVE  Least(ss, f, S \cup {f})
<1>1. \A g : Load(ss, g) \in Nat
  BY LoadType
<1>2. \A g \in S : Load(ss, f) < Load(ss, g)
  BY <1>1 DEF Least
<1>3. f <= f
  BY IndexSets
<1> QED
  BY <1>1, <1>2, <1>3 DEF Least

LEMMA LeastAlone ==
  ASSUME NEW ss, NEW f \in Fpga
  PROVE  Least(ss, f, {f})
BY LoadType, IndexSets DEF Least

-----------------------------------------------------------------------------
\* How the sets grow by FPGA f.
LEMMA BelowNext ==
  ASSUME NEW f \in Fpga, NEW g \in Fpga
  PROVE  g < f + 1 <=> g < f \/ g = f
BY IndexSets

LEMMA OfferingNext ==
  ASSUME NEW sa, NEW f \in Fpga
  PROVE  Offering(sa, f + 1) = IF Matching(sa, Wanted, f) # {} THEN Offering(sa, f) \cup {f}
                               ELSE Offering(sa, f)
BY BelowNext DEF Offering, Candidates

LEMMA SeenNext ==
  ASSUME NEW ss, NEW sa, NEW f \in Fpga
  PROVE  Seen(ss, sa, f + 1) =
           IF Vacant(ss, sa, Wanted, f) # {} /\ ~ Skipped(ss, sa, Wanted, f)
           THEN Seen(ss, sa, f) \cup {f} ELSE Seen(ss, sa, f)
BY BelowNext DEF Seen, SeenVacant

LEMMA VacatingNext ==
  ASSUME NEW ss, NEW sa, NEW f \in Fpga
  PROVE  Vacating(ss, sa, f + 1) =
           IF Vacant(ss, sa, Wanted, f) # {} /\ Seen(ss, sa, f + 1) # {}
           THEN Vacating(ss, sa, f) \cup {f} ELSE Vacating(ss, sa, f)
<1> DEFINE vacancy(h) == Vacant(ss, sa, Wanted, h) # {}
           before == Seen(ss, sa, f)
           seen   == Seen(ss, sa, f + 1)
<1>1. before \in SUBSET Fpga /\ seen \in SUBSET Fpga
  BY DEF Seen, SeenVacant
<1>2. \A h \in Fpga : h < f => (h \in seen <=> h \in before)
  BY BelowNext DEF Seen
<1>3. \A h \in Fpga : h \in Nat
  BY IndexSets
<1>4. \A h \in Fpga : h < f => ((\E g \in seen : g <= h) <=> (\E g \in before : g <= h))
  <2> TAKE h \in Fpga
  <2>1. ASSUME h < f, NEW g \in Fpga, g <= h PROVE g < f
    BY <1>3, <2>1
  <2>2. \A g \in before : g \in seen
    BY BelowNext, <1>1 DEF Seen
  <2> QED
    BY <1>1, <1>2, <2>1, <2>2
<1>5. (\E g \in seen : g <= f) <=> seen # {}
  <2>1. \A g \in seen : g < f + 1
    BY DEF Seen
  <2> QED
    BY <1>1, <1>3, <2>1
<1>6. Vacating(ss, sa, f) = {h \in Fpga : h < f /\ vacancy(h) /\ \E g \in before : g <= h}
  BY DEF Vacating
<1>7. Vacating(ss, sa, f + 1) = {h \in Fpga : h < f + 1 /\ vacancy(h) /\ \E g \in seen : g <= h}
  BY DEF Vacating
<1>8. \A h \in Fpga : h < f + 1 <=> h < f \/ h = f
  BY BelowNext
<1> HIDE DEF vacancy, before, seen
<1>9. \A h : h \in Vacating(ss, sa, f + 1) <=>
             h \in Vacating(ss, sa, f) \/ (h = f /\ vacancy(f) /\ seen # {})
  BY <1>3, <1>4, <1>5, <1>6, <1>7, <1>8
<1> QED
  BY <1>9 DEF vacancy, seen

LEMMA SetsBelow ==
  ASSUME NEW ss, NEW sa, NEW n
  PROVE  /\ Offering(sa, n) \in SUBSET Fpga /\ \A g \in Offering(sa, n) : g < n
         /\ Vacating(ss, sa, n) \in SUBSET Fpga /\ \A g \in Vacating(ss, sa, n) : g < n
         /\ Seen(ss, sa, n) \subseteq Offering(sa, n)
BY DEF Offering, Candidates, Seen, SeenVacant, Vacating, Vacant

LEMMA SkippedIs ==
  ASSUME NEW ss, NEW sa, NEW f
  PROVE  Skipped(ss, sa, Wanted, f) <=>
           /\ ss[f][First(Matching(sa, Wanted, f))] # Null
           /\ Offering(sa, f) # {}
           /\ \A g \in Offering(sa, f) : Load(ss, f) < Load(ss, g)
BY DEF Skipped, Offering

-----------------------------------------------------------------------------
(* The locals load, found, empty and place when the FPGAs below n are done *)
(* with: nothing of the app seen, only occupied slots, or a vacant one.    *)
Fresh(sa, n, found, empty) == ~ found /\ ~ empty /\ Offering(sa, n) = {}

Victim(ss, sa, n, load, found, empty, place) ==
  /\ found /\ ~ empty /\ Seen(ss, sa, n) = {}
  /\ \E m \in Fpga :
       /\ Least(ss, m, Offering(sa, n)) /\ load = Load(ss, m)
       /\ \E k \in Slot : Foremost(k, Matching(sa, Wanted, m)) /\ place = <<m, k>>

Vacancy(ss, sa, n, load, found, empty, place) ==
  /\ found /\ empty
  /\ \E m \in Fpga :
       /\ Least(ss, m, Vacating(ss, sa, n)) /\ load = Load(ss, m)
       /\ \E k \in Slot : Foremost(k, Vacant(ss, sa, Wanted, m)) /\ place = <<m, k>>

Settled(ss, sa, n, load, found, empty, place) ==
  \/ Fresh(sa, n, found, empty)
  \/ Victim(ss, sa, n, load, found, empty, place)
  \/ Vacancy(ss, sa, n, load, found, empty, place)

\* FPGA f is the first to offer the app, and its first slot for it is occupied.
Remembered(ss, sa, f, load, found, empty, place) ==
  /\ found /\ ~ empty /\ Offering(sa, f) = {}
  /\ load = Load(ss, f)
  /\ \E k \in Slot : Foremost(k, Matching(sa, Wanted, f)) /\ place = <<f, k>>

NoneBelow(S, k) == \A j \in S : k <= j

\* In the middle of FPGA f, with its slots below k done.
Within(ss, sa, f, k, load, found, empty, place) ==
  LET matches == Matching(sa, Wanted, f)
      vacants == Vacant(ss, sa, Wanted, f)
  IN  \/ Fresh(sa, f, found, empty) /\ NoneBelow(matches, k)
      \/ Remembered(ss, sa, f, load, found, empty, place) /\ NoneBelow(vacants, k)
      \/ /\ Victim(ss, sa, f, load, found, empty, place)
         /\ NoneBelow(vacants, k)
         /\ NoneBelow(matches, k) \/ load <= Load(ss, f)
      \/ /\ Vacancy(ss, sa, f, load, found, empty, place)
         /\ NoneBelow(vacants, k) \/ load <= Load(ss, f)

LEMMA WithinAtFirstSlot ==
  ASSUME NEW ss, NEW sa, NEW f, NEW load, NEW found, NEW empty, NEW place,
         Settled(ss, sa, f, load, found, empty, place)
  PROVE  Within(ss, sa, f, 0, load, found, empty, place)
<1>1. NoneBelow(Matching(sa, Wanted, f), 0) /\ NoneBelow(Vacant(ss, sa, Wanted, f), 0)
  BY IndexSets DEF NoneBelow, Matching, Vacant
<1> QED
  BY <1>1 DEF Settled, Within

-----------------------------------------------------------------------------
(* The steps of the loop at slot k of FPGA f.                              *)

\* A vacant slot of the app that no other below it precedes is the first.
LEMMA HitIsForemost ==
  ASSUME NEW S, NEW k \in S, NoneBelow(S, k)
  PROVE  Foremost(k, S)
BY DEF NoneBelow, Foremost

\* The first vacant slot to be seen.
LEMMA FirstVacantSettles ==
  ASSUME NEW ss, NEW sa, NEW f \in Fpga, NEW k \in Vacant(ss, sa, Wanted, f),
         NEW load, NEW found, NEW place,
         Within(ss, sa, f, k, load, found, FALSE, place)
  PROVE  Vacancy(ss, sa, f + 1, Load(ss, f), TRUE, TRUE, <<f, k>>)
<1> DEFINE matches == Matching(sa, Wanted, f)
           vacants == Vacant(ss, sa, Wanted, f)
<1>1. k \in Slot /\ k \in matches /\ ss[f][k] = Null /\ matches \in SUBSET Nat
  BY IndexSets DEF Vacant, Matching
<1>2. NoneBelow(vacants, k)
  <2>1. NoneBelow(matches, k) => NoneBelow(vacants, k)
    BY DEF NoneBelow, Vacant
  <2> QED
    BY <2>1 DEF Within, Vacancy
<1>3. Seen(ss, sa, f) = {}
  BY SetsBelow DEF Within, Fresh, Remembered, Victim, Vacancy
<1>4. ~ Skipped(ss, sa, Wanted, f)
  <2>1. CASE Offering(sa, f) = {}
    BY <2>1, SkippedIs
  <2>2. CASE Offering(sa, f) # {} /\ NoneBelow(matches, k)
    <3>1. First(matches) = k
      BY <1>1, <2>2, HitIsForemost, FirstIs
    <3> QED
      BY <1>1, <3>1, SkippedIs
  <2>3. CASE Offering(sa, f) # {} /\ ~ NoneBelow(matches, k)
    <3>1. Victim(ss, sa, f, load, found, FALSE, place) /\ load <= Load(ss, f)
      BY <2>3 DEF Within, Fresh, Remembered, Vacancy
    <3>2. PICK m \in Fpga : Least(ss, m, Offering(sa, f)) /\ load = Load(ss, m)
      BY <3>1 DEF Victim
    <3>3. m \in Offering(sa, f) /\ ~ Load(ss, f) < Load(ss, m)
      <4>1. Load(ss, f) \in Nat /\ Load(ss, m) \in Nat
        BY LoadType
      <4> QED
        BY <3>1, <3>2, <4>1 DEF Least
    <3> QED
      BY <3>3, SkippedIs
  <2> QED
    BY <2>1, <2>2, <2>3
<1>5. Seen(ss, sa, f + 1) = {f}
  BY <1>3, <1>4, SeenNext
<1>6. Vacating(ss, sa, f) = {}
  BY <1>3 DEF Vacating
<1>7. Vacating(ss, sa, f + 1) = {f}
  BY <1>5, <1>6, VacatingNext
<1>8. Least(ss, f, Vacating(ss, sa, f + 1))
  BY <1>7, LeastAlone
<1>9. Foremost(k, vacants)
  BY <1>2, HitIsForemost
<1> QED
  BY <1>1, <1>8, <1>9 DEF Vacancy

\* A vacant slot on an FPGA with a smaller load than that of the one found.
LEMMA BetterVacantSettles ==
  ASSUME NEW ss, NEW sa, NEW f \in Fpga, NEW k \in Vacant(ss, sa, Wanted, f),
         NEW load, NEW found, NEW place,
         Within(ss, sa, f, k, load, found, TRUE, place), load > Load(ss, f)
  PROVE  Vacancy(ss, sa, f + 1, Load(ss, f), TRUE, TRUE, <<f, k>>)
<1> DEFINE vacants == Vacant(ss, sa, Wanted, f)
<1>1. k \in Slot
  BY DEF Vacant, Matching
<1>2. /\ Vacancy(ss, sa, f, load, found, TRUE, place)
      /\ NoneBelow(vacants, k) \/ load <= Load(ss, f)
  BY DEF Within, Fresh, Remembered, Victim
<1>3. PICK m \in Fpga : Least(ss, m, Vacating(ss, sa, f)) /\ load = Load(ss, m)
  BY <1>2 DEF Vacancy
<1>4. Load(ss, f) \in Nat /\ Load(ss, m) \in Nat
  BY LoadType
<1>5. NoneBelow(vacants, k)
  BY <1>2, <1>3, <1>4
<1>6. Seen(ss, sa, f + 1) # {}
  <2>1. Seen(ss, sa, f) # {}
    BY <1>3 DEF Least, Vacating
  <2> QED
    BY <2>1, SeenNext
<1>7. Vacating(ss, sa, f + 1) = Vacating(ss, sa, f) \cup {f}
  BY <1>6, VacatingNext
<1>8. Least(ss, f, Vacating(ss, sa, f + 1))
  BY <1>3, <1>4, <1>7, SetsBelow, LeastChanges
<1>9. Foremost(k, vacants)
  BY <1>5, HitIsForemost
<1> QED
  BY <1>1, <1>8, <1>9 DEF Vacancy

\* An occupied slot on an FPGA with a smaller load, no vacant one seen so far.
LEMMA BetterVictimSettles ==
  ASSUME NEW ss, NEW sa, NEW f \in Fpga, NEW k \in Matching(sa, Wanted, f), ss[f][k] # Null,
         NEW load, NEW place,
         Within(ss, sa, f, k, load, TRUE, FALSE, place), load > Load(ss, f)
  PROVE  Victim(ss, sa, f + 1, Load(ss, f), TRUE, FALSE, <<f, k>>)
<1> DEFINE matches == Matching(sa, Wanted, f)
<1>1. k \in Slot /\ matches \in SUBSET Nat
  BY IndexSets DEF Matching
<1>2. Load(ss, f) \in Nat
  BY LoadType
<1>3. ~ load <= Load(ss, f) /\ load # Load(ss, f)
  <2>1. load \in Nat
    <3>1. \A g : Load(ss, g) \in Nat
      BY LoadType
    <3> QED
      BY <3>1 DEF Within, Fresh, Remembered, Victim, Vacancy
  <2> QED
    BY <1>2, <2>1
<1>4. Victim(ss, sa, f, load, TRUE, FALSE, place) /\ NoneBelow(matches, k)
  BY <1>3 DEF Within, Fresh, Remembered, Vacancy
<1>5. PICK m \in Fpga : Least(ss, m, Offering(sa, f)) /\ load = Load(ss, m)
  BY <1>4 DEF Victim
<1>6. Foremost(k, matches) /\ First(matches) = k
  BY <1>1, <1>4, HitIsForemost, FirstIs
<1>7. Skipped(ss, sa, Wanted, f)
  <2>1. \A g \in Offering(sa, f) : Load(ss, f) < Load(ss, g)
    <3>1. \A g : Load(ss, g) \in Nat
      BY LoadType
    <3> QED
      BY <1>5, <3>1 DEF Least
  <2>2. Offering(sa, f) # {}
    BY <1>5 DEF Least
  <2> QED
    BY <1>6, <2>1, <2>2, SkippedIs
<1>8. Seen(ss, sa, f + 1) = {}
  BY <1>4, <1>7, SeenNext DEF Victim
<1>9. Offering(sa, f + 1) = Offering(sa, f) \cup {f}
  BY OfferingNext
<1>10. Least(ss, f, Offering(sa, f + 1))
  BY <1>5, <1>9, SetsBelow, LeastChanges
<1> QED
  BY <1>1, <1>6, <1>8, <1>10 DEF Victim

\* The first match of all is occupied.
LEMMA FirstMatchRemembered ==
  ASSUME NEW ss, NEW sa, NEW f \in Fpga, NEW k \in Matching(sa, Wanted, f), ss[f][k] # Null,
         NEW load, NEW empty, NEW place,
         Within(ss, sa, f, k, load, FALSE, empty, place)
  PROVE  ~ empty /\ Within(ss, sa, f, k + 1, Load(ss, f), TRUE, FALSE, <<f, k>>)
<1> DEFINE matches == Matching(sa, Wanted, f)
           vacants == Vacant(ss, sa, Wanted, f)
<1>1. k \in Slot /\ matches \in SUBSET Nat /\ vacants \subseteq matches /\ k \notin vacants
  BY IndexSets DEF Matching, Vacant
<1>2. Fresh(sa, f, FALSE, empty) /\ NoneBelow(matches, k)
  BY DEF Within, Remembered, Victim, Vacancy
<1>3. Foremost(k, matches)
  BY <1>2, HitIsForemost
<1>4. NoneBelow(vacants, k + 1)
  BY <1>1, <1>2 DEF NoneBelow
<1>5. Remembered(ss, sa, f, Load(ss, f), TRUE, FALSE, <<f, k>>)
  BY <1>1, <1>2, <1>3 DEF Remembered, Fresh
<1>6. ~ empty
  BY <1>2 DEF Fresh
<1> QED
  BY <1>4, <1>5, <1>6 DEF Within

\* A slot that is not for the app, or not better than what was found.
LEMMA SlotPassed ==
  ASSUME NEW ss, NEW sa, NEW f \in Fpga, NEW k \in Slot,
         NEW load, NEW found, NEW empty, NEW place,
         Within(ss, sa, f, k, load, found, empty, place),
         \/ k \notin Matching(sa, Wanted, f)
         \/ k \in Vacant(ss, sa, Wanted, f) /\ empty /\ load <= Load(ss, f)
         \/ k \notin Vacant(ss, sa, Wanted, f) /\ empty
         \/ k \notin Vacant(ss, sa, Wanted, f) /\ found /\ load <= Load(ss, f)
  PROVE  Within(ss, sa, f, k + 1, load, found, empty, place)
<1> DEFINE matches == Matching(sa, Wanted, f)
           vacants == Vacant(ss, sa, Wanted, f)
<1>1. matches \in SUBSET Nat /\ vacants \in SUBSET Nat /\ vacants \subseteq matches /\ k \in Nat
  BY IndexSets DEF Matching, Vacant
<1>2. k \notin matches /\ NoneBelow(matches, k) => NoneBelow(matches, k + 1)
  BY <1>1 DEF NoneBelow
<1>3. k \notin vacants /\ NoneBelow(vacants, k) => NoneBelow(vacants, k + 1)
  BY <1>1 DEF NoneBelow
<1>4. k \notin matches => k \notin vacants
  BY <1>1
<1> HIDE DEF matches, vacants
<1>5. \/ Fresh(sa, f, found, empty) /\ NoneBelow(matches, k)
      \/ Remembered(ss, sa, f, load, found, empty, place) /\ NoneBelow(vacants, k)
      \/ /\ Victim(ss, sa, f, load, found, empty, place)
         /\ NoneBelow(vacants, k)
         /\ NoneBelow(matches, k) \/ load <= Load(ss, f)
      \/ /\ Vacancy(ss, sa, f, load, found, empty, place)
         /\ NoneBelow(vacants, k) \/ load <= Load(ss, f)
  BY DEF Within, matches, vacants
<1>6. \/ k \notin matches
      \/ k \in vacants /\ empty /\ load <= Load(ss, f)
      \/ k \notin vacants /\ empty
      \/ k \notin vacants /\ found /\ load <= Load(ss, f)
  BY DEF matches, vacants
<1>7. /\ Fresh(sa, f, found, empty) => ~ found /\ ~ empty
      /\ Remembered(ss, sa, f, load, found, empty, place) => ~ empty
      /\ Victim(ss, sa, f, load, found, empty, place) => ~ empty
  BY DEF Fresh, Remembered, Victim
<1>8. \/ Fresh(sa, f, found, empty) /\ NoneBelow(matches, k + 1)
      \/ Remembered(ss, sa, f, load, found, empty, place) /\ NoneBelow(vacants, k + 1)
      \/ /\ Victim(ss, sa, f, load, found, empty, place)
         /\ NoneBelow(vacants, k + 1)
         /\ NoneBelow(matches, k + 1) \/ load <= Load(ss, f)
      \/ /\ Vacancy(ss, sa, f, load, found, empty, place)
         /\ NoneBelow(vacants, k + 1) \/ load <= Load(ss, f)
  BY <1>2, <1>3, <1>4, <1>5, <1>6, <1>7
<1> QED
  BY <1>8 DEF Within, matches, vacants

\* All slots of the FPGA are done.
LEMMA FpgaSettles ==
  ASSUME NEW ss, NEW sa, NEW f \in Fpga, NEW k \in Nat,
         NEW load, NEW found, NEW empty, NEW place,
         Within(ss, sa, f, k, load, found, empty, place),
         \A j \in Matching(sa, Wanted, f) : j < k
  PROVE  Settled(ss, sa, f + 1, load, found, empty, place)
<1> DEFINE matches == Matching(sa, Wanted, f)
           vacants == Vacant(ss, sa, Wanted, f)
<1>1. matches \in SUBSET Nat /\ vacants \subseteq matches
  BY IndexSets DEF Matching, Vacant
<1>2. NoneBelow(matches, k) => matches = {}
  BY <1>1 DEF NoneBelow
<1>3. NoneBelow(vacants, k) => vacants = {}
  BY <1>1 DEF NoneBelow
<1>4. vacants = {} => Seen(ss, sa, f + 1) = Seen(ss, sa, f)
  BY SeenNext
<1>5. CASE Fresh(sa, f, found, empty) /\ NoneBelow(matches, k)
  <2>1. Offering(sa, f + 1) = Offering(sa, f)
    BY <1>2, <1>5, OfferingNext
  <2> QED
    BY <1>5, <2>1 DEF Fresh, Settled
<1>6. CASE Remembered(ss, sa, f, load, found, empty, place) /\ NoneBelow(vacants, k)
  <2>1. PICK j \in Slot : Foremost(j, matches) /\ place = <<f, j>>
    BY <1>6 DEF Remembered
  <2>2. Offering(sa, f) = {} /\ load = Load(ss, f) /\ found /\ ~ empty
    BY <1>6 DEF Remembered
  <2>3. Offering(sa, f + 1) = {f}
    BY <2>1, <2>2, OfferingNext DEF Foremost
  <2>4. Seen(ss, sa, f + 1) = {}
    BY <1>3, <1>4, <1>6, <2>2, SetsBelow
  <2>5. Least(ss, f, Offering(sa, f + 1))
    BY <2>3, LeastAlone
  <2>6. Victim(ss, sa, f + 1, load, found, empty, place)
    BY <2>1, <2>2, <2>4, <2>5 DEF Victim
  <2> QED
    BY <2>6 DEF Settled
<1>7. CASE /\ Victim(ss, sa, f, load, found, empty, place)
           /\ NoneBelow(vacants, k)
           /\ NoneBelow(matches, k) \/ load <= Load(ss, f)
  <2>1. PICK m \in Fpga : /\ Least(ss, m, Offering(sa, f)) /\ load = Load(ss, m)
                          /\ \E j \in Slot : Foremost(j, Matching(sa, Wanted, m)) /\ place = <<m, j>>
    BY <1>7 DEF Victim
  <2>2. found /\ ~ empty /\ Seen(ss, sa, f + 1) = {}
    BY <1>3, <1>4, <1>7 DEF Victim
  <2>3. Least(ss, m, Offering(sa, f + 1))
    <3>1. CASE matches = {}
      <4>1. Offering(sa, f + 1) = Offering(sa, f)
        BY <3>1, OfferingNext
      <4> QED
        BY <2>1, <4>1
    <3>2. CASE matches # {}
      <4>1. Offering(sa, f + 1) = Offering(sa, f) \cup {f}
        BY <3>2, OfferingNext
      <4>2. Load(ss, m) <= Load(ss, f)
        BY <1>2, <1>7, <2>1, <3>2
      <4>3. Offering(sa, f) \in SUBSET Fpga /\ \A g \in Offering(sa, f) : g < f
        BY SetsBelow
      <4> QED
        BY <2>1, <4>1, <4>2, <4>3, LeastStays
    <3> QED
      BY <3>1, <3>2
  <2>4. Victim(ss, sa, f + 1, load, found, empty, place)
    BY <2>1, <2>2, <2>3 DEF Victim
  <2> QED
    BY <2>4 DEF Settled
<1>8. CASE /\ Vacancy(ss, sa, f, load, found, empty, place)
           /\ NoneBelow(vacants, k) \/ load <= Load(ss, f)
  <2>1. PICK m \in Fpga :
          /\ Least(ss, m, Vacating(ss, sa, f)) /\ load = Load(ss, m)
          /\ \E j \in Slot : Foremost(j, Vacant(ss, sa, Wanted, m)) /\ place = <<m, j>>
    BY <1>8 DEF Vacancy
  <2>2. found /\ empty
    BY <1>8 DEF Vacancy
  <2>3. Least(ss, m, Vacating(ss, sa, f + 1))
    <3>1. CASE Vacating(ss, sa, f + 1) = Vacating(ss, sa, f)
      BY <2>1, <3>1
    <3>2. CASE Vacating(ss, sa, f + 1) # Vacating(ss, sa, f)
      <4>1. vacants # {} /\ Vacating(ss, sa, f + 1) = Vacating(ss, sa, f) \cup {f}
        BY <3>2, VacatingNext
      <4>2. Load(ss, m) <= Load(ss, f)
        BY <1>3, <1>8, <2>1, <4>1
      <4>3. Vacating(ss, sa, f) \in SUBSET Fpga /\ \A g \in Vacating(ss, sa, f) : g < f
        BY SetsBelow
      <4> QED
        BY <2>1, <4>1, <4>2, <4>3, LeastStays
    <3> QED
      BY <3>1, <3>2
  <2>4. Vacancy(ss, sa, f + 1, load, found, empty, place)
    BY <2>1, <2>2, <2>3 DEF Vacancy
  <2> QED
    BY <2>4 DEF Settled
<1> QED
  BY <1>5, <1>6, <1>7, <1>8 DEF Within

-----------------------------------------------------------------------------
(* The loop itself: its locals are at every step what the sets say.        *)
ScanTypes ==
  /\ Tables
  /\ fpga_id \in 0 .. NumFpga
  /\ slot_id \in Nat
  /\ matching_slot_found \in BOOLEAN
  /\ matching_empty_slot_found \in BOOLEAN

WithinNow ==
  Within(session_map, appid_map, fpga_id, slot_id,
         max_load, matching_slot_found, matching_empty_slot_found, chosen)

SettledNow ==
  Settled(session_map, appid_map, fpga_id,
          max_load, matching_slot_found, matching_empty_slot_found, chosen)

LoopInv ==
  /\ ScanTypes
  /\ fpga_id \in Fpga => WithinNow
  /\ fpga_id = NumFpga => SettledNow

LEMMA LoopStarts ==
  ScanInit => LoopInv
<1> SUFFICES ASSUME ScanInit PROVE LoopInv
  OBVIOUS
<1>1. ScanTypes
  <2>1. Tables /\ matching_slot_found \in BOOLEAN /\ matching_empty_slot_found \in BOOLEAN
    BY DEF ScanInit
  <2>2. fpga_id \in 0 .. NumFpga /\ slot_id \in Nat
    BY ScanAssumption DEF ScanInit
  <2> QED
    BY <2>1, <2>2 DEF ScanTypes
<1>2. Offering(appid_map, fpga_id) = {}
  <2>1. \A f \in Fpga : ~ f < 0
    BY IndexSets
  <2> QED
    BY <2>1 DEF ScanInit, Offering, Candidates
<1>3. SettledNow
  BY <1>2 DEF ScanInit, SettledNow, Settled, Fresh
<1>4. WithinNow
  BY <1>3, WithinAtFirstSlot DEF ScanInit, SettledNow, WithinNow
<1> QED
  BY <1>1, <1>3, <1>4 DEF LoopInv

\* A step that leaves FPGA fpga_id with all of it settled keeps the invariant.
LEMMA BreakKeepsLoopInv ==
  ASSUME LoopInv, fpga_id \in Fpga, Break,
         matching_slot_found' \in BOOLEAN, matching_empty_slot_found' \in BOOLEAN,
         Settled(session_map, appid_map, fpga_id + 1, max_load',
                 matching_slot_found', matching_empty_slot_found', chosen')
  PROVE  LoopInv'
<1>1. fpga_id + 1 \in 0 .. NumFpga
  BY ScanAssumption DEF Fpga
<1>2. ScanTypes'
  BY <1>1 DEF LoopInv, ScanTypes, Tables, TableSlots, Break
<1>3. SettledNow'
  BY DEF Break, SettledNow
<1>4. WithinNow'
  BY <1>3, WithinAtFirstSlot DEF Break, SettledNow, WithinNow
<1> QED
  BY <1>2, <1>3, <1>4 DEF LoopInv

\* So does one that goes on to the next slot of the FPGA.
LEMMA ContinueKeepsLoopInv ==
  ASSUME LoopInv, fpga_id \in Fpga, Continue,
         matching_slot_found' \in BOOLEAN, matching_empty_slot_found' \in BOOLEAN,
         Within(session_map, appid_map, fpga_id, slot_id + 1, max_load',
                matching_slot_found', matching_empty_slot_found', chosen')
  PROVE  LoopInv'
<1>1. ScanTypes'
  BY DEF LoopInv, ScanTypes, Tables, TableSlots, Continue
<1>2. WithinNow'
  BY DEF Continue, WithinNow
<1>3. fpga_id' # NumFpga
  BY ScanAssumption DEF Fpga, Continue
<1> QED
  BY <1>1, <1>2, <1>3 DEF LoopInv

\* What Match and Idle say of the slot, and where the slots of an image end.
LEMMA MatchIs ==
  ASSUME Match
  PROVE  /\ fpga_id \in Fpga
         /\ slot_id \in Matching(appid_map, Wanted, fpga_id)
         /\ Idle <=> slot_id \in Vacant(session_map, appid_map, Wanted, fpga_id)
BY DEF Match, Idle, TableSlots, Matching, Vacant

LEMMA SlotsEnd ==
  ASSUME Tables, fpga_id \in Fpga, slot_id \in Nat, slot_id \notin TableSlots(fpga_id)
  PROVE  \A j \in Matching(appid_map, Wanted, fpga_id) : j < slot_id
<1> SUFFICES ASSUME NEW j \in Slot, appid_map[fpga_id][j] = Wanted PROVE j < slot_id
  BY DEF Matching
<1>1. j \in Nat /\ appid_map[fpga_id][j] # Null
  BY IndexSets, LoopAssumption
<1>2. CASE slot_id \in Slot
  <2>1. appid_map[fpga_id][slot_id] = Null
    BY <1>2 DEF TableSlots
  <2>2. ~ j > slot_id /\ j # slot_id
    BY <1>1, <1>2, <2>1 DEF Tables
  <2> QED
    BY <1>1, <2>2
<1>3. CASE slot_id \notin Slot
  BY <1>3, ScanAssumption DEF Slot
<1> QED
  BY <1>2, <1>3

LEMMA LoopGoesOn ==
  LoopInv /\ [ScanNext]_scan => LoopInv'
<1> SUFFICES ASSUME LoopInv, [ScanNext]_scan PROVE LoopInv'
  OBVIOUS
<1> USE LoopAssumption
<1>0. /\ ScanTypes
      /\ fpga_id \in Fpga => WithinNow
      /\ slot_id \in Nat /\ matching_slot_found \in BOOLEAN
      /\ matching_empty_slot_found \in BOOLEAN
  BY DEF LoopInv, ScanTypes
<1>1. CASE TakeVacant
  <2>1. fpga_id \in Fpga /\ slot_id \in Vacant(session_map, appid_map, Wanted, fpga_id)
    BY <1>1, MatchIs DEF TakeVacant
  <2>2. Within(session_map, appid_map, fpga_id, slot_id,
               max_load, matching_slot_found, matching_empty_slot_found, chosen)
    BY <1>0, <2>1 DEF WithinNow
  <2>3. Vacancy(session_map, appid_map, fpga_id + 1, Load(session_map, fpga_id),
                TRUE, TRUE, <<fpga_id, slot_id>>)
    <3>1. CASE matching_empty_slot_found = FALSE
      BY <2>1, <2>2, <3>1, FirstVacantSettles
    <3>2. CASE matching_empty_slot_found = TRUE
      <4>1. max_load > Load(session_map, fpga_id)
        BY <1>1, <3>2 DEF TakeVacant
      <4> QED
        BY <2>1, <2>2, <3>2, <4>1, BetterVacantSettles
    <3> QED
      BY <1>0, <3>1, <3>2
  <2>4. /\ max_load' = Load(session_map, fpga_id)
        /\ matching_slot_found' = TRUE /\ matching_empty_slot_found' = TRUE
        /\ chosen' = <<fpga_id, slot_id>> /\ Break
    BY <1>1 DEF TakeVacant, Here
  <2>5. Settled(session_map, appid_map, fpga_id + 1, max_load',
                matching_slot_found', matching_empty_slot_found', chosen')
    BY <2>3, <2>4 DEF Settled
  <2> QED
    BY <2>1, <2>4, <2>5, BreakKeepsLoopInv
<1>2. CASE RememberFirst
  <2>1. /\ fpga_id \in Fpga /\ slot_id \in Matching(appid_map, Wanted, fpga_id)
        /\ session_map[fpga_id][slot_id] # Null
    BY <1>2, MatchIs DEF RememberFirst, Idle
  <2>2. /\ matching_slot_found = FALSE
        /\ max_load' = Load(session_map, fpga_id)
        /\ matching_slot_found' = TRUE
        /\ matching_empty_slot_found' = matching_empty_slot_found
        /\ chosen' = <<fpga_id, slot_id>> /\ Continue
    BY <1>0, <1>2 DEF RememberFirst, Here
  <2>3. Within(session_map, appid_map, fpga_id, slot_id,
               max_load, FALSE, matching_empty_slot_found, chosen)
    BY <1>0, <2>1, <2>2 DEF WithinNow
  <2>4. ~ matching_empty_slot_found
    BY <2>1, <2>3, FirstMatchRemembered
  <2>5. Within(session_map, appid_map, fpga_id, slot_id + 1, Load(session_map, fpga_id),
               TRUE, FALSE, <<fpga_id, slot_id>>)
    BY <2>1, <2>3, FirstMatchRemembered
  <2>6. matching_empty_slot_found' = FALSE
    BY <1>0, <2>2, <2>4
  <2>7. Within(session_map, appid_map, fpga_id, slot_id + 1, max_load',
               matching_slot_found', matching_empty_slot_found', chosen')
    BY <2>2, <2>5, <2>6
  <2> QED
    BY <2>1, <2>2, <2>6, <2>7, ContinueKeepsLoopInv
<1>3. CASE ImproveVictim
  <2>1. /\ fpga_id \in Fpga /\ slot_id \in Matching(appid_map, Wanted, fpga_id)
        /\ session_map[fpga_id][slot_id] # Null
    BY <1>3, MatchIs DEF ImproveVictim, Idle
  <2>2. /\ matching_slot_found = TRUE /\ matching_empty_slot_found = FALSE
        /\ max_load > Load(session_map, fpga_id)
        /\ max_load' = Load(session_map, fpga_id)
        /\ matching_slot_found' = TRUE /\ matching_empty_slot_found' = FALSE
        /\ chosen' = <<fpga_id, slot_id>> /\ Break
    BY <1>0, <1>3 DEF ImproveVictim, Here
  <2>3. Within(session_map, appid_map, fpga_id, slot_id, max_load, TRUE, FALSE, chosen)
    BY <1>0, <2>1, <2>2 DEF WithinNow
  <2>4. Victim(session_map, appid_map, fpga_id + 1, Load(session_map, fpga_id),
               TRUE, FALSE, <<fpga_id, slot_id>>)
    BY <2>1, <2>2, <2>3, BetterVictimSettles
  <2>5. Settled(session_map, appid_map, fpga_id + 1, max_load',
                matching_slot_found', matching_empty_slot_found', chosen')
    BY <2>2, <2>4 DEF Settled
  <2> QED
    BY <2>1, <2>2, <2>5, BreakKeepsLoopInv
<1>4. CASE PassSlot
  <2>1. fpga_id \in Fpga /\ slot_id \in Slot /\ slot_id \in TableSlots(fpga_id)
    BY <1>4 DEF PassSlot, TableSlots
  <2>2. \/ slot_id \notin Matching(appid_map, Wanted, fpga_id)
        \/ /\ slot_id \in Vacant(session_map, appid_map, Wanted, fpga_id)
           /\ matching_empty_slot_found /\ max_load <= Load(session_map, fpga_id)
        \/ /\ slot_id \notin Vacant(session_map, appid_map, Wanted, fpga_id)
           /\ matching_empty_slot_found
        \/ /\ slot_id \notin Vacant(session_map, appid_map, Wanted, fpga_id)
           /\ matching_slot_found /\ max_load <= Load(session_map, fpga_id)
    <3>1. ~ Match => slot_id \notin Matching(appid_map, Wanted, fpga_id)
      BY <2>1 DEF Match, Matching
    <3>2. CASE ~ Match
      BY <3>1, <3>2
    <3>3. CASE Match
      BY <1>4, <3>3, MatchIs DEF PassSlot
    <3> QED
      BY <3>2, <3>3
  <2>3. Within(session_map, appid_map, fpga_id, slot_id + 1,
               max_load, matching_slot_found, matching_empty_slot_found, chosen)
    BY <1>0, <2>1, <2>2, SlotPassed DEF WithinNow
  <2>4. UNCHANGED locals /\ Continue
    BY <1>4 DEF PassSlot
  <2> QED
    BY <1>0, <2>1, <2>3, <2>4, ContinueKeepsLoopInv DEF locals
<1>5. CASE NextFpga
  <2>1. fpga_id \in Fpga /\ UNCHANGED locals /\ Break
    BY <1>5 DEF NextFpga
  <2>2. \A j \in Matching(appid_map, Wanted, fpga_id) : j < slot_id
    BY <1>0, <1>5, <2>1, SlotsEnd DEF NextFpga, ScanTypes
  <2>3. Settled(session_map, appid_map, fpga_id + 1,
                max_load, matching_slot_found, matching_empty_slot_found, chosen)
    BY <1>0, <2>1, <2>2, FpgaSettles DEF WithinNow
  <2> QED
    BY <1>0, <2>1, <2>3, BreakKeepsLoopInv DEF locals
<1>6. CASE UNCHANGED scan
  BY <1>6 DEF scan, locals, LoopInv, ScanTypes, Tables, TableSlots, WithinNow, SettledNow
<1> QED
  BY <1>1, <1>2, <1>3, <1>4, <1>5, <1>6 DEF ScanNext

\* At the end the sets that were cut off at NumFpga are those of the closed form.
LEMMA AllBelow ==
  ASSUME NEW ss, NEW sa
  PROVE  /\ Offering(sa, NumFpga) = Candidates(sa, Wanted)
         /\ Seen(ss, sa, NumFpga) = SeenVacant(ss, sa, Wanted)
         /\ SeenVacant(ss, sa, Wanted) # {}
              => Vacating(ss, sa, NumFpga) = VacantFpgas(ss, sa, Wanted)
<1> DEFINE seen == SeenVacant(ss, sa, Wanted)
<1>1. \A f \in Fpga : f < NumFpga /\ f \in Nat
  BY ScanAssumption DEF Fpga
<1>2. Offering(sa, NumFpga) = Candidates(sa, Wanted)
  BY <1>1 DEF Offering, Candidates
<1>3. Seen(ss, sa, NumFpga) = seen
  BY <1>1 DEF Seen, SeenVacant
<1>4. seen \in SUBSET Nat
  BY <1>1 DEF SeenVacant
<1>5. ASSUME seen # {} PROVE Vacating(ss, sa, NumFpga) = VacantFpgas(ss, sa, Wanted)
  <2>1. First(seen) \in seen /\ \A g \in seen : First(seen) <= g
    BY <1>4, <1>5, LeastExists DEF First
  <2>2. \A f \in Fpga : (\E g \in seen : g <= f) <=> f >= First(seen)
    BY <1>1, <1>4, <2>1
  <2> HIDE DEF seen
  <2>3. Vacating(ss, sa, NumFpga)
          = {f \in Fpga : Vacant(ss, sa, Wanted, f) # {} /\ f >= First(seen)}
    BY <1>1, <1>3, <2>2 DEF Vacating
  <2> QED
    BY <2>3 DEF VacantFpgas, seen
<1> QED
  BY <1>2, <1>3, <1>5

\* What is settled when the loop ends is the closed form.
LEMMA SettledIsClosedForm ==
  ASSUME NEW ss, NEW sa, NEW load, NEW found \in BOOLEAN, NEW empty \in BOOLEAN, NEW place,
         Settled(ss, sa, NumFpga, load, found, empty, place)
  PROVE  /\ empty = VacantFound(ss, sa, Wanted)
         /\ (found /\ ~ empty) = VictimFound(ss, sa, Wanted)
         /\ empty => place = VacantPlace(ss, sa, Wanted)
         /\ (found /\ ~ empty) => place = VictimPlace(ss, sa, Wanted)
<1> DEFINE seen == SeenVacant(ss, sa, Wanted)
           offering == Candidates(sa, Wanted)
<1>1. offering \in SUBSET Fpga /\ VacantFpgas(ss, sa, Wanted) \in SUBSET Fpga /\ seen \subseteq offering
  BY DEF Candidates, VacantFpgas, SeenVacant, Vacant
<1>2. \A f : Matching(sa, Wanted, f) \in SUBSET Nat /\ Vacant(ss, sa, Wanted, f) \in SUBSET Nat
  BY IndexSets DEF Matching, Vacant
<1>3. VacantFound(ss, sa, Wanted) \in BOOLEAN /\ VictimFound(ss, sa, Wanted) \in BOOLEAN
  BY DEF VacantFound, VictimFound
<1>4. CASE Fresh(sa, NumFpga, found, empty)
  <2>1. offering = {} /\ ~ found /\ ~ empty
    BY <1>4, AllBelow DEF Fresh
  <2>2. ~ VacantFound(ss, sa, Wanted) /\ ~ VictimFound(ss, sa, Wanted)
    BY <1>1, <2>1 DEF VacantFound, VictimFound
  <2> QED
    BY <1>3, <2>1, <2>2
<1>5. CASE Victim(ss, sa, NumFpga, load, found, empty, place)
  <2>1. found /\ ~ empty /\ seen = {}
    BY <1>5, AllBelow DEF Victim
  <2>2. PICK m \in Fpga : /\ Least(ss, m, offering)
                          /\ \E k \in Slot : Foremost(k, Matching(sa, Wanted, m)) /\ place = <<m, k>>
    BY <1>5, AllBelow DEF Victim
  <2>3. PICK k \in Slot : Foremost(k, Matching(sa, Wanted, m)) /\ place = <<m, k>>
    BY <2>2
  <2>4. LeastLoaded(ss, offering) = m
    BY <1>1, <2>2, LeastLoadedIs
  <2>5. First(Matching(sa, Wanted, m)) = k
    BY <1>2, <2>3, FirstIs
  <2>6. VictimPlace(ss, sa, Wanted) = place
    BY <2>3, <2>4, <2>5 DEF VictimPlace
  <2>7. ~ VacantFound(ss, sa, Wanted) /\ VictimFound(ss, sa, Wanted)
    BY <2>1, <2>2 DEF VacantFound, VictimFound, Least
  <2> QED
    BY <1>3, <2>1, <2>6, <2>7
<1>6. CASE Vacancy(ss, sa, NumFpga, load, found, empty, place)
  <2>1. found /\ empty
    BY <1>6 DEF Vacancy
  <2>2. PICK m \in Fpga : /\ Least(ss, m, Vacating(ss, sa, NumFpga))
                          /\ \E k \in Slot : Foremost(k, Vacant(ss, sa, Wanted, m)) /\ place = <<m, k>>
    BY <1>6 DEF Vacancy
  <2>3. PICK k \in Slot : Foremost(k, Vacant(ss, sa, Wanted, m)) /\ place = <<m, k>>
    BY <2>2
  <2>4. seen # {}
    <3>1. Seen(ss, sa, NumFpga) # {}
      BY <2>2 DEF Least, Vacating
    <3> QED
      BY <3>1, AllBelow
  <2>5. Least(ss, m, VacantFpgas(ss, sa, Wanted))
    BY <2>2, <2>4, AllBelow
  <2>6. LeastLoaded(ss, VacantFpgas(ss, sa, Wanted)) = m
    BY <1>1, <2>5, LeastLoadedIs
  <2>7. First(Vacant(ss, sa, Wanted, m)) = k
    BY <1>2, <2>3, FirstIs
  <2>8. VacantPlace(ss, sa, Wanted) = place
    BY <2>3, <2>6, <2>7 DEF VacantPlace
  <2>9. VacantFound(ss, sa, Wanted) /\ ~ VictimFound(ss, sa, Wanted)
    BY <2>4 DEF VacantFound, VictimFound
  <2> QED
    BY <1>3, <2>1, <2>8, <2>9
<1> QED
  BY <1>4, <1>5, <1>6 DEF Settled

\* When the loop of handleScheduling is over, its locals hold the vacant slot
\* or the victim of the closed form, for any number of FPGAs and slots and
\* any tables (aos_scheduler.cpp, steps 2 and 3).
THEOREM LoopAlwaysMeetsClosedForm ==
  ScanSpec => []LoopMeetsClosedForm
<1>1. ScanInit => LoopInv
  BY LoopStarts
<1>2. LoopInv /\ [ScanNext]_scan => LoopInv'
  BY LoopGoesOn
<1>3. LoopInv => LoopMeetsClosedForm
  <2> SUFFICES ASSUME LoopInv, fpga_id = NumFpga
               PROVE  /\ matching_empty_slot_found = VacantFound(session_map, appid_map, Wanted)
                      /\ (matching_slot_found /\ ~ matching_empty_slot_found)
                           = VictimFound(session_map, appid_map, Wanted)
                      /\ matching_empty_slot_found
                           => chosen = VacantPlace(session_map, appid_map, Wanted)
                      /\ (matching_slot_found /\ ~ matching_empty_slot_found)
                           => chosen = VictimPlace(session_map, appid_map, Wanted)
    BY DEF LoopMeetsClosedForm
  <2>1. /\ matching_slot_found \in BOOLEAN /\ matching_empty_slot_found \in BOOLEAN
        /\ Settled(session_map, appid_map, NumFpga,
                   max_load, matching_slot_found, matching_empty_slot_found, chosen)
    BY DEF LoopInv, ScanTypes, SettledNow
  <2> QED
    BY <2>1, SettledIsClosedForm
<1> QED
  BY <1>1, <1>2, <1>3, PTL DEF ScanSpec

=============================================================================
