----------------------------- MODULE MixerProofs -----------------------------
(***************************************************************************)
(* Proofs about the Mixer for every value of the constants: type          *)
(* correctness, and that the upstream consumers follow the slots through  *)
(* connects, disconnects, a start that succeeds or fails part-way, errors *)
(* and stops.                                                             *)
(***************************************************************************)
EXTENDS Mixer, TLAPS

USE MixerAssumption DEF MixerAssumption

(***************************************************************************)
(* TypeOK is not inductive: start_pipeline requests the base plate's pad   *)
(* without a bound check, so a pad serial stays within Pads only because  *)
(* Connect keeps it below MaxPads while the pipeline has not been started *)
(* and start_pipeline runs once on a pipeline.                             *)
(***************************************************************************)

(* While the actor runs on a pipeline that was never started, Connect has *)
(* left a pad serial for the base plate.                                  *)
PadBound == running /\ pipeline = "null" => pad_serial <= MaxPads

(* The Boolean and the other parts of TypeOK, for the provers. *)
TypeBool ==
    /\ running \in BOOLEAN
    /\ cue_pending \in BOOLEAN
    /\ end_pending \in BOOLEAN
    /\ error_pending \in BOOLEAN
    /\ showing_base_plate \in BOOLEAN

TypeRest ==
    /\ state \in States
    /\ pipeline \in {"null", "starting", "playing", "failed", "aborted"}
    /\ consumer_slots \in [Links -> Slot \cup {None}]
    /\ pad_serial \in 0..MaxPads + 1
    /\ req_pads \subseteq Pads
    /\ base_pad \in Pads \cup {None}
    /\ upstream \subseteq Links
    /\ v_slot_controllers \in [VKeys -> Controller \cup {None}]
    /\ a_slot_controllers \in [AKeys -> Controller \cup {None}]
    /\ mixer_controllers \in [MixerProps -> (SUBSET PointIds) \cup {None}]
    /\ fallback_timeout \in Timeouts
    /\ timeout \in Timeouts \cup {None}
    /\ base_plate_timeout \in 0..MaxPts \cup {None}
    /\ last_pts \in 0..MaxPts \cup {None}
    /\ alone_since \in 0..MaxPts \cup {None}
    /\ sink0_alpha \in {0, 1}
    /\ removed \subseteq MixerProps \X PointIds

TypeInv == TypeBool /\ TypeRest /\ PadBound

(* The strengthening of UpstreamMatchesSlots. *)
IInv == TypeInv /\ UpstreamMatchesSlots

(* The Boolean and the other parts make up TypeOK. *)
LEMMA TypeSplit == TypeOK <=> TypeBool /\ TypeRest
BY Zenon DEF TypeOK, TypeBool, TypeRest

(* Mixer::new starts the actor in a state satisfying the invariant. *)
LEMMA IInvInit == Init => IInv
<1> SUFFICES ASSUME Init PROVE IInv
    OBVIOUS
<1>1. TypeBool
    BY Zenon DEF Init, TypeBool
<1>2. TypeRest
    <2>1. state \in States /\ pipeline \in {"null", "starting", "playing", "failed", "aborted"}
        BY DEF Init, States
    <2>2. consumer_slots \in [Links -> Slot \cup {None}] /\ upstream \subseteq Links
        BY DEF Init
    <2>3. pad_serial \in 0..MaxPads + 1 /\ req_pads \subseteq Pads /\ base_pad \in Pads \cup {None}
        BY DEF Init
    <2>4. v_slot_controllers \in [VKeys -> Controller \cup {None}]
        BY DEF Init
    <2>7. a_slot_controllers \in [AKeys -> Controller \cup {None}]
        BY DEF Init
    <2>8. mixer_controllers \in [MixerProps -> (SUBSET PointIds) \cup {None}]
        BY Zenon DEF Init
    <2>5. /\ fallback_timeout \in Timeouts
          /\ timeout \in Timeouts \cup {None}
          /\ base_plate_timeout \in 0..MaxPts \cup {None}
          /\ last_pts \in 0..MaxPts \cup {None}
          /\ alone_since \in 0..MaxPts \cup {None}
          /\ sink0_alpha \in {0, 1}
          /\ removed \subseteq MixerProps \X PointIds
        BY DEF Init
    <2>6. QED
        BY <2>1, <2>2, <2>3, <2>4, <2>5, <2>7, <2>8 DEF TypeRest
<1>3. PadBound
    BY DEF Init, PadBound
<1>4. UpstreamMatchesSlots
    BY DEF Init, UpstreamMatchesSlots
<1>5. QED
    BY <1>1, <1>2, <1>3, <1>4 DEF IInv, TypeInv

(* A step that leaves the actor, the pipeline and the slots alone keeps   *)
(* the pad bound and the upstream consumers.                              *)
LEMMA SlotsUntouched ==
    ASSUME IInv,
           UNCHANGED <<running, pipeline, pad_serial, consumer_slots, upstream>>
    PROVE  PadBound' /\ UpstreamMatchesSlots'
BY DEF IInv, TypeInv, PadBound, UpstreamMatchesSlots

(* entry().or_insert_with().push_control_point keeps a controller map    *)
(* well typed.                                                            *)
LEMMA UpsertType ==
    ASSUME NEW S, NEW ctls \in [S -> Controller \cup {None}], NEW k \in S,
           NEW pad \in Pads, NEW p \in PointIds
    PROVE  Upsert(ctls, k, pad, p) \in [S -> Controller \cup {None}]
<1>1. CASE ctls[k] = None
    <2>1. [pad |-> pad, points |-> {p}] \in Controller
        BY DEF Controller
    <2>2. QED
        BY <1>1, <2>1 DEF Upsert
<1>2. CASE ctls[k] # None
    <2>1. ctls[k] \in Controller
        BY <1>2
    <2>2. [ctls[k] EXCEPT !.points = @ \cup {p}] \in Controller
        BY <2>1 DEF Controller
    <2>3. QED
        BY <1>2, <2>2 DEF Upsert
<1>3. QED
    BY <1>1, <1>2

(* remove_control_point keeps a controller map well typed. *)
LEMMA RemovePointType ==
    ASSUME NEW S, NEW ctls \in [S -> Controller \cup {None}], NEW k,
           NEW p \in PointIds
    PROVE  RemovePoint(ctls, k, p) \in [S -> Controller \cup {None}]
<1>1. CASE k \in S /\ ctls[k] # None
    <2>1. [ctls[k] EXCEPT !.points = @ \ {p}] \in Controller
        BY <1>1 DEF Controller
    <2>2. QED
        BY <1>1, <2>1 DEF RemovePoint
<1>2. CASE k \in S /\ ctls[k] = None
    BY <1>2 DEF RemovePoint
<1>3. CASE k \notin S
    BY <1>3 DEF RemovePoint
<1>4. QED
    BY <1>1, <1>2, <1>3

(* synchronize_*_controllers keeps a controller map well typed. *)
LEMMA SynchronizeType ==
    ASSUME NEW S, NEW ctls \in [S -> Controller \cup {None}], NEW due
    PROVE  Synchronize(ctls, due) \in [S -> Controller \cup {None}]
<1>1. \A k \in S : ctls[k] # None =>
          [ctls[k] EXCEPT !.points = @ \ due] \in Controller
    BY DEF Controller
<1>2. QED
    BY <1>1 DEF Synchronize

(* connect: the new slot has the next pad serial and, only when the      *)
(* Mixer is Started, bins and upstream consumers.                         *)
LEMMA ConnectStep ==
    ASSUME IInv, NEW l \in Links, NEW ok \in BOOLEAN, Connect(l, ok)
    PROVE  IInv'
<1>1. TypeBool'
    BY Zenon DEF Connect, IInv, TypeInv, TypeBool, actorVars, videoVars
<1>2. pad_serial \in Pads /\ pad_serial' \in 0..MaxPads + 1
    BY DEF Connect, IInv, TypeInv, TypeRest, Pads
<1>3. [pad |-> pad_serial, bins |-> state = "Started"] \in Slot
    BY <1>2, Zenon DEF Slot
<1>4. consumer_slots' \in [Links -> Slot \cup {None}]
    BY <1>3 DEF Connect, IInv, TypeInv, TypeRest
<1>5. TypeRest'
    BY <1>2, <1>4 DEF Connect, IInv, TypeInv, TypeRest, actorVars, ctlVars,
                      videoVars, Pads
<1>6. PadBound'
    BY DEF Connect, IInv, TypeInv, TypeRest, PadBound, actorVars
<1>7. UpstreamMatchesSlots'
    <2>1. l \notin upstream
        BY DEF Connect, IInv, UpstreamMatchesSlots
    <2>2. CASE ~ok
        BY <2>2 DEF Connect, IInv, UpstreamMatchesSlots
    <2>3. CASE ok
        <3>1. consumer_slots' = [consumer_slots EXCEPT
                 ![l] = [pad |-> pad_serial, bins |-> state = "Started"]]
            BY <2>3 DEF Connect
        <3>2. upstream' = IF state = "Started" THEN upstream \cup {l}
                          ELSE upstream
            BY <2>3 DEF Connect
        <3>3. consumer_slots \in [Links -> Slot \cup {None}]
            BY DEF IInv, TypeInv, TypeRest
        <3>4. [pad |-> pad_serial, bins |-> state = "Started"] # None
            BY <1>3
        <3>5. QED
            BY <2>1, <3>1, <3>2, <3>3, <3>4 DEF IInv, UpstreamMatchesSlots
    <2>4. QED
        BY <2>2, <2>3
<1>8. QED
    BY <1>1, <1>5, <1>6, <1>7 DEF IInv, TypeInv

(* disconnect: the slot and its upstream consumers go together. *)
LEMMA DisconnectStep ==
    ASSUME IInv, NEW l \in Links, Disconnect(l)
    PROVE  IInv'
<1>1. TypeBool'
    BY Zenon DEF Disconnect, IInv, TypeInv, TypeBool, actorVars, videoVars
<1>2. TypeRest'
    BY DEF Disconnect, IInv, TypeInv, TypeRest, actorVars, ctlVars, videoVars
<1>3. PadBound'
    BY DEF Disconnect, IInv, TypeInv, PadBound, actorVars
<1>4. UpstreamMatchesSlots'
    BY DEF Disconnect, IInv, TypeInv, TypeRest, UpstreamMatchesSlots
<1>5. QED
    BY <1>1, <1>2, <1>3, <1>4 DEF IInv, TypeInv

(* The control-point handlers change controllers only. *)
LEMMA ControlPointStep ==
    ASSUME IInv,
           \/ \E l \in Links, v \in BOOLEAN, prop \in VideoProps \cup AudioProps,
                 p \in PointIds :
                 \/ AddSlotControlPoint(l, v, prop, p)
                 \/ RemoveSlotControlPoint(p, l, v, prop)
           \/ \E prop \in MixerProps, p \in PointIds :
                 AddControlPoint(prop, p) \/ RemoveControlPoint(p, prop)
    PROVE  IInv'
<1>1. UNCHANGED <<actorVars, pipeline, slotVars, videoVars>>
    BY DEF AddSlotControlPoint, RemoveSlotControlPoint, AddControlPoint,
           RemoveControlPoint
<1>2. UNCHANGED <<running, pipeline, pad_serial, consumer_slots, upstream>>
    BY <1>1 DEF actorVars, slotVars
<1>3. TypeBool'
    BY <1>1, Zenon DEF IInv, TypeInv, TypeBool, actorVars, videoVars
<1>4. /\ v_slot_controllers' \in [VKeys -> Controller \cup {None}]
      /\ a_slot_controllers' \in [AKeys -> Controller \cup {None}]
      /\ mixer_controllers' \in [MixerProps -> (SUBSET PointIds) \cup {None}]
      /\ removed' \subseteq MixerProps \X PointIds
    <2> USE DEF IInv, TypeInv, TypeRest
    <2>1. ASSUME NEW l \in Links, NEW v \in BOOLEAN,
                 NEW prop \in VideoProps \cup AudioProps, NEW p \in PointIds,
                 AddSlotControlPoint(l, v, prop, p)
          PROVE  /\ v_slot_controllers' \in [VKeys -> Controller \cup {None}]
                 /\ a_slot_controllers' \in [AKeys -> Controller \cup {None}]
                 /\ UNCHANGED <<mixer_controllers, removed>>
        <3>1. consumer_slots[l] \in Slot
            BY <2>1 DEF AddSlotControlPoint
        <3>2. consumer_slots[l].pad \in Pads
            BY <3>1 DEF Slot
        <3>3. CASE v /\ prop \in VideoProps
            <4>1. <<l, prop>> \in VKeys
                BY <3>3 DEF VKeys
            <4>2. v_slot_controllers' = Upsert(v_slot_controllers, <<l, prop>>,
                                               consumer_slots[l].pad, p)
                  /\ UNCHANGED a_slot_controllers
                BY <2>1, <3>3 DEF AddSlotControlPoint
            <4>3. Upsert(v_slot_controllers, <<l, prop>>, consumer_slots[l].pad, p)
                    \in [VKeys -> Controller \cup {None}]
                BY <3>2, <4>1, UpsertType
            <4>4. QED
                BY <2>1, <4>2, <4>3 DEF AddSlotControlPoint
        <3>4. CASE ~v /\ prop \in AudioProps
            <4>1. <<l, prop>> \in AKeys
                BY <3>4 DEF AKeys
            <4>2. a_slot_controllers' = Upsert(a_slot_controllers, <<l, prop>>,
                                               consumer_slots[l].pad, p)
                  /\ UNCHANGED v_slot_controllers
                BY <2>1, <3>4 DEF AddSlotControlPoint
            <4>3. Upsert(a_slot_controllers, <<l, prop>>, consumer_slots[l].pad, p)
                    \in [AKeys -> Controller \cup {None}]
                BY <3>2, <4>1, UpsertType
            <4>4. QED
                BY <2>1, <4>2, <4>3 DEF AddSlotControlPoint
        <3>5. QED
            BY <2>1, <3>3, <3>4 DEF AddSlotControlPoint
    <2>2. ASSUME NEW l \in Links, NEW v \in BOOLEAN,
                 NEW prop \in VideoProps \cup AudioProps, NEW p \in PointIds,
                 RemoveSlotControlPoint(p, l, v, prop)
          PROVE  /\ v_slot_controllers' \in [VKeys -> Controller \cup {None}]
                 /\ a_slot_controllers' \in [AKeys -> Controller \cup {None}]
                 /\ UNCHANGED <<mixer_controllers, removed>>
        <3>1. RemovePoint(v_slot_controllers, <<l, prop>>, p)
                \in [VKeys -> Controller \cup {None}]
            BY RemovePointType
        <3>2. RemovePoint(a_slot_controllers, <<l, prop>>, p)
                \in [AKeys -> Controller \cup {None}]
            BY RemovePointType
        <3>3. QED
            BY <2>2, <3>1, <3>2 DEF RemoveSlotControlPoint
    <2>3. ASSUME NEW prop \in MixerProps, NEW p \in PointIds,
                 AddControlPoint(prop, p) \/ RemoveControlPoint(p, prop)
          PROVE  /\ mixer_controllers' \in [MixerProps -> (SUBSET PointIds) \cup {None}]
                 /\ removed' \subseteq MixerProps \X PointIds
                 /\ UNCHANGED <<v_slot_controllers, a_slot_controllers>>
        BY <2>3 DEF AddControlPoint, RemoveControlPoint
    <2>4. QED
        BY <2>1, <2>2, <2>3
<1>5. TypeRest'
    BY <1>1, <1>4 DEF IInv, TypeInv, TypeRest, actorVars, slotVars, videoVars
<1>6. QED
    BY <1>2, <1>3, <1>5, SlotsUntouched DEF IInv, TypeInv

(* Actor::stopped, reached by StopMessage, the end time or an             *)
(* ErrorMessage: the actor stops with no slots and no upstream consumers. *)
LEMMA StoppedStep ==
    ASSUME IInv, Stop \/ EndTime \/ ErrorReceived
    PROVE  IInv'
<1>1. /\ Stopped
      /\ UNCHANGED <<cue_pending, end_pending, pipeline, pad_serial, req_pads,
                     base_pad, ctlVars, videoVars, removed>>
      /\ state' \in {state, "Stopped"}
      /\ error_pending' \in {error_pending, FALSE}
    BY DEF Stop, EndTime, ErrorReceived
<1>2. running' = FALSE /\ consumer_slots' = [l \in Links |-> None]
      /\ upstream' = {}
    BY <1>1 DEF Stopped
<1>3. TypeBool'
    BY <1>1, <1>2, Zenon DEF IInv, TypeInv, TypeBool, videoVars
<1>4. state' \in States
    BY <1>1 DEF IInv, TypeInv, TypeRest, States
<1>5. TypeRest'
    BY <1>1, <1>2, <1>4 DEF IInv, TypeInv, TypeRest, ctlVars, videoVars
<1>6. PadBound'
    BY <1>2 DEF PadBound
<1>7. UpstreamMatchesSlots'
    BY <1>2 DEF UpstreamMatchesSlots
<1>8. QED
    BY <1>3, <1>5, <1>6, <1>7 DEF IInv, TypeInv

(* start_pipeline: the base plate takes the pad serial PadBound keeps     *)
(* free, and every slot gets its bins and its upstream consumers.        *)
LEMMA StartPipelineStep ==
    ASSUME IInv, StartPipeline
    PROVE  IInv'
<1>1. pad_serial \in Pads /\ pad_serial' \in 0..MaxPads + 1
    BY DEF StartPipeline, IInv, TypeInv, TypeRest, PadBound, Pads
<1>2. TypeBool'
    BY Zenon DEF StartPipeline, IInv, TypeInv, TypeBool, ctlVars
<1>3. \A l \in Links : consumer_slots[l] # None =>
          [consumer_slots[l] EXCEPT !.bins = TRUE] \in Slot
    BY DEF IInv, TypeInv, TypeRest, Slot
<1>4. consumer_slots' \in [Links -> Slot \cup {None}]
    BY <1>3 DEF StartPipeline
<1>5. TypeRest'
    BY <1>1, <1>4 DEF StartPipeline, IInv, TypeInv, TypeRest, ctlVars, Pads,
                      States
<1>6. PadBound'
    BY DEF StartPipeline, PadBound
<1>7. UpstreamMatchesSlots'
    BY <1>3 DEF StartPipeline, UpstreamMatchesSlots, MixerAssumption
<1>8. QED
    BY <1>2, <1>5, <1>6, <1>7 DEF IInv, TypeInv

(* start_pipeline failing: before the base plate is linked nothing of    *)
(* the slots changes; in the slot loop the slots done so far get their   *)
(* bins and upstream consumers together.                                  *)
LEMMA StartPipelineFailsStep ==
    ASSUME IInv, NEW done \in SUBSET Links, NEW failed \in Links,
           StartPipelineFails(done, failed)
    PROVE  IInv'
<1> DEFINE slotted == {l \in Links : consumer_slots[l] # None}
<1>1. TypeBool'
    BY Zenon DEF StartPipelineFails, IInv, TypeInv, TypeBool, ctlVars
<1>2. PadBound'
    BY DEF StartPipelineFails, PadBound
<1>3. CASE UNCHANGED <<slotVars, sink0_alpha>>
    <2>1. TypeRest'
        BY <1>3 DEF StartPipelineFails, IInv, TypeInv, TypeRest, slotVars,
                    ctlVars
    <2>2. UpstreamMatchesSlots'
        BY <1>3 DEF IInv, UpstreamMatchesSlots, slotVars
    <2>3. QED
        BY <1>1, <1>2, <2>1, <2>2 DEF IInv, TypeInv
<1>4. CASE /\ pipeline = "null"
           /\ failed \in slotted
           /\ done \subseteq slotted \ {failed}
           /\ base_pad' = pad_serial
           /\ pad_serial' = pad_serial + 1
           /\ req_pads' = req_pads \cup {pad_serial}
           /\ sink0_alpha' = 0
           /\ consumer_slots' = [l \in Links |->
                                   IF l \in done
                                   THEN [consumer_slots[l] EXCEPT !.bins = TRUE]
                                   ELSE consumer_slots[l]]
           /\ upstream' = upstream \cup done
    <2>1. pad_serial \in Pads /\ pad_serial' \in 0..MaxPads + 1
        BY <1>4 DEF StartPipelineFails, IInv, TypeInv, TypeRest, PadBound, Pads
    <2>2. \A l \in done : [consumer_slots[l] EXCEPT !.bins = TRUE] \in Slot
        <3>1. \A l \in done : consumer_slots[l] \in Slot
            BY <1>4 DEF slotted, IInv, TypeInv, TypeRest
        <3>2. QED
            BY <3>1 DEF Slot
    <2>3. TypeRest'
        BY <1>4, <2>1, <2>2 DEF StartPipelineFails, IInv, TypeInv, TypeRest,
                               ctlVars, Pads
    <2>4. UpstreamMatchesSlots'
        BY <1>4, <2>2 DEF slotted, IInv, UpstreamMatchesSlots, MixerAssumption
    <2>5. QED
        BY <1>1, <1>2, <2>3, <2>4 DEF IInv, TypeInv
<1>5. QED
    BY <1>3, <1>4 DEF StartPipelineFails

(* The compositor's callback: the base-plate state, the controllers, the *)
(* fallback-timeout setting and last_pts stay well typed.                 *)
LEMMA VideoSamplesSelectedStep ==
    ASSUME IInv, VideoSamplesSelected
    PROVE  IInv'
<1> DEFINE pts == IF last_pts = None THEN 0 ELSE last_pts + 1
<1> USE DEF IInv, TypeInv, TypeRest
<1>1. PICK producing \in SUBSET AttachedPads, due \in SUBSET PointIds :
        LET basePlateOnly == (producing \cup {base_pad}) \ {0} = {}
            ftDue == IF mixer_controllers["fallback-timeout"] = None THEN {}
                     ELSE mixer_controllers["fallback-timeout"] \cap due
        IN
        /\ \/ /\ basePlateOnly
              /\ base_plate_timeout = None
              /\ base_plate_timeout' = pts
              /\ UNCHANGED <<showing_base_plate, sink0_alpha>>
           \/ /\ basePlateOnly
              /\ base_plate_timeout # None
              /\ ~showing_base_plate
              /\ TimedOut(pts)
              /\ sink0_alpha' = 1
              /\ showing_base_plate' = TRUE
              /\ UNCHANGED base_plate_timeout
           \/ /\ basePlateOnly
              /\ base_plate_timeout # None
              /\ showing_base_plate \/ ~TimedOut(pts)
              /\ UNCHANGED <<base_plate_timeout, showing_base_plate,
                             sink0_alpha>>
           \/ /\ ~basePlateOnly
              /\ sink0_alpha' = IF showing_base_plate THEN 0 ELSE sink0_alpha
              /\ showing_base_plate' = FALSE
              /\ base_plate_timeout' = None
        /\ v_slot_controllers' = Synchronize(v_slot_controllers, due)
        /\ mixer_controllers' = [k \in MixerProps |->
              IF mixer_controllers[k] = None \/ mixer_controllers[k] \subseteq due
              THEN None ELSE mixer_controllers[k] \ due]
        /\ fallback_timeout' \in IF ftDue = {} THEN {fallback_timeout}
                                 ELSE {PointValue[p] : p \in ftDue}
        /\ last_pts' = pts
        /\ alone_since' \in {None, pts, alone_since}
    BY DEF VideoSamplesSelected, HideBasePlate
<1>2. UNCHANGED <<actorVars, pipeline, slotVars, a_slot_controllers,
                  timeout, removed>>
    BY DEF VideoSamplesSelected
<1>3. pts \in 0..MaxPts
    BY DEF VideoSamplesSelected
<1>4. /\ base_plate_timeout' \in 0..MaxPts \cup {None}
      /\ alone_since' \in 0..MaxPts \cup {None}
      /\ sink0_alpha' \in {0, 1}
    BY <1>1, <1>3
<1>5. showing_base_plate' \in BOOLEAN
    BY <1>1, Zenon DEF TypeBool
<1>6. v_slot_controllers' \in [VKeys -> Controller \cup {None}]
    BY <1>1, SynchronizeType
<1>7. mixer_controllers' \in [MixerProps -> (SUBSET PointIds) \cup {None}]
    BY <1>1
<1>8. fallback_timeout' \in Timeouts
    <2>1. mixer_controllers["fallback-timeout"] \in (SUBSET PointIds) \cup {None}
        BY DEF MixerAssumption
    <2>2. QED
        BY <1>1, <2>1 DEF MixerAssumption
<1>9. TypeBool'
    BY <1>2, <1>5, Zenon DEF TypeBool, actorVars
<1>10. TypeRest'
    BY <1>1, <1>2, <1>3, <1>4, <1>6, <1>7, <1>8 DEF actorVars, slotVars
<1>11. PadBound' /\ UpstreamMatchesSlots'
    BY <1>2, SlotsUntouched DEF actorVars, slotVars
<1>12. QED
    BY <1>9, <1>10, <1>11

(* The steps of the schedule, the pipeline and the audiomixer's callback *)
(* touch neither the slots nor the pad serials, and none of them brings  *)
(* the pipeline back to Null while the actor runs.                       *)
LEMMA OtherStep ==
    ASSUME IInv,
           \/ Start \/ Reschedule \/ PipelinePlaying \/ PipelineFailed
           \/ PipelineReady \/ PipelineNull \/ VideoCallbackPanics
           \/ AudioSamplesSelected \/ UNCHANGED vars
    PROVE  IInv'
<1> DEFINE Kept == /\ UNCHANGED <<slotVars, v_slot_controllers,
                                   mixer_controllers, videoVars, removed>>
                  /\ pipeline' \in {"null", "starting", "playing", "failed",
                                    "aborted"}
                  /\ state' \in States
                  /\ running' \in {running, FALSE}
                  /\ a_slot_controllers' \in [AKeys -> Controller \cup {None}]
<1> USE DEF IInv, TypeInv, TypeRest, actorVars, slotVars, ctlVars, videoVars
<1>a. Start => Kept
    BY DEF Start
<1>b. Reschedule => Kept
    BY DEF Reschedule
<1>c. PipelinePlaying => Kept
    BY DEF PipelinePlaying
<1>d. PipelineFailed => Kept
    BY DEF PipelineFailed
<1>e. PipelineReady => Kept
    BY DEF PipelineReady, States
<1>f. PipelineNull => Kept
    BY DEF PipelineNull
<1>g. VideoCallbackPanics => Kept
    BY DEF VideoCallbackPanics
<1>h. AudioSamplesSelected => Kept
    BY SynchronizeType DEF AudioSamplesSelected
<1>i. UNCHANGED vars => Kept
    BY DEF vars
<1>1. UNCHANGED <<slotVars, v_slot_controllers, mixer_controllers,
                  videoVars, removed>>
    BY <1>a, <1>b, <1>c, <1>d, <1>e, <1>f, <1>g, <1>h, <1>i DEF Kept
<1>2. /\ pipeline' \in {"null", "starting", "playing", "failed", "aborted"}
      /\ state' \in States
      /\ running' \in {running, FALSE}
      /\ a_slot_controllers' \in [AKeys -> Controller \cup {None}]
    BY <1>a, <1>b, <1>c, <1>d, <1>e, <1>f, <1>g, <1>h, <1>i DEF Kept
<1>3. TypeBool'
    BY Zenon DEF Start, Reschedule, PipelinePlaying, PipelineFailed,
                 PipelineReady, PipelineNull, VideoCallbackPanics,
                 AudioSamplesSelected, vars, IInv, TypeInv, TypeBool,
                 actorVars, videoVars
<1>4. TypeRest'
    BY <1>1, <1>2 DEF IInv, TypeInv, TypeRest, slotVars, videoVars
<1>5. PadBound'
    BY <1>1 DEF Start, Reschedule, PipelinePlaying, PipelineFailed,
                PipelineReady, PipelineNull, VideoCallbackPanics,
                AudioSamplesSelected, vars, IInv, TypeInv, PadBound,
                actorVars, slotVars
<1>6. UpstreamMatchesSlots'
    BY <1>1 DEF IInv, UpstreamMatchesSlots, slotVars
<1>7. QED
    BY <1>3, <1>4, <1>5, <1>6 DEF IInv, TypeInv

(* The strengthened invariant holds in every reachable state. *)
THEOREM IInvHolds == Spec => []IInv
<1>1. Init => IInv
    BY IInvInit
<1>2. IInv /\ [Next]_vars => IInv'
    <2> SUFFICES ASSUME IInv, [Next]_vars PROVE IInv'
        OBVIOUS
    <2>1. CASE \E l \in Links, ok \in BOOLEAN : Connect(l, ok)
        BY <2>1, ConnectStep
    <2>2. CASE \E l \in Links : Disconnect(l)
        BY <2>2, DisconnectStep
    <2>3. CASE \/ \E l \in Links, v \in BOOLEAN, prop \in VideoProps \cup AudioProps,
                     p \in PointIds :
                     \/ AddSlotControlPoint(l, v, prop, p)
                     \/ RemoveSlotControlPoint(p, l, v, prop)
               \/ \E prop \in MixerProps, p \in PointIds :
                     AddControlPoint(prop, p) \/ RemoveControlPoint(p, prop)
        BY <2>3, ControlPointStep
    <2>4. CASE StartPipeline
        BY <2>4, StartPipelineStep
    <2>5. CASE \E done \in SUBSET Links, failed \in Links :
                  StartPipelineFails(done, failed)
        BY <2>5, StartPipelineFailsStep
    <2>6. CASE Stop \/ EndTime \/ ErrorReceived
        BY <2>6, StoppedStep
    <2>7. CASE VideoSamplesSelected
        BY <2>7, VideoSamplesSelectedStep
    <2>8. CASE \/ Start \/ Reschedule \/ PipelinePlaying \/ PipelineFailed
               \/ PipelineReady \/ PipelineNull \/ VideoCallbackPanics
               \/ AudioSamplesSelected \/ UNCHANGED vars
        BY <2>8, OtherStep
    <2>9. QED
        BY <2>1, <2>2, <2>3, <2>4, <2>5, <2>6, <2>7, <2>8 DEF Next
<1>3. QED
    BY <1>1, <1>2, PTL DEF Spec

(* Type correctness of the Mixer model for every value of the constants. *)
THEOREM TypeCorrect == Spec => []TypeOK
<1>1. IInv => TypeOK
    BY TypeSplit DEF IInv, TypeInv
<1>2. QED
    BY <1>1, IInvHolds, PTL

(* connect, disconnect, start_pipeline (succeeding or failing in its slot *)
(* loop) and Actor::stopped keep the upstream producers' consumers equal  *)
(* to the attached slots, for any number of links and pads.              *)
THEOREM UpstreamMatchesSlotsHolds == Spec => []UpstreamMatchesSlots
<1>1. IInv => UpstreamMatchesSlots
    BY DEF IInv
<1>2. QED
    BY <1>1, IInvHolds, PTL

-----------------------------------------------------------------------------
(* Setting a slot's bins keeps it a slot, and keeps its pad. *)
LEMMA BinsKeepPad ==
    ASSUME NEW s \in Slot, NEW b \in BOOLEAN
    PROVE  /\ [s EXCEPT !.bins = b] \in Slot
           /\ [s EXCEPT !.bins = b].pad = s.pad
           /\ [s EXCEPT !.bins = b] # None
<1>1. [s EXCEPT !.bins = b] \in Slot /\ [s EXCEPT !.bins = b].pad = s.pad
    BY DEF Slot
<1>2. QED
    BY <1>1

(***************************************************************************)
(* The slot contract.  Mixer!SlotsRefined maps the phase to Stopped once  *)
(* the actor stopped, and to the state machine's state before; that a     *)
(* running actor's state is never Stopped is what makes a stop a Halt.    *)
(***************************************************************************)
RunningPhase == running => state \in {"Initial", "Starting", "Started"}

(* Only start_pipeline, the Playing report and the end time move the     *)
(* state machine, and the end time stops the actor.                       *)
LEMMA RunningPhaseStep ==
    ASSUME RunningPhase, [Next]_vars
    PROVE  RunningPhase'
<1>1. CASE StartPipeline \/ PipelineReady
    BY <1>1 DEF StartPipeline, PipelineReady, RunningPhase
<1>2. CASE EndTime \/ Stop \/ ErrorReceived \/ VideoCallbackPanics
    BY <1>2 DEF EndTime, Stop, ErrorReceived, VideoCallbackPanics, Stopped,
                RunningPhase
<1>3. CASE \/ \E l \in Links, ok \in BOOLEAN : Connect(l, ok)
           \/ \E l \in Links : Disconnect(l)
           \/ \E l \in Links, v \in BOOLEAN, prop \in VideoProps \cup AudioProps,
                 p \in PointIds :
                 \/ AddSlotControlPoint(l, v, prop, p)
                 \/ RemoveSlotControlPoint(p, l, v, prop)
           \/ \E prop \in MixerProps, p \in PointIds :
                 AddControlPoint(prop, p) \/ RemoveControlPoint(p, prop)
    <2>1. UNCHANGED <<running, state>>
        BY <1>3 DEF Connect, Disconnect, AddSlotControlPoint,
                    RemoveSlotControlPoint, AddControlPoint, RemoveControlPoint,
                    actorVars
    <2>2. QED
        BY <2>1 DEF RunningPhase
<1>4. CASE \/ Start \/ Reschedule
           \/ \E done \in SUBSET Links, failed \in Links :
                 StartPipelineFails(done, failed)
           \/ PipelinePlaying \/ PipelineFailed \/ PipelineNull
    BY <1>4 DEF Start, Reschedule, StartPipelineFails, PipelinePlaying,
                PipelineFailed, PipelineNull, actorVars, RunningPhase
<1>5. CASE VideoSamplesSelected \/ AudioSamplesSelected \/ UNCHANGED vars
    BY <1>5 DEF VideoSamplesSelected, AudioSamplesSelected, vars, actorVars,
                RunningPhase
<1>6. QED
    BY <1>1, <1>2, <1>3, <1>4, <1>5 DEF Next

(* The state machine never reports Stopped for a running actor. *)
LEMMA RunningPhaseHolds == Spec => []RunningPhase
<1>1. Init => RunningPhase
    BY DEF Init, RunningPhase
<1>2. QED
    BY <1>1, RunningPhaseStep, PTL DEF Spec

(* The Mixer keeps its slot contract with the producers, for every set of *)
(* links: every step of the actor, of the pipeline and of the streaming    *)
(* threads is a MixerSlots step or leaves the phase, the slots and the     *)
(* attached links unchanged.                                               *)
THEOREM SlotsRefinement == Spec => SlotsRefined
<1> DEFINE slotted == {l \in Links : consumer_slots[l] # None}
<1>1. Init => SlotContract!SInit
    BY DEF Init, SlotContract!SInit
<1>2. IInv /\ RunningPhase /\ [Next]_vars => [SlotContract!SNext]_SlotContract!svars
    <2> SUFFICES ASSUME IInv, RunningPhase, [Next]_vars
                 PROVE  [SlotContract!SNext]_SlotContract!svars
        OBVIOUS
    <2>1. ASSUME NEW l \in Links, NEW ok \in BOOLEAN, Connect(l, ok)
          PROVE  SlotContract!AddSlot(l) \/ UNCHANGED SlotContract!svars
        <3>1. running /\ state # "Stopped" /\ consumer_slots[l] = None
              /\ UNCHANGED <<running, state>>
            BY <2>1 DEF Connect, RunningPhase, actorVars
        <3>2. CASE ~ok
            BY <2>1, <3>1, <3>2, Zenon DEF Connect, SlotContract!svars
        <3>3. CASE ok
            <4>1. /\ consumer_slots' = [consumer_slots EXCEPT
                                          ![l] = [pad |-> pad_serial,
                                                  bins |-> state = "Started"]]
                  /\ upstream' = IF state = "Started" THEN upstream \cup {l}
                                 ELSE upstream
                  /\ pad_serial < MaxPads
                BY <2>1, <3>3 DEF Connect
            <4>2. [pad |-> pad_serial, bins |-> state = "Started"] \in Slot
                BY <4>1 DEF IInv, TypeInv, TypeRest, Slot, Pads
            <4>3. slotted' = slotted \cup {l}
                BY <4>1, <4>2 DEF IInv, TypeInv, TypeRest
            <4>4. QED
                BY <3>1, <4>1, <4>3 DEF SlotContract!AddSlot
        <3>4. QED
            BY <3>2, <3>3
    <2>2. ASSUME NEW l \in Links, Disconnect(l)
          PROVE  SlotContract!RemoveSlot(l)
        <3>1. running /\ state # "Stopped" /\ consumer_slots[l] # None
              /\ UNCHANGED <<running, state>>
            BY <2>2 DEF Disconnect, RunningPhase, actorVars
        <3>2. slotted' = slotted \ {l} /\ upstream' = upstream \ {l}
            BY <2>2 DEF Disconnect, IInv, TypeInv, TypeRest
        <3>3. QED
            BY <3>1, <3>2 DEF SlotContract!RemoveSlot
    <2>3. ASSUME StartPipeline PROVE SlotContract!Begin
        <3>1. \A k \in Links : consumer_slots[k] # None =>
                  consumer_slots'[k] # None
            <4>1. SUFFICES ASSUME NEW k \in Links, consumer_slots[k] # None
                           PROVE  consumer_slots'[k] # None
                OBVIOUS
            <4>2. consumer_slots[k] \in Slot
                BY <4>1 DEF IInv, TypeInv, TypeRest
            <4>3. consumer_slots'[k] = [consumer_slots[k] EXCEPT !.bins = TRUE]
                BY <2>3, <4>1 DEF StartPipeline
            <4>4. QED
                BY <4>2, <4>3, BinsKeepPad
        <3>2. slotted' = slotted
            BY <2>3, <3>1 DEF StartPipeline
        <3>3. QED
            BY <2>3, <3>2 DEF StartPipeline, SlotContract!Begin
    <2>4. ASSUME NEW done \in SUBSET Links, NEW failed \in Links,
                 StartPipelineFails(done, failed)
          PROVE  SlotContract!AttachSome(done) \/ UNCHANGED SlotContract!svars
        <3>1. running /\ state = "Initial" /\ UNCHANGED <<running, state>>
            BY <2>4 DEF StartPipelineFails
        <3>2. CASE UNCHANGED slotVars
            BY <3>1, <3>2 DEF slotVars, SlotContract!svars
        <3>3. CASE /\ consumer_slots' = [l \in Links |->
                                          IF l \in done
                                          THEN [consumer_slots[l] EXCEPT !.bins = TRUE]
                                          ELSE consumer_slots[l]]
                   /\ upstream' = upstream \cup done
                   /\ done \subseteq slotted
            <4>1. \A k \in Links : consumer_slots[k] # None =>
                      consumer_slots'[k] # None
                <5>1. SUFFICES ASSUME NEW k \in Links, consumer_slots[k] # None
                               PROVE  consumer_slots'[k] # None
                    OBVIOUS
                <5>2. consumer_slots[k] \in Slot
                    BY <5>1 DEF IInv, TypeInv, TypeRest
                <5>3. CASE k \in done
                    BY <3>3, <5>2, <5>3, BinsKeepPad
                <5>4. CASE k \notin done
                    BY <3>3, <5>1, <5>4
                <5>5. QED
                    BY <5>3, <5>4
            <4>2. slotted' = slotted
                BY <3>3, <4>1
            <4>3. QED
                BY <3>1, <3>3, <4>2 DEF SlotContract!AttachSome
        <3>4. QED
            BY <2>4, <3>2, <3>3 DEF StartPipelineFails
    <2>5. ASSUME PipelineReady PROVE SlotContract!Ready
        BY <2>5 DEF PipelineReady, SlotContract!Ready, slotVars
    <2>6. ASSUME Stop \/ EndTime \/ ErrorReceived PROVE SlotContract!Halt
        <3>1. running /\ state # "Stopped" /\ ~running'
            BY <2>6 DEF Stop, EndTime, ErrorReceived, Stopped, RunningPhase
        <3>2. slotted' = {} /\ upstream' = {}
            BY <2>6 DEF Stop, EndTime, ErrorReceived, Stopped
        <3>3. QED
            BY <3>1, <3>2 DEF SlotContract!Halt
    <2>7. ASSUME VideoCallbackPanics
          PROVE  SlotContract!Abort \/ UNCHANGED SlotContract!svars
        <3>1. ~running' /\ UNCHANGED <<state, consumer_slots, upstream>>
            BY <2>7 DEF VideoCallbackPanics, slotVars
        <3>2. CASE running
            BY <3>1, <3>2 DEF RunningPhase, SlotContract!Abort
        <3>3. CASE ~running
            BY <3>1, <3>3 DEF SlotContract!svars
        <3>4. QED
            BY <3>2, <3>3
    <2>8. ASSUME \/ \E l \in Links, v \in BOOLEAN,
                       prop \in VideoProps \cup AudioProps, p \in PointIds :
                       \/ AddSlotControlPoint(l, v, prop, p)
                       \/ RemoveSlotControlPoint(p, l, v, prop)
                 \/ \E prop \in MixerProps, p \in PointIds :
                       AddControlPoint(prop, p) \/ RemoveControlPoint(p, prop)
                 \/ Start \/ Reschedule
          PROVE  UNCHANGED SlotContract!svars
        <3>1. UNCHANGED <<running, state, consumer_slots, upstream>>
            BY <2>8 DEF AddSlotControlPoint, RemoveSlotControlPoint,
                        AddControlPoint, RemoveControlPoint, Start, Reschedule,
                        actorVars, slotVars
        <3>2. QED
            BY <3>1 DEF SlotContract!svars
    <2>9. ASSUME \/ PipelinePlaying \/ PipelineFailed \/ PipelineNull
                 \/ VideoSamplesSelected \/ AudioSamplesSelected
                 \/ UNCHANGED vars
          PROVE  UNCHANGED SlotContract!svars
        <3>1. UNCHANGED <<running, state, consumer_slots, upstream>>
            BY <2>9 DEF PipelinePlaying, PipelineFailed, PipelineNull,
                        VideoSamplesSelected, AudioSamplesSelected, vars,
                        actorVars, slotVars
        <3>2. QED
            BY <3>1 DEF SlotContract!svars
    <2>10. QED
        BY <2>1, <2>2, <2>3, <2>4, <2>5, <2>6, <2>7, <2>8, <2>9
        DEF Next, SlotContract!SNext
<1>3. QED
    BY <1>1, <1>2, IInvHolds, RunningPhaseHolds, PTL
    DEF Spec, SlotsRefined, SlotContract!SSpec

-----------------------------------------------------------------------------
(***************************************************************************)
(* The base-plate fallback.  BasePlateAfterIdleRun measures the idle run  *)
(* with the history alone_since; the callback decides with the stored     *)
(* base_plate_timeout.  The two agree because the callback sets the      *)
(* timeout on the first idle tick and resets it on every other tick       *)
(* (IdleTracked).  The comparison needs the timeout start_pipeline        *)
(* captured whenever the callback can run, and start_pipeline, which     *)
(* captures it anew, never runs while the base plate is shown.           *)
(***************************************************************************)
TimeoutCaptured ==
    /\ pipeline \in {"starting", "playing"} => timeout \in Timeouts
    /\ showing_base_plate =>
           timeout \in Timeouts /\ (running => pipeline # "null")

IdleTracked == base_plate_timeout = alone_since

BInv == TimeoutCaptured /\ IdleTracked /\ BasePlateAfterIdleRun

(* The compositor's callback shows the base plate only once it has been  *)
(* alone for longer than the timeout, resets the run when another pad    *)
(* has a sample, and keeps the base plate shown as pts grows.            *)
LEMMA VideoSamplesSelectedBase ==
    ASSUME IInv, BInv, VideoSamplesSelected
    PROVE  BInv'
<1> DEFINE pts == IF last_pts = None THEN 0 ELSE last_pts + 1
<1>1. UNCHANGED <<running, pipeline, timeout>> /\ pipeline = "playing"
    BY DEF VideoSamplesSelected, actorVars
<1>2. timeout \in Timeouts /\ timeout \in Nat
    BY <1>1 DEF BInv, TimeoutCaptured, MixerAssumption
<1>3. pts \in Nat /\ last_pts' = pts
    BY DEF VideoSamplesSelected, IInv, TypeInv, TypeRest, MixerAssumption
<1>4. TimeoutCaptured'
    BY <1>1, <1>2 DEF TimeoutCaptured
<1> SUFFICES IdleTracked' /\ BasePlateAfterIdleRun'
    BY <1>4 DEF BInv
<1>5. base_plate_timeout # None => base_plate_timeout \in Nat
    BY DEF IInv, TypeInv, TypeRest
<1>6. last_pts # None => last_pts \in Nat
    BY DEF IInv, TypeInv, TypeRest
<1>7. showing_base_plate =>
          /\ base_plate_timeout # None /\ last_pts # None
          /\ last_pts - base_plate_timeout > timeout
    BY DEF BInv, IdleTracked, BasePlateAfterIdleRun
<1>8. alone_since = base_plate_timeout
    BY DEF BInv, IdleTracked
<1>9. PICK producing \in SUBSET AttachedPads, due \in SUBSET PointIds :
        LET basePlateOnly == (producing \cup {base_pad}) \ {0} = {} IN
        /\ \/ /\ basePlateOnly
              /\ base_plate_timeout = None
              /\ base_plate_timeout' = pts
              /\ UNCHANGED showing_base_plate
           \/ /\ basePlateOnly
              /\ base_plate_timeout # None
              /\ TimedOut(pts)
              /\ UNCHANGED base_plate_timeout
           \/ /\ basePlateOnly
              /\ base_plate_timeout # None
              /\ UNCHANGED <<base_plate_timeout, showing_base_plate>>
           \/ /\ ~basePlateOnly
              /\ showing_base_plate' = FALSE
              /\ base_plate_timeout' = None
        /\ alone_since' = IF ~basePlateOnly THEN None
                          ELSE IF alone_since = None THEN pts ELSE alone_since
    BY DEF VideoSamplesSelected, HideBasePlate
<1> DEFINE basePlateOnly == (producing \cup {base_pad}) \ {0} = {}
<1>10. CASE /\ basePlateOnly
            /\ base_plate_timeout = None
            /\ base_plate_timeout' = pts
            /\ UNCHANGED showing_base_plate
    <2>1. alone_since' = pts /\ ~showing_base_plate'
        BY <1>7, <1>8, <1>9, <1>10
    <2>2. QED
        BY <1>10, <2>1 DEF IdleTracked, BasePlateAfterIdleRun
<1>11. CASE /\ basePlateOnly
            /\ base_plate_timeout # None
            /\ TimedOut(pts)
            /\ UNCHANGED base_plate_timeout
    <2>1. alone_since' = base_plate_timeout
        BY <1>8, <1>9, <1>11
    <2>2. pts - base_plate_timeout > timeout
        BY <1>11 DEF TimedOut
    <2>3. /\ alone_since' # None /\ last_pts' # None
          /\ last_pts' - alone_since' > timeout
        BY <1>3, <1>11, <2>1, <2>2
    <2>4. base_plate_timeout' = alone_since'
        BY <1>11, <2>1
    <2>5. IdleTracked'
        BY <2>4 DEF IdleTracked
    <2>6. BasePlateAfterIdleRun'
        BY <1>1, <2>3 DEF BasePlateAfterIdleRun
    <2>7. QED
        BY <2>5, <2>6
<1>12. CASE /\ basePlateOnly
            /\ base_plate_timeout # None
            /\ UNCHANGED <<base_plate_timeout, showing_base_plate>>
    <2>1. alone_since' = base_plate_timeout
        BY <1>8, <1>9, <1>12
    <2>2. showing_base_plate => pts - base_plate_timeout > timeout
        BY <1>2, <1>5, <1>6, <1>7, <1>12
    <2>3. ASSUME showing_base_plate
          PROVE  /\ alone_since' # None /\ last_pts' # None
                 /\ last_pts' - alone_since' > timeout
        BY <1>3, <1>7, <1>12, <2>1, <2>2, <2>3
    <2>4. base_plate_timeout' = alone_since'
        BY <1>12, <2>1
    <2>5. IdleTracked'
        BY <2>4 DEF IdleTracked
    <2>6. BasePlateAfterIdleRun'
        BY <1>1, <1>12, <2>3 DEF BasePlateAfterIdleRun
    <2>7. QED
        BY <2>5, <2>6
<1>13. CASE /\ ~basePlateOnly
            /\ showing_base_plate' = FALSE
            /\ base_plate_timeout' = None
    <2>1. alone_since' = None
        BY <1>9, <1>13
    <2>2. QED
        BY <1>13, <2>1 DEF IdleTracked, BasePlateAfterIdleRun
<1>14. QED
    BY <1>9, <1>10, <1>11, <1>12, <1>13

(* A step that leaves the pipeline, the timeout and the base-plate state *)
(* alone, and stops the actor or leaves it running, keeps BInv.          *)
LEMMA BaseUntouched ==
    ASSUME BInv,
           UNCHANGED <<pipeline, timeout, showing_base_plate,
                       base_plate_timeout, last_pts, alone_since>>,
           running' => running
    PROVE  BInv'
BY Zenon DEF BInv, TimeoutCaptured, IdleTracked, BasePlateAfterIdleRun

(* The other steps: start_pipeline captures the timeout while the base   *)
(* plate is hidden; the pipeline leaves Null only for a started or a     *)
(* failed pipeline, and returns to it only once the actor has stopped.   *)
LEMMA OtherBase ==
    ASSUME IInv, BInv, [Next]_vars, ~VideoSamplesSelected
    PROVE  BInv'
<1>1. CASE StartPipeline
    <2>1. ~showing_base_plate
        BY <1>1 DEF StartPipeline, BInv, TimeoutCaptured
    <2>2. timeout' \in Timeouts
        BY <1>1 DEF StartPipeline, IInv, TypeInv, TypeRest
    <2>3. QED
        BY <1>1, <2>1, <2>2 DEF StartPipeline, BInv, TimeoutCaptured,
                                IdleTracked, BasePlateAfterIdleRun
<1>2. CASE \E done \in SUBSET Links, failed \in Links :
              StartPipelineFails(done, failed)
    BY <1>2 DEF StartPipelineFails, BInv, TimeoutCaptured, IdleTracked,
                BasePlateAfterIdleRun
<1>3. CASE PipelinePlaying \/ PipelineFailed
    BY <1>3 DEF PipelinePlaying, PipelineFailed, BInv, TimeoutCaptured,
                IdleTracked, BasePlateAfterIdleRun, actorVars, videoVars
<1>4. CASE PipelineNull \/ VideoCallbackPanics
    BY <1>4 DEF PipelineNull, VideoCallbackPanics, BInv, TimeoutCaptured,
                IdleTracked, BasePlateAfterIdleRun, actorVars, videoVars
<1>5. CASE Stop \/ EndTime \/ ErrorReceived
    BY <1>5, BaseUntouched DEF Stop, EndTime, ErrorReceived, Stopped,
                               videoVars
<1>6. CASE \/ \E l \in Links, ok \in BOOLEAN : Connect(l, ok)
           \/ \E l \in Links : Disconnect(l)
           \/ \E l \in Links, v \in BOOLEAN, prop \in VideoProps \cup AudioProps,
                 p \in PointIds :
                 \/ AddSlotControlPoint(l, v, prop, p)
                 \/ RemoveSlotControlPoint(p, l, v, prop)
           \/ \E prop \in MixerProps, p \in PointIds :
                 AddControlPoint(prop, p) \/ RemoveControlPoint(p, prop)
    BY <1>6, BaseUntouched
    DEF Connect, Disconnect, AddSlotControlPoint, RemoveSlotControlPoint,
        AddControlPoint, RemoveControlPoint, actorVars, videoVars
<1>7. CASE Start \/ Reschedule \/ PipelineReady \/ AudioSamplesSelected
           \/ UNCHANGED vars
    BY <1>7, BaseUntouched
    DEF Start, Reschedule, PipelineReady, AudioSamplesSelected, vars,
        actorVars, videoVars
<1>8. QED
    BY <1>1, <1>2, <1>3, <1>4, <1>5, <1>6, <1>7 DEF Next

(* The fallback of update_video_mixing_state, for every timeout, pts     *)
(* bound and number of slots: while the base plate is shown, it has been *)
(* the only pad with a sample on every tick since more than the timeout  *)
(* start_pipeline captured, so a tick with another sample (which must    *)
(* reset base_plate_timeout) starts the wait over.                       *)
THEOREM BasePlateAfterIdleRunHolds == Spec => []BasePlateAfterIdleRun
<1>1. Init => BInv
    BY DEF Init, BInv, TimeoutCaptured, IdleTracked, BasePlateAfterIdleRun
<1>2. IInv /\ BInv /\ [Next]_vars => BInv'
    BY VideoSamplesSelectedBase, OtherBase
<1>3. IInv /\ IInv' /\ BInv /\ [Next]_vars => BInv'
    BY <1>2
<1>4. Spec => []BInv
    BY <1>1, <1>3, IInvHolds, PTL DEF Spec
<1>5. QED
    BY <1>4, PTL DEF BInv
=============================================================================
