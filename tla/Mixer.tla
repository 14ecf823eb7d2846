------------------------------- MODULE Mixer --------------------------------
(***************************************************************************)
(* The Mixer node of src/server/src/mixer.rs.                              *)
(*                                                                         *)
(* The actor thread runs the message handlers one at a time (Connect,     *)
(* Disconnect, the control-point messages, Start, Stop, the ErrorMessage   *)
(* sent to itself) and the state-machine transitions; the compositor's    *)
(* streaming thread runs the video samples-selected callback and the      *)
(* audiomixer's runs the audio one.  The two mixing states are each       *)
(* behind a mutex held for a whole callback or handler section, so every  *)
(* handler and every callback is one atomic step.                         *)
(*                                                                         *)
(* Abstractions.  A request pad is its serial: the aggregator names       *)
(* request pads sink_0, sink_1, ... in request order and never reuses a   *)
(* serial.  Connect, start_pipeline and Disconnect request and release    *)
(* one pad on the compositor and one on the audiomixer together, so the   *)
(* two mixers' pads have the same serials and one set stands for both.    *)
(* Control-point values, interpolation and pad properties other than the  *)
(* base plate's alpha are data; a controller is the set of ids of its     *)
(* pending points and, for a slot controller, the pad it was created on.  *)
(* Time is the video pts, counted in frames.                              *)
(***************************************************************************)
EXTENDS Naturals, FiniteSets

CONSTANTS
    Links,       \* slot (link) ids
    VideoProps,  \* compositor pad properties controlled with video::
    AudioProps,  \* audiomixer pad properties controlled with audio::
    MixerProps,  \* controllable mixer settings
    PointIds,    \* control point ids
    PointValue,  \* the fallback-timeout value a point carries, in frames
    Timeouts,    \* fallback-timeout values, in frames
    None,        \* Option::None / CLOCK_TIME_NONE
    MaxPads,     \* bound on the pad serials Connect may request
    MaxPts       \* bound on the video pts

States == {"Initial", "Starting", "Started", "Stopping", "Stopped"}
Pads == 0..MaxPads
Slot == [pad : Pads, bins : BOOLEAN]
Controller == [pad : Pads, points : SUBSET PointIds]
VKeys == Links \X VideoProps
AKeys == Links \X AudioProps

(* None stands for Option::None: it is no number, slot or controller. *)
ASSUME MixerAssumption ==
    /\ MaxPads \in Nat
    /\ MaxPts \in Nat
    /\ Timeouts \subseteq Nat
    /\ PointValue \in [PointIds -> Timeouts]
    /\ "fallback-timeout" \in MixerProps
    /\ None \notin Nat \cup Slot \cup Controller

VARIABLES
    running,            \* the actor has not stopped
    state,              \* state_machine.state
    cue_pending,        \* a start is scheduled and not yet cued
    end_pending,        \* an end time is scheduled
    error_pending,      \* an ErrorMessage is in the actor's mailbox
    pipeline,           \* "null", "starting", "playing", "failed" or
                        \* "aborted"
    consumer_slots,     \* link -> Slot, or None
    pad_serial,         \* next request pad serial of both mixers
    req_pads,           \* requested, unreleased pads of both mixers
    base_pad,           \* the pad the base plate was linked to
    upstream,           \* links added as consumers to their producers
    v_slot_controllers, \* video_mixing_state.slot_controllers
    a_slot_controllers, \* audio_mixing_state.slot_controllers
    mixer_controllers,  \* video_mixing_state.mixer_controllers
    fallback_timeout,   \* the fallback-timeout Setting
    timeout,            \* fallback-timeout as captured by start_pipeline
    base_plate_timeout, \* video_mixing_state.base_plate_timeout
    showing_base_plate, \* video_mixing_state.showing_base_plate
    last_pts,           \* video_mixing_state.last_pts
    sink0_alpha,        \* alpha of the compositor pad named sink_0;
                        \* other pads keep the default alpha 1
    alone_since,        \* history: pts of the first of the callback's
                        \* latest run of ticks with the base plate
                        \* alone, None after a tick with another sample
    removed             \* history: <<prop, id>> of mixer points removed
                        \* by RemoveControlPoint and not added again

vars == <<running, state, cue_pending, end_pending, error_pending, pipeline,
          consumer_slots, pad_serial, req_pads, base_pad, upstream,
          v_slot_controllers, a_slot_controllers, mixer_controllers,
          fallback_timeout, timeout, base_plate_timeout,
          showing_base_plate, last_pts, sink0_alpha, alone_since, removed>>

actorVars == <<running, state, cue_pending, end_pending, error_pending>>
slotVars == <<consumer_slots, pad_serial, req_pads, base_pad, upstream>>
ctlVars == <<v_slot_controllers, a_slot_controllers, mixer_controllers>>
videoVars == <<fallback_timeout, timeout, base_plate_timeout,
               showing_base_plate, last_pts, sink0_alpha, alone_since>>

(* The pads of attached slots: their bins feed the mixers. *)
AttachedPads == {consumer_slots[l].pad :
                    l \in {k \in Links : consumer_slots[k] # None
                                         /\ consumer_slots[k].bins}}

(* synchronize_*_controllers: every controller applies its points that    *)
(* have come due and is kept iff it is not done.                          *)
Synchronize(ctls, due) ==
    [k \in DOMAIN ctls |->
        IF ctls[k] = None \/ ctls[k].points \subseteq due THEN None
        ELSE [ctls[k] EXCEPT !.points = @ \ due]]

(* entry(id).or_insert_with(PropertyController::new(.., pad, ..))        *)
(*   .push_control_point(point)                                          *)
Upsert(ctls, k, pad, p) ==
    IF ctls[k] = None THEN [ctls EXCEPT ![k] = [pad |-> pad, points |-> {p}]]
    ELSE [ctls EXCEPT ![k].points = @ \cup {p}]

(* get_mut(id) followed by remove_control_point(controller_id). *)
RemovePoint(ctls, k, p) ==
    IF ctls[k] = None THEN ctls
    ELSE [ctls EXCEPT ![k].points = @ \ {p}]

-----------------------------------------------------------------------------
(* Mixer::new: default settings, the fallback-timeout possibly from the   *)
(* node's config; empty slot map and mixing states.                       *)
Init ==
    /\ running = TRUE
    /\ state = "Initial"
    /\ cue_pending = FALSE
    /\ end_pending = FALSE
    /\ error_pending = FALSE
    /\ pipeline = "null"
    /\ consumer_slots = [l \in Links |-> None]
    /\ pad_serial = 0
    /\ req_pads = {}
    /\ base_pad = None
    /\ upstream = {}
    /\ v_slot_controllers = [k \in VKeys |-> None]
    /\ a_slot_controllers = [k \in AKeys |-> None]
    /\ mixer_controllers = [p \in MixerProps |-> None]
    /\ fallback_timeout \in Timeouts
    /\ timeout = None
    /\ base_plate_timeout = None
    /\ showing_base_plate = FALSE
    /\ last_pts = None
    /\ alone_since = None
    /\ sink0_alpha = 1
    /\ removed = {}

(* Mutant of Stopped: the slots are dropped without removing their links *)
(* from the upstream producers.                                           *)
StoppedNoDrain ==
    /\ running' = FALSE
    /\ consumer_slots' = [l \in Links |-> None]
    /\ upstream' = upstream

(* Actor::stopped: drain the slots, removing each link from its upstream  *)
(* producers, and stop the pipeline manager (which takes the pipeline to  *)
(* Null later, see PipelineNull).                                         *)
Stopped ==
    /\ running' = FALSE
    /\ consumer_slots' = [l \in Links |-> None]
    /\ upstream' = {}

(* connect(link_id, ..., config): an existing link id is an error with no *)
(* state change.  Both mixers' request pads are taken before the config   *)
(* is validated; an invalid key or value returns Err with the pads kept.  *)
(* When the mixer is Started, connect_slot builds the bins, links them to *)
(* the pads and adds the appsrcs as consumers of the upstream producers.  *)
Connect(l, configValid) ==
    LET started == state = "Started" IN
    /\ running
    /\ consumer_slots[l] = None
    /\ pad_serial < MaxPads
    /\ pad_serial' = pad_serial + 1
    /\ req_pads' = req_pads \cup {pad_serial}
    /\ \/ /\ ~configValid
          /\ UNCHANGED <<consumer_slots, upstream>>
       \/ /\ configValid
          /\ consumer_slots' = [consumer_slots EXCEPT
                                  ![l] = [pad |-> pad_serial, bins |-> started]]
          /\ upstream' = IF started THEN upstream \cup {l} ELSE upstream
    /\ UNCHANGED <<actorVars, pipeline, base_pad, ctlVars, videoVars, removed>>

(* Mutant of Disconnect: the slot is dropped but its appsrcs stay        *)
(* consumers of the producers (remove_consumer forgotten).                *)
DisconnectKeepsConsumer(l) ==
    LET slot == consumer_slots[l] IN
    /\ running
    /\ slot # None
    /\ upstream' = upstream
    /\ req_pads' = IF slot.bins THEN req_pads \ {slot.pad} ELSE req_pads
    /\ consumer_slots' = [consumer_slots EXCEPT ![l] = None]
    /\ UNCHANGED <<actorVars, pipeline, pad_serial, base_pad, ctlVars,
                   videoVars, removed>>

(* disconnect(slot_id): remove the link from the upstream producers; if   *)
(* the slot has bins, take them to Null, remove them and release the      *)
(* mixer pads they were linked to.  An unknown id is an error.            *)
Disconnect(l) ==
    LET slot == consumer_slots[l] IN
    /\ running
    /\ slot # None
    /\ upstream' = upstream \ {l}
    /\ req_pads' = IF slot.bins THEN req_pads \ {slot.pad} ELSE req_pads
    /\ consumer_slots' = [consumer_slots EXCEPT ![l] = None]
    /\ UNCHANGED <<actorVars, pipeline, pad_serial, base_pad, ctlVars,
                   videoVars, removed>>

(* add_slot_control_point(slot_id, "video::prop" | "audio::prop", point): *)
(* an unknown slot, a bad namespace or a type mismatch is an error;      *)
(* otherwise the point goes to the controller keyed slot_id + prop of the *)
(* video or audio mixing state, created on the slot's current pad if     *)
(* absent.                                                                *)
AddSlotControlPoint(l, isVideo, prop, p) ==
    LET slot == consumer_slots[l] IN
    /\ running
    /\ slot # None
    /\ \/ /\ isVideo
          /\ prop \in VideoProps
          /\ v_slot_controllers' =
                Upsert(v_slot_controllers, <<l, prop>>, slot.pad, p)
          /\ UNCHANGED a_slot_controllers
       \/ /\ ~isVideo
          /\ prop \in AudioProps
          /\ a_slot_controllers' =
                Upsert(a_slot_controllers, <<l, prop>>, slot.pad, p)
          /\ UNCHANGED v_slot_controllers
    /\ UNCHANGED <<actorVars, pipeline, slotVars, mixer_controllers,
                   videoVars, removed>>

(* remove_slot_control_point(controller_id, slot_id, property): a bad     *)
(* namespace returns silently; the point is removed from the controller   *)
(* keyed slot_id + prop if there is one.                                  *)
RemoveSlotControlPoint(p, l, isVideo, prop) ==
    /\ running
    /\ \/ /\ isVideo
          /\ prop \in VideoProps
          /\ v_slot_controllers' = RemovePoint(v_slot_controllers, <<l, prop>>, p)
          /\ UNCHANGED a_slot_controllers
       \/ /\ ~isVideo
          /\ prop \in AudioProps
          /\ a_slot_controllers' = RemovePoint(a_slot_controllers, <<l, prop>>, p)
          /\ UNCHANGED v_slot_controllers
    /\ UNCHANGED <<actorVars, pipeline, slotVars, mixer_controllers,
                   videoVars, removed>>

(* add_control_point(property, point): an unknown or non-controllable    *)
(* setting is an error; otherwise the point goes to the setting's         *)
(* controller in video_mixing_state.mixer_controllers.                    *)
AddControlPoint(prop, p) ==
    /\ running
    /\ mixer_controllers' = [mixer_controllers EXCEPT
                               ![prop] = IF @ = None THEN {p} ELSE @ \cup {p}]
    /\ removed' = removed \ {<<prop, p>>}
    /\ UNCHANGED <<actorVars, pipeline, slotVars, v_slot_controllers,
                   a_slot_controllers, videoVars>>

(* remove_control_point(controller_id, property): looks the property up   *)
(* in video_mixing_state.slot_controllers, whose keys are slot_id + prop; *)
(* a setting name is not such a key, so nothing is removed.               *)
RemoveControlPoint(p, prop) ==
    /\ running
    /\ v_slot_controllers' = v_slot_controllers
    /\ removed' = removed \cup {<<prop, p>>}
    /\ UNCHANGED <<actorVars, pipeline, slotVars, a_slot_controllers,
                   mixer_controllers, videoVars>>

(* StartMessage -> start_schedule(cue_time, end_time): arm the cue timer, *)
(* with or without an end time.                                           *)
Start ==
    /\ running
    /\ state = "Initial"
    /\ ~cue_pending
    /\ cue_pending' = TRUE
    /\ end_pending' \in BOOLEAN
    /\ UNCHANGED <<running, state, error_pending, pipeline, slotVars, ctlVars,
                   videoVars, removed>>

(* ScheduleMessage -> reschedule: only in Initial or Starting; moves the   *)
(* cue and end times.                                                     *)
Reschedule ==
    /\ running
    /\ state \in {"Initial", "Starting"}
    /\ end_pending' \in BOOLEAN
    /\ UNCHANGED <<running, state, cue_pending, error_pending, pipeline,
                   slotVars, ctlVars, videoVars, removed>>

(* The cue time is reached: transition(Starting) runs start_pipeline.     *)
(* The base plate is linked to a newly requested compositor pad (and the  *)
(* audiotestsrc to one of the audiomixer); the pad named sink_0 gets      *)
(* alpha 0; every slot is connected (connect_slot); the fallback-timeout  *)
(* is captured for the callback; Playing is requested asynchronously.     *)
StartPipeline ==
    /\ running
    /\ cue_pending
    /\ state = "Initial"
    /\ pipeline = "null"
    /\ cue_pending' = FALSE
    /\ state' = "Starting"
    /\ base_pad' = pad_serial
    /\ pad_serial' = pad_serial + 1
    /\ req_pads' = req_pads \cup {pad_serial}
    /\ sink0_alpha' = 0
    /\ consumer_slots' = [l \in Links |->
                            IF consumer_slots[l] = None THEN None
                            ELSE [consumer_slots[l] EXCEPT !.bins = TRUE]]
    /\ upstream' = {l \in Links : consumer_slots[l] # None}
    /\ timeout' = fallback_timeout
    /\ pipeline' = "starting"
    /\ UNCHANGED <<running, end_pending, error_pending, ctlVars, fallback_timeout,
                   base_plate_timeout, showing_base_plate, last_pts, alone_since,
                   removed>>

(* start_pipeline returns Err (a `?` on element creation, add_many,      *)
(* link_many or connect_slot); the transition fails and the error comes   *)
(* back as an ErrorMessage to self, the state staying Initial.  Either it *)
(* fails before the base plate is linked (always so on a pipeline a       *)
(* failed start already filled: the mixers have a parent), changing no    *)
(* slot; or connect_slot fails on slot `failed` of the loop, after the    *)
(* slots `done` before it in the map's order were connected and added as  *)
(* consumers, the base plate being linked and sink_0 given alpha 0.       *)
(* Playing is never requested.                                            *)
StartPipelineFails(done, failed) ==
    LET slotted == {l \in Links : consumer_slots[l] # None} IN
    /\ running
    /\ cue_pending
    /\ state = "Initial"
    /\ cue_pending' = FALSE
    /\ error_pending' = TRUE
    /\ pipeline' = "failed"
    /\ \/ /\ pipeline \in {"null", "failed"}
          /\ done = {}
          /\ UNCHANGED <<slotVars, sink0_alpha>>
       \/ /\ pipeline = "null"
          /\ failed \in slotted
          /\ done \subseteq slotted \ {failed}
          /\ base_pad' = pad_serial
          /\ pad_serial' = pad_serial + 1
          /\ req_pads' = req_pads \cup {pad_serial}
          /\ sink0_alpha' = 0
          /\ consumer_slots' = [l \in Links |->
                                  IF l \in done
                                  THEN [consumer_slots[l] EXCEPT !.bins = TRUE]
                                  ELSE consumer_slots[l]]
          /\ upstream' = upstream \cup done
    /\ UNCHANGED <<running, state, end_pending, ctlVars, fallback_timeout,
                   timeout, base_plate_timeout, showing_base_plate, last_pts,
                   alone_since, removed>>

(* The asynchronous set_state(Playing) succeeds. *)
PipelinePlaying ==
    /\ pipeline = "starting"
    /\ pipeline' = "playing"
    /\ UNCHANGED <<actorVars, slotVars, ctlVars, videoVars, removed>>

(* Mutant of PipelineFailed: the failure is only logged, no ErrorMessage  *)
(* is sent.                                                               *)
PipelineFailedSilent ==
    /\ pipeline = "starting"
    /\ pipeline' = "failed"
    /\ UNCHANGED <<actorVars, slotVars, ctlVars, videoVars, removed>>

(* The asynchronous set_state(Playing) fails: the closure sends an        *)
(* ErrorMessage to the actor's mailbox.                                   *)
PipelineFailed ==
    /\ pipeline = "starting"
    /\ pipeline' = "failed"
    /\ error_pending' = TRUE
    /\ UNCHANGED <<running, state, cue_pending, end_pending, slotVars,
                   ctlVars, videoVars, removed>>

(* Handler<ErrorMessage>: report the error to the node manager, dump the  *)
(* pipeline graph and ctx.stop(), then Actor::stopped.  Other messages    *)
(* queued before it are handled first.                                    *)
ErrorReceived ==
    /\ running
    /\ error_pending
    /\ error_pending' = FALSE
    /\ Stopped
    /\ UNCHANGED <<state, cue_pending, end_pending, pipeline, pad_serial,
                   req_pads, base_pad, ctlVars, videoVars, removed>>

(* The pipeline manager reports the pipeline Playing: Started. *)
PipelineReady ==
    /\ running
    /\ state = "Starting"
    /\ pipeline = "playing"
    /\ state' = "Started"
    /\ UNCHANGED <<running, cue_pending, end_pending, error_pending, pipeline,
                   slotVars, ctlVars, videoVars, removed>>

(* The end time is reached: Stopping, then Stopped, whose transition      *)
(* calls stop(): stop_schedule and ctx.stop().                            *)
EndTime ==
    /\ running
    /\ state = "Started"
    /\ end_pending
    /\ state' = "Stopped"
    /\ Stopped
    /\ UNCHANGED <<cue_pending, end_pending, error_pending, pipeline,
                   pad_serial, req_pads, base_pad, ctlVars, videoVars, removed>>

(* StopMessage: ctx.stop(), then Actor::stopped. *)
Stop ==
    /\ running
    /\ Stopped
    /\ UNCHANGED <<state, cue_pending, end_pending, error_pending, pipeline,
                   pad_serial, req_pads, base_pad, ctlVars, videoVars, removed>>

(* After the actor stopped, the pipeline manager takes the pipeline to    *)
(* Null and the callbacks stop.                                           *)
PipelineNull ==
    /\ ~running
    /\ pipeline # "null"
    /\ pipeline' = "null"
    /\ UNCHANGED <<actorVars, slotVars, ctlVars, videoVars, removed>>

(* In update_video_mixing_state: the base plate has been alone for more   *)
(* than the timeout.                                                      *)
TimedOut(pts) ==
    pts - base_plate_timeout > timeout

(* Mutant of HideBasePlate: base_plate_timeout is not reset when another *)
(* pad has a sample.                                                      *)
HideBasePlateNoReset ==
    /\ sink0_alpha' = IF showing_base_plate THEN 0 ELSE sink0_alpha
    /\ showing_base_plate' = FALSE
    /\ UNCHANGED base_plate_timeout

(* In update_video_mixing_state, when a pad other than sink_0 has a       *)
(* sample: hide the base plate if it is shown (alpha 0 on sink_0) and     *)
(* reset base_plate_timeout.                                              *)
HideBasePlate ==
    /\ sink0_alpha' = IF showing_base_plate THEN 0 ELSE sink0_alpha
    /\ showing_base_plate' = FALSE
    /\ base_plate_timeout' = None

(* The compositor's samples-selected callback, update_video_mixing_state. *)
(* The pad named sink_0 is taken as the base plate; the base plate is     *)
(* "only" when no other pad has a sample queued.  Attached slots may or   *)
(* may not have one; the base plate, a live source, always has one.       *)
(* Then the slot and mixer controllers are synchronized (the points with  *)
(* a time before now come due; the fallback-timeout setting takes the     *)
(* value of one of its due points) and last_pts is stored.               *)
VideoSamplesSelected ==
    LET pts == IF last_pts = None THEN 0 ELSE last_pts + 1 IN
    /\ pipeline = "playing"
    /\ pts <= MaxPts
    /\ 0 \in req_pads
    /\ \E producing \in SUBSET AttachedPads, due \in SUBSET PointIds :
        LET basePlateOnly == (producing \cup {base_pad}) \ {0} = {}
            ftDue == IF mixer_controllers["fallback-timeout"] = None THEN {}
                     ELSE mixer_controllers["fallback-timeout"] \cap due
        IN
        /\ \/ /\ basePlateOnly
              /\ base_plate_timeout = None
              /\ base_plate_timeout' = pts
              /\ UNCHANGED <<showing_base_plate, sink0_alpha>>
           \/ /\ basePlateOnly
              /\ base_plate_timeout # None
              /\ ~showing_base_plate
              /\ TimedOut(pts)
              /\ sink0_alpha' = 1
              /\ showing_base_plate' = TRUE
              /\ UNCHANGED base_plate_timeout
           \/ /\ basePlateOnly
              /\ base_plate_timeout # None
              /\ showing_base_plate \/ ~TimedOut(pts)
              /\ UNCHANGED <<base_plate_timeout, showing_base_plate,
                             sink0_alpha>>
           \/ /\ ~basePlateOnly
              /\ HideBasePlate
        /\ alone_since' = IF ~basePlateOnly THEN None
                          ELSE IF alone_since = None THEN pts ELSE alone_since
        /\ v_slot_controllers' = Synchronize(v_slot_controllers, due)
        /\ mixer_controllers' = [k \in MixerProps |->
              IF mixer_controllers[k] = None \/ mixer_controllers[k] \subseteq due
              THEN None ELSE mixer_controllers[k] \ due]
        /\ fallback_timeout' \in IF ftDue = {} THEN {fallback_timeout}
                                 ELSE {PointValue[p] : p \in ftDue}
        /\ last_pts' = pts
    /\ UNCHANGED <<actorVars, pipeline, slotVars, a_slot_controllers,
                   timeout, removed>>

(* update_video_mixing_state when the compositor has no pad named sink_0 *)
(* (it was a slot's pad, released by Disconnect): static_pad("sink_0")    *)
(* .unwrap() panics in the streaming thread, which aborts the process.    *)
VideoCallbackPanics ==
    /\ pipeline = "playing"
    /\ (IF last_pts = None THEN 0 ELSE last_pts + 1) <= MaxPts
    /\ 0 \notin req_pads
    /\ pipeline' = "aborted"
    /\ running' = FALSE
    /\ UNCHANGED <<state, cue_pending, end_pending, error_pending, slotVars,
                   ctlVars, videoVars, removed>>

(* The audiomixer's samples-selected callback, update_audio_mixing_state: *)
(* synchronize the audio slot controllers.                                 *)
AudioSamplesSelected ==
    /\ pipeline = "playing"
    /\ \E due \in SUBSET PointIds :
        a_slot_controllers' = Synchronize(a_slot_controllers, due)
    /\ UNCHANGED <<actorVars, pipeline, slotVars, v_slot_controllers,
                   mixer_controllers, videoVars, removed>>

Next ==
    \/ \E l \in Links, ok \in BOOLEAN : Connect(l, ok)
    \/ \E l \in Links : Disconnect(l)
    \/ \E l \in Links, v \in BOOLEAN, prop \in VideoProps \cup AudioProps,
          p \in PointIds :
          \/ AddSlotControlPoint(l, v, prop, p)
          \/ RemoveSlotControlPoint(p, l, v, prop)
    \/ \E prop \in MixerProps, p \in PointIds :
          AddControlPoint(prop, p) \/ RemoveControlPoint(p, prop)
    \/ Start \/ Reschedule \/ StartPipeline
    \/ \E done \in SUBSET Links, failed \in Links :
          StartPipelineFails(done, failed)
    \/ PipelinePlaying \/ PipelineFailed \/ ErrorReceived
    \/ PipelineReady \/ PipelineNull
    \/ EndTime \/ Stop
    \/ VideoSamplesSelected \/ VideoCallbackPanics \/ AudioSamplesSelected

Spec == Init /\ [][Next]_vars

(* The actor handles every message in its mailbox (the ErrorMessage       *)
(* included) while it runs; the call_async closure of start_pipeline runs *)
(* on the pipeline manager's thread and its set_state returns; the        *)
(* pipeline manager reports a Playing pipeline.  No fairness for the      *)
(* user's messages, the timers or the callbacks.                          *)
Fairness ==
    /\ WF_vars(ErrorReceived)
    /\ WF_vars(PipelinePlaying \/ PipelineFailed)
    /\ WF_vars(PipelineReady)

FairSpec == Spec /\ Fairness

-----------------------------------------------------------------------------
TypeOK ==
    /\ running \in BOOLEAN
    /\ state \in States
    /\ cue_pending \in BOOLEAN
    /\ end_pending \in BOOLEAN
    /\ error_pending \in BOOLEAN
    /\ pipeline \in {"null", "starting", "playing", "failed", "aborted"}
    /\ consumer_slots \in [Links -> Slot \cup {None}]
    /\ pad_serial \in 0..MaxPads + 1
    /\ req_pads \subseteq Pads
    /\ base_pad \in Pads \cup {None}
    /\ upstream \subseteq Links
    /\ v_slot_controllers \in [VKeys -> Controller \cup {None}]
    /\ a_slot_controllers \in [AKeys -> Controller \cup {None}]
    /\ mixer_controllers \in [MixerProps -> (SUBSET PointIds) \cup {None}]
    /\ fallback_timeout \in Timeouts
    /\ timeout \in Timeouts \cup {None}
    /\ base_plate_timeout \in 0..MaxPts \cup {None}
    /\ showing_base_plate \in BOOLEAN
    /\ last_pts \in 0..MaxPts \cup {None}
    /\ alone_since \in 0..MaxPts \cup {None}
    /\ sink0_alpha \in {0, 1}
    /\ removed \subseteq MixerProps \X PointIds

(* Upstream consumers follow the slots (connect_slot, disconnect,         *)
(* Actor::stopped): a link is a consumer of its upstream producers        *)
(* exactly while its slot exists and has its bins in the pipeline, so no  *)
(* producer keeps pushing into an appsrc of a slot that is gone, and no   *)
(* attached slot is left without input.                                   *)
UpstreamMatchesSlots ==
    \A l \in Links :
        l \in upstream <=> consumer_slots[l] # None /\ consumer_slots[l].bins

(* The fallback of update_video_mixing_state (the base_plate_timeout it *)
(* sets, compares and resets): while the base plate is shown, it has been *)
(* the only pad with a sample on every tick of the callback since more    *)
(* than the timeout start_pipeline captured.                             *)
BasePlateAfterIdleRun ==
    showing_base_plate =>
        /\ alone_since # None
        /\ last_pts # None
        /\ last_pts - alone_since > timeout

(* Every slot is attached while the mixer is Started (connect for a       *)
(* Started mixer, start_pipeline for the slots connected before): its     *)
(* bins feed the mixers.                                                  *)
SlotsAttachedWhenStarted ==
    running /\ state = "Started" =>
        \A l \in Links : consumer_slots[l] # None => consumer_slots[l].bins

(* While the actor runs, every request pad of the mixers belongs to a     *)
(* slot or to the base plate: Connect errors and Disconnect give back     *)
(* what they took (spec section 7: validation errors make no change).    *)
NoLeakedRequestPads ==
    running =>
        req_pads \subseteq {consumer_slots[l].pad :
                               l \in {k \in Links : consumer_slots[k] # None}}
                           \cup {base_pad}

(* The base plate (sink_0 by the spec, section 4.4) is opaque exactly    *)
(* while update_video_mixing_state says it is shown.                     *)
BasePlateOpaqueIffShown ==
    base_pad # None /\ pipeline = "playing" =>
        ((IF base_pad = 0 THEN sink0_alpha ELSE 1) = 1 <=> showing_base_plate)

(* The samples-selected callback never panics. *)
NoCallbackPanic ==
    pipeline # "aborted"

(* A slot controller acts on the pad of the slot it is keyed by: a point  *)
(* added for a connected slot changes that slot's pad.                    *)
SlotControllersOnSlotPads ==
    \A k \in VKeys :
        v_slot_controllers[k] # None /\ consumer_slots[k[1]] # None
            => v_slot_controllers[k].pad = consumer_slots[k[1]].pad

(* RemoveControlPoint(id, property) on the mixer: afterwards the          *)
(* property's controller holds no point with that id (spec section 8).   *)
RemovedMixerPointsGone ==
    \A r \in removed :
        mixer_controllers[r[1]] # None => r[2] \notin mixer_controllers[r[1]]

(* The base plate is shown only after it has been alone for longer than *)
(* the current fallback-timeout setting, which is controllable.          *)
FallbackTimeoutHonoured ==
    [][~showing_base_plate /\ showing_base_plate' =>
         last_pts' - base_plate_timeout > fallback_timeout]_vars

(* A start is never left hanging (start_pipeline, its call_async          *)
(* set_state(Playing), Handler<ErrorMessage>; spec 7: a construction or   *)
(* state-change error takes the Mixer to Stopped): once the pipeline is   *)
(* being started, or a start failed, the Mixer eventually is Started or   *)
(* has stopped.                                                           *)
StartSettles ==
    (state = "Starting" \/ pipeline = "failed")
        ~> (state = "Started" \/ ~running)

(* The slot contract of the actor (connect, disconnect, start_pipeline,   *)
(* its failure in the slot loop, the state machine, Actor::stopped and    *)
(* the streaming-thread panic): seen through the links that have a slot, *)
(* the links that are consumers of their producers and the phase (Stopped *)
(* once the actor stopped), every Mixer behaviour is a MixerSlots one.   *)
SlotContract == INSTANCE MixerSlots WITH
    phase <- IF running THEN state ELSE "Stopped",
    slots <- {l \in Links : consumer_slots[l] # None},
    attached <- upstream

SlotsRefined == SlotContract!SSpec
=============================================================================
