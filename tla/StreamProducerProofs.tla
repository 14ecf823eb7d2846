------------------------ MODULE StreamProducerProofs ------------------------
(***************************************************************************)
(* Proofs about StreamProducer for every value of the constants.           *)
(***************************************************************************)
EXTENDS StreamProducer, TLAPS

USE StreamProducerAssumption DEF StreamProducerAssumption

(* The appsrcs in the consumers map are appsrcs. *)
LEMMA AttachedType ==
    ASSUME consumers \in [Ids -> AppSrcs \cup {None}]
    PROVE  Attached \subseteq AppSrcs
BY DEF Attached, Range

(* Every step of the producer, the appsink and the probes keeps the     *)
(* state well typed.                                                       *)
LEMMA TypeStep == TypeOK /\ [Next]_vars => TypeOK'
<1> SUFFICES ASSUME TypeOK, [Next]_vars PROVE TypeOK'
    OBVIOUS
<1>1. ASSUME NEW id \in Ids, NEW a \in AppSrcs, AddConsumer(id, a)
      PROVE TypeOK'
    BY <1>1 DEF AddConsumer, TypeOK
<1>2. ASSUME NEW id \in Ids, RemoveConsumer(id) PROVE TypeOK'
    BY <1>2 DEF RemoveConsumer, TypeOK
<1>3. CASE Forward
    BY <1>3 DEF Forward, TypeOK
<1>4. ASSUME NEW l \in Latencies, LatencyEvent(l) PROVE TypeOK'
    BY <1>4 DEF LatencyEvent, TypeOK
<1>5. ASSUME NEW a \in AppSrcs, ForwardKeyUnit(a) PROVE TypeOK'
    BY <1>5, AttachedType DEF ForwardKeyUnit, TypeOK
<1>6. CASE NewSample
    <2>1. samples' \in 0..MaxSamples
        BY <1>6 DEF NewSample, TypeOK
    <2>2. Attached \subseteq AppSrcs
        BY AttachedType DEF TypeOK
    <2>3. CASE discard
        BY <2>1, <2>3, <1>6, Zenon DEF NewSample, TypeOK
    <2>4. CASE ~discard
        <3>1. src_latency' \in [AppSrcs -> Latencies \cup {None}]
            BY <2>4, <1>6 DEF NewSample, TypeOK
        <3>2. forwarded_latency' \in [AppSrcs -> BOOLEAN]
            BY <2>4, <1>6, Zenon DEF NewSample
        <3>3. first_buffer' \in [AppSrcs -> BOOLEAN]
            BY <2>4, <1>6, Zenon DEF NewSample
        <3>4. keyframe_since' \subseteq AppSrcs
            BY <2>2, <2>4, <1>6 DEF NewSample, TypeOK
        <3>5. pending' \subseteq AppSrcs
            BY <2>2, <2>4, <1>6 DEF NewSample
        <3>6. latency_updated' = FALSE
            BY <2>4, <1>6 DEF NewSample
        <3>7. UNCHANGED <<consumers, discard, current_latency, eos, used,
                          received, ended>>
            BY <1>6 DEF NewSample
        <3>8. QED
            BY <2>1, <3>1, <3>2, <3>3, <3>4, <3>5, <3>6, <3>7, Zenon
            DEF TypeOK
    <2>5. QED
        BY <2>3, <2>4
<1>7. ASSUME NEW a \in AppSrcs, PushSample(a) PROVE TypeOK'
    BY <1>7 DEF PushSample, TypeOK
<1>8. CASE EndOfStream
    BY <1>8, AttachedType DEF EndOfStream, TypeOK
<1>9. CASE UNCHANGED vars
    BY <1>9 DEF vars, TypeOK
<1>10. QED
    BY <1>1, <1>2, <1>3, <1>4, <1>5, <1>6, <1>7, <1>8, <1>9 DEF Next

(* StreamProducer::from builds a well-typed, empty producer. *)
LEMMA TypeInit == Init => TypeOK
<1> SUFFICES ASSUME Init PROVE TypeOK
    OBVIOUS
<1>1. samples \in 0..MaxSamples
    BY DEF Init
<1>2. QED
    BY <1>1, Zenon DEF Init, TypeOK

(* Type correctness of every reachable state. *)
THEOREM TypeCorrect == Spec => []TypeOK
<1>1. Init => TypeOK
    BY TypeInit
<1>2. TypeOK /\ [Next]_vars => TypeOK'
    BY TypeStep
<1>3. QED
    BY <1>1, <1>2, PTL DEF Spec
-----------------------------------------------------------------------------
(***************************************************************************)
(* The inductive invariant behind LatencyUpToDate and                      *)
(* KeyframeBeforeFirstSample.  Neither holds inductively as it stands:     *)
(* a sample pushed from an old snapshot, a consumer added with a fresh     *)
(* appsrc and a Latency event between two ticks all need facts about       *)
(* state the properties do not mention.                                    *)
(***************************************************************************)

(* Every appsrc the producer knows of was passed to add_consumer. *)
Provenance ==
    /\ Attached \subseteq used
    /\ received \subseteq used
    /\ pending \subseteq used

(* forwarded_latency is only set once a latency is known, and the latency  *)
(* of a consumer that has forwarded one is the current one unless an      *)
(* update waits for the next tick.                                         *)
LatencyForwarded ==
    /\ \A a \in AppSrcs : forwarded_latency[a] => current_latency # None
    /\ \A a \in Attached :
           forwarded_latency[a] /\ ~latency_updated
               => src_latency[a] = current_latency

(* A consumer that has been (or is being) given a sample while a latency  *)
(* was known and no update waits has forwarded it.                         *)
FedConsumersForwarded ==
    \A a \in Attached \cap (received \cup pending) :
        current_latency # None /\ ~latency_updated => forwarded_latency[a]

(* first_buffer is cleared only in a tick that requested a keyframe for   *)
(* that appsrc, and every appsrc of the snapshot has had one.              *)
KeyframeRequested ==
    /\ \A a \in AppSrcs : ~first_buffer[a] => a \in keyframe_since
    /\ received \cup pending \subseteq keyframe_since

IInv ==
    /\ TypeOK
    /\ Provenance
    /\ LatencyForwarded
    /\ FedConsumersForwarded
    /\ KeyframeRequested

(* add_consumer on a free id attaches exactly the new appsrc. *)
LEMMA AttachedAdd ==
    ASSUME consumers \in [Ids -> AppSrcs \cup {None}],
           NEW id \in Ids, NEW a \in AppSrcs, consumers[id] = None
    PROVE  Range([consumers EXCEPT ![id] = a]) \ {None} = Attached \cup {a}
BY DEF Attached, Range

(* remove_consumer attaches nothing new. *)
LEMMA AttachedRemove ==
    ASSUME consumers \in [Ids -> AppSrcs \cup {None}], NEW id \in Ids
    PROVE  Range([consumers EXCEPT ![id] = None]) \ {None} \subseteq Attached
BY DEF Attached, Range

(* The strengthened invariant holds in every reachable state. *)
THEOREM IInvHolds == Spec => []IInv
<1>1. Init => IInv
    <2> SUFFICES ASSUME Init PROVE IInv
        OBVIOUS
    <2>1. Attached = {}
        BY DEF Init, Attached, Range
    <2>2. QED
        BY <2>1, TypeInit, Zenon
        DEF Init, IInv, Provenance, LatencyForwarded, FedConsumersForwarded,
            KeyframeRequested
<1>2. IInv /\ [Next]_vars => IInv'
    <2> SUFFICES ASSUME IInv, [Next]_vars PROVE IInv'
        OBVIOUS
    <2> USE DEF IInv
    <2>0. TypeOK'
        BY TypeStep
    <2>1. ASSUME NEW id \in Ids, NEW a \in AppSrcs, AddConsumer(id, a)
          PROVE IInv'
        <3>1. Attached' = Attached \cup {a}
            BY <2>1, AttachedAdd DEF AddConsumer, TypeOK, Attached
        <3>2. a \notin received \cup pending
            BY <2>1 DEF AddConsumer, Provenance
        <3>3. QED
            BY <2>0, <2>1, <3>1, <3>2
            DEF AddConsumer, Provenance, LatencyForwarded,
                FedConsumersForwarded, KeyframeRequested, TypeOK
    <2>2. ASSUME NEW id \in Ids, RemoveConsumer(id) PROVE IInv'
        <3>1. Attached' \subseteq Attached
            BY <2>2, AttachedRemove DEF RemoveConsumer, TypeOK, Attached
        <3>2. QED
            BY <2>0, <2>2, <3>1
            DEF RemoveConsumer, Provenance, LatencyForwarded,
                FedConsumersForwarded, KeyframeRequested
    <2>3. CASE Forward
        <3>1. Attached' = Attached
            BY <2>3 DEF Forward, Attached
        <3>2. QED
            BY <2>0, <2>3, <3>1
            DEF Forward, Provenance, LatencyForwarded,
                FedConsumersForwarded, KeyframeRequested
    <2>4. ASSUME NEW l \in Latencies, LatencyEvent(l) PROVE IInv'
        <3>1. Attached' = Attached
            BY <2>4 DEF LatencyEvent, Attached
        <3>2. QED
            BY <2>0, <2>4, <3>1
            DEF LatencyEvent, Provenance, LatencyForwarded,
                FedConsumersForwarded, KeyframeRequested
    <2>5. ASSUME NEW a \in AppSrcs, ForwardKeyUnit(a) PROVE IInv'
        <3>1. Attached' = Attached
            BY <2>5 DEF ForwardKeyUnit, Attached
        <3>2. QED
            BY <2>0, <2>5, <3>1
            DEF ForwardKeyUnit, Provenance, LatencyForwarded,
                FedConsumersForwarded, KeyframeRequested
    <2>6. CASE NewSample
        <3>1. Attached' = Attached
            BY <2>6 DEF NewSample, Attached
        <3>2. CASE discard
            BY <2>0, <2>6, <3>1, <3>2
            DEF NewSample, Provenance, LatencyForwarded,
                FedConsumersForwarded, KeyframeRequested
        <3>3. CASE ~discard
            <4>1. Provenance'
                BY <2>6, <3>1, <3>3 DEF NewSample, Provenance
            <4>0. /\ latency_updated' = FALSE
                  /\ current_latency' = current_latency
                  /\ received' = received
                  /\ pending' = Attached
                  /\ Attached \subseteq AppSrcs
                BY <2>6, <3>3, AttachedType DEF NewSample, TypeOK
            <4>a. \A x \in AppSrcs :
                      forwarded_latency'[x]
                          = (forwarded_latency[x]
                             \/ (x \in Attached /\ current_latency # None))
                BY <2>6, <3>3 DEF NewSample
            <4>2. LatencyForwarded'
                <5>1. \A x \in AppSrcs :
                          forwarded_latency'[x] => current_latency' # None
                    BY <4>0, <4>a DEF LatencyForwarded
                <5>2. ASSUME NEW x \in Attached, forwarded_latency'[x]
                      PROVE  src_latency'[x] = current_latency
                    <6>1. current_latency # None
                        BY <5>2, <4>0, <4>a DEF LatencyForwarded
                    <6>2. src_latency'[x]
                              = IF SetsLatency(x, current_latency,
                                               latency_updated)
                                THEN current_latency ELSE src_latency[x]
                        BY <2>6, <3>3, <4>0 DEF NewSample
                    <6>3. CASE forwarded_latency[x] /\ ~latency_updated
                        BY <6>2, <6>3 DEF SetsLatency, LatencyForwarded
                    <6>4. CASE ~forwarded_latency[x] \/ latency_updated
                        BY <6>1, <6>2, <6>4 DEF SetsLatency
                    <6>5. QED
                        BY <6>3, <6>4
                <5>3. QED
                    BY <5>1, <5>2, <3>1, <4>0 DEF LatencyForwarded
            <4>3. FedConsumersForwarded'
                BY <3>1, <4>0, <4>a DEF FedConsumersForwarded
            <4>4. KeyframeRequested'
                <5>1. keyframe_since \subseteq keyframe_since'
                    BY <2>6, <3>3 DEF NewSample
                <5>2. Attached \subseteq keyframe_since'
                    <6>1. CASE RequestsKeyframe(Attached)
                        BY <2>6, <3>3, <6>1 DEF NewSample
                    <6>2. CASE ~RequestsKeyframe(Attached)
                        <7>1. keyframe_since' = keyframe_since
                            BY <2>6, <3>3, <6>2 DEF NewSample
                        <7>2. \A x \in Attached : ~first_buffer[x]
                            BY <6>2 DEF RequestsKeyframe
                        <7>3. QED
                            BY <7>1, <7>2, <4>0 DEF KeyframeRequested
                    <6>3. QED
                        BY <6>1, <6>2
                <5>3. \A x \in AppSrcs :
                          first_buffer'[x] = (first_buffer[x] /\ x \notin Attached)
                    BY <2>6, <3>3 DEF NewSample
                <5>4. QED
                    BY <4>0, <5>1, <5>2, <5>3 DEF KeyframeRequested
            <4>5. QED
                BY <2>0, <4>1, <4>2, <4>3, <4>4
        <3>4. QED
            BY <3>2, <3>3
    <2>7. ASSUME NEW a \in AppSrcs, PushSample(a) PROVE IInv'
        <3>1. Attached' = Attached
            BY <2>7 DEF PushSample, Attached
        <3>2. QED
            BY <2>0, <2>7, <3>1
            DEF PushSample, Provenance, LatencyForwarded,
                FedConsumersForwarded, KeyframeRequested
    <2>8. CASE EndOfStream
        <3>1. Attached' = Attached
            BY <2>8 DEF EndOfStream, Attached
        <3>2. QED
            BY <2>0, <2>8, <3>1
            DEF EndOfStream, Provenance, LatencyForwarded,
                FedConsumersForwarded, KeyframeRequested
    <2>9. CASE UNCHANGED vars
        <3>1. Attached' = Attached
            BY <2>9 DEF vars, Attached
        <3>2. QED
            BY <2>0, <2>9, <3>1
            DEF vars, Provenance, LatencyForwarded,
                FedConsumersForwarded, KeyframeRequested
    <2>10. QED
        BY <2>1, <2>2, <2>3, <2>4, <2>5, <2>6, <2>7, <2>8, <2>9 DEF Next
<1>3. QED
    BY <1>1, <1>2, PTL DEF Spec

(* Latency propagation in new_sample is correct for every number of       *)
(* consumers, appsrcs, latencies and samples: an attached appsrc that has *)
(* accepted samples runs with the current latency unless an update waits. *)
THEOREM LatencyUpToDateHolds == Spec => []LatencyUpToDate
<1>1. IInv => LatencyUpToDate
    BY DEF IInv, LatencyForwarded, FedConsumersForwarded, LatencyUpToDate
<1>2. QED
    BY <1>1, IInvHolds, PTL

(* The first_buffer handshake of new_sample: for every instance, no       *)
(* appsrc accepts a sample unless a ForceKeyUnit was sent upstream for it *)
(* in the tick of its first push or earlier.                              *)
THEOREM KeyframeBeforeFirstSampleHolds == Spec => []KeyframeBeforeFirstSample
<1>1. IInv => KeyframeBeforeFirstSample
    BY DEF IInv, KeyframeRequested, KeyframeBeforeFirstSample
<1>2. QED
    BY <1>1, IInvHolds, PTL

-----------------------------------------------------------------------------
(***************************************************************************)
(* Refinement.  The producer implements StreamFanout under the mapping of  *)
(* StreamProducer!Fanout.  The only step that needs the invariant is a     *)
(* forwarded tick: new_sample skips set_latency for a consumer whose       *)
(* forwarded_latency is set while no update waits (LatencyForwarded says  *)
(* its appsrc has the current latency already), and requests no keyframe   *)
(* when no snapshotted consumer has first_buffer set (KeyframeRequested    *)
(* says all of them had one requested already).                           *)
(***************************************************************************)

(* The appsrcs StreamFanout sees attached are the producer's. *)
LEMMA FanAttachedIsAttached == Fanout!FanAttached = Attached
BY DEF Fanout!FanAttached, Fanout!Range, Attached, Range

(* A forwarded tick of new_sample sets on every attached appsrc the       *)
(* latency StreamFanout would set.                                         *)
LEMMA TickLatency ==
    ASSUME IInv, NewSample, ~discard
    PROVE  src_latency' = [a \in AppSrcs |->
                              IF a \in Attached /\ current_latency # None
                              THEN current_latency ELSE src_latency[a]]
<1> DEFINE lat == current_latency
           upd == latency_updated
<1>1. src_latency' = [a \in AppSrcs |->
                         IF a \in Attached /\ SetsLatency(a, lat, upd)
                         THEN lat ELSE src_latency[a]]
    BY DEF NewSample
<1>2. \A a \in Attached :
          lat # None /\ ~SetsLatency(a, lat, upd) => src_latency[a] = lat
    BY DEF IInv, LatencyForwarded, SetsLatency
<1>3. \A a \in Attached : SetsLatency(a, lat, upd) => lat # None
    BY DEF SetsLatency
<1>4. QED
    BY <1>1, <1>2, <1>3

(* A forwarded tick leaves every attached appsrc with a keyframe request. *)
LEMMA TickKeyframe ==
    ASSUME IInv, NewSample, ~discard
    PROVE  keyframe_since' = keyframe_since \cup Attached
<1>1. CASE RequestsKeyframe(Attached)
    BY <1>1 DEF NewSample
<1>2. CASE ~RequestsKeyframe(Attached)
    <2>1. Attached \subseteq keyframe_since
        <3>1. Attached \subseteq AppSrcs
            BY AttachedType DEF IInv, TypeOK
        <3>2. QED
            BY <1>2, <3>1, Zenon DEF IInv, KeyframeRequested, RequestsKeyframe
    <2>2. keyframe_since' = keyframe_since
        BY <1>2 DEF NewSample
    <2>3. QED
        BY <2>1, <2>2
<1>3. QED
    BY <1>1, <1>2

(* Every behaviour of the producer is a behaviour of StreamFanout: the    *)
(* bookkeeping of new_sample never changes what the appsrcs are given.    *)
THEOREM FanoutRefinement == Spec => FanoutRefined
<1>1. Init => Fanout!FInit
    BY DEF Init, Fanout!FInit
<1>2. IInv /\ [Next]_vars => [Fanout!FNext]_Fanout!fvars
    <2> SUFFICES ASSUME IInv, [Next]_vars PROVE [Fanout!FNext]_Fanout!fvars
        OBVIOUS
    <2> USE FanAttachedIsAttached
    <2>1. ASSUME NEW id \in Ids, NEW a \in AppSrcs, AddConsumer(id, a)
          PROVE  Fanout!Attach(id, a)
        BY <2>1 DEF AddConsumer, Fanout!Attach
    <2>2. ASSUME NEW id \in Ids, RemoveConsumer(id) PROVE Fanout!Detach(id)
        BY <2>2 DEF RemoveConsumer, Fanout!Detach
    <2>3. ASSUME Forward PROVE Fanout!StartForwarding
        BY <2>3 DEF Forward, Fanout!StartForwarding
    <2>4. ASSUME NEW l \in Latencies, LatencyEvent(l)
          PROVE  Fanout!LatencyChange(l)
        BY <2>4 DEF LatencyEvent, Fanout!LatencyChange
    <2>5. ASSUME NEW a \in AppSrcs, ForwardKeyUnit(a)
          PROVE  Fanout!RequestKeyframe(a)
        BY <2>5 DEF ForwardKeyUnit, Fanout!RequestKeyframe
    <2>6. ASSUME NewSample PROVE Fanout!Tick
        <3>1. CASE discard
            BY <2>6, <3>1 DEF NewSample, Fanout!Tick
        <3>2. CASE ~discard
            BY <2>6, <3>2, TickLatency, TickKeyframe DEF NewSample, Fanout!Tick
        <3>3. QED
            BY <3>1, <3>2
    <2>7. ASSUME NEW a \in AppSrcs, PushSample(a) PROVE Fanout!Push(a)
        BY <2>7 DEF PushSample, Fanout!Push
    <2>8. ASSUME EndOfStream PROVE Fanout!EndStream
        BY <2>8 DEF EndOfStream, Fanout!EndStream
    <2>9. ASSUME UNCHANGED vars PROVE UNCHANGED Fanout!fvars
        BY <2>9 DEF vars, Fanout!fvars
    <2>10. QED
        BY <2>1, <2>2, <2>3, <2>4, <2>5, <2>6, <2>7, <2>8, <2>9
        DEF Next, Fanout!FNext
<1>3. QED
    BY <1>1, <1>2, IInvHolds, PTL DEF Spec, FanoutRefined, Fanout!FSpec
=============================================================================
