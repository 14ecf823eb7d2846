--------------------------- MODULE StreamProducer ---------------------------
(***************************************************************************)
(* The fan-out of src/server/src/utils/stream_producer.rs: one appsink     *)
(* whose samples are dispatched to the appsrcs of N consumers.             *)
(*                                                                         *)
(* Three kinds of threads touch the mutex-protected StreamConsumers        *)
(* record: the node actor (add_consumer, remove_consumer, forward), the    *)
(* appsink's streaming thread (new_sample, eos) and the thread delivering  *)
(* upstream Latency events to the appsink's sink pad (the pad probe).      *)
(* Every critical section is one atomic step; new_sample is split at the   *)
(* point where it drops the lock: the locked snapshot is one step, and     *)
(* each push to a snapshotted appsrc is a step of its own, so the actor    *)
(* and the latency probe can run between the pushes.                      *)
(*                                                                         *)
(* Samples are not data: only whether an appsrc has received one matters.  *)
(* A StreamConsumer is identified by its appsrc; the Mixer creates a new   *)
(* appsrc for every link, so an appsrc is attached at most once.           *)
(***************************************************************************)
EXTENDS Naturals, FiniteSets, Functions

CONSTANTS
    Ids,         \* consumer (link) ids
    AppSrcs,     \* the appsrc elements that may be attached
    Latencies,   \* latency values the Latency event can carry
    None,        \* Option::None, for current_latency and an empty id
    MaxSamples   \* bound on the samples the appsink produces

ASSUME StreamProducerAssumption ==
    /\ None \notin AppSrcs \cup Latencies
    /\ MaxSamples \in Nat

VARIABLES
    consumers,         \* StreamConsumers.consumers: id -> appsrc, or None
    discard,           \* StreamConsumers.discard
    current_latency,   \* StreamConsumers.current_latency
    latency_updated,   \* StreamConsumers.latency_updated
    forwarded_latency, \* StreamConsumer.forwarded_latency, per appsrc
    first_buffer,      \* StreamConsumer.first_buffer, per appsrc
    pending,           \* appsrcs of the snapshot the streaming thread has
                       \* not pushed the current sample to yet
    samples,           \* number of samples the appsink has produced
    eos,               \* the appsink has delivered EOS
    \* state of the appsrc elements, outside the producer
    used,              \* appsrcs ever passed to add_consumer
    src_latency,       \* latency last set on each appsrc (set_latency)
    received,          \* appsrcs that have accepted at least one sample
    ended,             \* appsrcs that were sent end_of_stream
    keyframe_since     \* appsrcs for which a ForceKeyUnit reached the
                       \* appsink while they were attached

vars == <<consumers, discard, current_latency, latency_updated,
          forwarded_latency, first_buffer, pending, samples, eos,
          used, src_latency, received, ended, keyframe_since>>

(* The appsrcs currently in the consumers map. *)
Attached == Range(consumers) \ {None}

-----------------------------------------------------------------------------
(* StreamProducer::from: an empty map, discarding, no latency yet. *)
Init ==
    /\ consumers = [i \in Ids |-> None]
    /\ discard = TRUE
    /\ current_latency = None
    /\ latency_updated = FALSE
    /\ forwarded_latency = [a \in AppSrcs |-> FALSE]
    /\ first_buffer = [a \in AppSrcs |-> TRUE]
    /\ pending = {}
    /\ samples = 0
    /\ eos = FALSE
    /\ used = {}
    /\ src_latency = [a \in AppSrcs |-> None]
    /\ received = {}
    /\ ended = {}
    /\ keyframe_since = {}

(* add_consumer(appsrc, id): an id already bound is logged and ignored     *)
(* (no state change); otherwise a StreamConsumer with forwarded_latency    *)
(* false and first_buffer true is inserted under the lock.                 *)
AddConsumer(id, a) ==
    /\ a \notin used
    /\ consumers[id] = None
    /\ consumers' = [consumers EXCEPT ![id] = a]
    /\ forwarded_latency' = [forwarded_latency EXCEPT ![a] = FALSE]
    /\ first_buffer' = [first_buffer EXCEPT ![a] = TRUE]
    /\ used' = used \cup {a}
    /\ UNCHANGED <<discard, current_latency, latency_updated, pending,
                   samples, eos, src_latency, received, ended,
                   keyframe_since>>

(* remove_consumer(id): the entry is removed and dropped (its force-key-   *)
(* unit probe removed); a missing id is only logged.                      *)
RemoveConsumer(id) ==
    /\ consumers[id] # None
    /\ consumers' = [consumers EXCEPT ![id] = None]
    /\ UNCHANGED <<discard, current_latency, latency_updated,
                   forwarded_latency, first_buffer, pending, samples, eos,
                   used, src_latency, received, ended, keyframe_since>>

(* forward(): stop discarding samples. *)
Forward ==
    /\ discard' = FALSE
    /\ UNCHANGED <<consumers, current_latency, latency_updated,
                   forwarded_latency, first_buffer, pending, samples, eos,
                   used, src_latency, received, ended, keyframe_since>>

(* The sink pad probe on an upstream Latency event. *)
LatencyEvent(l) ==
    /\ current_latency' = l
    /\ latency_updated' = TRUE
    /\ UNCHANGED <<consumers, discard, forwarded_latency, first_buffer,
                   pending, samples, eos, used, src_latency, received,
                   ended, keyframe_since>>

(* The force-key-unit probe on an attached appsrc's src pad: an upstream  *)
(* ForceKeyUnit event from downstream of the consumer is sent to the      *)
(* appsink.                                                               *)
ForwardKeyUnit(a) ==
    /\ a \in Attached
    /\ keyframe_since' = keyframe_since \cup Attached
    /\ UNCHANGED <<consumers, discard, current_latency, latency_updated,
                   forwarded_latency, first_buffer, pending, samples, eos,
                   used, src_latency, received, ended>>

(* Mutant of SetsLatency: the latency is only set on an appsrc's first  *)
(* sample, updates are never forwarded.                                   *)
SetsLatencyOnce(a, lat, upd) ==
    lat # None /\ ~forwarded_latency[a]

(* In new_sample: the latency is set on appsrc a when one is known and    *)
(* either its forwarded_latency flips false->true or latency_updated was  *)
(* set when the tick began.                                               *)
SetsLatency(a, lat, upd) ==
    lat # None /\ (~forwarded_latency[a] \/ upd)

(* Mutant of RequestsKeyframe: the first_buffer exchange tests the wrong  *)
(* direction.                                                             *)
RequestsKeyframeInverted(snap) ==
    \E a \in snap : ~first_buffer[a]

(* In new_sample: a keyframe is requested in this tick iff some           *)
(* snapshotted consumer's first_buffer flips true->false.                 *)
RequestsKeyframe(snap) ==
    \E a \in snap : first_buffer[a]

(* new_sample, up to drop(consumers): pull a sample under the lock; if    *)
(* discarding, drop it.  Otherwise take the latency, clear                *)
(* latency_updated, and for every consumer set the latency on its appsrc  *)
(* when its forwarded_latency flips false->true or an update is pending,  *)
(* flip first_buffer true->false (requesting one keyframe from the        *)
(* appsink for the tick), and snapshot the appsrcs.                       *)
NewSample ==
    LET lat == current_latency
        upd == latency_updated
        snap == Attached
    IN
    /\ pending = {}
    /\ ~eos
    /\ samples < MaxSamples
    /\ samples' = samples + 1
    /\ \/ /\ discard
          /\ UNCHANGED <<latency_updated, forwarded_latency, first_buffer,
                         pending, src_latency, keyframe_since>>
       \/ /\ ~discard
          /\ latency_updated' = FALSE
          /\ src_latency' = [a \in AppSrcs |->
                               IF a \in snap /\ SetsLatency(a, lat, upd)
                               THEN lat ELSE src_latency[a]]
          /\ forwarded_latency' = [a \in AppSrcs |->
                               forwarded_latency[a] \/ (a \in snap /\ lat # None)]
          /\ first_buffer' = [a \in AppSrcs |->
                               first_buffer[a] /\ a \notin snap]
          /\ keyframe_since' = IF RequestsKeyframe(snap) THEN keyframe_since \cup snap
                                            ELSE keyframe_since
          /\ pending' = snap
    /\ UNCHANGED <<consumers, discard, current_latency, eos, used, received,
                   ended>>

(* new_sample, the loop after drop(consumers): push the sample to one     *)
(* snapshotted appsrc.  A push that fails (the appsrc is flushing, at EOS *)
(* or gone) is only logged.                                               *)
PushSample(a) ==
    /\ a \in pending
    /\ pending' = pending \ {a}
    /\ \/ /\ a \notin ended
          /\ received' = received \cup {a}
       \/ UNCHANGED received
    /\ UNCHANGED <<consumers, discard, current_latency, latency_updated,
                   forwarded_latency, first_buffer, samples, eos, used,
                   src_latency, ended, keyframe_since>>

(* The eos callback: snapshot the appsrcs and end the stream of each. *)
EndOfStream ==
    /\ pending = {}
    /\ ~eos
    /\ eos' = TRUE
    /\ ended' = ended \cup Attached
    /\ UNCHANGED <<consumers, discard, current_latency, latency_updated,
                   forwarded_latency, first_buffer, pending, samples, used,
                   src_latency, received, keyframe_since>>

Next ==
    \/ \E id \in Ids, a \in AppSrcs : AddConsumer(id, a)
    \/ \E id \in Ids : RemoveConsumer(id)
    \/ Forward
    \/ \E l \in Latencies : LatencyEvent(l)
    \/ \E a \in AppSrcs : ForwardKeyUnit(a)
    \/ NewSample
    \/ \E a \in AppSrcs : PushSample(a)
    \/ EndOfStream

Spec == Init /\ [][Next]_vars

(* The appsink's streaming thread keeps running while upstream produces:  *)
(* a sample the appsink holds is eventually pulled (new_sample), and a    *)
(* push to a snapshotted appsrc eventually returns, since the Mixer's     *)
(* appsrcs are leaky and never block the pusher.  Nothing forces the     *)
(* actor, the latency probe or EOS to act.                               *)
StreamingFairness ==
    /\ WF_vars(NewSample)
    /\ \A a \in AppSrcs : WF_vars(PushSample(a))

FairSpec == Spec /\ StreamingFairness

-----------------------------------------------------------------------------
TypeOK ==
    /\ consumers \in [Ids -> AppSrcs \cup {None}]
    /\ discard \in BOOLEAN
    /\ current_latency \in Latencies \cup {None}
    /\ latency_updated \in BOOLEAN
    /\ forwarded_latency \in [AppSrcs -> BOOLEAN]
    /\ first_buffer \in [AppSrcs -> BOOLEAN]
    /\ pending \subseteq AppSrcs
    /\ samples \in 0..MaxSamples
    /\ eos \in BOOLEAN
    /\ used \subseteq AppSrcs
    /\ src_latency \in [AppSrcs -> Latencies \cup {None}]
    /\ received \subseteq AppSrcs
    /\ ended \subseteq AppSrcs
    /\ keyframe_since \subseteq AppSrcs

(* Latency propagation (new_sample with the Latency probe): an attached   *)
(* appsrc that has already been given samples runs with the appsink's    *)
(* current latency, unless an update is still waiting for the next        *)
(* sample.  Breaking it takes a latency change racing samples, consumers  *)
(* joining late and pushes that fail.                                     *)
LatencyUpToDate ==
    \A a \in Attached \cap received :
        current_latency # None /\ ~latency_updated
            => src_latency[a] = current_latency

(* Keyframe request on first delivery (first_buffer in new_sample): no    *)
(* appsrc accepts a sample unless a ForceKeyUnit was sent upstream from   *)
(* the appsink since it was attached, in the tick of its first push or    *)
(* before.  That sample was pulled before the request, so this says the   *)
(* request was made, not that the first sample is a keyframe; nor does it *)
(* count the requests per consumer.                                       *)
KeyframeBeforeFirstSample ==
    received \subseteq keyframe_since

(* Latency reaches every consumer (latency_updated and forwarded_latency  *)
(* in new_sample): while samples are forwarded, an attached appsrc is     *)
(* eventually set to the appsink's current latency, however the latency   *)
(* changes and consumers come and go meanwhile.                           *)
LatencyEventuallyForwarded ==
    \A a \in AppSrcs :
        (a \in Attached /\ ~discard /\ ~eos /\ samples < MaxSamples
            /\ current_latency # None)
          ~> (src_latency[a] = current_latency \/ a \notin Attached \/ eos)

(* End of stream reaches every consumer (the eos callback; spec 4.1: "On  *)
(* sink EOS, signal end-of-stream to every consumer source"): an appsrc   *)
(* attached after the appsink's EOS is still eventually ended, unless it  *)
(* is detached.                                                          *)
EndOfStreamReachesConsumers ==
    \A a \in AppSrcs :
        (eos /\ a \in Attached) ~> (a \in ended \/ a \notin Attached)

-----------------------------------------------------------------------------
(* The producer implements StreamFanout: the latency is the appsink's     *)
(* current latency, and the appsrcs a sample is still to be pushed to are *)
(* the snapshot being pushed.                                             *)
Fanout == INSTANCE StreamFanout WITH latency <- current_latency,
                                     inflight <- pending

(* The forwarded_latency, first_buffer and latency_updated bookkeeping of *)
(* new_sample only suppresses redundant set_latency calls and keyframe    *)
(* requests: every behaviour of the producer is one of StreamFanout.      *)
FanoutRefined == Fanout!FSpec
=============================================================================
