---------------------------- MODULE StreamFanout ----------------------------
(***************************************************************************)
(* What a StreamProducer promises its consumers, without the bookkeeping  *)
(* that new_sample uses to avoid redundant work.  On every forwarded tick  *)
(* each attached appsrc is given the known latency and a keyframe is       *)
(* requested for all of them; then the sample is pushed to the appsrcs    *)
(* attached at the tick, one push at a time, and a push may fail.          *)
(*                                                                         *)
(* StreamProducer keeps per-consumer forwarded_latency and first_buffer   *)
(* flags and a latency_updated flag so that set_latency and ForceKeyUnit   *)
(* happen only when something changed; StreamProducer!FanoutRefined shows that    *)
(* this is invisible to the appsrcs.                                      *)
(***************************************************************************)
EXTENDS Naturals, FiniteSets, Functions

CONSTANTS Ids, AppSrcs, Latencies, None, MaxSamples

VARIABLES
    consumers,       \* id -> appsrc, or None
    discard,         \* samples are dropped until forward()
    latency,         \* the latency last reported upstream, or None
    inflight,        \* appsrcs the current sample still has to be pushed to
    samples,         \* samples produced by the appsink
    eos,             \* the appsink delivered EOS
    used,            \* appsrcs ever attached
    src_latency,     \* latency last set on each appsrc
    received,        \* appsrcs that accepted a sample
    ended,           \* appsrcs sent end_of_stream
    keyframe_since   \* appsrcs attached when a keyframe was requested

fvars == <<consumers, discard, latency, inflight, samples, eos, used,
           src_latency, received, ended, keyframe_since>>

(* The appsrcs attached now. *)
FanAttached == Range(consumers) \ {None}

FInit ==
    /\ consumers = [i \in Ids |-> None]
    /\ discard = TRUE
    /\ latency = None
    /\ inflight = {}
    /\ samples = 0
    /\ eos = FALSE
    /\ used = {}
    /\ src_latency = [a \in AppSrcs |-> None]
    /\ received = {}
    /\ ended = {}
    /\ keyframe_since = {}

(* A fresh appsrc is attached under a free id. *)
Attach(id, a) ==
    /\ a \notin used
    /\ consumers[id] = None
    /\ consumers' = [consumers EXCEPT ![id] = a]
    /\ used' = used \cup {a}
    /\ UNCHANGED <<discard, latency, inflight, samples, eos, src_latency,
                   received, ended, keyframe_since>>

Detach(id) ==
    /\ consumers[id] # None
    /\ consumers' = [consumers EXCEPT ![id] = None]
    /\ UNCHANGED <<discard, latency, inflight, samples, eos, used,
                   src_latency, received, ended, keyframe_since>>

StartForwarding ==
    /\ discard' = FALSE
    /\ UNCHANGED <<consumers, latency, inflight, samples, eos, used,
                   src_latency, received, ended, keyframe_since>>

LatencyChange(l) ==
    /\ latency' = l
    /\ UNCHANGED <<consumers, discard, inflight, samples, eos, used,
                   src_latency, received, ended, keyframe_since>>

RequestKeyframe(a) ==
    /\ a \in FanAttached
    /\ keyframe_since' = keyframe_since \cup FanAttached
    /\ UNCHANGED <<consumers, discard, latency, inflight, samples, eos, used,
                   src_latency, received, ended>>

(* A tick: a discarded sample is dropped; a forwarded one sets the known  *)
(* latency on, and requests a keyframe for, every attached appsrc.        *)
Tick ==
    /\ inflight = {}
    /\ ~eos
    /\ samples < MaxSamples
    /\ samples' = samples + 1
    /\ \/ /\ discard
          /\ UNCHANGED <<inflight, src_latency, keyframe_since>>
       \/ /\ ~discard
          /\ src_latency' = [a \in AppSrcs |->
                               IF a \in FanAttached /\ latency # None
                               THEN latency ELSE src_latency[a]]
          /\ keyframe_since' = keyframe_since \cup FanAttached
          /\ inflight' = FanAttached
    /\ UNCHANGED <<consumers, discard, latency, eos, used, received, ended>>

Push(a) ==
    /\ a \in inflight
    /\ inflight' = inflight \ {a}
    /\ \/ /\ a \notin ended
          /\ received' = received \cup {a}
       \/ UNCHANGED received
    /\ UNCHANGED <<consumers, discard, latency, samples, eos, used,
                   src_latency, ended, keyframe_since>>

EndStream ==
    /\ inflight = {}
    /\ ~eos
    /\ eos' = TRUE
    /\ ended' = ended \cup FanAttached
    /\ UNCHANGED <<consumers, discard, latency, inflight, samples, used,
                   src_latency, received, keyframe_since>>

FNext ==
    \/ \E id \in Ids, a \in AppSrcs : Attach(id, a)
    \/ \E id \in Ids : Detach(id)
    \/ StartForwarding
    \/ \E l \in Latencies : LatencyChange(l)
    \/ \E a \in AppSrcs : RequestKeyframe(a)
    \/ Tick
    \/ \E a \in AppSrcs : Push(a)
    \/ EndStream

FSpec == FInit /\ [][FNext]_fvars
=============================================================================
