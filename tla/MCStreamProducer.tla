------------------------- MODULE MCStreamProducer --------------------------
(* StreamProducer for TLC: two link ids, three appsrcs (so an id can be    *)
(* re-bound to a fresh appsrc after a removal), two latency values.        *)
EXTENDS StreamProducer

MCMaxSamples == 3
=============================================================================
