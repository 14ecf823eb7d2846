CONSTANTS
    Ids = {i1, i2}
    AppSrcs = {s1, s2, s3}
    Latencies = {l1, l2}
    None = None
    MaxSamples <- MCMaxSamples

SPECIFICATION FairSpec

INVARIANT LatencyUpToDate
INVARIANT KeyframeBeforeFirstSample
PROPERTY LatencyEventuallyForwarded
PROPERTY FanoutRefined
