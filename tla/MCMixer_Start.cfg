CONSTANTS
    Links = {l1, l2}
    VideoProps = {"alpha"}
    AudioProps = {"volume"}
    MixerProps = {"fallback-timeout"}
    PointIds = {"p1"}
    PointValue <- MCPointValue
    Timeouts = {1}
    None = None
    MaxPads <- MCMaxPads
    MaxPts = 1

SPECIFICATION FairSpec

PROPERTY StartSettles

CHECK_DEADLOCK FALSE
