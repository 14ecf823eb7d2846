CONSTANTS
    Links = {l1, l2}
    VideoProps = {"alpha"}
    AudioProps = {"volume"}
    MixerProps = {"fallback-timeout"}
    PointIds = {"p1"}
    PointValue <- MCPointValue
    Timeouts = {0, 1}
    None = None
    MaxPads <- MCMaxPads
    MaxPts <- MCMaxPts

SPECIFICATION Spec
SYMMETRY MCSymmetry


INVARIANT NoLeakedRequestPads
CHECK_DEADLOCK FALSE
