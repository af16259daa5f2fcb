CONSTANTS
    Rt = rt
    NonRt = {n1, n2}
    NonRtReads = {n1}
    Nobody = nobody
    MaxWrites = 3
SPECIFICATION Spec
INVARIANTS
    TypeOK
    RtReadsWhole
    RtNeverGoesBack
    NonRtReadsLast
PROPERTIES
    RtGetsLast
