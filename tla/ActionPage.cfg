\* The run of the action ends.
SPECIFICATION Spec
CONSTANTS
    None = None
    Unreadable = Unreadable
    NaN = NaN
    IdRank <- MCIdRank
    Inputs <- MCInputs
    TraceFiles <- MCTraceFiles
    BaselineFiles <- MCBaselineFiles
    NumberOf <- MCNumberOf
    Env <- MCEnv
    RunStart <- MCRunStart
    SdkTraces <- MCSdkTraces
    RoundedDown <- MCRoundedDown
    TakenIds <- MCTakenIds
INVARIANTS
    TypeOK
    VerdictFromFilesOnly
    LinkMeansStored
    PageFaithful
    PublicAttributesClean
CHECK_DEADLOCK FALSE
