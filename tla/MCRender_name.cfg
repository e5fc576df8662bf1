SPECIFICATION FairRenderSpec
CONSTANTS
    Nobody = Nobody
    NoHash = NoHash
    NoDir = NoDir
    Malformed = Malformed
    Undecodable = Undecodable
    g1 = g1
    g2 = g2
    Inputs <- OneFrame
    TaskIds = {1, 11}
    Reversed <- SecondOfFirst
    Rendered <- OneFrame
    Goroutines = {g1}
    Unlucky = {}
PROPERTIES
    SavedFrameIsPassed
\* The loop ends, and so do the goroutines.
CHECK_DEADLOCK FALSE
