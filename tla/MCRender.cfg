SPECIFICATION FairRenderSpec
CONSTANTS
    Nobody = Nobody
    NoHash = NoHash
    NoDir = NoDir
    Malformed = Malformed
    Undecodable = Undecodable
    g1 = g1
    g2 = g2
    Inputs <- SmallInputs
    TaskIds = {1, 11}
    Reversed <- SecondOfFirst
    Rendered <- RenderedInputs
    Goroutines = {g1, g2}
    Unlucky = {g2}
INVARIANTS
    LoopIsThreadSize
    RangesPartitionTheTask
    RangesAreBalanced
    RenderTypeOK
    ThreadIdsDiffer
    ShortWasNotAlone
PROPERTIES
    ImplementsRendering
    RenderingEnds
\* The loop ends, and so do the goroutines.
CHECK_DEADLOCK FALSE
