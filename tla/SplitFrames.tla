---------------------------- MODULE SplitFrames ----------------------------
(***************************************************************************)
(* The loop of splitFrames (VideoUpscalerTask.go), one iteration per step: *)
(* the frames of a task are dealt out to its threads as ranges.  The chain *)
(* uses the closed form ThreadSize; this module shows that the loop        *)
(* computes it, and that the ranges are a partition.                       *)
(***************************************************************************)
EXTENDS ThreadRules

CONSTANT Inputs   \* [start, end, threads]

ASSUME InputsAssumption == Inputs \subseteq [start : Int, end : Int, threads : Nat \ {0}]

VARIABLES
    input,
    i,              \* the loop counter
    remainder,      \* frames still to be handed out one by one
    currentStart,
    result          \* the ranges made so far

vars == << input, i, remainder, currentStart, result >>

TotalFrames     == input.end - input.start + 1
FramesPerThread == GoDiv(TotalFrames, input.threads)

Init ==
    /\ input \in Inputs
    /\ i = 0
    /\ remainder = GoMod(TotalFrames, input.threads)
    /\ currentStart = input.start
    /\ result = << >>

\* (Mutants: the extra frame is handed out to every thread; the next range starts at
\* the last frame of this one.)
NextRange_ExtraForAll(extra) ==
    [start |-> currentStart, end |-> currentStart + FramesPerThread]

NextRange_OneLess(extra) ==
    [start |-> currentStart, end |-> currentStart + FramesPerThread + extra - 2]

NextRange(extra) ==
    [start |-> currentStart, end |-> currentStart + FramesPerThread + extra - 1]

NextStart_Overlapping(range) == range.end

NextStart(range) == range.end + 1

Iterate ==
    LET extra == IF remainder > 0 THEN 1 ELSE 0
        range == NextRange(extra)
    IN  /\ i < input.threads
        /\ i' = i + 1
        /\ remainder' = remainder - extra
        /\ result' = Append(result, range)
        /\ currentStart' = NextStart(range)
        /\ UNCHANGED input

Next == Iterate

Spec == Init /\ [][Next]_vars

-----------------------------------------------------------------------------

Size(range) == range.end - range.start + 1

Done == i = input.threads

\* The loop gives to every thread what the closed form says, for all inputs,
\* a task that ends before it starts included.
LoopIsThreadSize ==
    /\ Len(result) = i
    /\ \A j \in 1 .. i :
        Size(result[j]) = ThreadSize(input.start, input.end, input.threads, j - 1)

\* The ranges follow one another from the first frame of the task, with no gap and
\* no overlap, and end with its last.
RangesPartitionTheTask ==
    /\ \A j \in 1 .. i :
        result[j].start = IF j = 1 THEN input.start ELSE result[j - 1].end + 1
    /\ Done /\ TotalFrames >= 0 => result[i].end = input.end

\* No thread gets two frames more than another, and none a negative number.
RangesAreBalanced ==
    TotalFrames >= 0 =>
        \A j, k \in 1 .. i : /\ Size(result[j]) >= 0
                             /\ Size(result[j]) <= Size(result[k]) + 1

=============================================================================
