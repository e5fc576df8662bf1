-------------------------- MODULE SplitFramesProofs --------------------------
(***************************************************************************)
(* The loop of splitFrames deals out the frames of any task to any number  *)
(* of threads: the ranges are a balanced partition, and the closed form    *)
(* the chain uses is what the loop computes.                               *)
(***************************************************************************)
EXTENDS SplitFrames, ThreadRulesProofs

-----------------------------------------------------------------------------
(* Division. *)

\* Quotient and remainder of a number of frames.
LEMMA Division ==
    ASSUME NEW a \in Int, NEW b \in Nat \ {0}
    PROVE  /\ GoDiv(a, b) \in Int /\ GoMod(a, b) \in Int
           /\ a = b * GoDiv(a, b) + GoMod(a, b)
           /\ a >= 0 => GoDiv(a, b) >= 0 /\ GoMod(a, b) >= 0 /\ GoMod(a, b) < b
<1>1. GoDiv(a, b) \in Int
    BY GoDivType
<1>2. GoMod(a, b) \in Int /\ a = b * GoDiv(a, b) + GoMod(a, b)
    BY <1>1 DEF GoMod
<1>3. ASSUME a >= 0
      PROVE  GoDiv(a, b) >= 0 /\ GoMod(a, b) >= 0 /\ GoMod(a, b) < b
    <2>1. GoDiv(a, b) = a \div b
        BY <1>3 DEF GoDiv
    <2>2. a \div b >= 0 /\ a - b * (a \div b) >= 0 /\ a - b * (a \div b) < b
        BY <1>3
    <2> QED
        BY <2>1, <2>2 DEF GoMod
<1> QED
    BY <1>1, <1>2, <1>3

-----------------------------------------------------------------------------
(* The invariant of the loop. *)

RemainderAtStart == GoMod(TotalFrames, input.threads)

Ranges == [start : Int, end : Int]

\* How much of the remainder has been handed out: one frame to each of the first
\* threads, while there was any.
HandedOut == IF RemainderAtStart <= 0 THEN 0
             ELSE IF i <= RemainderAtStart THEN i ELSE RemainderAtStart

SplitInv ==
    /\ input \in Inputs
    /\ i \in Nat /\ i <= input.threads
    /\ result \in Seq(Ranges) /\ Len(result) = i
    /\ remainder = RemainderAtStart - HandedOut
    /\ currentStart = input.start + i * FramesPerThread + HandedOut
    /\ currentStart = IF i = 0 THEN input.start ELSE result[i].end + 1
    /\ \A j \in 1 .. i :
        /\ result[j].start = IF j = 1 THEN input.start ELSE result[j - 1].end + 1
        /\ Size(result[j]) = FramesPerThread + (IF j - 1 < RemainderAtStart THEN 1 ELSE 0)

\* The inputs, and the numbers that stay what they are while the loop runs.
LEMMA LoopConstants ==
    ASSUME input \in Inputs
    PROVE  /\ input.start \in Int /\ input.end \in Int /\ input.threads \in Nat \ {0}
           /\ TotalFrames = input.end - input.start + 1
           /\ FramesPerThread \in Int /\ RemainderAtStart \in Int
           /\ TotalFrames = input.threads * FramesPerThread + RemainderAtStart
           /\ TotalFrames >= 0 =>
                /\ FramesPerThread >= 0
                /\ RemainderAtStart >= 0 /\ RemainderAtStart < input.threads
<1>1. input.start \in Int /\ input.end \in Int /\ input.threads \in Nat \ {0}
    BY InputsAssumption
<1>2. TotalFrames \in Int
    BY <1>1 DEF TotalFrames
<1> QED
    BY <1>1, <1>2, Division DEF TotalFrames, FramesPerThread, RemainderAtStart

\* The invariant holds before the first iteration, when nothing is handed out.
LEMMA InitSplitInv == Init => SplitInv
<1> SUFFICES ASSUME Init
             PROVE  SplitInv
    OBVIOUS
<1>1. /\ FramesPerThread \in Int /\ RemainderAtStart \in Int
      /\ input.start \in Int /\ input.threads \in Nat
    BY LoopConstants DEF Init
<1>2. HandedOut = 0
    BY <1>1 DEF Init, HandedOut
<1> QED
    BY <1>1, <1>2 DEF Init, SplitInv, RemainderAtStart, TotalFrames

\* An iteration hands out one more range, with a frame of the remainder while there
\* is any.
LEMMA IterateSplitInv ==
    ASSUME SplitInv, Iterate
    PROVE  SplitInv'
<1> DEFINE extra == IF remainder > 0 THEN 1 ELSE 0
           range == [start |-> currentStart, end |-> currentStart + FramesPerThread + extra - 1]
           q == FramesPerThread
           r == RemainderAtStart
<1>1. /\ input.start \in Int /\ input.threads \in Nat \ {0} /\ q \in Int /\ r \in Int
      /\ input \in Inputs
    BY LoopConstants DEF SplitInv
<1>2. input' = input /\ q' = q /\ r' = r /\ i' = i + 1 /\ i \in Nat /\ i < input.threads
    BY DEF Iterate, SplitInv, FramesPerThread, TotalFrames, RemainderAtStart
<1>3. /\ extra \in {0, 1} /\ HandedOut \in Int
      /\ remainder \in Int /\ currentStart \in Int
      /\ extra = IF i < r THEN 1 ELSE 0
    BY <1>1, <1>2 DEF SplitInv, HandedOut
<1>4. /\ remainder' = remainder - extra
      /\ result' = Append(result, range)
      /\ currentStart' = range.end + 1
    BY DEF Iterate, NextRange, NextStart
<1>5. range \in Ranges /\ Size(range) = q + extra
    BY <1>1, <1>3 DEF Ranges, Size
<1>6. /\ result' \in Seq(Ranges) /\ Len(result') = i + 1
      /\ \A j \in 1 .. i : result'[j] = result[j]
      /\ result'[i + 1] = range
    <2> HIDE DEF range
    <2> QED
        BY <1>4, <1>5, AppendProperties DEF SplitInv
<1>7. HandedOut' = HandedOut + extra
    BY <1>1, <1>2, <1>3 DEF HandedOut
<1>8. currentStart' = input.start + (i + 1) * q + HandedOut'
    <2>1. currentStart = input.start + i * q + HandedOut
        BY DEF SplitInv
    <2>2. currentStart' = currentStart + q + extra
        BY <1>1, <1>3, <1>4
    <2>3. (i + 1) * q = i * q + q /\ i * q \in Int
        BY <1>1, <1>2
    <2> HIDE DEF extra, q
    <2> QED
        BY <1>1, <1>3, <1>7, <2>1, <2>2, <2>3
<1>9. remainder' = RemainderAtStart' - HandedOut'
    BY <1>1, <1>2, <1>3, <1>4, <1>7 DEF SplitInv
<1>10. ASSUME NEW j \in 1 .. i + 1
       PROVE  /\ result'[j].start = IF j = 1 THEN input.start ELSE result'[j - 1].end + 1
              /\ Size(result'[j]) = q + (IF j - 1 < r THEN 1 ELSE 0)
    <2>1. CASE j \in 1 .. i
        <3>1. result'[j] = result[j] /\ (j # 1 => result'[j - 1] = result[j - 1])
            BY <1>2, <1>6, <2>1
        <3> QED
            BY <2>1, <3>1 DEF SplitInv
    <2>2. CASE j = i + 1
        <3>1. result'[j] = range /\ (j # 1 => result'[j - 1] = result[i])
            BY <1>2, <1>6, <2>2
        <3>2. range.start = currentStart
            OBVIOUS
        <3>3. range.start = IF j = 1 THEN input.start ELSE result'[j - 1].end + 1
            BY <1>2, <2>2, <3>1, <3>2 DEF SplitInv
        <3>4. Size(range) = q + (IF j - 1 < r THEN 1 ELSE 0)
            BY <1>1, <1>2, <1>3, <1>5, <2>2
        <3> HIDE DEF range
        <3> QED
            BY <3>1, <3>3, <3>4
    <2> QED
        BY <1>2, <2>1, <2>2
<1>11. currentStart' = IF i' = 0 THEN input'.start ELSE result'[i'].end + 1
    BY <1>2, <1>4, <1>6
<1> QED
    <2>1. /\ input' \in Inputs /\ i' \in Nat /\ i' <= input'.threads
          /\ result' \in Seq(Ranges) /\ Len(result') = i'
        BY <1>1, <1>2, <1>6
    <2>2. currentStart' = input'.start + i' * FramesPerThread' + HandedOut'
        BY <1>2, <1>8
    <2>3. \A j \in 1 .. i' :
            /\ result'[j].start = IF j = 1 THEN input'.start ELSE result'[j - 1].end + 1
            /\ Size(result'[j]) = FramesPerThread'
                                    + (IF j - 1 < RemainderAtStart' THEN 1 ELSE 0)
        BY <1>2, <1>10
    <2> QED
        BY <1>9, <1>11, <2>1, <2>2, <2>3 DEF SplitInv, Size

\* The invariant holds after every iteration of the loop.
LEMMA SplitInvariant == Spec => []SplitInv
<1>1. SplitInv /\ [Next]_vars => SplitInv'
    <2>1. CASE UNCHANGED vars
        BY <2>1 DEF vars, SplitInv, HandedOut, RemainderAtStart, FramesPerThread, TotalFrames,
            Size
    <2> QED
        BY <2>1, IterateSplitInv DEF Next
<1> QED
    BY <1>1, InitSplitInv, PTL DEF Spec

-----------------------------------------------------------------------------
(* What the loop gives. *)

\* For any task, and any number of threads: the ranges follow one another from the
\* first frame, without a gap or an overlap, and end with the last.
THEOREM SplitIsPartition == Spec => []RangesPartitionTheTask
<1>1. SplitInv => RangesPartitionTheTask
    <2> SUFFICES ASSUME SplitInv
                 PROVE  RangesPartitionTheTask
        OBVIOUS
    <2>1. ASSUME Done, TotalFrames >= 0
          PROVE  result[i].end = input.end
        <3>1. /\ input.start \in Int /\ input.end \in Int /\ i \in Nat \ {0}
              /\ i = input.threads
              /\ FramesPerThread \in Int /\ RemainderAtStart \in Int
              /\ RemainderAtStart >= 0 /\ RemainderAtStart < i
              /\ input.end - input.start + 1 = i * FramesPerThread + RemainderAtStart
            BY <2>1, LoopConstants DEF SplitInv, Done
        <3>2. HandedOut = RemainderAtStart
            BY <3>1 DEF HandedOut
        <3>3. i * FramesPerThread \in Int
            BY <3>1
        <3>4. result[i].end + 1 = input.start + i * FramesPerThread + RemainderAtStart
            BY <3>1, <3>2 DEF SplitInv
        <3>5. result \in Seq(Ranges) /\ i \in 1 .. Len(result)
            BY <3>1 DEF SplitInv
        <3>6. result[i] \in Ranges
            BY <3>5, ElementOfSeq
        <3>7. result[i].end \in Int
            BY <3>6 DEF Ranges
        <3> QED
            BY <3>1, <3>3, <3>4, <3>7
    <2> QED
        BY <2>1 DEF SplitInv, RangesPartitionTheTask
<1> QED
    BY <1>1, SplitInvariant, PTL

\* No thread of a task gets two frames more than another, and none a negative number.
THEOREM SplitIsBalanced == Spec => []RangesAreBalanced
<1>1. SplitInv => RangesAreBalanced
    <2> SUFFICES ASSUME SplitInv, TotalFrames >= 0, NEW j \in 1 .. i, NEW k \in 1 .. i
                 PROVE  Size(result[j]) >= 0 /\ Size(result[j]) <= Size(result[k]) + 1
        BY DEF RangesAreBalanced
    <2>1. FramesPerThread \in Int /\ RemainderAtStart \in Int /\ FramesPerThread >= 0
        BY LoopConstants DEF SplitInv
    <2>2. /\ Size(result[j]) = FramesPerThread + (IF j - 1 < RemainderAtStart THEN 1 ELSE 0)
          /\ Size(result[k]) = FramesPerThread + (IF k - 1 < RemainderAtStart THEN 1 ELSE 0)
        BY DEF SplitInv
    <2> QED
        BY <2>1, <2>2
<1> QED
    BY <1>1, SplitInvariant, PTL

\* The closed form that VideoUpscalerChain uses for the size of a thread is what the
\* loop computes, a task that ends before it starts included.
THEOREM SplitIsThreadSize == Spec => []LoopIsThreadSize
<1>1. SplitInv => LoopIsThreadSize
    BY DEF SplitInv, LoopIsThreadSize, ThreadSize, FramesPerThread, RemainderAtStart, TotalFrames
<1> QED
    BY <1>1, SplitInvariant, PTL

=============================================================================
