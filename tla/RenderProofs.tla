---------------------------- MODULE RenderProofs ----------------------------
(***************************************************************************)
(* What rendering in containers keeps, for any task, split, goroutines and *)
(* containers: the ids of threads differ, a goroutine that is alone does   *)
(* all its frames, and the rendering is the one of module Rendering.       *)
(***************************************************************************)
EXTENDS RenderProperties, SplitFramesProofs

-----------------------------------------------------------------------------
(* Names.  What a recursive function computes is shown by induction with sets of
   numbers, of which NatLessThanWellFounded gives the least. *)

\* One step of the recursion of Decimal, with a function for the shorter numbers.
Digits(f, m) == IF m < 10 THEN << m >> ELSE Append(f[m \div 10], m % 10)

\* Dividing by ten makes a number smaller.
LEMMA Tenth ==
    ASSUME NEW m \in Nat, m >= 10
    PROVE  m \div 10 \in Nat /\ m \div 10 < m /\ m \div 10 >= 1 /\ m % 10 \in 0 .. 9
OBVIOUS

\* Two functions that follow the recursion up to n agree up to n.
LEMMA DigitsUnique ==
    ASSUME NEW n \in Nat, NEW f, NEW g,
           \A m \in 0 .. n : f[m] = Digits(f, m),
           \A m \in 0 .. n : g[m] = Digits(g, m)
    PROVE  \A m \in 0 .. n : f[m] = g[m]
<1> DEFINE S == { k \in Nat : k <= n => \A m \in 0 .. k : f[m] = g[m] }
<1>1. 0 \in S
    <2>1. f[0] = Digits(f, 0) /\ g[0] = Digits(g, 0)
        OBVIOUS
    <2>2. f[0] = g[0]
        BY <2>1 DEF Digits
    <2> QED
        BY <2>2
<1>2. ASSUME NEW k \in S PROVE k + 1 \in S
    <2> SUFFICES ASSUME k + 1 <= n, NEW m \in 0 .. k + 1
                 PROVE  f[m] = g[m]
        OBVIOUS
    <2>1. \A j \in 0 .. k : f[j] = g[j]
        OBVIOUS
    <2> m \in 0 .. n /\ m \in Nat
        OBVIOUS
    <2>0. f[m] = Digits(f, m) /\ g[m] = Digits(g, m)
        OBVIOUS
    <2>2. CASE m < 10
        BY <2>0, <2>2 DEF Digits
    <2>3. CASE m >= 10
        <3>1. m \div 10 \in 0 .. k
            BY <2>3, Tenth
        <3>2. f[m] = Append(f[m \div 10], m % 10) /\ g[m] = Append(g[m \div 10], m % 10)
            BY <2>0, <2>3 DEF Digits
        <3> QED
            BY <2>1, <3>1, <3>2
    <2> QED
        BY <2>2, <2>3
<1> HIDE DEF S
<1>3. S = Nat
    <2>1. S \in SUBSET Nat
        BY DEF S
    <2> QED
        BY <1>1, <1>2, <2>1, NumberInduction
<1> QED
    BY <1>3 DEF S

\* There is a function that follows it up to any number, of sequences that are not empty.
LEMMA DigitsUpTo ==
    ASSUME NEW n \in Nat
    PROVE  \E f \in [0 .. n -> Seq(Nat)] : \A m \in 0 .. n : f[m] = Digits(f, m)
<1> DEFINE Follows(f, k) == \A m \in 0 .. k : f[m] = Digits(f, m)
           S == { k \in Nat : \E f \in [0 .. k -> Seq(Nat)] : Follows(f, k) }
<1>1. 0 \in S
    <2> DEFINE f == [m \in 0 .. 0 |-> << m >>]
    <2>1. f \in [0 .. 0 -> Seq(Nat)] /\ Follows(f, 0)
        BY DEF Digits
    <2> QED
        BY <2>1
<1>2. ASSUME NEW k \in S PROVE k + 1 \in S
    <2>1. PICK f \in [0 .. k -> Seq(Nat)] : Follows(f, k)
        OBVIOUS
    <2> DEFINE h == [m \in 0 .. k + 1 |-> IF m = k + 1 THEN Digits(f, m) ELSE f[m]]
    <2>2. Digits(f, k + 1) \in Seq(Nat)
        <3>1. CASE k + 1 < 10
            BY <3>1 DEF Digits
        <3>2. CASE k + 1 >= 10
            <4>1. (k + 1) \div 10 \in 0 .. k /\ (k + 1) % 10 \in Nat
                BY <3>2, Tenth
            <4>2. f[(k + 1) \div 10] \in Seq(Nat)
                BY <4>1
            <4> QED
                BY <3>2, <4>1, <4>2, AppendProperties DEF Digits
        <3> QED
            BY <3>1, <3>2
    <2>3. h \in [0 .. k + 1 -> Seq(Nat)]
        BY <2>2
    <2>4. ASSUME NEW m \in 0 .. k + 1
          PROVE  h[m] = Digits(h, m)
        <3>1. m \in Nat /\ h[m] = Digits(f, m)
            BY <2>1
        <3>2. CASE m < 10
            BY <3>1, <3>2 DEF Digits
        <3>3. CASE m >= 10
            <4>1. m \div 10 \in 0 .. k /\ m \div 10 # k + 1
                BY <3>3, Tenth
            <4>2. h[m \div 10] = f[m \div 10]
                BY <4>1
            <4> QED
                BY <3>1, <3>3, <4>2 DEF Digits
        <3> QED
            BY <3>1, <3>2, <3>3
    <2>5. k + 1 \in Nat /\ \E q \in [0 .. k + 1 -> Seq(Nat)] : Follows(q, k + 1)
        <3>1. Follows(h, k + 1)
            BY <2>4
        <3> HIDE DEF h, Follows
        <3> QED
            BY <2>3, <3>1
    <2> QED
        BY <2>5
<1> HIDE DEF S
<1>3. S = Nat
    <2>1. S \in SUBSET Nat
        BY DEF S
    <2> QED
        BY <1>1, <1>2, <2>1, NumberInduction
<1> QED
    BY <1>3 DEF S

\* strconv.FormatInt writes a digit, or all digits but the last and the last.
LEMMA DecimalRule ==
    ASSUME NEW n \in Nat
    PROVE  /\ Decimal(n) \in Seq(Nat)
           /\ n < 10 => Decimal(n) = << n >>
           /\ n >= 10 => Decimal(n) = Append(Decimal(n \div 10), n % 10)
<1> DEFINE Follows(f, k) == \A m \in 0 .. k : f[m] = Digits(f, m)
           upTo(k) == CHOOSE f \in [0 .. k -> Seq(Nat)] : Follows(f, k)
           all == [m \in Nat |-> upTo(m)[m]]
           IsDigits(f) == f = [m \in Nat |-> Digits(f, m)]
           digits == CHOOSE f : IsDigits(f)
<1>1. ASSUME NEW k \in Nat
      PROVE  upTo(k) \in [0 .. k -> Seq(Nat)] /\ Follows(upTo(k), k)
    BY DigitsUpTo
<1>2. ASSUME NEW k \in Nat, NEW m \in 0 .. k
      PROVE  upTo(k)[m] = all[m]
    <2>1. m \in Nat /\ 0 .. m \subseteq 0 .. k
        OBVIOUS
    <2>2. Follows(upTo(k), k) /\ Follows(upTo(m), m)
        BY <1>1, <2>1
    <2> HIDE DEF upTo
    <2>3. \A j \in 0 .. m : upTo(k)[j] = Digits(upTo(k), j) /\ upTo(m)[j] = Digits(upTo(m), j)
        BY <2>1, <2>2
    <2>4. upTo(k)[m] = upTo(m)[m]
        BY <2>1, <2>3, DigitsUnique
    <2> QED
        BY <2>1, <2>4
<1> HIDE DEF upTo
<1>3. ASSUME NEW m \in Nat
      PROVE  all[m] \in Seq(Nat) /\ all[m] = Digits(all, m)
    <2>1. all[m] = upTo(m)[m] /\ m \in 0 .. m
        OBVIOUS
    <2>2. all[m] \in Seq(Nat) /\ all[m] = Digits(upTo(m), m)
        BY <1>1, <2>1
    <2> HIDE DEF all
    <2>3. CASE m < 10
        BY <2>2, <2>3 DEF Digits
    <2>4. CASE m >= 10
        <3>1. m \div 10 \in 0 .. m
            BY <2>4, Tenth
        <3>2. upTo(m)[m \div 10] = all[m \div 10]
            BY <1>2, <3>1
        <3> QED
            BY <2>2, <2>4, <3>2 DEF Digits
    <2> QED
        BY <2>2, <2>3, <2>4
<1>4. IsDigits(all)
    <2>1. \A m \in Nat : all[m] = Digits(all, m)
        BY <1>3
    <2>2. all = [m \in Nat |-> all[m]]
        OBVIOUS
    <2> HIDE DEF all
    <2>3. [m \in Nat |-> all[m]] = [m \in Nat |-> Digits(all, m)]
        BY <2>1
    <2> QED
        BY <2>2, <2>3
<1>5. IsDigits(digits)
    <2> HIDE DEF all, IsDigits
    <2> QED
        BY <1>4
<1>6. Decimal(n) = digits[n]
    BY DEF Decimal, Digits
<1>7. \A m \in Nat : digits[m] = Digits(digits, m)
    <2> HIDE DEF digits
    <2> QED
        BY <1>5
<1> HIDE DEF digits, all
<1>8. \A m \in 0 .. n : digits[m] = all[m]
    <2>1. \A m \in 0 .. n : digits[m] = Digits(digits, m)
        BY <1>7
    <2>2. \A m \in 0 .. n : all[m] = Digits(all, m)
        BY <1>3
    <2> QED
        BY <2>1, <2>2, DigitsUnique
<1>9. Decimal(n) \in Seq(Nat)
    BY <1>3, <1>6, <1>8
<1>10. \A m \in Nat : Decimal(m) = digits[m]
    BY DEF Decimal, Digits, digits
<1> QED
    <2>1. n < 10 => Decimal(n) = << n >>
        BY <1>6, <1>7 DEF Digits
    <2>2. ASSUME n >= 10
          PROVE  Decimal(n) = Append(Decimal(n \div 10), n % 10)
        <3>1. n \div 10 \in Nat
            BY <2>2, Tenth
        <3>2. digits[n] = Append(digits[n \div 10], n % 10)
            <4>1. digits[n] = Digits(digits, n)
                BY <1>7
            <4> QED
                BY <2>2, <4>1 DEF Digits
        <3> QED
            BY <1>6, <1>10, <3>1, <3>2
    <2> QED
        BY <1>9, <2>1, <2>2

\* strconv.FormatInt writes no two numbers alike.
LEMMA DecimalDiffers ==
    ASSUME NEW a \in Nat, NEW b \in Nat, Decimal(a) = Decimal(b)
    PROVE  a = b
<1> DEFINE S == { n \in Nat : \A x, y \in 0 .. n : Decimal(x) = Decimal(y) => x = y }
<1>1. ASSUME NEW x \in Nat
      PROVE  /\ x < 10 => Decimal(x) = << x >> /\ Len(Decimal(x)) = 1
             /\ x >= 10 => Len(Decimal(x)) > 1
    <2>1. x < 10 => Decimal(x) = << x >> /\ Len(Decimal(x)) = 1
        BY DecimalRule
    <2>2. ASSUME x >= 10
          PROVE  Len(Decimal(x)) > 1
        <3>1. x \div 10 \in Nat /\ x % 10 \in Nat
            BY <2>2, Tenth
        <3>2. Decimal(x \div 10) \in Seq(Nat) /\ Decimal(x) = Append(Decimal(x \div 10), x % 10)
            BY <2>2, <3>1, DecimalRule
        <3>3. Len(Decimal(x)) = Len(Decimal(x \div 10)) + 1
            BY <3>1, <3>2, AppendProperties
        <3>4. Decimal(x \div 10) # << >>
            <4>1. CASE x \div 10 < 10
                BY <3>1, <4>1, DecimalRule
            <4>2. CASE x \div 10 >= 10
                <5>1. (x \div 10) \div 10 \in Nat /\ (x \div 10) % 10 \in Nat
                    BY <3>1, <4>2, Tenth
                <5>2. /\ Decimal((x \div 10) \div 10) \in Seq(Nat)
                      /\ Decimal(x \div 10)
                            = Append(Decimal((x \div 10) \div 10), (x \div 10) % 10)
                    BY <3>1, <4>2, <5>1, DecimalRule
                <5> QED
                    BY <5>1, <5>2, AppendProperties
            <4> QED
                BY <3>1, <4>1, <4>2
        <3>5. Len(Decimal(x \div 10)) \in Nat /\ Len(Decimal(x \div 10)) # 0
            BY <3>2, <3>4, EmptySeq, LenProperties
        <3> QED
            BY <3>3, <3>5
    <2> QED
        BY <2>1, <2>2
<1>2. 0 \in S
    OBVIOUS
<1>3. ASSUME NEW n \in S
      PROVE  n + 1 \in S
    <2> SUFFICES ASSUME NEW x \in 0 .. n + 1, NEW y \in 0 .. n + 1, Decimal(x) = Decimal(y)
                 PROVE  x = y
        OBVIOUS
    <2>0. x \in Nat /\ y \in Nat
        OBVIOUS
    <2>1. CASE x < 10 /\ y < 10
        <3>1. << x >> = << y >>
            BY <1>1, <2>1
        <3> QED
            BY <3>1
    <2>2. CASE x >= 10 /\ y >= 10
        <3>1. /\ x \div 10 \in 0 .. n /\ y \div 10 \in 0 .. n
              /\ x \div 10 \in Nat /\ y \div 10 \in Nat
              /\ x % 10 \in Nat /\ y % 10 \in Nat
            BY <2>2, Tenth
        <3>2. /\ Decimal(x \div 10) \in Seq(Nat) /\ Decimal(y \div 10) \in Seq(Nat)
              /\ Append(Decimal(x \div 10), x % 10) = Append(Decimal(y \div 10), y % 10)
            BY <2>0, <2>2, <3>1, DecimalRule
        <3>3. Decimal(x \div 10) = Decimal(y \div 10) /\ x % 10 = y % 10
            BY <3>1, <3>2, AppendInjective
        <3>4. x \div 10 = y \div 10
            BY <3>1, <3>3
        <3> QED
            BY <2>2, <3>3, <3>4
    <2>3. CASE x < 10 /\ y >= 10
        <3>1. Len(Decimal(x)) = 1 /\ Len(Decimal(y)) > 1
            BY <1>1, <2>0, <2>3
        <3> QED
            BY <3>1
    <2>4. CASE x >= 10 /\ y < 10
        <3>1. Len(Decimal(x)) > 1 /\ Len(Decimal(y)) = 1
            BY <1>1, <2>0, <2>4
        <3> QED
            BY <3>1
    <2> QED
        BY <2>0, <2>1, <2>2, <2>3, <2>4
<1> HIDE DEF S
<1>4. S = Nat
    <2>1. S \in SUBSET Nat
        BY DEF S
    <2> QED
        BY <1>2, <1>3, <2>1, NumberInduction
<1>5. a + b \in S
    BY <1>4
<1> QED
    BY <1>5 DEF S

\* The id of a thread is a name, and names none but the thread when the indices are digits.
LEMMA ThreadIdType ==
    ASSUME NEW task \in Nat, NEW index \in Nat
    PROVE  ThreadId(task, index) \in Seq(Nat)
BY DecimalRule, ConcatProperties DEF ThreadId

\* The last digit of an id is the index of the thread, the others are the task.
LEMMA ThreadIdDiffers ==
    ASSUME NEW s \in Nat, NEW j \in 0 .. 9, NEW t \in Nat, NEW k \in 0 .. 9,
           ThreadId(s, j) = ThreadId(t, k)
    PROVE  s = t /\ j = k
<1>1. ASSUME NEW n \in Nat, NEW d \in 0 .. 9
      PROVE  ThreadId(n, d) = Append(Decimal(n), d)
    <2>1. d \in Nat /\ d < 10
        OBVIOUS
    <2>2. Decimal(d) = << d >> /\ Decimal(n) \in Seq(Nat)
        BY <2>1, DecimalRule
    <2> QED
        BY <2>1, <2>2, AppendIsConcat DEF ThreadId
<1>2. /\ Decimal(s) \in Seq(Nat) /\ Decimal(t) \in Seq(Nat) /\ j \in Nat /\ k \in Nat
      /\ Append(Decimal(s), j) = Append(Decimal(t), k)
    <2>1. ThreadId(s, j) = Append(Decimal(s), j) /\ ThreadId(t, k) = Append(Decimal(t), k)
        BY <1>1
    <2>2. j \in Nat /\ k \in Nat
        OBVIOUS
    <2> QED
        BY <2>1, <2>2, DecimalRule
<1>3. Decimal(s) = Decimal(t) /\ j = k
    BY <1>2, AppendInjective
<1> QED
    BY <1>3, DecimalDiffers

\* docker's filter finds the container with the name itself.
LEMMA MatchesItself ==
    ASSUME NEW id \in Seq(Nat)
    PROVE  Matches(id, id)
BY LenProperties DEF Matches, IsPrefix

-----------------------------------------------------------------------------
\* splitFrames deals out the frames before anything is rendered, and rendering leaves
\* them alone.
LEMMA RenderSplits == RenderSpec => []SplitInv
<1>1. RenderInit => SplitInv
    BY InitSplitInv DEF RenderInit
<1>2. SplitInv /\ [RenderNext]_<< vars, renderVars >> => SplitInv'
    <2> SUFFICES ASSUME SplitInv, [RenderNext]_<< vars, renderVars >>
                 PROVE  SplitInv'
        OBVIOUS
    <2>1. CASE Deal
        BY <2>1, IterateSplitInv DEF Deal
    <2>2. CASE UNCHANGED vars
        BY <2>2 DEF vars, SplitInv, HandedOut, RemainderAtStart, FramesPerThread, TotalFrames,
            Size
    <2> QED
        BY <2>1, <2>2 DEF RenderNext, Render
<1> QED
    BY <1>1, <1>2, PTL DEF RenderSpec

\* GenerateThreads: no two threads of tasks with at most ten threads have the same id,
\* whatever the tasks are numbered.
THEOREM IdsOfThreadsDiffer == RenderSpec => []ThreadIdsDiffer
<1>1. SplitInv => ThreadIdsDiffer
    <2> SUFFICES ASSUME SplitInv, input.threads <= 10,
                        NEW k \in ThreadKeys, NEW l \in ThreadKeys,
                        ThreadId(k[1], k[2]) = ThreadId(l[1], l[2])
                 PROVE  k = l
        BY DEF ThreadIdsDiffer
    <2>1. Len(result) <= 10 /\ Len(result) \in Nat
        BY LoopConstants DEF SplitInv
    <2>2. /\ k = << k[1], k[2] >> /\ k[1] \in Nat /\ k[2] \in 0 .. 9
          /\ l = << l[1], l[2] >> /\ l[1] \in Nat /\ l[2] \in 0 .. 9
        <3>1. 0 .. Len(result) - 1 \subseteq 0 .. 9
            BY <2>1
        <3>2. k \in TaskIds \X (0 .. 9) /\ l \in TaskIds \X (0 .. 9) /\ TaskIds \subseteq Nat
            BY <3>1, RenderAssumption DEF ThreadKeys
        <3>3. /\ k = << k[1], k[2] >> /\ k[1] \in TaskIds /\ k[2] \in 0 .. 9
              /\ l = << l[1], l[2] >> /\ l[1] \in TaskIds /\ l[2] \in 0 .. 9
            BY <3>2
        <3> QED
            BY <3>2, <3>3
    <2>3. k[1] = l[1] /\ k[2] = l[2]
        BY <2>2, ThreadIdDiffers
    <2> QED
        BY <2>2, <2>3
<1> QED
    BY <1>1, RenderSplits, PTL

-----------------------------------------------------------------------------
(* The invariant. *)

Started(g) == ~At(g, "new")

\* renderVideoFrame has been called and has not returned.
InFrame == { "check", "run", "wait", "waiting", "logs", "rm", "stat" }

WorkRecords == [thread : ThreadKeys \cup {<< >>}, frame : Int, pc : Places]
Containers  == [frame : Int, by : Goroutines, running : BOOLEAN]

TypeInv ==
    /\ work \in [Goroutines -> WorkRecords]
    /\ \A g \in Goroutines : Started(g) => work[g].thread \in ThreadKeys
    /\ DOMAIN container \subseteq Ids
    /\ \A n \in DOMAIN container : container[n] \in Containers
    /\ DOMAIN output = Ids
    /\ \A g \in Goroutines :
        At(g, "waiting") => Id(g) \in DOMAIN container /\ container[Id(g)].running

\* Nothing is rendered before the frames are dealt out.
DealInv ==
    ~Done => /\ container = << >>
             /\ \A n \in Ids : output[n] = {}
             /\ \A g \in Goroutines : ~Started(g)

\* The frames of the thread a goroutine renders.
Frames(g) == RangeSet(work[g].thread)

\* The frame a goroutine renders is one of its thread.
FrameInv ==
    \A g \in Goroutines : work[g].pc \in InFrame => work[g].frame \in Frames(g)

\* A container was begun by a goroutine in RenderVideo, under the id and for a frame of
\* its thread.  If its calls succeed, the goroutine is in the call that began the
\* container, and has not got past docker wait while the container runs.
OwnInv(n) ==
    LET g == container[n].by IN
    /\ Loops(g) /\ Id(g) = n
    /\ container[n].frame \in Frames(g)
    /\ g \notin Unlucky =>
        /\ work[g].pc \in { "wait", "waiting", "logs", "rm" }
        /\ container[n].frame = work[g].frame
        /\ work[g].pc \in { "logs", "rm" } => ~container[n].running

ContainerInv == \A n \in DOMAIN container : OwnInv(n)

\* A frame was saved for a goroutine that renders a thread of this id with the frame.
OutputInv ==
    \A n \in Ids : \A f \in output[n] :
        \E g \in Goroutines : Started(g) /\ Id(g) = n /\ f \in Frames(g)

\* No other goroutine has a container that stands in the way of this one's.
Alone(g) == \A h \in Goroutines \ {g} : Started(h) => ~Matches(Id(g), Id(h))

\* The frames the loop of RenderVideo has left behind.
Passed(g) ==
    { f \in Frames(g) :
        IF IsReversed(g) THEN f > work[g].frame ELSE f < work[g].frame }

IsRunning(n) == n \in DOMAIN container /\ container[n].running

\* What is in the directory of a goroutine that is alone: the frames it has passed, and
\* the one it renders once the container has exited.
Progress(g) ==
    /\ work[g].pc \in {"start", "clean"} => output[Id(g)] = {}
    /\ work[g].pc \in InFrame =>
        /\ Passed(g) \subseteq output[Id(g)]
        /\ output[Id(g)] \subseteq Passed(g) \cup {work[g].frame}
    /\ work[g].pc \in {"logs", "rm", "stat"} \/ (At(g, "wait") /\ ~IsRunning(Id(g))) =>
        work[g].frame \in output[Id(g)]
    /\ work[g].pc \in {"count", "whole", "short"} => output[Id(g)] = Frames(g)
    /\ At(g, "short") => Frames(g) = {}

AloneInv == \A g \in Goroutines \ Unlucky : Started(g) /\ Alone(g) => Progress(g)

RenderInv ==
    SplitInv /\ TypeInv /\ DealInv /\ FrameInv /\ ContainerInv /\ OutputInv /\ AloneInv

-----------------------------------------------------------------------------
(* What a step of a goroutine changes. *)

\* Goroutine g goes on at p with frame f; its thread and the others stay what they are.
Moves(g, f, p) ==
    work' = [work EXCEPT ![g] = [thread |-> work[g].thread, frame |-> f, pc |-> p]]

\* Containers are removed that do not run: docker rm, --rm, or nothing.
Shrinks ==
    /\ DOMAIN container' \subseteq DOMAIN container
    /\ \A n \in DOMAIN container' : container'[n] = container[n]
    /\ \A n \in DOMAIN container : container[n].running => n \in DOMAIN container'

\* Goto and LoopFrom move a goroutine.
LEMMA GotoMoves ==
    ASSUME TypeInv, NEW g \in Goroutines, NEW p, Goto(g, p)
    PROVE  Moves(g, work[g].frame, p)
<1>1. work[g] \in WorkRecords
    BY DEF TypeInv
<1>2. [work[g] EXCEPT !.pc = p] = [thread |-> work[g].thread, frame |-> work[g].frame, pc |-> p]
    BY <1>1 DEF WorkRecords
<1> QED
    BY <1>2 DEF Goto, Moves

\* So does the loop of RenderVideo, to the next frame or to the end.
LEMMA LoopMoves ==
    ASSUME TypeInv, NEW g \in Goroutines, NEW f, LoopFrom(g, f)
    PROVE  Moves(g, f, IF IsPast(g, f) THEN "count" ELSE "check")
<1>1. work[g] \in WorkRecords
    BY DEF TypeInv
<1> DEFINE p == IF IsPast(g, f) THEN "count" ELSE "check"
<1>2. [work[g] EXCEPT !.frame = f, !.pc = p]
        = [thread |-> work[g].thread, frame |-> f, pc |-> p]
    <2>1. PICK r : r = [work[g] EXCEPT !.frame = f]
        OBVIOUS
    <2>2. /\ r \in [thread : ThreadKeys \cup {<< >>}, frame : {f}, pc : Places]
          /\ r.thread = work[g].thread
        BY <1>1, <2>1 DEF WorkRecords
    <2> HIDE DEF p
    <2>3. [r EXCEPT !.pc = p] = [thread |-> work[g].thread, frame |-> f, pc |-> p]
        BY <2>2
    <2>4. [work[g] EXCEPT !.frame = f, !.pc = p] = [r EXCEPT !.pc = p]
        BY <2>1
    <2> QED
        BY <2>3, <2>4
<1>3. work' = [work EXCEPT ![g] = [work[g] EXCEPT !.frame = f, !.pc = p]]
    <2>1. work' = [work EXCEPT ![g].frame = f, ![g].pc = p]
        BY DEF LoopFrom
    <2> HIDE DEF p
    <2> QED
        BY <1>1, <2>1 DEF TypeInv
<1> QED
    BY <1>2, <1>3 DEF Moves

\* What a move makes of the goroutines.
LEMMA MovedWork ==
    ASSUME TypeInv, NEW g \in Goroutines, NEW f, NEW p, Moves(g, f, p)
    PROVE  /\ DOMAIN work' = Goroutines
           /\ work'[g] = [thread |-> work[g].thread, frame |-> f, pc |-> p]
           /\ work'[g].thread = work[g].thread /\ work'[g].frame = f /\ work'[g].pc = p
           /\ \A h \in Goroutines \ {g} : work'[h] = work[h]
           /\ \A h \in Goroutines : work'[h].thread = work[h].thread
BY DEF TypeInv, Moves

\* docker rm takes at most a container that has exited.
LEMMA RemovingShrinks ==
    ASSUME NEW n, container' = WithoutExited(n)
    PROVE  /\ Shrinks
           /\ n \in DOMAIN container' => container[n].running
BY DEF WithoutExited, Shrinks

\* A call of docker rm that succeeds leaves no container that has exited.
LEMMA RemoveContainerShrinks ==
    ASSUME NEW g, RemoveContainer(g)
    PROVE  /\ Shrinks
           /\ ~Fails(g) /\ Id(g) \in DOMAIN container' => container[Id(g)].running
<1>1. CASE container' = WithoutExited(Id(g))
    BY <1>1, RemovingShrinks
<1>2. CASE container' = container /\ Fails(g)
    BY <1>2 DEF Shrinks
<1> QED
    BY <1>1, <1>2 DEF RemoveContainer

\* The threads, their ids and their frames do not change once they are dealt out.
LEMMA Dealt ==
    ASSUME UNCHANGED vars
    PROVE  /\ ThreadKeys' = ThreadKeys /\ Ids' = Ids /\ Done' = Done
           /\ \A k : FrameRange(k)' = FrameRange(k)
           /\ \A k : RangeSet(k)' = RangeSet(k)
BY DEF vars, ThreadKeys, Ids, Done, FrameRange, RangeSet

\* The frames of a thread are numbers between its first and its last.
LEMMA FramesOfThread ==
    ASSUME SplitInv, NEW k \in ThreadKeys
    PROVE  /\ FrameRange(k).start \in Int /\ FrameRange(k).end \in Int
           /\ IsFiniteSet(RangeSet(k))
           /\ RangeSet(k) # {} => Cardinality(RangeSet(k)) = Size(FrameRange(k))
           /\ ThreadId(k[1], k[2]) \in Ids /\ ThreadId(k[1], k[2]) \in Seq(Nat)
<1>1. result \in Seq(Ranges) /\ Len(result) \in Nat
    BY DEF SplitInv
<1>2. k[1] \in TaskIds /\ k[2] \in 0 .. Len(result) - 1
    BY DEF ThreadKeys
<1>3. k[2] + 1 \in 1 .. Len(result) /\ k[2] \in Nat /\ k[1] \in Nat
    <2>1. k[1] \in Nat
        BY <1>2, RenderAssumption
    <2>2. k[2] + 1 \in 1 .. Len(result) /\ k[2] \in Nat
        BY <1>1, <1>2
    <2> QED
        BY <2>1, <2>2
<1>4. FrameRange(k) \in Ranges
    BY <1>1, <1>3, ElementOfSeq DEF FrameRange
<1>5. FrameRange(k).start \in Int /\ FrameRange(k).end \in Int
    BY <1>4 DEF Ranges
<1>6. /\ IsFiniteSet(RangeSet(k))
      /\ Cardinality(RangeSet(k)) = IF FrameRange(k).start > FrameRange(k).end THEN 0
                                    ELSE FrameRange(k).end - FrameRange(k).start + 1
    BY <1>5, FS_Interval DEF RangeSet
<1>7. RangeSet(k) # {} => FrameRange(k).start <= FrameRange(k).end
    BY <1>5 DEF RangeSet
<1>8. ThreadId(k[1], k[2]) \in Ids
    BY <1>2 DEF Ids
<1>9. ThreadId(k[1], k[2]) \in Seq(Nat)
    BY <1>3, ThreadIdType
<1> QED
    BY <1>5, <1>6, <1>7, <1>8, <1>9 DEF Size

\* What a goroutine whose thread stays the same knows of it.
LEMMA ThreadStays ==
    ASSUME UNCHANGED vars, NEW g, work'[g].thread = work[g].thread
    PROVE  /\ Id(g)' = Id(g) /\ IsReversed(g)' = IsReversed(g) /\ Frames(g)' = Frames(g)
           /\ FrameRange(work[g].thread)' = FrameRange(work[g].thread)
BY DEF vars, Id, IsReversed, Frames, RangeSet, FrameRange

\* Who is alone after a step was alone before it, if no goroutine that has begun changes
\* its thread.
LEMMA AloneBefore ==
    ASSUME UNCHANGED vars, NEW g \in Goroutines, work'[g].thread = work[g].thread,
           \A h \in Goroutines : Started(h) => Started(h)' /\ work'[h].thread = work[h].thread,
           Alone(g)'
    PROVE  Alone(g)
<1> SUFFICES ASSUME NEW h \in Goroutines \ {g}, Started(h)
             PROVE  ~Matches(Id(g), Id(h))
    BY DEF Alone
<1>1. Started(h)' /\ ~Matches(Id(g)', Id(h)')
    BY DEF Alone
<1>2. Id(g)' = Id(g) /\ Id(h)' = Id(h)
    BY ThreadStays
<1> QED
    BY <1>1, <1>2

\* A goroutine that is alone, does not move and whose directory and container stay the
\* same has done what it had done.
LEMMA ProgressStays ==
    ASSUME UNCHANGED vars, NEW g, work'[g] = work[g], output'[Id(g)] = output[Id(g)],
           IsRunning(Id(g))' = IsRunning(Id(g)), Progress(g)
    PROVE  Progress(g)'
<1>1. Id(g)' = Id(g) /\ IsReversed(g)' = IsReversed(g) /\ Frames(g)' = Frames(g)
    BY ThreadStays
<1>2. Passed(g)' = Passed(g)
    BY <1>1 DEF Passed
<1>3. IsRunning(Id(g))' = IsRunning(Id(g)) /\ output[Id(g)]' = output[Id(g)]
    BY <1>1
<1> QED
    BY <1>1, <1>2, <1>3 DEF Progress, At, InFrame

-----------------------------------------------------------------------------
(* Steps of a goroutine that begin no container. *)

\* Goroutine g goes on, containers that do not run may be removed and no frame is saved.
\* What the rest of the invariant asks of where g goes on is in the assumptions.
LEMMA QuietStep ==
    ASSUME RenderInv, UNCHANGED vars, Done, UNCHANGED output, Shrinks,
           NEW g \in Goroutines, Started(g),
           NEW f \in Int, NEW p \in Places, p # "new", Moves(g, f, p),
           p = "waiting" => IsRunning(Id(g)),
           Loops(g) => p \notin {"start", "busy", "clean", "failed"},
           p \in InFrame => f \in Frames(g),
           g \notin Unlucky =>
                \A n \in DOMAIN container' : container[n].by = g =>
                    /\ p \in { "wait", "waiting", "logs", "rm" }
                    /\ f = work[g].frame
                    /\ p \in { "logs", "rm" } => ~container[n].running,
           g \notin Unlucky /\ Alone(g) => Progress(g)'
    PROVE  RenderInv'
<1> USE DEF RenderInv
<1>1. /\ DOMAIN work' = Goroutines
      /\ work'[g] = [thread |-> work[g].thread, frame |-> f, pc |-> p]
      /\ work'[g].thread = work[g].thread /\ work'[g].frame = f /\ work'[g].pc = p
      /\ \A h \in Goroutines \ {g} : work'[h] = work[h]
      /\ \A h \in Goroutines : work'[h].thread = work[h].thread
    BY MovedWork
<1>2. \A h \in Goroutines : Started(h)' <=> Started(h)
    BY <1>1 DEF Started, At
<1>3. \A h \in Goroutines : Id(h)' = Id(h) /\ Frames(h)' = Frames(h)
    BY <1>1, ThreadStays
<1>4. ThreadKeys' = ThreadKeys /\ Ids' = Ids /\ Done'
    BY Dealt
<1>5. SplitInv'
    BY DEF vars, SplitInv, HandedOut, RemainderAtStart, FramesPerThread, TotalFrames, Size
<1>6. TypeInv'
    <2>1. WorkRecords' = WorkRecords
        BY <1>4 DEF WorkRecords
    <2>2. \A h \in Goroutines : work[h] \in WorkRecords
        BY DEF TypeInv
    <2>3. work'[g] \in WorkRecords
        BY <1>1, <2>2 DEF WorkRecords
    <2>4. work' \in [Goroutines -> WorkRecords']
        BY <1>1, <2>1, <2>2, <2>3 DEF TypeInv, Moves
    <2>5. \A h \in Goroutines : Started(h)' => work'[h].thread \in ThreadKeys'
        BY <1>1, <1>2, <1>4 DEF TypeInv
    <2>6. DOMAIN container' \subseteq Ids' /\ \A n \in DOMAIN container' : container'[n] \in Containers
        BY <1>4 DEF TypeInv, Shrinks
    <2>7. ASSUME NEW h \in Goroutines, At(h, "waiting")'
          PROVE  Id(h)' \in DOMAIN container' /\ container'[Id(h)'].running
        <3>1. Id(h) \in DOMAIN container /\ container[Id(h)].running
            BY <1>1, <2>7 DEF TypeInv, At, IsRunning
        <3> QED
            BY <1>3, <3>1 DEF Shrinks
    <2> QED
        BY <1>4, <2>4, <2>5, <2>6, <2>7 DEF TypeInv, Containers
<1>7. DealInv'
    BY <1>4 DEF DealInv
<1>8. FrameInv'
    BY <1>1, <1>3 DEF FrameInv
<1>9. ContainerInv'
    <2> SUFFICES ASSUME NEW n \in DOMAIN container'
                 PROVE  OwnInv(n)'
        BY DEF ContainerInv
    <2>1. container'[n] = container[n] /\ n \in DOMAIN container /\ OwnInv(n)
        BY DEF Shrinks, ContainerInv
    <2>2. PICK h \in Goroutines : h = container[n].by /\ container'[n].by = h
        BY <2>1 DEF TypeInv, Containers
    <2>3. Loops(h)' /\ Id(h)' = n /\ container'[n].frame \in Frames(h)'
        BY <1>1, <1>3, <2>1, <2>2 DEF OwnInv, Loops
    <2>4. h \notin Unlucky =>
            /\ work'[h].pc \in { "wait", "waiting", "logs", "rm" }
            /\ container'[n].frame = work'[h].frame
            /\ work'[h].pc \in { "logs", "rm" } => ~container'[n].running
        <3>1. CASE h = g
            BY <1>1, <2>1, <2>2, <3>1 DEF OwnInv
        <3>2. CASE h # g
            BY <1>1, <2>1, <2>2, <3>2 DEF OwnInv
        <3> QED
            BY <3>1, <3>2
    <2> QED
        BY <2>2, <2>3, <2>4 DEF OwnInv, Loops, Id, Frames, RangeSet, FrameRange
<1>10. OutputInv'
    BY <1>2, <1>3, <1>4 DEF OutputInv
<1>11. AloneInv'
    <2> SUFFICES ASSUME NEW h \in Goroutines \ Unlucky, Started(h)', Alone(h)'
                 PROVE  Progress(h)'
        BY DEF AloneInv
    <2>1. Started(h) /\ Alone(h)
        BY <1>1, <1>2, AloneBefore
    <2>2. CASE h = g
        BY <2>1, <2>2
    <2>3. CASE h # g
        <3>1. Progress(h) /\ work'[h] = work[h]
            BY <1>1, <2>1, <2>3 DEF AloneInv
        <3>2. IsRunning(Id(h))' = IsRunning(Id(h))
            <4>1. IsRunning(Id(h))' <=> IsRunning(Id(h))
                BY <1>3 DEF IsRunning, Shrinks
            <4>2. IsRunning(Id(h))' \in BOOLEAN /\ IsRunning(Id(h)) \in BOOLEAN
                BY DEF IsRunning
            <4> QED
                BY <4>1, <4>2
        <3> QED
            BY <3>1, <3>2, ProgressStays
    <2> QED
        BY <2>2, <2>3
<1> QED
    BY <1>5, <1>6, <1>7, <1>8, <1>9, <1>10, <1>11

\* A goroutine whose calls succeed has a container only while it is in the call that
\* began it.
LEMMA NoOwnContainer ==
    ASSUME RenderInv, NEW g \in Goroutines \ Unlucky,
           work[g].pc \notin { "wait", "waiting", "logs", "rm" },
           NEW n \in DOMAIN container
    PROVE  container[n].by # g
BY DEF RenderInv, ContainerInv, OwnInv

\* For a goroutine that is alone, the only container the filter finds is its own.
LEMMA AloneFinds ==
    ASSUME RenderInv, NEW g \in Goroutines, Started(g), Alone(g), NEW n \in DOMAIN container,
           n = Id(g) \/ Matches(Id(g), n)
    PROVE  container[n].by = g
<1>1. work[g].thread \in ThreadKeys /\ container[n].by \in Goroutines
    BY DEF RenderInv, TypeInv, Containers
<1>2. Id(g) \in Seq(Nat)
    BY <1>1, FramesOfThread DEF RenderInv, Id
<1>3. Matches(Id(g), n)
    BY <1>2, MatchesItself
<1>4. Started(container[n].by) /\ Id(container[n].by) = n
    BY DEF RenderInv, ContainerInv, OwnInv, Loops, Started, At
<1> QED
    BY <1>1, <1>3, <1>4 DEF Alone

\* The frames behind frame f.
Behind(g, f) == { x \in Frames(g) : IF IsReversed(g) THEN x > f ELSE x < f }

\* The numbers the loop of RenderVideo starts with, passes and ends with.
LEMMA LoopNumbers ==
    ASSUME RenderInv, NEW g \in Goroutines, Started(g)
    PROVE  /\ work[g].frame \in Int /\ NextFrame(g) \in Int /\ FrameToBegin(g) \in Int
           /\ ~IsPast(g, FrameToBegin(g)) => FrameToBegin(g) \in Frames(g)
           /\ Behind(g, FrameToBegin(g)) = {}
           /\ work[g].frame \in Frames(g) =>
                /\ ~IsPast(g, NextFrame(g)) => NextFrame(g) \in Frames(g)
                /\ Behind(g, NextFrame(g)) = Passed(g) \cup {work[g].frame}
           /\ \A f \in Int : IsPast(g, f) => Behind(g, f) = Frames(g)
<1> DEFINE range == FrameRange(work[g].thread)
<1>1. work[g].thread \in ThreadKeys /\ work[g].frame \in Int
    BY DEF RenderInv, TypeInv, WorkRecords
<1>2. range.start \in Int /\ range.end \in Int /\ Frames(g) = range.start .. range.end
    BY <1>1, FramesOfThread DEF RenderInv, Frames, RangeSet
<1>3. NextFrame(g) \in Int /\ FrameToBegin(g) \in Int
    BY <1>1, <1>2 DEF NextFrame, FrameToBegin
<1>4. ~IsPast(g, FrameToBegin(g)) => FrameToBegin(g) \in Frames(g)
    BY <1>2 DEF IsPast, FrameToBegin
<1>5. Behind(g, FrameToBegin(g)) = {}
    BY <1>2 DEF Behind, FrameToBegin
<1>6. ASSUME work[g].frame \in Frames(g)
      PROVE  /\ ~IsPast(g, NextFrame(g)) => NextFrame(g) \in Frames(g)
             /\ Behind(g, NextFrame(g)) = Passed(g) \cup {work[g].frame}
    BY <1>1, <1>2, <1>6 DEF IsPast, NextFrame, Behind, Passed
<1>7. ASSUME NEW f \in Int, IsPast(g, f)
      PROVE  Behind(g, f) = Frames(g)
    BY <1>2, <1>7 DEF IsPast, Behind
<1> QED
    BY <1>1, <1>3, <1>4, <1>5, <1>6, <1>7

\* The loop of RenderVideo goes on with frame f.
LEMMA LoopStep ==
    ASSUME RenderInv, UNCHANGED vars, Done, UNCHANGED output, Shrinks,
           NEW g \in Goroutines, Started(g), NEW f \in Int, LoopFrom(g, f),
           ~IsPast(g, f) => f \in Frames(g),
           g \notin Unlucky => \A n \in DOMAIN container' : container[n].by # g,
           g \notin Unlucky /\ Alone(g) => output[Id(g)] = Behind(g, f)
    PROVE  RenderInv'
<1>0. PICK p \in {"count", "check"} : p = IF IsPast(g, f) THEN "count" ELSE "check"
    OBVIOUS
<1>1. Moves(g, f, p)
    BY <1>0, LoopMoves DEF RenderInv
<1>2. p \in Places /\ p # "new" /\ p # "waiting"
    BY DEF Places
<1>3. (p \in InFrame => f \in Frames(g)) /\ (p = "count" => IsPast(g, f))
    BY <1>0 DEF InFrame
<1>4. ASSUME g \notin Unlucky /\ Alone(g)
      PROVE  Progress(g)'
    <2>1. work'[g].thread = work[g].thread /\ work'[g].frame = f /\ work'[g].pc = p
        BY <1>1 DEF RenderInv, TypeInv, Moves
    <2>2. Id(g)' = Id(g) /\ Frames(g)' = Frames(g) /\ IsReversed(g)' = IsReversed(g)
        BY <2>1, ThreadStays
    <2>3. Passed(g)' = Behind(g, f) /\ output'[Id(g)'] = Behind(g, f)
        BY <1>4, <2>1, <2>2 DEF Passed, Behind
    <2>4. p = "count" => Behind(g, f) = Frames(g)
        BY <1>3, LoopNumbers
    <2> QED
        BY <1>2, <2>1, <2>2, <2>3, <2>4 DEF Progress, InFrame, At
<1>5. p \notin { "wait", "waiting", "logs", "rm" }
    OBVIOUS
<1> QED
    BY <1>1, <1>2, <1>3, <1>4, <1>5, QuietStep

\* renderVideoFrame returns, and the loop goes on.
LEMMA AdvanceStep ==
    ASSUME RenderInv, UNCHANGED vars, Done, UNCHANGED << container, output >>,
           NEW g \in Goroutines, work[g].pc \in InFrame, Advance(g),
           g \notin Unlucky => \A n \in DOMAIN container : container[n].by # g,
           g \notin Unlucky /\ Alone(g) => work[g].frame \in output[Id(g)]
    PROVE  RenderInv'
<1>1. Started(g) /\ work[g].frame \in Frames(g)
    BY DEF RenderInv, FrameInv, Started, At, InFrame
<1>2. /\ NextFrame(g) \in Int
      /\ ~IsPast(g, NextFrame(g)) => NextFrame(g) \in Frames(g)
      /\ Behind(g, NextFrame(g)) = Passed(g) \cup {work[g].frame}
    BY <1>1, LoopNumbers
<1>3. g \notin Unlucky /\ Alone(g) => output[Id(g)] = Behind(g, NextFrame(g))
    BY <1>1, <1>2 DEF RenderInv, AloneInv, Progress
<1>4. LoopFrom(g, NextFrame(g)) /\ Shrinks
    BY DEF Advance, Shrinks
<1> QED
    BY <1>1, <1>2, <1>3, <1>4, LoopStep

\* A call returns, and the goroutine goes on at p with the same frame.
LEMMA GotoStep ==
    ASSUME RenderInv, UNCHANGED vars, Done, UNCHANGED output, Shrinks,
           NEW g \in Goroutines, Started(g),
           NEW p \in Places \ {"new", "start", "count", "wait"}, Goto(g, p),
           p = "waiting" => IsRunning(Id(g)),
           Loops(g) => p \notin {"busy", "clean", "failed"},
           p \in InFrame => work[g].pc \in InFrame,
           g \notin Unlucky =>
                \A n \in DOMAIN container' : container[n].by = g =>
                    /\ p \in { "waiting", "logs", "rm" }
                    /\ p \in { "logs", "rm" } => ~container[n].running,
           g \notin Unlucky /\ Alone(g) =>
                /\ p = "clean" => output[Id(g)] = {}
                /\ p \in { "logs", "rm", "stat" } => work[g].frame \in output[Id(g)]
                /\ p \in { "whole", "short" } => output[Id(g)] = Frames(g)
                /\ p = "short" => Frames(g) = {}
    PROVE  RenderInv'
<1>0. PICK f \in Int : f = work[g].frame
    BY DEF RenderInv, TypeInv, WorkRecords
<1>1. Moves(g, f, p)
    BY <1>0, GotoMoves DEF RenderInv
<1>2. p \in InFrame => f \in Frames(g)
    BY <1>0 DEF RenderInv, FrameInv
<1>3. ASSUME g \notin Unlucky /\ Alone(g)
      PROVE  Progress(g)'
    <2>1. work'[g].thread = work[g].thread /\ work'[g].frame = f /\ work'[g].pc = p
        BY <1>1 DEF RenderInv, TypeInv, Moves
    <2>2. Id(g)' = Id(g) /\ Frames(g)' = Frames(g) /\ IsReversed(g)' = IsReversed(g)
        BY <2>1, ThreadStays
    <2>3. Passed(g)' = Passed(g) /\ output'[Id(g)'] = output[Id(g)]
        BY <1>0, <2>1, <2>2 DEF Passed
    <2>4. Progress(g)
        BY <1>3 DEF RenderInv, AloneInv
    <2>5. /\ p \in InFrame =>
                /\ Passed(g) \subseteq output[Id(g)]
                /\ output[Id(g)] \subseteq Passed(g) \cup {f}
          /\ p \in { "start", "clean" } => output[Id(g)] = {}
          /\ p \in { "logs", "rm", "stat" } => f \in output[Id(g)]
          /\ p # "wait"
          /\ p \in { "count", "whole", "short" } => output[Id(g)] = Frames(g)
          /\ p = "short" => Frames(g) = {}
        BY <1>0, <1>3, <2>4 DEF Progress
    <2> QED
        BY <2>1, <2>2, <2>3, <2>5 DEF Progress, At
<1>4. g \notin Unlucky =>
        \A n \in DOMAIN container' : container[n].by = g =>
            /\ p \in { "wait", "waiting", "logs", "rm" }
            /\ f = work[g].frame
            /\ p \in { "logs", "rm" } => ~container[n].running
    BY <1>0
<1> QED
    BY <1>1, <1>2, <1>3, <1>4, QuietStep DEF Places

-----------------------------------------------------------------------------
(* The calls of StartWork and renderVideoFrame, one by one. *)

\* IsContainerRunning.
LEMMA CheckRunningInv ==
    ASSUME RenderInv, UNCHANGED vars, Done, NEW g \in Goroutines, CheckRunning(g)
    PROVE  RenderInv'
<1>1. PICK p \in {"busy", "clean"} : Goto(g, p)
    BY DEF CheckRunning
<1>2. At(g, "start") /\ ~Loops(g) /\ Started(g) /\ UNCHANGED << container, output >> /\ Shrinks
    BY DEF CheckRunning, Loops, Started, At, Shrinks
<1>3. g \notin Unlucky => \A n \in DOMAIN container' : container[n].by # g
    BY <1>2, NoOwnContainer DEF At
<1>4. g \notin Unlucky /\ Alone(g) => output[Id(g)] = {}
    BY <1>2 DEF RenderInv, AloneInv, Progress, At
<1>5. p \in Places \ {"new", "start", "count", "wait"} /\ p \notin InFrame
    BY DEF Places, InFrame
<1> QED
    BY <1>1, <1>2, <1>3, <1>4, <1>5, GotoStep DEF InFrame

\* The container is removed and the loop begun.
LEMMA CleanInv ==
    ASSUME RenderInv, UNCHANGED vars, Done, NEW g \in Goroutines, Clean(g)
    PROVE  RenderInv'
<1>1. At(g, "clean") /\ Started(g) /\ UNCHANGED output /\ LoopFrom(g, FrameToBegin(g))
    BY DEF Clean, Started, At
<1>2. Shrinks
    BY RemoveContainerShrinks DEF Clean
<1>3. g \notin Unlucky => \A n \in DOMAIN container' : container[n].by # g
    BY <1>1, <1>2, NoOwnContainer DEF At, Shrinks
<1>4. g \notin Unlucky /\ Alone(g) => output[Id(g)] = Behind(g, FrameToBegin(g))
    BY <1>1, LoopNumbers DEF RenderInv, AloneInv, Progress, At
<1> QED
    BY <1>1, <1>2, <1>3, <1>4, LoopNumbers, LoopStep

\* The download fails.
LEMMA FailDownloadInv ==
    ASSUME RenderInv, UNCHANGED vars, Done, NEW g \in Goroutines, FailDownload(g)
    PROVE  RenderInv'
<1>1. At(g, "clean") /\ Started(g) /\ ~Loops(g) /\ UNCHANGED output /\ Goto(g, "failed")
    BY DEF FailDownload, Loops, Started, At
<1>2. Shrinks
    BY RemoveContainerShrinks DEF FailDownload
<1>3. g \in Unlucky
    BY DEF FailDownload, Fails
<1>4. PICK p \in Places \ {"new", "start", "count", "wait"} : p = "failed" /\ p \notin InFrame
    BY DEF Places, InFrame
<1> QED
    BY <1>1, <1>2, <1>3, <1>4, GotoStep

\* The files are counted.
LEMMA CountFramesInv ==
    ASSUME RenderInv, UNCHANGED vars, Done, NEW g \in Goroutines, CountFrames(g)
    PROVE  RenderInv'
<1>1. At(g, "count") /\ Started(g) /\ UNCHANGED << container, output >> /\ Shrinks
    BY DEF CountFrames, Started, At, Shrinks
<1>2. PICK p \in {"whole", "short"} :
        /\ Goto(g, p)
        /\ p = IF /\ output[Id(g)] # {}
                  /\ Cardinality(output[Id(g)]) = Size(FrameRange(work[g].thread))
               THEN "whole" ELSE "short"
    BY DEF CountFrames
<1>3. g \notin Unlucky => \A n \in DOMAIN container' : container[n].by # g
    BY <1>1, NoOwnContainer DEF At
<1>4. g \notin Unlucky /\ Alone(g) => output[Id(g)] = Frames(g)
    BY <1>1 DEF RenderInv, AloneInv, Progress, At
<1>5. work[g].thread \in ThreadKeys
    BY <1>1 DEF RenderInv, TypeInv
<1>6. Frames(g) # {} => Cardinality(Frames(g)) = Size(FrameRange(work[g].thread))
    BY <1>5, FramesOfThread DEF RenderInv, Frames
<1>7. g \notin Unlucky /\ Alone(g) /\ p = "short" => Frames(g) = {}
    BY <1>2, <1>4, <1>6
<1>8. p \in Places \ {"new", "start", "count", "wait"} /\ p \notin InFrame
    BY DEF Places, InFrame
<1> QED
    BY <1>1, <1>2, <1>3, <1>4, <1>7, <1>8, GotoStep DEF InFrame

\* docker ps.
LEMMA CheckContainerInv ==
    ASSUME RenderInv, UNCHANGED vars, Done, NEW g \in Goroutines, CheckContainer(g)
    PROVE  RenderInv'
<1>1. /\ work[g].pc = "check" /\ At(g, "check") /\ Started(g) /\ work[g].pc \in InFrame
      /\ UNCHANGED << container, output >> /\ Shrinks
    BY DEF CheckContainer, Started, At, Shrinks, InFrame
<1>2. g \notin Unlucky => \A n \in DOMAIN container : container[n].by # g
    BY <1>1, NoOwnContainer
<1>3. CASE Goto(g, "run")
    <2>1. "run" \in Places \ {"new", "start", "count", "wait"}
        BY DEF Places
    <2> QED
        BY <1>1, <1>2, <1>3, <2>1, GotoStep
<1>4. CASE (InTheWay(Id(g)) # {} \/ Fails(g)) /\ Advance(g)
    <2>1. ASSUME g \notin Unlucky, Alone(g)
          PROVE  FALSE
        <3>1. PICK n \in DOMAIN container : Matches(Id(g), n)
            BY <1>4, <2>1 DEF Fails, InTheWay
        <3>2. container[n].by = g
            BY <1>1, <2>1, <3>1, AloneFinds
        <3> QED
            BY <1>2, <2>1, <3>2
    <2> QED
        BY <1>1, <1>2, <1>4, <2>1, AdvanceStep
<1> QED
    BY <1>3, <1>4 DEF CheckContainer

\* docker run, when it begins a container.
LEMMA BeginContainerInv ==
    ASSUME RenderInv, UNCHANGED vars, Done, UNCHANGED output, NEW g \in Goroutines, At(g, "run"),
           Id(g) \notin DOMAIN container,
           container' = WithNew(Id(g), [frame |-> work[g].frame, by |-> g, running |-> TRUE]),
           Goto(g, "wait")
    PROVE  RenderInv'
<1> USE DEF RenderInv
<1>0. PICK f \in Int : f = work[g].frame
    BY DEF TypeInv, WorkRecords
<1> DEFINE new == [frame |-> f, by |-> g, running |-> TRUE]
<1>1. /\ DOMAIN work' = Goroutines
      /\ work'[g] = [thread |-> work[g].thread, frame |-> f, pc |-> "wait"]
      /\ work'[g].thread = work[g].thread /\ work'[g].frame = f /\ work'[g].pc = "wait"
      /\ \A h \in Goroutines \ {g} : work'[h] = work[h]
      /\ \A h \in Goroutines : work'[h].thread = work[h].thread
    BY <1>0, GotoMoves, MovedWork
<1>2. Started(g) /\ f \in Frames(g) /\ work[g].pc \in InFrame /\ \A h \in Goroutines : Started(h)' <=> Started(h)
    BY <1>0, <1>1 DEF Started, At, FrameInv, InFrame
<1>3. \A h \in Goroutines : Id(h)' = Id(h) /\ Frames(h)' = Frames(h)
    BY <1>1, ThreadStays
<1>4. ThreadKeys' = ThreadKeys /\ Ids' = Ids /\ Done'
    BY Dealt
<1>5. SplitInv'
    BY DEF vars, SplitInv, HandedOut, RemainderAtStart, FramesPerThread, TotalFrames, Size
<1>6. PICK id : id = Id(g)
    OBVIOUS
<1>7. /\ DOMAIN container' = DOMAIN container \cup {id}
      /\ container'[id] = new
      /\ \A n \in DOMAIN container : n # id /\ container'[n] = container[n]
    <2>1. container' = WithNew(id, new) /\ id \notin DOMAIN container
        BY <1>0, <1>6
    <2> HIDE DEF new
    <2> QED
        BY <2>1 DEF WithNew
<1>8. new \in Containers /\ new.by = g /\ new.frame = f /\ new.running
    BY DEF Containers
<1> HIDE DEF new
<1>9. TypeInv'
    <2>1. WorkRecords' = WorkRecords
        BY <1>4 DEF WorkRecords
    <2>2. \A h \in Goroutines : work[h] \in WorkRecords
        BY DEF TypeInv
    <2>3. work'[g] \in WorkRecords
        <3>1. "wait" \in Places
            BY DEF Places
        <3> QED
            BY <1>1, <2>2, <3>1 DEF WorkRecords
    <2>4. work' \in [Goroutines -> WorkRecords']
        BY <1>1, <2>1, <2>2, <2>3 DEF TypeInv, Goto
    <2>5. \A h \in Goroutines : Started(h)' => work'[h].thread \in ThreadKeys'
        BY <1>1, <1>2, <1>4 DEF TypeInv
    <2>6. id \in Ids
        BY <1>2, <1>6, FramesOfThread DEF TypeInv, Id
    <2>7. DOMAIN container' \subseteq Ids' /\ \A n \in DOMAIN container' : container'[n] \in Containers
        BY <1>4, <1>7, <1>8, <2>6 DEF TypeInv
    <2>8. ASSUME NEW h \in Goroutines, At(h, "waiting")'
          PROVE  Id(h)' \in DOMAIN container' /\ container'[Id(h)'].running
        <3>1. Id(h) \in DOMAIN container /\ container[Id(h)].running
            BY <1>1, <2>8 DEF TypeInv, At
        <3> QED
            BY <1>3, <1>7, <3>1
    <2> QED
        BY <1>4, <2>4, <2>5, <2>7, <2>8 DEF TypeInv, Containers
<1>10. DealInv' /\ FrameInv'
    BY <1>1, <1>2, <1>3, <1>4 DEF DealInv, FrameInv
<1>11. ContainerInv'
    <2> SUFFICES ASSUME NEW n \in DOMAIN container'
                 PROVE  OwnInv(n)'
        BY DEF ContainerInv
    <2>1. PICK h : h = container'[n].by
        OBVIOUS
    <2>2. /\ h \in Goroutines /\ Loops(h)' /\ Id(h)' = n /\ container'[n].frame \in Frames(h)'
          /\ h \notin Unlucky =>
                /\ work'[h].pc \in { "wait", "waiting", "logs", "rm" }
                /\ container'[n].frame = work'[h].frame
                /\ work'[h].pc \in { "logs", "rm" } => ~container'[n].running
        <3>1. CASE n = id
            BY <1>1, <1>2, <1>3, <1>6, <1>7, <1>8, <2>1, <3>1 DEF Loops
        <3>2. CASE n # id
            <4>1. container'[n] = container[n] /\ n \in DOMAIN container /\ OwnInv(n)
                BY <1>7, <3>2 DEF ContainerInv
            <4>2. h \in Goroutines /\ h = container[n].by /\ h # g
                BY <1>6, <2>1, <3>2, <4>1 DEF TypeInv, Containers, OwnInv
            <4> QED
                BY <1>1, <1>2, <1>3, <4>1, <4>2 DEF OwnInv, Loops
        <3> QED
            BY <3>1, <3>2
    <2> QED
        BY <2>1, <2>2 DEF OwnInv, Loops, Id, Frames, RangeSet, FrameRange
<1>12. OutputInv'
    BY <1>2, <1>3, <1>4 DEF OutputInv
<1>13. AloneInv'
    <2> SUFFICES ASSUME NEW h \in Goroutines \ Unlucky, Started(h)', Alone(h)'
                 PROVE  Progress(h)'
        BY DEF AloneInv
    <2>1. Started(h) /\ Alone(h) /\ Progress(h)
        BY <1>1, <1>2, AloneBefore DEF AloneInv
    <2>2. CASE h = g
        <3>1. Id(g)' = id /\ Frames(g)' = Frames(g) /\ IsReversed(g)' = IsReversed(g)
            BY <1>1, <1>6, ThreadStays
        <3>2. Passed(g)' = Passed(g) /\ output'[Id(g)'] = output[Id(g)]
            BY <1>0, <1>1, <1>6, <3>1 DEF Passed
        <3>3. Passed(g) \subseteq output[Id(g)] /\ output[Id(g)] \subseteq Passed(g) \cup {f}
            BY <1>0, <1>2, <2>1, <2>2 DEF Progress
        <3>4. IsRunning(id)'
            BY <1>7, <1>8 DEF IsRunning
        <3> QED
            BY <1>1, <2>2, <3>1, <3>2, <3>3, <3>4 DEF Progress, At, IsRunning
    <2>3. CASE h # g
        <3>1. work'[h] = work[h] /\ Id(h) # id
            <4>1. ~Matches(Id(h), Id(g)) /\ Id(h) \in Seq(Nat)
                BY <1>2, <2>1, <2>3, FramesOfThread DEF Alone, TypeInv, Id
            <4> QED
                BY <1>1, <1>6, <2>3, <4>1, MatchesItself
        <3>2. IsRunning(Id(h))' = IsRunning(Id(h))
            <4>1. IsRunning(Id(h))' <=> IsRunning(Id(h))
                BY <1>3, <1>7, <3>1 DEF IsRunning
            <4>2. IsRunning(Id(h))' \in BOOLEAN /\ IsRunning(Id(h)) \in BOOLEAN
                BY DEF IsRunning
            <4> QED
                BY <4>1, <4>2
        <3> QED
            BY <2>1, <3>1, <3>2, ProgressStays
    <2> QED
        BY <2>2, <2>3
<1> QED
    BY <1>5, <1>9, <1>10, <1>11, <1>12, <1>13

\* docker run begins a container, or fails because there is one of the name.
LEMMA RunContainerInv ==
    ASSUME RenderInv, UNCHANGED vars, Done, NEW g \in Goroutines, RunContainer(g)
    PROVE  RenderInv'
<1>1. CASE /\ Id(g) \notin DOMAIN container
           /\ container' = WithNew(Id(g), [frame |-> work[g].frame, by |-> g, running |-> TRUE])
           /\ Goto(g, "wait")
    BY <1>1, BeginContainerInv DEF RunContainer
<1>2. CASE (Id(g) \in DOMAIN container \/ Fails(g)) /\ Advance(g) /\ UNCHANGED container
    <2>1. work[g].pc \in InFrame /\ Started(g) /\ UNCHANGED output
        BY DEF RunContainer, At, Started, InFrame
    <2>2. g \notin Unlucky => \A n \in DOMAIN container : container[n].by # g
        BY NoOwnContainer DEF RunContainer, At
    <2>3. ASSUME g \notin Unlucky, Alone(g)
          PROVE  FALSE
        <3>1. Id(g) \in DOMAIN container
            BY <1>2, <2>3 DEF Fails
        <3> QED
            BY <2>1, <2>2, <2>3, <3>1, AloneFinds
    <2> QED
        BY <1>2, <2>1, <2>2, <2>3, AdvanceStep
<1> QED
    BY <1>1, <1>2 DEF RunContainer

\* docker wait, when it is called.
LEMMA WaitForContainerInv ==
    ASSUME RenderInv, UNCHANGED vars, Done, NEW g \in Goroutines, WaitForContainer(g)
    PROVE  RenderInv'
<1>1. /\ At(g, "wait") /\ Started(g) /\ work[g].pc = "wait" /\ work[g].pc \in InFrame
      /\ UNCHANGED << container, output >> /\ Shrinks
    BY DEF WaitForContainer, Started, At, Shrinks, InFrame
<1>2. g \notin Unlucky /\ Alone(g) =>
        (~IsRunning(Id(g)) => work[g].frame \in output[Id(g)])
    BY <1>1 DEF RenderInv, AloneInv, Progress
<1>3. CASE Id(g) \in DOMAIN container /\ container[Id(g)].running /\ Goto(g, "waiting")
    <2>1. "waiting" \in Places \ {"new", "start", "count", "wait"}
        BY DEF Places
    <2>2. IsRunning(Id(g))
        BY <1>3 DEF IsRunning
    <2> QED
        BY <1>1, <1>3, <2>1, <2>2, GotoStep
<1>4. CASE Id(g) \in DOMAIN container /\ ~container[Id(g)].running /\ Goto(g, "logs")
    <2>1. "logs" \in Places \ {"new", "start", "count", "wait"}
        BY DEF Places
    <2>2. ~IsRunning(Id(g))
        BY <1>4 DEF IsRunning
    <2>3. \A n \in DOMAIN container : container[n].by = g => n = Id(g)
        BY DEF RenderInv, ContainerInv, OwnInv
    <2>4. \A n \in DOMAIN container' : container[n].by = g => ~container[n].running
        BY <1>1, <1>4, <2>3
    <2> QED
        BY <1>1, <1>2, <1>4, <2>1, <2>2, <2>4, GotoStep
<1>5. CASE (Id(g) \notin DOMAIN container \/ Fails(g)) /\ Advance(g)
    <2>1. ~Fails(g) => Id(g) \notin DOMAIN container
        BY <1>5
    <2>2. g \notin Unlucky => \A n \in DOMAIN container : container[n].by # g
        BY <2>1 DEF Fails, RenderInv, ContainerInv, OwnInv
    <2>3. g \notin Unlucky => ~IsRunning(Id(g))
        BY <2>1 DEF Fails, IsRunning
    <2> QED
        BY <1>1, <1>2, <1>5, <2>2, <2>3, AdvanceStep
<1> QED
    BY <1>3, <1>4, <1>5 DEF WaitForContainer

\* docker logs.
LEMMA ReadLogsInv ==
    ASSUME RenderInv, UNCHANGED vars, Done, NEW g \in Goroutines, ReadLogs(g)
    PROVE  RenderInv'
<1>1. /\ At(g, "logs") /\ Started(g) /\ work[g].pc = "logs" /\ work[g].pc \in InFrame
      /\ UNCHANGED << container, output >> /\ Shrinks /\ Goto(g, "rm")
    BY DEF ReadLogs, Started, At, Shrinks, InFrame
<1>2. g \notin Unlucky /\ Alone(g) => work[g].frame \in output[Id(g)]
    BY <1>1 DEF RenderInv, AloneInv, Progress
<1>3. g \notin Unlucky =>
        \A n \in DOMAIN container' : container[n].by = g => ~container[n].running
    BY <1>1 DEF RenderInv, ContainerInv, OwnInv
<1>4. "rm" \in Places \ {"new", "start", "count", "wait"}
    BY DEF Places
<1> QED
    BY <1>1, <1>2, <1>3, <1>4, GotoStep

\* The container has been removed before its log was read.
LEMMA LoseLogsInv ==
    ASSUME RenderInv, UNCHANGED vars, Done, NEW g \in Goroutines, LoseLogs(g)
    PROVE  RenderInv'
<1>1. /\ At(g, "logs") /\ Started(g) /\ work[g].pc = "logs" /\ work[g].pc \in InFrame
      /\ UNCHANGED << container, output >> /\ Advance(g)
    BY DEF LoseLogs, Started, At, InFrame
<1>2. g \notin Unlucky /\ Alone(g) => work[g].frame \in output[Id(g)]
    BY <1>1 DEF RenderInv, AloneInv, Progress
<1>3. g \notin Unlucky => \A n \in DOMAIN container : container[n].by # g
    BY DEF LoseLogs, Fails, RenderInv, ContainerInv, OwnInv
<1> QED
    BY <1>1, <1>2, <1>3, AdvanceStep

\* docker rm, after the log has been read.
LEMMA RemoveOwnInv ==
    ASSUME RenderInv, UNCHANGED vars, Done, NEW g \in Goroutines, RemoveOwn(g)
    PROVE  RenderInv'
<1>1. /\ At(g, "rm") /\ Started(g) /\ work[g].pc = "rm" /\ work[g].pc \in InFrame
      /\ UNCHANGED output /\ Goto(g, "stat")
    BY DEF RemoveOwn, Started, At, InFrame
<1>2. Shrinks /\ (~Fails(g) /\ Id(g) \in DOMAIN container' => container[Id(g)].running)
    BY RemoveContainerShrinks DEF RemoveOwn
<1>3. g \notin Unlucky /\ Alone(g) => work[g].frame \in output[Id(g)]
    BY <1>1 DEF RenderInv, AloneInv, Progress
<1>4. ASSUME g \notin Unlucky, NEW n \in DOMAIN container', container[n].by = g
      PROVE  FALSE
    <2>1. n \in DOMAIN container /\ OwnInv(n)
        BY <1>2 DEF Shrinks, RenderInv, ContainerInv
    <2>2. n = Id(g) /\ ~container[n].running
        BY <1>1, <1>4, <2>1 DEF OwnInv
    <2> QED
        BY <1>2, <1>4, <2>2 DEF Fails
<1>5. "stat" \in Places \ {"new", "start", "count", "wait"}
    BY DEF Places
<1> QED
    BY <1>1, <1>2, <1>3, <1>4, <1>5, GotoStep

\* The file of the frame is looked for.
LEMMA StatFrameInv ==
    ASSUME RenderInv, UNCHANGED vars, Done, NEW g \in Goroutines, StatFrame(g)
    PROVE  RenderInv'
<1>1. /\ At(g, "stat") /\ Started(g) /\ work[g].pc = "stat" /\ work[g].pc \in InFrame
      /\ UNCHANGED << container, output >> /\ Shrinks
    BY DEF StatFrame, Started, At, InFrame, Shrinks
<1>2. g \notin Unlucky /\ Alone(g) => work[g].frame \in output[Id(g)]
    BY <1>1 DEF RenderInv, AloneInv, Progress
<1>3. g \notin Unlucky => \A n \in DOMAIN container : container[n].by # g
    BY <1>1, NoOwnContainer
<1>4. CASE Advance(g)
    BY <1>1, <1>2, <1>3, <1>4, AdvanceStep
<1>5. CASE Goto(g, "check")
    <2>1. "check" \in Places \ {"new", "start", "count", "wait"}
        BY DEF Places
    <2> QED
        BY <1>1, <1>3, <1>5, <2>1, GotoStep
<1> QED
    BY <1>4, <1>5 DEF StatFrame

\* One step of a goroutine.
LEMMA StepInv ==
    ASSUME RenderInv, UNCHANGED vars, Done, NEW g \in Goroutines, Step(g)
    PROVE  RenderInv'
BY CheckRunningInv, CleanInv, FailDownloadInv, CountFramesInv, CheckContainerInv,
    RunContainerInv, WaitForContainerInv, ReadLogsInv, LoseLogsInv, RemoveOwnInv, StatFrameInv DEF Step

-----------------------------------------------------------------------------
(* The engine, and the beginning. *)

\* --rm takes a container that has exited.
LEMMA ContainerIsRemovedInv ==
    ASSUME RenderInv, UNCHANGED vars, Done, NEW id \in DOMAIN container, ContainerIsRemoved(id)
    PROVE  RenderInv'
<1> USE DEF RenderInv
<1>1. UNCHANGED << output, work >> /\ Shrinks
    BY RemovingShrinks DEF ContainerIsRemoved
<1>2. ThreadKeys' = ThreadKeys /\ Ids' = Ids /\ Done'
    BY Dealt
<1>3. \A h : Id(h)' = Id(h) /\ Frames(h)' = Frames(h) /\ (Started(h)' <=> Started(h))
    BY <1>1, ThreadStays DEF Started, At
<1>4. SplitInv'
    BY DEF vars, SplitInv, HandedOut, RemainderAtStart, FramesPerThread, TotalFrames, Size
<1>5. TypeInv'
    <2>1. WorkRecords' = WorkRecords
        BY <1>2 DEF WorkRecords
    <2>2. ASSUME NEW h \in Goroutines, At(h, "waiting")'
          PROVE  Id(h)' \in DOMAIN container' /\ container'[Id(h)'].running
        <3>1. Id(h) \in DOMAIN container /\ container[Id(h)].running
            BY <1>1, <2>2 DEF TypeInv, At
        <3> QED
            BY <1>1, <1>3, <3>1 DEF Shrinks
    <2>3. DOMAIN container' \subseteq Ids' /\ \A n \in DOMAIN container' : container'[n] \in Containers
        BY <1>1, <1>2 DEF TypeInv, Shrinks
    <2>4. work' \in [Goroutines -> WorkRecords'] /\ DOMAIN output' = Ids'
        BY <1>1, <1>2, <2>1 DEF TypeInv
    <2>5. \A h \in Goroutines : Started(h)' => work'[h].thread \in ThreadKeys'
        BY <1>1, <1>2, <1>3 DEF TypeInv
    <2> QED
        BY <2>2, <2>3, <2>4, <2>5 DEF TypeInv, Containers
<1>6. DealInv' /\ FrameInv' /\ OutputInv'
    <2>1. DealInv'
        BY <1>2 DEF DealInv
    <2>2. FrameInv'
        BY <1>1, <1>3 DEF FrameInv
    <2>3. OutputInv'
        BY <1>1, <1>2, <1>3 DEF OutputInv
    <2> QED
        BY <2>1, <2>2, <2>3
<1>7. ContainerInv'
    <2> SUFFICES ASSUME NEW n \in DOMAIN container'
                 PROVE  OwnInv(n)'
        BY DEF ContainerInv
    <2>1. container'[n] = container[n] /\ n \in DOMAIN container /\ OwnInv(n)
        BY <1>1 DEF Shrinks, ContainerInv
    <2>2. PICK h : h = container[n].by
        OBVIOUS
    <2>3. /\ container'[n].by = h /\ Loops(h)' /\ Id(h)' = n
          /\ container'[n].frame \in Frames(h)'
        BY <1>1, <1>3, <2>1, <2>2 DEF OwnInv, Loops
    <2> QED
        BY <1>1, <2>1, <2>2, <2>3 DEF OwnInv, Loops, Id, Frames, RangeSet, FrameRange
<1>8. AloneInv'
    <2> SUFFICES ASSUME NEW h \in Goroutines \ Unlucky, Started(h)', Alone(h)'
                 PROVE  Progress(h)'
        BY DEF AloneInv
    <2>1. Started(h) /\ Alone(h) /\ Progress(h)
        BY <1>1, <1>3, AloneBefore DEF AloneInv
    <2>2. IsRunning(Id(h))' = IsRunning(Id(h))
        <3>1. IsRunning(Id(h))' <=> IsRunning(Id(h))
            BY <1>1, <1>3 DEF IsRunning, Shrinks
        <3>2. IsRunning(Id(h))' \in BOOLEAN /\ IsRunning(Id(h)) \in BOOLEAN
            BY DEF IsRunning
        <3> QED
            BY <3>1, <3>2
    <2> QED
        BY <1>1, <2>1, <2>2, ProgressStays
<1> QED
    BY <1>4, <1>5, <1>6, <1>7, <1>8

\* What the exit of a container changes.
LEMMA ExitEffect ==
    ASSUME TypeInv, NEW id \in DOMAIN container, ContainerExits(id)
    PROVE  /\ container[id].running
           /\ DOMAIN container' = DOMAIN container
           /\ \A n \in DOMAIN container :
                /\ container'[n] \in Containers
                /\ container'[n].by = container[n].by
                /\ container'[n].frame = container[n].frame
                /\ n # id => container'[n] = container[n]
           /\ ~container'[id].running
<1>1. container' = [container EXCEPT ![id] = [container[id] EXCEPT !.running = FALSE]]
    BY DEF ContainerExits
<1>2. container[id] \in Containers
    BY DEF TypeInv
<1>3. PICK c : c = [container[id] EXCEPT !.running = FALSE]
    OBVIOUS
<1>4. /\ c \in Containers /\ c.by = container[id].by /\ c.frame = container[id].frame
      /\ ~c.running
    BY <1>2, <1>3 DEF Containers
<1>5. /\ DOMAIN container' = DOMAIN container
      /\ \A n \in DOMAIN container : container'[n] = IF n = id THEN c ELSE container[n]
    BY <1>1, <1>3
<1> QED
    BY <1>4, <1>5 DEF ContainerExits, TypeInv

\* docker wait answers those who wait for the container.
LEMMA AnswerEffect ==
    ASSUME TypeInv, NEW id, ContainerExits(id)
    PROVE  /\ work' \in [Goroutines -> WorkRecords]
           /\ \A h \in Goroutines :
                /\ work'[h].thread = work[h].thread /\ work'[h].frame = work[h].frame
                /\ At(h, "waiting") /\ Id(h) = id => work'[h].pc = "logs"
                /\ ~(At(h, "waiting") /\ Id(h) = id) => work'[h] = work[h]
<1>1. ASSUME NEW h \in Goroutines
      PROVE  /\ [work[h] EXCEPT !.pc = "logs"] \in WorkRecords
             /\ [work[h] EXCEPT !.pc = "logs"].thread = work[h].thread
             /\ [work[h] EXCEPT !.pc = "logs"].frame = work[h].frame
             /\ [work[h] EXCEPT !.pc = "logs"].pc = "logs"
    <2>1. work[h] \in WorkRecords /\ "logs" \in Places
        BY DEF TypeInv, Places
    <2> QED
        BY <2>1 DEF WorkRecords
<1>2. \A h \in Goroutines : work[h] \in WorkRecords
    BY DEF TypeInv
<1>3. work' = [h \in Goroutines |->
                    IF At(h, "waiting") /\ Id(h) = id THEN [work[h] EXCEPT !.pc = "logs"]
                    ELSE work[h]]
    BY DEF ContainerExits
<1> QED
    BY <1>1, <1>2, <1>3

\* A container saves its frame and exits.
LEMMA ContainerExitsInv ==
    ASSUME RenderInv, UNCHANGED vars, Done, NEW id \in DOMAIN container, ContainerExits(id)
    PROVE  RenderInv'
<1> USE DEF RenderInv
<1>1. /\ container[id].running /\ ~container'[id].running
      /\ DOMAIN container' = DOMAIN container
      /\ \A n \in DOMAIN container :
            /\ container'[n] \in Containers
            /\ container'[n].by = container[n].by
            /\ container'[n].frame = container[n].frame
            /\ n # id => container'[n] = container[n]
    BY ExitEffect
<1>2. /\ work' \in [Goroutines -> WorkRecords]
      /\ \A h \in Goroutines :
            /\ work'[h].thread = work[h].thread /\ work'[h].frame = work[h].frame
            /\ At(h, "waiting") /\ Id(h) = id => work'[h].pc = "logs"
            /\ ~(At(h, "waiting") /\ Id(h) = id) => work'[h] = work[h]
    BY AnswerEffect
<1>3. \A h \in Goroutines : Started(h)' <=> Started(h)
    BY <1>2 DEF Started, At
<1>4. \A h \in Goroutines :
        Id(h)' = Id(h) /\ Frames(h)' = Frames(h) /\ IsReversed(h)' = IsReversed(h)
    BY <1>2, ThreadStays
<1>5. ThreadKeys' = ThreadKeys /\ Ids' = Ids /\ Done' /\ id \in Ids
    BY Dealt DEF TypeInv
<1>6. SplitInv'
    BY DEF vars, SplitInv, HandedOut, RemainderAtStart, FramesPerThread, TotalFrames, Size
<1>7. PICK by \in Goroutines, f \in Int : by = container[id].by /\ f = container[id].frame
    BY DEF TypeInv, Containers
<1>8. Started(by) /\ Id(by) = id /\ f \in Frames(by)
    BY <1>7 DEF ContainerInv, OwnInv, Loops, Started, At
<1>9. /\ DOMAIN output' = Ids
      /\ \A n \in Ids : n # id => output'[n] = output[n]
      /\ output'[id] = output[id] \cup {f} \/ (output'[id] = output[id] /\ by \in Unlucky)
    BY <1>5, <1>7 DEF ContainerExits, TypeInv
<1>10. TypeInv'
    <2>1. WorkRecords' = WorkRecords
        BY <1>5 DEF WorkRecords
    <2>2. \A h \in Goroutines : Started(h)' => work'[h].thread \in ThreadKeys'
        BY <1>2, <1>3, <1>5 DEF TypeInv
    <2>3. DOMAIN container' \subseteq Ids' /\ \A n \in DOMAIN container' : container'[n] \in Containers
        BY <1>1, <1>5 DEF TypeInv
    <2>4. ASSUME NEW h \in Goroutines, At(h, "waiting")'
          PROVE  Id(h)' \in DOMAIN container' /\ container'[Id(h)'].running
        <3>1. At(h, "waiting") /\ Id(h) # id
            BY <1>2, <2>4 DEF At
        <3>2. Id(h) \in DOMAIN container /\ container[Id(h)].running
            BY <3>1 DEF TypeInv
        <3> QED
            BY <1>1, <1>4, <3>1, <3>2
    <2> QED
        BY <1>2, <1>5, <1>9, <2>1, <2>2, <2>3, <2>4 DEF TypeInv, Containers
<1>11. DealInv'
    BY <1>5 DEF DealInv
<1>12. FrameInv'
    <2> SUFFICES ASSUME NEW h \in Goroutines, work'[h].pc \in InFrame
                 PROVE  work'[h].frame \in Frames(h)'
        BY DEF FrameInv, InFrame
    <2>1. work[h].pc \in InFrame
        BY <1>2 DEF At, InFrame
    <2> QED
        BY <1>2, <1>4, <2>1 DEF FrameInv
<1>13. ContainerInv'
    <2> SUFFICES ASSUME NEW n \in DOMAIN container'
                 PROVE  OwnInv(n)'
        BY DEF ContainerInv
    <2>1. n \in DOMAIN container /\ OwnInv(n)
        BY <1>1 DEF ContainerInv
    <2>2. PICK h \in Goroutines : h = container[n].by
        BY <2>1 DEF TypeInv, Containers
    <2>3. /\ container'[n].by = h /\ Loops(h)' /\ Id(h)' = n
          /\ container'[n].frame \in Frames(h)'
        BY <1>1, <1>2, <1>4, <2>1, <2>2 DEF OwnInv, Loops, At
    <2>4. ASSUME h \notin Unlucky
          PROVE  /\ work'[h].pc \in { "wait", "waiting", "logs", "rm" }
                 /\ container'[n].frame = work'[h].frame
                 /\ work'[h].pc \in { "logs", "rm" } => ~container'[n].running
        <3>1. /\ work[h].pc \in { "wait", "waiting", "logs", "rm" } /\ Id(h) = n
              /\ container[n].frame = work[h].frame
              /\ work[h].pc \in { "logs", "rm" } => ~container[n].running
            BY <2>1, <2>2, <2>4 DEF OwnInv
        <3>2. CASE n = id
            BY <1>1, <1>2, <2>1, <3>1, <3>2
        <3>3. CASE n # id
            BY <1>1, <1>2, <2>1, <3>1, <3>3
        <3> QED
            BY <3>2, <3>3
    <2> QED
        BY <2>3, <2>4 DEF OwnInv, Loops, Id, Frames, RangeSet, FrameRange
<1>14. OutputInv'
    <2> SUFFICES ASSUME NEW n \in Ids, NEW x \in output'[n]
                 PROVE  \E g \in Goroutines : Started(g)' /\ Id(g)' = n /\ x \in Frames(g)'
        BY <1>5 DEF OutputInv
    <2>1. CASE n = id /\ x = f
        BY <1>3, <1>4, <1>8, <2>1
    <2>2. CASE x \in output[n]
        BY <1>3, <1>4, <2>2 DEF OutputInv
    <2> QED
        BY <1>9, <2>1, <2>2
<1>15. AloneInv'
    <2> SUFFICES ASSUME NEW h \in Goroutines \ Unlucky, Started(h)', Alone(h)'
                 PROVE  Progress(h)'
        BY DEF AloneInv
    <2>1. Started(h) /\ Alone(h) /\ Progress(h)
        BY <1>2, <1>3, AloneBefore DEF AloneInv
    <2>2. CASE Id(h) # id
        <3>1. work'[h] = work[h] /\ output'[Id(h)] = output[Id(h)]
            <4>1. Id(h) \in Ids
                BY <2>1, FramesOfThread DEF TypeInv, Id
            <4> QED
                BY <1>2, <1>9, <2>2, <4>1
        <3>2. IsRunning(Id(h))' = IsRunning(Id(h))
            <4>1. IsRunning(Id(h))' <=> IsRunning(Id(h))
                BY <1>1, <1>4, <2>2 DEF IsRunning
            <4>2. IsRunning(Id(h))' \in BOOLEAN /\ IsRunning(Id(h)) \in BOOLEAN
                BY DEF IsRunning
            <4> QED
                BY <4>1, <4>2
        <3> QED
            BY <2>1, <3>1, <3>2, ProgressStays
    <2>3. CASE Id(h) = id
        <3>1. by = h
            BY <1>7, <2>1, <2>3, AloneFinds
        <3>2. work[h].pc \in { "wait", "waiting" } /\ f = work[h].frame
            <4>1. OwnInv(id) /\ container[id].by = h /\ h \notin Unlucky
                BY <1>7, <3>1 DEF ContainerInv
            <4>2. /\ work[h].pc \in { "wait", "waiting", "logs", "rm" }
                  /\ container[id].frame = work[h].frame
                  /\ work[h].pc \in { "logs", "rm" } => ~container[id].running
                BY <4>1 DEF OwnInv
            <4> QED
                BY <1>1, <1>7, <4>2
        <3>3. output'[id] = output[id] \cup {f}
            BY <1>9, <3>1
        <3>4. Passed(h) \subseteq output[id] /\ output[id] \subseteq Passed(h) \cup {f}
            BY <2>1, <2>3, <3>2 DEF Progress, InFrame
        <3>5. work'[h].pc \in { "wait", "logs" } /\ work'[h].frame = f
            BY <1>2, <2>3, <3>2 DEF At
        <3>6. Passed(h)' = Passed(h) /\ Id(h)' = id
            BY <1>2, <1>4, <2>3 DEF Passed
        <3>7. f \in output'[id] /\ Passed(h) \subseteq output'[id]
              /\ output'[id] \subseteq Passed(h) \cup {f}
            BY <3>3, <3>4
        <3> QED
            BY <3>5, <3>6, <3>7 DEF Progress, At
    <2> QED
        BY <2>2, <2>3
<1> QED
    BY <1>6, <1>10, <1>11, <1>12, <1>13, <1>14, <1>15

\* BeginBlock starts a goroutine for a thread.
LEMMA StartWorkInv ==
    ASSUME RenderInv, UNCHANGED vars, Done, NEW g \in Goroutines, NEW k \in ThreadKeys,
           StartWork(g, k)
    PROVE  RenderInv'
<1> USE DEF RenderInv
<1>1. /\ ~Started(g) /\ UNCHANGED << container, output >>
      /\ DOMAIN work' = Goroutines
      /\ work'[g] = [thread |-> k, frame |-> 0, pc |-> "start"]
      /\ work'[g].thread = k /\ work'[g].pc = "start"
      /\ \A h \in Goroutines \ {g} : work'[h] = work[h]
    BY DEF TypeInv, StartWork, Started
<1>2. \A h \in Goroutines : Started(h)' <=> (Started(h) \/ h = g)
    BY <1>1 DEF Started, At
<1>3. \A h \in Goroutines \ {g} : Id(h)' = Id(h) /\ Frames(h)' = Frames(h)
    BY <1>1, ThreadStays
<1>4. ThreadKeys' = ThreadKeys /\ Ids' = Ids /\ Done'
    BY Dealt
<1>5. SplitInv'
    BY DEF vars, SplitInv, HandedOut, RemainderAtStart, FramesPerThread, TotalFrames, Size
<1>6. TypeInv'
    <2>1. WorkRecords' = WorkRecords
        BY <1>4 DEF WorkRecords
    <2>2. work'[g] \in WorkRecords /\ \A h \in Goroutines : work[h] \in WorkRecords
        BY <1>1 DEF WorkRecords, Places, TypeInv
    <2>3. work' \in [Goroutines -> WorkRecords']
        BY <1>1, <2>1, <2>2 DEF StartWork, TypeInv
    <2>4. \A h \in Goroutines : Started(h)' => work'[h].thread \in ThreadKeys'
        BY <1>1, <1>2, <1>4 DEF TypeInv
    <2>5. ASSUME NEW h \in Goroutines, At(h, "waiting")'
          PROVE  Id(h)' \in DOMAIN container' /\ container'[Id(h)'].running
        BY <1>1, <1>3, <2>5 DEF TypeInv, At
    <2>6. DOMAIN container' \subseteq Ids' /\ \A n \in DOMAIN container' : container'[n] \in Containers
        BY <1>1, <1>4 DEF TypeInv
    <2> QED
        BY <1>1, <1>4, <2>3, <2>4, <2>5, <2>6 DEF TypeInv, Containers
<1>7. DealInv'
    BY <1>4 DEF DealInv
<1>8. FrameInv'
    BY <1>1, <1>3 DEF FrameInv, InFrame
<1>9. ContainerInv'
    <2> SUFFICES ASSUME NEW n \in DOMAIN container'
                 PROVE  OwnInv(n)'
        BY DEF ContainerInv
    <2>1. n \in DOMAIN container /\ OwnInv(n) /\ container'[n] = container[n]
        BY <1>1 DEF ContainerInv
    <2>2. PICK h \in Goroutines : h = container[n].by
        BY <2>1 DEF TypeInv, Containers
    <2>3. h # g /\ work'[h] = work[h]
        BY <1>1, <2>1, <2>2 DEF OwnInv, Loops, Started, At
    <2>4. /\ container'[n].by = h /\ Loops(h)' /\ Id(h)' = n
          /\ container'[n].frame \in Frames(h)'
        BY <1>2, <1>3, <2>1, <2>2, <2>3 DEF OwnInv, Loops
    <2> QED
        BY <2>1, <2>2, <2>3, <2>4 DEF OwnInv, Loops, Id, Frames, RangeSet, FrameRange
<1>10. OutputInv'
    <2> SUFFICES ASSUME NEW n \in Ids, NEW x \in output[n]
                 PROVE  \E h \in Goroutines : Started(h)' /\ Id(h)' = n /\ x \in Frames(h)'
        BY <1>1, <1>4 DEF OutputInv
    <2>1. PICK h \in Goroutines : Started(h) /\ Id(h) = n /\ x \in Frames(h)
        BY DEF OutputInv
    <2> QED
        BY <1>1, <1>2, <1>3, <2>1
<1>11. AloneInv'
    <2> SUFFICES ASSUME NEW h \in Goroutines \ Unlucky, Started(h)', Alone(h)'
                 PROVE  Progress(h)'
        BY DEF AloneInv
    <2>1. CASE h # g
        <3>1. work'[h] = work[h] /\ Started(h)
            BY <1>1, <1>2, <2>1
        <3>2. \A x \in Goroutines : Started(x) => Started(x)' /\ work'[x].thread = work[x].thread
            BY <1>1, <1>2
        <3>3. Alone(h) /\ Progress(h)
            BY <3>1, <3>2, AloneBefore DEF AloneInv
        <3>4. IsRunning(Id(h))' = IsRunning(Id(h))
            BY <1>1, <1>3, <2>1 DEF IsRunning
        <3> QED
            BY <1>1, <3>1, <3>3, <3>4, ProgressStays
    <2>2. CASE h = g
        <3>1. Id(g)' \in Ids /\ Id(g)' \in Seq(Nat)
            BY <1>1, FramesOfThread DEF Id
        <3>2. ASSUME NEW x \in output[Id(g)']
              PROVE  FALSE
            <4>1. PICK e \in Goroutines : Started(e) /\ Id(e) = Id(g)'
                BY <3>1 DEF OutputInv
            <4>2. e # g /\ Started(e)' /\ Id(e)' = Id(g)'
                BY <1>1, <1>2, <1>3, <4>1
            <4>3. ~Matches(Id(g)', Id(e)')
                BY <2>2, <4>2 DEF Alone
            <4> QED
                BY <3>1, <4>2, <4>3, MatchesItself
        <3>3. output'[Id(g)'] = {}
            BY <1>1, <3>2
        <3> QED
            BY <1>1, <2>2, <3>3 DEF Progress, At, InFrame
    <2> QED
        BY <2>1, <2>2
<1> QED
    BY <1>5, <1>6, <1>7, <1>8, <1>9, <1>10, <1>11

\* An iteration of splitFrames: nothing is rendered yet.
LEMMA DealKeepsInv ==
    ASSUME RenderInv, Deal
    PROVE  RenderInv'
<1> USE DEF RenderInv
<1>1. SplitInv'
    BY IterateSplitInv DEF Deal
<1>2. /\ UNCHANGED << container, work >>
      /\ DOMAIN output' = Ids' /\ \A n \in Ids' : output'[n] = {}
    BY DEF Deal
<1>3. ~Done
    BY LoopConstants DEF Deal, Iterate, Done, SplitInv
<1>4. DOMAIN container = {} /\ \A g \in Goroutines : ~Started(g)
    <2>1. container = << >>
        BY <1>3 DEF DealInv
    <2> QED
        BY <1>3, <2>1 DEF DealInv
<1>5. \A g \in Goroutines : ~Started(g)' /\ At(g, "new")'
    BY <1>2, <1>4 DEF Started, At
<1>6. ThreadKeys \subseteq ThreadKeys'
    <2>1. Len(result) \in Nat /\ Len(result') \in Nat /\ Len(result') = Len(result) + 1
        BY <1>1 DEF Deal, Iterate, SplitInv
    <2> QED
        BY <2>1 DEF ThreadKeys
<1>7. TypeInv'
    <2>1. WorkRecords \subseteq WorkRecords'
        BY <1>6 DEF WorkRecords
    <2>2. work' \in [Goroutines -> WorkRecords']
        BY <1>2, <2>1 DEF TypeInv
    <2> QED
        BY <1>2, <1>4, <1>5, <2>2 DEF TypeInv, At
<1>8. DealInv'
    BY <1>2, <1>3, <1>5 DEF DealInv
<1>9. FrameInv' /\ AloneInv'
    BY <1>5 DEF FrameInv, AloneInv, InFrame, At
<1>10. ContainerInv'
    BY <1>2, <1>4 DEF ContainerInv
<1>11. OutputInv'
    BY <1>2 DEF OutputInv
<1> QED
    BY <1>1, <1>7, <1>8, <1>9, <1>10, <1>11

-----------------------------------------------------------------------------
(* The theorems. *)

\* Nothing has been dealt out or started in the beginning.
LEMMA InitRenderInv == RenderInit => RenderInv
<1> SUFFICES ASSUME RenderInit
             PROVE  RenderInv
    OBVIOUS
<1>1. SplitInv
    BY InitSplitInv DEF RenderInit
<1>2. /\ container = << >> /\ output = << >> /\ result = << >>
      /\ \A g \in Goroutines : work[g] = [thread |-> << >>, frame |-> 0, pc |-> "new"]
      /\ work \in [Goroutines -> WorkRecords]
    <2>1. [thread |-> << >>, frame |-> 0, pc |-> "new"] \in WorkRecords
        BY DEF WorkRecords, Places
    <2> QED
        BY <2>1 DEF RenderInit, Init
<1>3. DOMAIN container = {} /\ DOMAIN output = {} /\ Ids = {}
    <2>1. 0 .. Len(result) - 1 = {}
        BY <1>2, EmptySeq
    <2> QED
        BY <1>2, <2>1 DEF Ids
<1>4. \A g \in Goroutines : At(g, "new") /\ ~Started(g) /\ work[g].pc = "new"
    BY <1>2 DEF Started, At
<1>5. TypeInv
    BY <1>2, <1>3, <1>4 DEF TypeInv, At
<1>6. DealInv /\ FrameInv /\ ContainerInv /\ OutputInv /\ AloneInv
    BY <1>2, <1>3, <1>4 DEF DealInv, FrameInv, ContainerInv, OutputInv, AloneInv, InFrame
<1> QED
    BY <1>1, <1>5, <1>6 DEF RenderInv

\* Nothing changes when nothing happens.
LEMMA StutterInv ==
    ASSUME RenderInv, UNCHANGED << vars, renderVars >>
    PROVE  RenderInv'
<1> USE DEF RenderInv
<1>1. UNCHANGED vars /\ UNCHANGED << container, output, work >>
    BY DEF renderVars
<1>2. SplitInv'
    BY <1>1 DEF vars, SplitInv, HandedOut, RemainderAtStart, FramesPerThread, TotalFrames, Size
<1>3. TypeInv'
    BY <1>1 DEF vars, TypeInv, WorkRecords, Containers, Ids, ThreadKeys, Started, At, Id
<1>4. DealInv'
    BY <1>1 DEF vars, DealInv, Done, Ids, Started, At
<1>5. FrameInv'
    BY <1>1 DEF vars, FrameInv, Frames, RangeSet, FrameRange
<1>6. ContainerInv'
    BY <1>1 DEF vars, ContainerInv, OwnInv, Loops, Id, Frames, RangeSet, FrameRange
<1>7. OutputInv'
    BY <1>1 DEF vars, OutputInv, Ids, Started, At, Id, Frames, RangeSet, FrameRange
<1>8. AloneInv'
    BY <1>1 DEF vars, AloneInv, Alone, Progress, Passed, IsRunning, Started, At, Id, IsReversed,
        Frames, RangeSet, FrameRange
<1> QED
    BY <1>2, <1>3, <1>4, <1>5, <1>6, <1>7, <1>8

\* Every step of the system keeps the invariant.
LEMMA RenderInvariant == RenderSpec => []RenderInv
<1>1. RenderInv /\ [RenderNext]_<< vars, renderVars >> => RenderInv'
    <2> SUFFICES ASSUME RenderInv, [RenderNext]_<< vars, renderVars >>
                 PROVE  RenderInv'
        OBVIOUS
    <2>1. CASE Deal
        BY <2>1, DealKeepsInv
    <2>2. CASE Render
        <3>1. Done /\ UNCHANGED vars
            BY <2>2 DEF Render, Done
        <3> QED
            BY <2>2, <3>1, StartWorkInv, StepInv, ContainerExitsInv, ContainerIsRemovedInv
                DEF Render
    <2>3. CASE UNCHANGED << vars, renderVars >>
        BY <2>3, StutterInv
    <2> QED
        BY <2>1, <2>2, <2>3 DEF RenderNext
<1> QED
    BY <1>1, InitRenderInv, PTL DEF RenderSpec

\* The containers, files and goroutines keep their types, and a goroutine that waits for
\* docker has a container to wait for, however many goroutines render the thread.
THEOREM RenderTypes == RenderSpec => []RenderTypeOK
<1>1. RenderInv => RenderTypeOK
    BY DEF RenderInv, TypeInv, RenderTypeOK, WorkRecords, Containers
<1> QED
    BY <1>1, RenderInvariant, PTL

\* Whatever task, split, goroutines and containers: a goroutine whose calls succeed and
\* that ends without all frames of its thread was not alone.
THEOREM AloneIsWhole == RenderSpec => []ShortWasNotAlone
<1>1. RenderInv => ShortWasNotAlone
    <2> SUFFICES ASSUME RenderInv, NEW g \in Goroutines \ Unlucky, At(g, "short"), Frames(g) # {}
                 PROVE  \E h \in Goroutines \ {g} : ~At(h, "new") /\ Matches(Id(g), Id(h))
        BY DEF ShortWasNotAlone, Frames
    <2>1. Started(g)
        BY DEF Started, At
    <2>2. ~Alone(g)
        BY <2>1 DEF RenderInv, AloneInv, Progress
    <2> QED
        BY <2>2 DEF Alone, Started
<1> QED
    BY <1>1, RenderInvariant, PTL

-----------------------------------------------------------------------------
(* The rendering seen from outside. *)

IdsDiffer ==
    \A k, l \in ThreadKeys : ThreadId(k[1], k[2]) = ThreadId(l[1], l[2]) => k = l

Seen == << FramesSeen, SavedSeen, DoesSeen, LeftSeen, VerdictSeen >>

\* A step of the rendering seen from outside, or none.
SeenStep == Outside!Next \/ UNCHANGED Seen

\* What is seen of one goroutine.
DoesOf(g)    == IF Loops(g) THEN << work[g].thread, IsReversed(g) >> ELSE << >>
VerdictOf(g) == IF work[g].pc \in {"whole", "short"} THEN work[g].pc ELSE "none"

\* A goroutine renders in reverse, or not.
LEMMA ReversedOrNot == \A g : \E reverse \in BOOLEAN : reverse = IsReversed(g)
<1>1. \A g : IsReversed(g) \in BOOLEAN
    BY DEF IsReversed
<1> QED
    BY <1>1, Zenon

\* Nothing is seen of a goroutine whose frame, and whose place in RenderVideo, stay the same.
LEMMA SameSeen ==
    ASSUME UNCHANGED vars, NEW g, work'[g].thread = work[g].thread,
           \/ work'[g] = work[g]
           \/ ~Loops(g) /\ ~Loops(g)'
           \/ /\ work[g].pc \in InFrame /\ work'[g].pc \in InFrame
              /\ work'[g].frame = work[g].frame
    PROVE  DoesOf(g)' = DoesOf(g) /\ FramesLeft(g)' = FramesLeft(g) /\ VerdictOf(g)' = VerdictOf(g)
<1>1. IsReversed(g)' = IsReversed(g) /\ Frames(g)' = Frames(g)
    BY ThreadStays
<1>2. RangeSet(work[g].thread)' = RangeSet(work[g].thread)
    BY <1>1 DEF Frames
<1>3. DoesOf(g)' = DoesOf(g)
    BY <1>1 DEF DoesOf, Loops, InFrame
<1>4. FramesLeft(g)' = FramesLeft(g)
    BY <1>1, <1>2 DEF FramesLeft, Loops, InFrame
<1>5. VerdictOf(g)' = VerdictOf(g)
    BY DEF VerdictOf, Loops, InFrame
<1> QED
    BY <1>3, <1>4, <1>5

\* What is seen of all goroutines.
LEMMA SeenOfAll ==
    /\ DoesSeen = [g \in Goroutines |-> DoesOf(g)]
    /\ LeftSeen = [g \in Goroutines |-> FramesLeft(g)]
    /\ VerdictSeen = [g \in Goroutines |-> VerdictOf(g)]
BY DEF DoesSeen, LeftSeen, VerdictSeen, DoesOf, VerdictOf

\* When the same is seen of each goroutine, the same is seen of all.
LEMMA AllSame ==
    ASSUME \A g \in Goroutines : /\ DoesOf(g)' = DoesOf(g)
                                 /\ FramesLeft(g)' = FramesLeft(g)
                                 /\ VerdictOf(g)' = VerdictOf(g)
    PROVE  UNCHANGED << DoesSeen, LeftSeen, VerdictSeen >>
<1>1. /\ DoesSeen' = [g \in Goroutines |-> DoesOf(g)']
      /\ LeftSeen' = [g \in Goroutines |-> FramesLeft(g)']
      /\ VerdictSeen' = [g \in Goroutines |-> VerdictOf(g)']
    BY DEF DoesSeen, LeftSeen, VerdictSeen, DoesOf, VerdictOf
<1> QED
    BY <1>1, SeenOfAll

\* The frames, and what is in the directories, while only goroutines move.
LEMMA FramesSame ==
    ASSUME UNCHANGED vars
    PROVE  /\ FramesSeen' = FramesSeen
           /\ UNCHANGED output => SavedSeen' = SavedSeen
BY Dealt DEF FramesSeen, SavedSeen

\* What is seen when one goroutine moves.
LEMMA OneMoves ==
    ASSUME UNCHANGED vars, NEW g \in Goroutines,
           \A h \in Goroutines \ {g} : work'[h] = work[h]
    PROVE  /\ DoesSeen' = [DoesSeen EXCEPT ![g] = DoesOf(g)']
           /\ LeftSeen' = [LeftSeen EXCEPT ![g] = FramesLeft(g)']
           /\ VerdictSeen' = [VerdictSeen EXCEPT ![g] = VerdictOf(g)']
<1>1. \A h \in Goroutines \ {g} :
        DoesOf(h)' = DoesOf(h) /\ FramesLeft(h)' = FramesLeft(h) /\ VerdictOf(h)' = VerdictOf(h)
    BY SameSeen
<1>2. /\ DoesSeen' = [h \in Goroutines |-> DoesOf(h)']
      /\ LeftSeen' = [h \in Goroutines |-> FramesLeft(h)']
      /\ VerdictSeen' = [h \in Goroutines |-> VerdictOf(h)']
    BY DEF DoesSeen, LeftSeen, VerdictSeen, DoesOf, VerdictOf
<1> QED
    BY <1>1, <1>2, SeenOfAll

\* What is seen of a thread once the frames are dealt out.
LEMMA ThreadSeen ==
    ASSUME Done, NEW k \in ThreadKeys
    PROVE  /\ k \in DOMAIN FramesSeen /\ FramesSeen[k] = RangeSet(k)
           /\ DOMAIN SavedSeen = ThreadKeys /\ SavedSeen[k] = output[ThreadId(k[1], k[2])]
BY DEF FramesSeen, SavedSeen

\* The loop of RenderVideo begins.
LEMMA CleanSeen ==
    ASSUME RenderInv, UNCHANGED vars, Done, NEW g \in Goroutines, Clean(g)
    PROVE  SeenStep
<1>1. At(g, "clean") /\ Started(g) /\ UNCHANGED output /\ LoopFrom(g, FrameToBegin(g))
    BY DEF Clean, Started, At
<1>2. PICK f \in Int, p \in {"count", "check"} :
        f = FrameToBegin(g) /\ p = IF IsPast(g, f) THEN "count" ELSE "check"
    BY <1>1, LoopNumbers
<1>3. Moves(g, f, p)
    BY <1>1, <1>2, LoopMoves DEF RenderInv
<1>4. /\ work'[g].thread = work[g].thread /\ work'[g].frame = f /\ work'[g].pc = p
      /\ \A h \in Goroutines \ {g} : work'[h] = work[h]
    BY <1>3 DEF RenderInv, TypeInv, Moves
<1>5. PICK k \in ThreadKeys : k = work[g].thread
    BY <1>1 DEF RenderInv, TypeInv
<1>6. PICK reverse \in BOOLEAN : reverse = IsReversed(g)
    BY ReversedOrNot, Zenon
<1>7. IsReversed(g)' = reverse /\ Frames(g)' = RangeSet(k)
    BY <1>4, <1>5, <1>6, ThreadStays DEF Frames
<1>8. DoesOf(g) = << >> /\ VerdictOf(g) = "none" /\ VerdictOf(g)' = "none"
    BY <1>1, <1>4 DEF DoesOf, VerdictOf, Loops, At
<1>9. DoesOf(g)' = << k, reverse >>
    BY <1>4, <1>5, <1>7 DEF DoesOf, Loops
<1>10. FramesLeft(g)' = RangeSet(k)
    <2>1. Behind(g, f) = {} /\ (p = "count" => RangeSet(k) = {})
        BY <1>1, <1>2, <1>5, LoopNumbers DEF Frames
    <2>2. FramesLeft(g)' = IF p = "count" THEN {}
                           ELSE { x \in RangeSet(k) : IF reverse THEN x <= f ELSE x >= f }
        BY <1>4, <1>5, <1>7 DEF FramesLeft, Loops, Frames
    <2>3. \A x \in RangeSet(k) : x \in Int /\ x \notin Behind(g, f)
        BY <2>1 DEF RangeSet
    <2>4. \A x \in RangeSet(k) : IF reverse THEN x <= f ELSE x >= f
        BY <1>5, <1>6, <2>3 DEF Behind, Frames
    <2> QED
        BY <2>1, <2>2, <2>4
<1>11. /\ DoesSeen' = [DoesSeen EXCEPT ![g] = << k, reverse >>]
       /\ LeftSeen' = [LeftSeen EXCEPT ![g] = FramesSeen[k]]
       /\ VerdictSeen' = VerdictSeen
       /\ FramesSeen' = FramesSeen /\ SavedSeen' = SavedSeen
    <2>1. /\ DoesSeen' = [DoesSeen EXCEPT ![g] = DoesOf(g)']
          /\ LeftSeen' = [LeftSeen EXCEPT ![g] = FramesLeft(g)']
          /\ VerdictSeen' = [VerdictSeen EXCEPT ![g] = VerdictOf(g)']
        BY <1>4, OneMoves
    <2>2. DoesSeen' = [DoesSeen EXCEPT ![g] = << k, reverse >>]
        BY <1>9, <2>1
    <2>3. LeftSeen' = [LeftSeen EXCEPT ![g] = FramesSeen[k]]
        BY <1>10, <2>1, ThreadSeen
    <2>4. VerdictSeen' = VerdictSeen
        BY <1>8, <2>1, SeenOfAll
    <2> QED
        BY <1>1, <2>2, <2>3, <2>4, FramesSame
<1>12. DoesSeen[g] = << >> /\ VerdictSeen[g] = "none" /\ k \in DOMAIN FramesSeen
    BY <1>8, SeenOfAll, ThreadSeen
<1>13. Outside!Begin(g, k, reverse)
    BY <1>11, <1>12 DEF Outside!Begin
<1> QED
    BY <1>12, <1>13 DEF SeenStep, Outside!Next

\* The loop goes on with the next frame.
LEMMA AdvanceSeen ==
    ASSUME RenderInv, UNCHANGED vars, Done, UNCHANGED output,
           NEW g \in Goroutines, work[g].pc \in InFrame, Advance(g)
    PROVE  SeenStep
<1>1. Started(g) /\ work[g].frame \in Frames(g) /\ Loops(g) /\ LoopFrom(g, NextFrame(g))
    BY DEF RenderInv, FrameInv, Started, At, InFrame, Loops, Advance
<1>2. PICK e \in Int, f \in Int, p \in {"count", "check"} :
        e = work[g].frame /\ f = NextFrame(g) /\ p = IF IsPast(g, f) THEN "count" ELSE "check"
    BY <1>1, LoopNumbers
<1>3. Moves(g, f, p)
    BY <1>1, <1>2, LoopMoves DEF RenderInv
<1>4. /\ work'[g].thread = work[g].thread /\ work'[g].frame = f /\ work'[g].pc = p
      /\ \A h \in Goroutines \ {g} : work'[h] = work[h]
    BY <1>3 DEF RenderInv, TypeInv, Moves
<1>5. PICK k \in ThreadKeys : k = work[g].thread
    BY <1>1 DEF RenderInv, TypeInv
<1>6. PICK reverse \in BOOLEAN : reverse = IsReversed(g)
    BY ReversedOrNot, Zenon
<1>7. IsReversed(g)' = reverse /\ Frames(g)' = RangeSet(k) /\ Frames(g) = RangeSet(k)
    BY <1>4, <1>5, <1>6, ThreadStays DEF Frames
<1>8. /\ DoesOf(g) = << k, reverse >> /\ DoesOf(g)' = << k, reverse >>
      /\ VerdictOf(g) = "none" /\ VerdictOf(g)' = "none"
    BY <1>1, <1>4, <1>5, <1>6, <1>7 DEF DoesOf, VerdictOf, Loops, InFrame
<1> DEFINE L == { x \in RangeSet(k) : IF reverse THEN x <= e ELSE x >= e }
<1>9. FramesLeft(g) = L
    BY <1>1, <1>2, <1>5, <1>6 DEF FramesLeft, InFrame
<1>10. RangeSet(k) \subseteq Int /\ e \in L /\ \A x \in L : IF reverse THEN x <= e ELSE x >= e
    BY <1>1, <1>2, <1>7 DEF RangeSet
<1>11. FramesLeft(g)' = L \ {e}
    <2>1. f = IF reverse THEN e - 1 ELSE e + 1
        BY <1>2, <1>6 DEF NextFrame
    <2>2. FramesLeft(g)' = IF p = "count" THEN {}
                           ELSE { x \in RangeSet(k) : IF reverse THEN x <= f ELSE x >= f }
        BY <1>4, <1>5, <1>7 DEF FramesLeft, Loops, Frames
    <2>3. L \ {e} = { x \in RangeSet(k) : IF reverse THEN x <= f ELSE x >= f }
        BY <1>10, <2>1
    <2>4. ASSUME p = "count"
          PROVE  L \ {e} = {}
        <3>1. Behind(g, f) = RangeSet(k)
            BY <1>1, <1>2, <1>7, <2>4, LoopNumbers
        <3>2. \A x \in RangeSet(k) : IF reverse THEN x > f ELSE x < f
            BY <1>6, <3>1 DEF Behind
        <3> QED
            BY <1>10, <2>3, <3>2
    <2> QED
        BY <2>2, <2>3, <2>4
<1> HIDE DEF L
<1>12. e = IF reverse THEN Outside!Max(L) ELSE Outside!Min(L)
    <2>1. CASE reverse
        <3>1. \A x \in L : x <= e /\ x \in Int
            BY <1>10, <2>1 DEF L
        <3>2. \A m \in L : (\A x \in L : m >= x) => m = e
            BY <1>10, <3>1
        <3>3. \A x \in L : e >= x
            BY <3>1
        <3>4. Outside!Max(L) = e
            BY <1>10, <3>2, <3>3 DEF Outside!Max
        <3> QED
            BY <2>1, <3>4
    <2>2. CASE ~reverse
        <3>1. \A x \in L : e <= x /\ x \in Int
            BY <1>10, <2>2 DEF L
        <3>2. \A m \in L : (\A x \in L : m <= x) => m = e
            BY <1>10, <3>1
        <3>3. Outside!Min(L) = e
            BY <1>10, <3>1, <3>2 DEF Outside!Min
        <3> QED
            BY <2>2, <3>3
    <2> QED
        BY <2>1, <2>2
<1>13. /\ LeftSeen[g] = L /\ DoesSeen[g] = << k, reverse >>
       /\ LeftSeen' = [LeftSeen EXCEPT ![g] = L \ {e}]
       /\ VerdictSeen' = VerdictSeen /\ DoesSeen' = DoesSeen
       /\ FramesSeen' = FramesSeen /\ SavedSeen' = SavedSeen
    <2>1. /\ VerdictSeen' = [VerdictSeen EXCEPT ![g] = VerdictSeen[g]]
          /\ DoesSeen' = [DoesSeen EXCEPT ![g] = DoesSeen[g]]
        BY <1>4, <1>8, OneMoves, SeenOfAll
    <2> QED
        BY <1>4, <1>8, <1>9, <1>11, <2>1, OneMoves, SeenOfAll, FramesSame
<1>14. Outside!Pass(g)
    BY <1>10, <1>12, <1>13 DEF Outside!Pass
<1> QED
    BY <1>14 DEF SeenStep, Outside!Next

\* A goroutine ends, and counts a thread as completed when all its frames are there.
LEMMA CountFramesSeen ==
    ASSUME RenderInv, UNCHANGED vars, Done, IdsDiffer, NEW g \in Goroutines, CountFrames(g)
    PROVE  SeenStep
<1>1. At(g, "count") /\ Started(g) /\ Loops(g) /\ UNCHANGED output
    BY DEF CountFrames, Started, At, Loops
<1>2. PICK k \in ThreadKeys : k = work[g].thread
    BY <1>1 DEF RenderInv, TypeInv
<1>3. PICK n \in Ids : n = Id(g) /\ n = ThreadId(k[1], k[2])
    BY <1>2, FramesOfThread DEF RenderInv, Id
<1>4. output[n] # {} /\ Cardinality(output[n]) = Size(FrameRange(k))
        <=> RangeSet(k) # {} /\ output[n] = RangeSet(k)
    <2>1. output[n] \subseteq RangeSet(k)
        <3> SUFFICES ASSUME NEW x \in output[n]
                     PROVE  x \in RangeSet(k)
            OBVIOUS
        <3>1. PICK h \in Goroutines : Started(h) /\ Id(h) = n /\ x \in Frames(h)
            BY DEF RenderInv, OutputInv
        <3>2. PICK l \in ThreadKeys : l = work[h].thread
            BY <3>1 DEF RenderInv, TypeInv
        <3>3. ThreadId(l[1], l[2]) = ThreadId(k[1], k[2])
            BY <1>3, <3>1, <3>2 DEF Id
        <3>4. l = k
            BY <3>3 DEF IdsDiffer
        <3> QED
            BY <3>1, <3>2, <3>4 DEF Frames
    <2>2. /\ IsFiniteSet(RangeSet(k))
          /\ RangeSet(k) # {} => Cardinality(RangeSet(k)) = Size(FrameRange(k))
        BY FramesOfThread DEF RenderInv
    <2> QED
        BY <2>1, <2>2, FS_Subset
<1>5. PICK p \in {"whole", "short"} :
        /\ p = IF RangeSet(k) # {} /\ output[n] = RangeSet(k) THEN "whole" ELSE "short"
        /\ Goto(g, p)
    BY <1>2, <1>3, <1>4 DEF CountFrames
<1>6. Moves(g, work[g].frame, p)
    BY <1>5, GotoMoves DEF RenderInv
<1>7. /\ work'[g].thread = k /\ work'[g].pc = p
      /\ \A h \in Goroutines \ {g} : work'[h] = work[h]
    BY <1>2, <1>6 DEF RenderInv, TypeInv, Moves
<1>8. PICK reverse \in BOOLEAN : reverse = IsReversed(g)
    BY ReversedOrNot, Zenon
<1>9. IsReversed(g)' = reverse
    BY <1>2, <1>7, <1>8, ThreadStays
<1>10. /\ DoesOf(g) = << k, reverse >> /\ DoesOf(g)' = << k, reverse >>
       /\ FramesLeft(g) = {} /\ FramesLeft(g)' = {}
       /\ VerdictOf(g) = "none" /\ VerdictOf(g)' = p
    BY <1>1, <1>2, <1>7, <1>8, <1>9 DEF DoesOf, FramesLeft, VerdictOf, Loops, At
<1>11. /\ DoesSeen' = [DoesSeen EXCEPT ![g] = DoesOf(g)']
       /\ LeftSeen' = [LeftSeen EXCEPT ![g] = FramesLeft(g)']
       /\ VerdictSeen' = [VerdictSeen EXCEPT ![g] = VerdictOf(g)']
    BY <1>7, OneMoves
<1>12. DoesSeen' = DoesSeen /\ LeftSeen' = LeftSeen /\ DoesSeen[g] = << k, reverse >>
       /\ LeftSeen[g] = {} /\ VerdictSeen[g] = "none"
    BY <1>10, <1>11, SeenOfAll
<1>13. VerdictSeen' = [VerdictSeen EXCEPT ![g] =
            IF FramesSeen[k] # {} /\ SavedSeen[k] = FramesSeen[k] THEN "whole" ELSE "short"]
    BY <1>3, <1>5, <1>10, <1>11, ThreadSeen
<1>14. FramesSeen' = FramesSeen /\ SavedSeen' = SavedSeen
    BY <1>1, FramesSame
<1>15. DoesSeen[g][1] = k /\ DoesSeen[g] # << >>
    BY <1>12
<1>16. Outside!End(g)
    BY <1>12, <1>13, <1>14, <1>15 DEF Outside!End
<1> QED
    BY <1>16 DEF SeenStep, Outside!Next

\* A call returns, and nothing is seen of it.
LEMMA GotoSeen ==
    ASSUME RenderInv, UNCHANGED vars, UNCHANGED output, NEW g \in Goroutines, NEW p, Goto(g, p),
           \/ work[g].pc \in InFrame /\ p \in InFrame
           \/ ~Loops(g) /\ p \in {"busy", "clean", "failed"}
    PROVE  SeenStep
<1>1. Moves(g, work[g].frame, p)
    BY GotoMoves DEF RenderInv
<1>2. /\ work'[g].thread = work[g].thread /\ work'[g].frame = work[g].frame /\ work'[g].pc = p
      /\ \A h \in Goroutines \ {g} : work'[h] = work[h]
    BY <1>1 DEF RenderInv, TypeInv, Moves
<1>3. ~Loops(g) /\ p \in {"busy", "clean", "failed"} => ~Loops(g)'
    BY <1>2 DEF Loops
<1>4. DoesOf(g)' = DoesOf(g) /\ FramesLeft(g)' = FramesLeft(g) /\ VerdictOf(g)' = VerdictOf(g)
    BY <1>2, <1>3, SameSeen
<1>5. \A h \in Goroutines \ {g} :
        DoesOf(h)' = DoesOf(h) /\ FramesLeft(h)' = FramesLeft(h) /\ VerdictOf(h)' = VerdictOf(h)
    BY <1>2, SameSeen
<1>6. UNCHANGED << DoesSeen, LeftSeen, VerdictSeen >>
    BY <1>4, <1>5, AllSame
<1> QED
    BY <1>6, FramesSame DEF SeenStep, Seen

\* A step of a goroutine.
LEMMA StepSeen ==
    ASSUME RenderInv, UNCHANGED vars, Done, IdsDiffer, NEW g \in Goroutines, Step(g)
    PROVE  SeenStep
<1> USE DEF At, InFrame
<1>1. CASE CheckRunning(g)
    <2>1. UNCHANGED output /\ ~Loops(g) /\ (Goto(g, "busy") \/ Goto(g, "clean"))
        BY <1>1 DEF CheckRunning, Loops
    <2> QED
        BY <2>1, GotoSeen
<1>0. CASE FailDownload(g)
    <2>1. UNCHANGED output /\ ~Loops(g) /\ Goto(g, "failed")
        BY <1>0 DEF FailDownload, Loops
    <2> QED
        BY <2>1, GotoSeen
<1>2. CASE Clean(g)
    BY <1>2, CleanSeen
<1>3. CASE CountFrames(g)
    BY <1>3, CountFramesSeen
<1>4. CASE CheckContainer(g)
    <2>1. UNCHANGED output /\ work[g].pc = "check" /\ (Goto(g, "run") \/ Advance(g))
        BY <1>4 DEF CheckContainer
    <2> QED
        BY <2>1, GotoSeen, AdvanceSeen
<1>5. CASE RunContainer(g)
    <2>1. UNCHANGED output /\ work[g].pc = "run" /\ (Goto(g, "wait") \/ Advance(g))
        BY <1>5 DEF RunContainer
    <2> QED
        BY <2>1, GotoSeen, AdvanceSeen
<1>6. CASE WaitForContainer(g)
    <2>1. /\ UNCHANGED output /\ work[g].pc = "wait"
          /\ Goto(g, "waiting") \/ Goto(g, "logs") \/ Advance(g)
        BY <1>6 DEF WaitForContainer
    <2> QED
        BY <2>1, GotoSeen, AdvanceSeen
<1>7. CASE ReadLogs(g)
    <2>1. UNCHANGED output /\ work[g].pc = "logs" /\ Goto(g, "rm")
        BY <1>7 DEF ReadLogs
    <2> QED
        BY <2>1, GotoSeen
<1>8. CASE LoseLogs(g)
    <2>1. UNCHANGED output /\ work[g].pc = "logs" /\ Advance(g)
        BY <1>8 DEF LoseLogs
    <2> QED
        BY <2>1, AdvanceSeen
<1>9. CASE RemoveOwn(g)
    <2>1. UNCHANGED output /\ work[g].pc = "rm" /\ Goto(g, "stat")
        BY <1>9 DEF RemoveOwn
    <2> QED
        BY <2>1, GotoSeen
<1>10. CASE StatFrame(g)
    <2>1. UNCHANGED output /\ work[g].pc = "stat" /\ (Advance(g) \/ Goto(g, "check"))
        BY <1>10 DEF StatFrame
    <2> QED
        BY <2>1, GotoSeen, AdvanceSeen
<1> QED
    BY <1>0, <1>1, <1>2, <1>3, <1>4, <1>5, <1>6, <1>7, <1>8, <1>9, <1>10 DEF Step

\* Nothing is seen of a goroutine that is started.
LEMMA StartWorkSeen ==
    ASSUME RenderInv, UNCHANGED vars, NEW g \in Goroutines, NEW k, StartWork(g, k)
    PROVE  SeenStep
<1>1. /\ work[g].pc = "new" /\ work'[g].pc = "start" /\ UNCHANGED output
      /\ \A h \in Goroutines \ {g} : work'[h] = work[h]
    BY DEF RenderInv, TypeInv, StartWork, At
<1>2. DoesOf(g)' = DoesOf(g) /\ FramesLeft(g)' = FramesLeft(g) /\ VerdictOf(g)' = VerdictOf(g)
    BY <1>1 DEF DoesOf, FramesLeft, VerdictOf, Loops
<1>3. \A h \in Goroutines \ {g} :
        DoesOf(h)' = DoesOf(h) /\ FramesLeft(h)' = FramesLeft(h) /\ VerdictOf(h)' = VerdictOf(h)
    BY <1>1, SameSeen
<1>4. UNCHANGED << DoesSeen, LeftSeen, VerdictSeen >>
    BY <1>2, <1>3, AllSame
<1> QED
    BY <1>1, <1>4, FramesSame DEF SeenStep, Seen

\* A container saves its frame: a frame of a thread that is being rendered.
LEMMA ContainerExitsSeen ==
    ASSUME RenderInv, UNCHANGED vars, Done, IdsDiffer,
           NEW id \in DOMAIN container, ContainerExits(id)
    PROVE  SeenStep
<1>1. \A h \in Goroutines :
        /\ work'[h].thread = work[h].thread /\ work'[h].frame = work[h].frame
        /\ At(h, "waiting") /\ Id(h) = id => work'[h].pc = "logs"
        /\ ~(At(h, "waiting") /\ Id(h) = id) => work'[h] = work[h]
    BY AnswerEffect DEF RenderInv
<1>2. ASSUME NEW h \in Goroutines
      PROVE  DoesOf(h)' = DoesOf(h) /\ FramesLeft(h)' = FramesLeft(h) /\ VerdictOf(h)' = VerdictOf(h)
    <2>1. CASE At(h, "waiting") /\ Id(h) = id
        <3>1. work[h].pc \in InFrame /\ work'[h].pc \in InFrame
            BY <1>1, <2>1 DEF At, InFrame
        <3> QED
            BY <1>1, <3>1, SameSeen
    <2>2. CASE ~(At(h, "waiting") /\ Id(h) = id)
        BY <1>1, <2>2, SameSeen
    <2> QED
        BY <2>1, <2>2
<1>3. UNCHANGED << DoesSeen, LeftSeen, VerdictSeen >>
    BY <1>2, AllSame
<1>4. CASE UNCHANGED output
    BY <1>3, <1>4, FramesSame DEF SeenStep, Seen
<1>5. CASE output' = [output EXCEPT ![id] = @ \cup {container[id].frame}]
    <2>1. PICK by \in Goroutines, f \in Int : by = container[id].by /\ f = container[id].frame
        BY DEF RenderInv, TypeInv, Containers
    <2>2. Loops(by) /\ Started(by) /\ Id(by) = id /\ f \in Frames(by)
        BY <2>1 DEF RenderInv, ContainerInv, OwnInv, Loops, Started, At
    <2>3. PICK k \in ThreadKeys : k = work[by].thread
        BY <2>2 DEF RenderInv, TypeInv
    <2>4. id = ThreadId(k[1], k[2]) /\ f \in RangeSet(k)
        BY <2>2, <2>3 DEF Id, Frames
    <2>5. DoesSeen[by] = << k, IsReversed(by) >>
        BY <2>2, <2>3, SeenOfAll DEF DoesOf
    <2>6. f \in FramesSeen[k] /\ k \in DOMAIN FramesSeen /\ FramesSeen' = FramesSeen
        BY <2>4, ThreadSeen, FramesSame
    <2>7. SavedSeen' = [SavedSeen EXCEPT ![k] = @ \cup {f}]
        <3>1. \A l \in ThreadKeys : ThreadId(l[1], l[2]) \in Ids
            BY FramesOfThread DEF RenderInv
        <3>2. \A l \in ThreadKeys : output'[ThreadId(l[1], l[2])] =
                IF l = k THEN output[ThreadId(l[1], l[2])] \cup {f} ELSE output[ThreadId(l[1], l[2])]
            BY <1>5, <2>1, <2>4, <3>1 DEF IdsDiffer, RenderInv, TypeInv
        <3>3. SavedSeen' = [l \in ThreadKeys |-> output'[ThreadId(l[1], l[2])]]
            BY Dealt DEF SavedSeen
        <3>4. SavedSeen = [l \in ThreadKeys |-> output[ThreadId(l[1], l[2])]]
            BY DEF SavedSeen
        <3> QED
            BY <3>2, <3>3, <3>4
    <2>8. DoesSeen[by] # << >> /\ DoesSeen[by][1] = k
        BY <2>5
    <2>9. Outside!Save(k, f)
        BY <1>3, <2>6, <2>7, <2>8 DEF Outside!Save
    <2> QED
        BY <2>6, <2>9 DEF SeenStep, Outside!Next
<1> QED
    BY <1>4, <1>5 DEF ContainerExits

\* Nothing is seen of a container that is removed.
LEMMA ContainerIsRemovedSeen ==
    ASSUME UNCHANGED vars, NEW id, ContainerIsRemoved(id)
    PROVE  SeenStep
<1>1. UNCHANGED << output, work >>
    BY DEF ContainerIsRemoved
<1>2. UNCHANGED << DoesSeen, LeftSeen, VerdictSeen >>
    BY <1>1, SameSeen, AllSame
<1> QED
    BY <1>1, <1>2, FramesSame DEF SeenStep, Seen

\* Nothing is seen of a goroutine that has not begun.
LEMMA NothingSeen ==
    /\ \A g : ~Started(g) => DoesOf(g) = << >> /\ FramesLeft(g) = {} /\ VerdictOf(g) = "none"
    /\ ~Done => FramesSeen = << >> /\ SavedSeen = << >>
    /\ ThreadKeys = {} => FramesSeen = << >> /\ SavedSeen = << >>
<1>1. \A g : ~Started(g) => DoesOf(g) = << >> /\ FramesLeft(g) = {} /\ VerdictOf(g) = "none"
    BY DEF Started, At, DoesOf, FramesLeft, VerdictOf, Loops
<1>2. ~Done => FramesSeen = << >> /\ SavedSeen = << >>
    BY DEF FramesSeen, SavedSeen
<1>3. ASSUME ThreadKeys = {}
      PROVE  FramesSeen = << >> /\ SavedSeen = << >>
    <2>1. CASE Done
        <3>1. DOMAIN FramesSeen = {} /\ FramesSeen = [k \in DOMAIN FramesSeen |-> FramesSeen[k]]
            BY <1>3, <2>1 DEF FramesSeen
        <3>2. DOMAIN SavedSeen = {} /\ SavedSeen = [k \in DOMAIN SavedSeen |-> SavedSeen[k]]
            BY <1>3, <2>1 DEF SavedSeen
        <3> QED
            BY <3>1, <3>2, NoEntries
    <2>2. CASE ~Done
        BY <1>2, <2>2
    <2> QED
        BY <2>1, <2>2
<1> QED
    BY <1>1, <1>2, <1>3

\* The frames are seen when the last range has been dealt out.
LEMMA DealSeen ==
    ASSUME RenderInv, Deal
    PROVE  SeenStep
<1>1. ~Done
    BY LoopConstants DEF Deal, Iterate, Done, RenderInv, SplitInv
<1>2. UNCHANGED work /\ \A g \in Goroutines : ~Started(g) /\ ~Started(g)'
    BY <1>1 DEF RenderInv, DealInv, Deal, Started, At
<1>3. \A g \in Goroutines : DoesOf(g)' = << >> /\ FramesLeft(g)' = {} /\ VerdictOf(g)' = "none"
    BY <1>2 DEF Started, At, DoesOf, FramesLeft, VerdictOf, Loops
<1>4. UNCHANGED << DoesSeen, LeftSeen, VerdictSeen >>
    BY <1>2, <1>3, NothingSeen, AllSame
<1>5. FramesSeen = << >> /\ SavedSeen = << >>
    BY <1>1, NothingSeen
<1>6. CASE ~Done' \/ ThreadKeys' = {}
    <2>1. (~Done => FramesSeen = << >> /\ SavedSeen = << >>)'
          /\ (ThreadKeys = {} => FramesSeen = << >> /\ SavedSeen = << >>)'
        BY NothingSeen, PTL
    <2> QED
        BY <1>4, <1>5, <1>6, <2>1 DEF SeenStep, Seen
<1>7. CASE Done' /\ ThreadKeys' # {}
    <2>1. FramesSeen' = [k \in ThreadKeys' |-> RangeSet(k)']
        BY <1>7 DEF FramesSeen
    <2>2. FramesSeen' # << >> /\ DOMAIN FramesSeen' = ThreadKeys'
        BY <1>7, <2>1
    <2>3. \A k \in ThreadKeys' : output'[ThreadId(k[1], k[2])] = {}
        BY DEF Deal, ThreadKeys, Ids
    <2>4. SavedSeen' = [k \in DOMAIN FramesSeen' |-> {}]
        BY <1>7, <2>2, <2>3 DEF SavedSeen
    <2>5. Outside!Split
        BY <1>4, <1>5, <2>2, <2>4 DEF Outside!Split
    <2> QED
        BY <2>5 DEF SeenStep, Outside!Next
<1> QED
    BY <1>6, <1>7

\* The beginning.
LEMMA InitSeen == RenderInit => Outside!Init
<1> SUFFICES ASSUME RenderInit
             PROVE  Outside!Init
    OBVIOUS
<1>1. \A g \in Goroutines : ~Started(g)
    BY DEF RenderInit, Started, At
<1>2. ThreadKeys = {}
    <2>1. result = << >>
        BY DEF RenderInit, Init
    <2>2. 0 .. Len(result) - 1 = {}
        BY <2>1, EmptySeq
    <2> QED
        BY <2>2 DEF ThreadKeys
<1>3. /\ DoesSeen = [g \in Goroutines |-> << >>]
      /\ LeftSeen = [g \in Goroutines |-> {}]
      /\ VerdictSeen = [g \in Goroutines |-> "none"]
    BY <1>1, NothingSeen, SeenOfAll
<1> QED
    BY <1>2, <1>3, NothingSeen DEF Outside!Init

\* Whatever task, split, goroutines and containers, if no task has more than ten threads:
\* the rendering is the one that is seen from outside, which passes every frame once, saves
\* frames of a thread only for that thread, and counts as completed exactly a thread with
\* all its frames.
THEOREM RenderingIsImplemented ==
    (\A r \in Rendered : r.threads <= 10) => (RenderSpec => ImplementsRendering)
<1> SUFFICES ASSUME \A r \in Rendered : r.threads <= 10
             PROVE  RenderSpec => ImplementsRendering
    OBVIOUS
<1>1. ASSUME RenderInv, ThreadIdsDiffer, [RenderNext]_<< vars, renderVars >>
      PROVE  [Outside!Next]_Seen
    <2>1. CASE Deal
        BY <1>1, <2>1, DealSeen DEF SeenStep
    <2>2. CASE Render
        <3>1. Done /\ UNCHANGED vars /\ input.threads <= 10
            BY <2>2 DEF Render, Done
        <3>2. IdsDiffer
            BY <1>1, <3>1 DEF ThreadIdsDiffer, IdsDiffer
        <3>3. SeenStep
            BY <1>1, <2>2, <3>1, <3>2, StartWorkSeen, StepSeen, ContainerExitsSeen,
                ContainerIsRemovedSeen DEF Render
        <3> QED
            BY <3>3 DEF SeenStep
    <2>3. CASE UNCHANGED << vars, renderVars >>
        <3>1. UNCHANGED vars /\ UNCHANGED << output, work >>
            BY <2>3 DEF renderVars
        <3>2. UNCHANGED << DoesSeen, LeftSeen, VerdictSeen >>
            BY <3>1, SameSeen, AllSame
        <3> QED
            BY <3>1, <3>2, FramesSame DEF Seen
    <2> QED
        BY <1>1, <2>1, <2>2, <2>3 DEF RenderNext
<1>2. RenderInit => Outside!Init
    BY InitSeen
<1> QED
    BY <1>1, <1>2, RenderInvariant, IdsOfThreadsDiffer, PTL
        DEF RenderSpec, ImplementsRendering, Outside!Spec, Seen

=============================================================================
