---------------------------- MODULE ThreadRules ----------------------------
(***************************************************************************)
(* The pure rules of a video upscaler thread: what the methods of          *)
(* VideoUpscalerThread and VideoUpscalerTask compute from one stored       *)
(* thread, with no store and no block around them.                         *)
(*                                                                         *)
(* A thread is a record                                                    *)
(*   size        EndFrame - StartFrame + 1, the frames it has to produce   *)
(*   workers     the subscribed workers, in the order they subscribed      *)
(*   proposedBy  Solution.ProposedBy, Nobody while Solution is nil         *)
(*   frames      Solution.Frames: file -> [hash, valid, invalid]           *)
(*   dir         Solution.Dir, NoDir until the solution is uploaded        *)
(*   accepted    Solution.Accepted                                         *)
(*   validations sequence of [validator, isReverse, hashes]                *)
(*   completed   Completed                                                 *)
(*                                                                         *)
(* A file name is a number, and a solution names each file once: a node    *)
(* builds it from a map.  Frames are evaluated in the order of the names,  *)
(* one of the orders a node may send them in.  The cid and the hash of a   *)
(* revealed frame travel, are set and are required together, so one value  *)
(* stands for the pair and NoHash for "either is empty".  A signature is   *)
(* what it signs: the hash of the file the signer rendered (the address it *)
(* also covers is the signer's own), or Undecodable when the signature or  *)
(* the public key does not decode.                                         *)
(***************************************************************************)
EXTENDS Integers, Sequences, FiniteSets, Functions, FiniteSetsExt

CONSTANTS
    Nobody,       \* the proposer of a thread that has no solution yet
    NoHash,       \* the hash of a frame that has not been revealed
    NoDir,        \* the directory of a solution that has not been uploaded
    Malformed,    \* a reveal entry that is not "file=cid:hash"
    Undecodable   \* a signature, or the key to check it, that does not decode

-----------------------------------------------------------------------------
(* Frame ranges of the threads of a task. *)

\* Go's integer division and remainder: both truncate toward zero.
GoDiv(a, b) == IF a >= 0 THEN a \div b ELSE -((-a) \div b)
GoMod(a, b) == a - b * GoDiv(a, b)

\* The number of frames splitFrames gives to the thread with index i of n: the
\* first totalFrames % n threads get one frame more than the others.  A negative
\* remainder, which only an end before the start produces, is never handed out.
ThreadSize(start, end, n, i) ==
    LET totalFrames == end - start + 1
    IN  GoDiv(totalFrames, n) + (IF i < GoMod(totalFrames, n) THEN 1 ELSE 0)

-----------------------------------------------------------------------------
(* Solutions and their verification. *)

NewThread(size) ==
    [size        |-> size,
     workers     |-> << >>,
     proposedBy  |-> Nobody,
     frames      |-> << >>,
     dir         |-> NoDir,
     accepted    |-> FALSE,
     validations |-> << >>,
     completed   |-> FALSE]

HasSolution(thread) == thread.proposedBy # Nobody

\* Half of the workers render from the last frame to the first.  (Mutant: the
\* position is counted from the end of the list.)
IsReverse_FromEnd(thread, worker) ==
    \E i \in DOMAIN thread.workers :
        thread.workers[i] = worker /\ (Len(thread.workers) - i) % 2 # 0

IsReverse(thread, worker) ==
    \E i \in DOMAIN thread.workers :
        /\ thread.workers[i] = worker
        /\ \A j \in 1 .. i - 1 : thread.workers[j] # worker
        /\ i % 2 = 0

\* What FromCliToFrames makes of the entries of a reveal: malformed ones are
\* dropped, and the last entry for a file wins.
FromCliToFrames(entries) ==
    LET wellFormed == { i \in DOMAIN entries : entries[i] # Malformed }
        For(file)  == { i \in wellFormed : entries[i].file = file }
    IN  [file \in { entries[i].file : i \in wellFormed } |->
            entries[Max(For(file))].hash]

\* The whole solution has been revealed.
IsRevealed(thread) == \A f \in DOMAIN thread.frames : thread.frames[f].hash # NoHash

FirstFrame(thread) == CHOOSE f \in DOMAIN thread.frames : TRUE

\* The number of validations that lets the proposer reveal (in EndBlock) and
\* every node evaluate (in BeginBlock).
EnoughValidations(thread) ==
    \/ Len(thread.validations) > 1
    \/ Len(thread.validations) = Len(thread.workers)

\* BeginBlock evaluates the thread in this block.  (Mutant: it evaluates completed
\* threads too.)
ReadyToEvaluate_Completed(thread) ==
    /\ EnoughValidations(thread)
    /\ HasSolution(thread)
    /\ ~thread.accepted
    /\ DOMAIN thread.frames # {}
    /\ thread.frames[FirstFrame(thread)].hash # NoHash

ReadyToEvaluate(thread) ==
    /\ EnoughValidations(thread)
    /\ ~thread.completed
    /\ HasSolution(thread)
    /\ ~thread.accepted
    /\ DOMAIN thread.frames # {}
    /\ thread.frames[FirstFrame(thread)].hash # NoHash

\* The (frame, validation) pairs EvaluateVerifications looks at, frame by frame
\* and, for a frame, in the order the validations arrived.
Checks(thread) ==
    { c \in (DOMAIN thread.frames) \X (DOMAIN thread.validations) :
        c[1] \in DOMAIN thread.validations[c[2]].hashes }

NotAfter(c, d) == c[1] < d[1] \/ (c[1] = d[1] /\ c[2] <= d[2])

Signed(thread, c) == thread.validations[c[2]].hashes[c[1]]

\* A signature that does not decode makes EvaluateVerifications return: the pairs
\* before it are counted, it and the pairs after it are not.
Counted(thread) ==
    { c \in Checks(thread) :
        \A d \in Checks(thread) : Signed(thread, d) = Undecodable => ~NotAfter(d, c) }

AgreeOn(thread, f) ==
    { c \in Counted(thread) : c[1] = f /\ Signed(thread, c) = thread.frames[f].hash }

DifferOn(thread, f) ==
    { c \in Counted(thread) : c[1] = f /\ Signed(thread, c) # thread.frames[f].hash }

\* The counts are added to what the stored frame already holds.
EvaluateVerifications(thread) ==
    [thread EXCEPT !.frames =
        [f \in DOMAIN thread.frames |->
            [hash    |-> thread.frames[f].hash,
             valid   |-> thread.frames[f].valid + Cardinality(AgreeOn(thread, f)),
             invalid |-> thread.frames[f].invalid + Cardinality(DifferOn(thread, f))]]]

MinValidValidations(thread) == IF Len(thread.workers) = 1 THEN 1 ELSE 2

ValidFrames(thread) ==
    { f \in DOMAIN thread.frames : thread.frames[f].valid >= MinValidValidations(thread) }

\* 20% of the frames, rounded down, and at least one.  (The code multiplies floats:
\* 0.2 is stored slightly above one fifth, so the product never falls below a
\* multiple of five.)  (Mutant: none is required of a short solution.)
RequiredFrames_Floor(total) == total \div 5

RequiredFrames(total) == IF total \div 5 = 0 THEN 1 ELSE total \div 5

IsSolutionAccepted(thread) ==
    /\ DOMAIN thread.frames # {}
    /\ Cardinality(ValidFrames(thread)) >= RequiredFrames(Cardinality(DOMAIN thread.frames))

-----------------------------------------------------------------------------
(* Rewards. *)

\* Half of the task's reward is for the winners, in equal integer parts.
GetWinnerReward(reward, threadAmount) == (reward \div 2) \div threadAmount

=============================================================================
