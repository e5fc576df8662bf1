--------------------------- MODULE SolutionProofs --------------------------
(***************************************************************************)
(* Theorems about the solutions of threads, and about their validations:   *)
(* whose they are, which way their authors render, and how often a worker  *)
(* can validate.  Everything rests on what one step may do to one stored   *)
(* thread.                                                                 *)
(***************************************************************************)
EXTENDS ChainProofs

-----------------------------------------------------------------------------
(* What a step does to a stored thread. *)

\* The thread after each of the steps that change it.
Subscribed(thread, w) == [thread EXCEPT !.workers = Append(@, w)]

Proposed(thread, w, files) ==
    [thread EXCEPT !.proposedBy = w,
                   !.frames = [f \in files |-> [hash |-> NoHash, valid |-> 0, invalid |-> 0]]]

Validated(thread, w, hashes) ==
    [thread EXCEPT !.validations = Append(@,
        [validator |-> w, isReverse |-> IsReverse(thread, w), hashes |-> hashes])]

Submitted(thread, d) == [thread EXCEPT !.dir = d, !.completed = TRUE]

\* The stored thread k changes by one message that its handler accepts, by an
\* evaluation, or not at all.
ThreadStep(k) ==
    \/ threads'[k] = threads[k]
    \/ \E w \in Providers :
        /\ CanSubscribe(w, k)
        /\ threads'[k] = Subscribed(threads[k], w)
    \/ \E w \in Providers, files \in Proposals :
        /\ CanPropose(w, k, files)
        /\ threads'[k] = Proposed(threads[k], w, files)
    \/ \E w \in Providers, entries \in Reveals :
        /\ CanReveal(w, k, entries)
        /\ threads'[k] = Reveal(threads[k], FromCliToFrames(entries))
    \/ \E w \in Providers, hashes \in Verifications :
        /\ SubmitValidation(w, k, hashes)
        /\ threads'[k] = Validated(threads[k], w, hashes)
    \/ \E w \in Providers, d \in Dirs :
        /\ CanSubmit(w, k)
        /\ threads'[k] = Submitted(threads[k], d)
    \/ /\ ~tasks[k[1]].completed
       /\ ReadyToEvaluate(threads[k])
       /\ threads'[k] = Evaluated(k)

\* Whatever the step, a stored thread stays as it is or is changed by one handler
\* or by the evaluation of BeginBlock.
LEMMA NextThreadStep ==
    TypeInv /\ [Next]_vars => \A k \in DOMAIN threads : k \in DOMAIN threads' /\ ThreadStep(k)
<1> SUFFICES ASSUME TypeInv, [Next]_vars, NEW k \in DOMAIN threads
             PROVE  k \in DOMAIN threads' /\ ThreadStep(k)
    OBVIOUS
<1> USE DEF ThreadStep
<1> PICK before \in SUBSET Files : threads[k] \in Thread(before)
    BY DEF TypeInv, TypeOK, IsThread
<1>1. CASE BeginBlock
    BY <1>1 DEF BeginBlock, Stored, Evaluated
<1>2. CASE EndBlock
    BY <1>2 DEF EndBlock
<1>3. ASSUME NEW a \in Requesters, NEW input \in FrameInputs, NEW reward \in Rewards,
             CreateVideoUpscalerTask(a, input, reward)
      PROVE  k \in DOMAIN threads' /\ ThreadStep(k)
    BY <1>3 DEF CreateVideoUpscalerTask, TypeInv, TypeOK, StoreShape, ThreadKeys
<1>4. ASSUME NEW w \in Providers, NEW stake \in Stakes, AddWorker(w, stake)
      PROVE  k \in DOMAIN threads' /\ ThreadStep(k)
    BY <1>4 DEF AddWorker
<1>5. ASSUME NEW w \in Providers, NEW j \in DOMAIN threads, SubscribeWorkerToTask(w, j)
      PROVE  k \in DOMAIN threads' /\ ThreadStep(k)
    BY <1>5 DEF SubscribeWorkerToTask, Subscribed
<1>6. ASSUME NEW w \in Providers, NEW j \in DOMAIN threads, NEW files \in Proposals,
             ProposeSolution(w, j, files)
      PROVE  k \in DOMAIN threads' /\ ThreadStep(k)
    <2>1. k \in DOMAIN threads' /\ (k # j => threads'[k] = threads[k])
        BY <1>6 DEF ProposeSolution
    <2>2. k = j => threads'[k] = Proposed(threads[k], w, files)
        BY <1>6 DEF ProposeSolution, Proposed, Thread
    <2>3. CanPropose(w, j, files)
        BY <1>6 DEF ProposeSolution
    <2> QED
        BY <2>1, <2>2, <2>3
<1>7. ASSUME NEW w \in Providers, NEW j \in DOMAIN threads, NEW entries \in Reveals,
             RevealSolution(w, j, entries)
      PROVE  k \in DOMAIN threads' /\ ThreadStep(k)
    BY <1>7 DEF RevealSolution
<1>8. ASSUME NEW w \in Providers, NEW j \in DOMAIN threads, NEW hashes \in Verifications,
             SubmitValidation(w, j, hashes)
      PROVE  k \in DOMAIN threads' /\ ThreadStep(k)
    BY <1>8 DEF SubmitValidation, Validated
<1>9. ASSUME NEW w \in Providers, NEW j \in DOMAIN threads, NEW d \in Dirs,
             SubmitSolution(w, j, d)
      PROVE  k \in DOMAIN threads' /\ ThreadStep(k)
    <2>1. k \in DOMAIN threads' /\ (k # j => threads'[k] = threads[k])
        BY <1>9 DEF SubmitSolution
    <2>2. k = j => threads'[k] = Submitted(threads[k], d)
        BY <1>9 DEF SubmitSolution, Submitted, Thread
    <2>3. CanSubmit(w, j)
        BY <1>9 DEF SubmitSolution
    <2> QED
        BY <2>1, <2>2, <2>3
<1>10. CASE UNCHANGED vars
    BY <1>10 DEF vars
<1> QED
    BY <1>1, <1>2, <1>3, <1>4, <1>5, <1>6, <1>7, <1>8, <1>9, <1>10 DEF Next

\* The threads a step adds to the store are those of a task that it creates.
LEMMA NewThreads ==
    ASSUME TypeInv, [Next]_vars, NEW k \in DOMAIN threads', k \notin DOMAIN threads
    PROVE  /\ k[1] = nextId
           /\ \E size \in Int : threads'[k] = NewThread(size)
<1>1. ASSUME NEW a \in Requesters, NEW input \in FrameInputs, NEW reward \in Rewards,
             CreateVideoUpscalerTask(a, input, reward)
      PROVE  k[1] = nextId /\ \E size \in Int : threads'[k] = NewThread(size)
    <2>1. input \in [start : Int, end : Int, threads : Int] /\ input.threads \in Nat \ {0}
        BY <1>1, MessagesAssumption DEF CreateVideoUpscalerTask
    <2>2. k \in { << nextId, i >> : i \in 0 .. input.threads - 1 }
        BY <1>1 DEF CreateVideoUpscalerTask
    <2>3. k[1] = nextId /\ k[2] \in Nat
        BY <2>1, <2>2
    <2>4. ThreadSize(input.start, input.end, input.threads, k[2]) \in Int
        BY <2>1, <2>3, ThreadSizeType
    <2> QED
        BY <1>1, <2>3, <2>4 DEF CreateVideoUpscalerTask
<1>2. CASE BeginBlock \/ EndBlock \/ UNCHANGED vars
    BY <1>2 DEF BeginBlock, EndBlock, vars
<1>3. ASSUME NEW w \in Providers, NEW stake \in Stakes, AddWorker(w, stake)
      PROVE  FALSE
    BY <1>3 DEF AddWorker
<1>4. ASSUME NEW w \in Providers, NEW j \in DOMAIN threads,
             \/ SubscribeWorkerToTask(w, j)
             \/ \E files \in Proposals : ProposeSolution(w, j, files)
             \/ \E entries \in Reveals : RevealSolution(w, j, entries)
             \/ \E hashes \in Verifications : SubmitValidation(w, j, hashes)
             \/ \E d \in Dirs : SubmitSolution(w, j, d)
      PROVE  FALSE
    BY <1>4 DEF SubscribeWorkerToTask, ProposeSolution, RevealSolution, SubmitValidation,
        SubmitSolution
<1> QED
    BY <1>1, <1>2, <1>3, <1>4 DEF Next

\* The evaluation of a thread adds to counts and decides; it keeps everything else.
LEMMA EvaluationKeeps ==
    ASSUME TypeInv, NEW k \in DOMAIN threads, ReadyToEvaluate(threads[k])
    PROVE  LET old == threads[k]  new == Evaluated(k)
           IN  /\ new.size = old.size /\ new.workers = old.workers
               /\ new.proposedBy = old.proposedBy /\ new.dir = old.dir
               /\ new.validations = old.validations /\ new.completed = old.completed
               /\ DOMAIN new.frames = DOMAIN old.frames
               /\ \A f \in DOMAIN old.frames : new.frames[f].hash = old.frames[f].hash
               /\ new.frames = EvaluateVerifications(old).frames
               /\ new.accepted = AcceptedNow(k)
<1> PICK before \in SUBSET Files : threads[k] \in Thread(before)
    BY DEF TypeInv, TypeOK, IsThread
<1> QED
    BY DEF Evaluated, EvaluateVerifications, Thread

\* Workers are listed by subscribing only, and validations added by validating only.
LEMMA ListsChange ==
    ASSUME TypeInv, NEW k \in DOMAIN threads, ThreadStep(k)
    PROVE  \/ /\ threads'[k].workers = threads[k].workers
              /\ threads'[k].validations = threads[k].validations
           \/ \E w \in Providers :
                /\ CanSubscribe(w, k)
                /\ threads'[k].workers = Append(threads[k].workers, w)
                /\ threads'[k].validations = threads[k].validations
           \/ \E w \in Providers, hashes \in Verifications :
                /\ SubmitValidation(w, k, hashes)
                /\ threads'[k].workers = threads[k].workers
                /\ threads'[k].validations = Append(threads[k].validations,
                        [validator |-> w, isReverse |-> IsReverse(threads[k], w),
                         hashes |-> hashes])
<1> PICK before \in SUBSET Files : threads[k] \in Thread(before)
    BY DEF TypeInv, TypeOK, IsThread
<1>1. CASE threads'[k] = threads[k]
    BY <1>1
<1>2. ASSUME NEW w \in Providers, CanSubscribe(w, k), threads'[k] = Subscribed(threads[k], w)
      PROVE  /\ threads'[k].workers = Append(threads[k].workers, w)
             /\ threads'[k].validations = threads[k].validations
    BY <1>2 DEF Subscribed, Thread
<1>3. ASSUME NEW w \in Providers, NEW files \in Proposals,
             CanPropose(w, k, files), threads'[k] = Proposed(threads[k], w, files)
      PROVE  /\ threads'[k].workers = threads[k].workers
             /\ threads'[k].validations = threads[k].validations
    BY <1>3 DEF Proposed, Thread
<1>4. ASSUME NEW w \in Providers, NEW entries \in Reveals,
             CanReveal(w, k, entries), threads'[k] = Reveal(threads[k], FromCliToFrames(entries))
      PROVE  /\ threads'[k].workers = threads[k].workers
             /\ threads'[k].validations = threads[k].validations
    BY <1>4 DEF Reveal, Thread
<1>5. ASSUME NEW w \in Providers, NEW hashes \in Verifications,
             SubmitValidation(w, k, hashes), threads'[k] = Validated(threads[k], w, hashes)
      PROVE  /\ threads'[k].workers = threads[k].workers
             /\ threads'[k].validations = Append(threads[k].validations,
                    [validator |-> w, isReverse |-> IsReverse(threads[k], w), hashes |-> hashes])
    BY <1>5 DEF Validated, Thread
<1>6. ASSUME NEW w \in Providers, NEW d \in Dirs, threads'[k] = Submitted(threads[k], d)
      PROVE  /\ threads'[k].workers = threads[k].workers
             /\ threads'[k].validations = threads[k].validations
    BY <1>6 DEF Submitted, Thread
<1>7. CASE ReadyToEvaluate(threads[k]) /\ threads'[k] = Evaluated(k)
    BY <1>7, EvaluationKeeps
<1> QED
    BY <1>1, <1>2, <1>3, <1>4, <1>5, <1>6, <1>7 DEF ThreadStep

\* Solutions are written by proposing, revealing and evaluating only.
LEMMA SolutionsChange ==
    ASSUME TypeInv, NEW k \in DOMAIN threads, ThreadStep(k)
    PROVE  \/ /\ threads'[k].frames = threads[k].frames
              /\ threads'[k].proposedBy = threads[k].proposedBy
              /\ threads'[k].accepted = threads[k].accepted
           \/ \E w \in Providers, files \in Proposals :
                /\ CanPropose(w, k, files)
                /\ threads'[k].proposedBy = w
                /\ DOMAIN threads'[k].frames = files
                /\ \A f \in files : threads'[k].frames[f].hash = NoHash
                /\ threads'[k].accepted = threads[k].accepted
           \/ \E w \in Providers, entries \in Reveals :
                /\ CanReveal(w, k, entries)
                /\ threads'[k] = Reveal(threads[k], FromCliToFrames(entries))
                /\ DOMAIN threads'[k].frames = DOMAIN threads[k].frames
                /\ threads'[k].proposedBy = threads[k].proposedBy
                /\ threads'[k].accepted = threads[k].accepted
           \/ /\ ReadyToEvaluate(threads[k])
              /\ threads'[k] = Evaluated(k)
<1> PICK before \in SUBSET Files : threads[k] \in Thread(before)
    BY DEF TypeInv, TypeOK, IsThread
<1>1. CASE threads'[k] = threads[k]
    BY <1>1
<1>2. ASSUME NEW w \in Providers, CanSubscribe(w, k), threads'[k] = Subscribed(threads[k], w)
      PROVE  /\ threads'[k].frames = threads[k].frames
             /\ threads'[k].proposedBy = threads[k].proposedBy
             /\ threads'[k].accepted = threads[k].accepted
    BY <1>2 DEF Subscribed, Thread
<1>3. ASSUME NEW w \in Providers, NEW files \in Proposals,
             CanPropose(w, k, files), threads'[k] = Proposed(threads[k], w, files)
      PROVE  /\ threads'[k].proposedBy = w
             /\ DOMAIN threads'[k].frames = files
             /\ \A f \in files : threads'[k].frames[f].hash = NoHash
             /\ threads'[k].accepted = threads[k].accepted
    BY <1>3 DEF Proposed, Thread
<1>4. ASSUME NEW w \in Providers, NEW entries \in Reveals,
             CanReveal(w, k, entries), threads'[k] = Reveal(threads[k], FromCliToFrames(entries))
      PROVE  /\ DOMAIN threads'[k].frames = DOMAIN threads[k].frames
             /\ threads'[k].proposedBy = threads[k].proposedBy
             /\ threads'[k].accepted = threads[k].accepted
    BY <1>4 DEF Reveal, Thread
<1>5. ASSUME NEW w \in Providers, NEW hashes \in Verifications,
             SubmitValidation(w, k, hashes), threads'[k] = Validated(threads[k], w, hashes)
      PROVE  /\ threads'[k].frames = threads[k].frames
             /\ threads'[k].proposedBy = threads[k].proposedBy
             /\ threads'[k].accepted = threads[k].accepted
    BY <1>5 DEF Validated, Thread
<1>6. ASSUME NEW w \in Providers, NEW d \in Dirs, threads'[k] = Submitted(threads[k], d)
      PROVE  /\ threads'[k].frames = threads[k].frames
             /\ threads'[k].proposedBy = threads[k].proposedBy
             /\ threads'[k].accepted = threads[k].accepted
    BY <1>6 DEF Submitted, Thread
<1>7. CASE ReadyToEvaluate(threads[k]) /\ threads'[k] = Evaluated(k)
    BY <1>7, EvaluationKeeps
<1> QED
    BY <1>1, <1>2, <1>3, <1>4, <1>5, <1>6, <1>7 DEF ThreadStep

-----------------------------------------------------------------------------
(* The list of workers. *)

\* The list of a thread only grows, by a worker it does not hold, while there is a
\* place: no retry and no race makes it longer or lists a worker twice.
THEOREM WorkersStayBounded == Spec => []WorkersBoundedAndDistinct
<1> DEFINE Bounded(list) == /\ Len(list) <= MaxWorkersPerThread
                            /\ \A i, j \in DOMAIN list : list[i] = list[j] => i = j
           Inv == TypeInv /\ WorkersBoundedAndDistinct
<1>1. Init => Inv
    BY InitTypeInv DEF Init, WorkersBoundedAndDistinct
<1>2. Inv /\ [Next]_vars => Inv'
    <2> SUFFICES ASSUME Inv, [Next]_vars
                 PROVE  Inv'
        OBVIOUS
    <2>1. TypeInv'
        BY NextTypeInv
    <2>2. ASSUME NEW k \in DOMAIN threads
          PROVE  Bounded(threads'[k].workers)
        <3>1. Bounded(threads[k].workers) /\ ThreadStep(k)
            BY NextThreadStep DEF WorkersBoundedAndDistinct
        <3>2. CASE threads'[k].workers = threads[k].workers
            BY <3>1, <3>2
        <3>3. ASSUME NEW w \in Providers, CanSubscribe(w, k),
                     threads'[k].workers = Append(threads[k].workers, w)
              PROVE  Bounded(threads'[k].workers)
            <4> DEFINE list == threads[k].workers
            <4>1. list \in Seq(Providers)
                BY DEF TypeInv, TypeOK, IsThread, Thread
            <4>2. threads'[k].workers = Append(list, w)
                BY <3>3
            <4>3. /\ Len(list) < MaxWorkersPerThread
                  /\ \A i \in DOMAIN list : list[i] # w
                BY <3>3 DEF CanSubscribe, Range
            <4> HIDE DEF list
            <4>4. Len(list) \in Nat /\ DOMAIN list = 1 .. Len(list)
                BY <4>1, LenProperties
            <4>5. /\ Len(Append(list, w)) = Len(list) + 1
                  /\ DOMAIN Append(list, w) = 1 .. Len(list) + 1
                  /\ \A i \in 1 .. Len(list) : Append(list, w)[i] = list[i]
                  /\ Append(list, w)[Len(list) + 1] = w
                BY <4>1, AppendProperties, LenProperties
            <4>6. Len(Append(list, w)) <= MaxWorkersPerThread
                BY <4>3, <4>4, <4>5, ParamsAssumption
            <4>7. ASSUME NEW i \in DOMAIN Append(list, w), NEW j \in DOMAIN Append(list, w),
                         Append(list, w)[i] = Append(list, w)[j]
                  PROVE  i = j
                <5>1. CASE i \in DOMAIN list /\ j \in DOMAIN list
                    BY <3>1, <4>4, <4>5, <4>7, <5>1 DEF list
                <5>2. CASE i = Len(list) + 1 \/ j = Len(list) + 1
                    BY <4>3, <4>4, <4>5, <4>7, <5>2
                <5> QED
                    BY <4>4, <4>5, <5>1, <5>2
            <4> QED
                BY <4>2, <4>6, <4>7
        <3>4. \/ threads'[k].workers = threads[k].workers
              \/ \E w \in Providers :
                    CanSubscribe(w, k) /\ threads'[k].workers = Append(threads[k].workers, w)
            BY <3>1, ListsChange
        <3> QED
            BY <3>2, <3>3, <3>4
    <2>3. ASSUME NEW k \in DOMAIN threads', k \notin DOMAIN threads
          PROVE  Bounded(threads'[k].workers)
        <3>1. threads'[k].workers = << >>
            BY <2>3, NewThreads DEF NewThread
        <3> QED
            BY <3>1, ParamsAssumption
    <2> QED
        BY <2>1, <2>2, <2>3 DEF WorkersBoundedAndDistinct
<1> QED
    BY <1>1, <1>2, PTL DEF Spec

-----------------------------------------------------------------------------
(* Reveals and acceptance. *)

\* No frame of the thread has been revealed.
IsHidden(thread) == \A f \in DOMAIN thread.frames : thread.frames[f].hash = NoHash

\* An acceptance rests on all that comes before it.
IsGrounded(thread) ==
    thread.accepted => /\ HasSolution(thread)
                       /\ IsRevealed(thread)
                       /\ \E f \in DOMAIN thread.frames : thread.frames[f].valid > 0

SolutionInv ==
    /\ TypeInv
    /\ HashesAreWholeOrNone
    /\ AcceptedIsRevealedAndValid

\* Twenty percent of some frames is at least one frame.
LEMMA SomeFrameIsRequired ==
    ASSUME NEW total \in Nat
    PROVE  RequiredFrames(total) >= 1
<1>1. total \div 5 \in Nat
    OBVIOUS
<1> QED
    BY <1>1 DEF RequiredFrames

\* A solution that is accepted has a frame with a valid validation.
LEMMA AcceptedHasValidFrame ==
    ASSUME NEW thread, IsFiniteSet(DOMAIN thread.frames), IsSolutionAccepted(thread),
           \A f \in DOMAIN thread.frames : thread.frames[f].valid \in Nat
    PROVE  \E f \in DOMAIN thread.frames : thread.frames[f].valid > 0
<1>1. Cardinality(DOMAIN thread.frames) \in Nat
    BY FS_CardinalityType
<1>2. ValidFrames(thread) # {}
    <2>1. Cardinality(ValidFrames(thread)) >= 1
        <3>1. IsFiniteSet(ValidFrames(thread))
            BY FS_Subset DEF ValidFrames
        <3>2. Cardinality(ValidFrames(thread)) \in Nat
            BY <3>1, FS_CardinalityType
        <3>3. RequiredFrames(Cardinality(DOMAIN thread.frames)) >= 1
            BY <1>1, SomeFrameIsRequired
        <3>4. RequiredFrames(Cardinality(DOMAIN thread.frames)) \in Nat
            BY <1>1 DEF RequiredFrames
        <3> QED
            BY <3>2, <3>3, <3>4 DEF IsSolutionAccepted
    <2> QED
        BY <2>1, FS_EmptySet
<1>3. MinValidValidations(thread) \in {1, 2}
    BY DEF MinValidValidations
<1>4. PICK f \in DOMAIN thread.frames : thread.frames[f].valid >= MinValidValidations(thread)
    BY <1>2 DEF ValidFrames
<1> QED
    BY <1>3, <1>4

\* A thread that is evaluated has been revealed as a whole.
LEMMA EvaluatedIsRevealed ==
    ASSUME NEW thread, ReadyToEvaluate(thread), IsRevealed(thread) \/ IsHidden(thread)
    PROVE  IsRevealed(thread)
<1>1. FirstFrame(thread) \in DOMAIN thread.frames
    BY DEF ReadyToEvaluate, FirstFrame
<1> QED
    BY <1>1 DEF ReadyToEvaluate, IsHidden

\* A change of one thread by any handler, or by its evaluation, keeps its solution
\* whole, and grounded when it is accepted.
LEMMA KeepsSolutionInv ==
    ASSUME SolutionInv, NEW k \in DOMAIN threads, ThreadStep(k)
    PROVE  /\ IsRevealed(threads'[k]) \/ IsHidden(threads'[k])
           /\ IsGrounded(threads'[k])
<1> DEFINE old == threads[k]
           new == threads'[k]
<1>1. IsRevealed(old) \/ IsHidden(old)
    BY DEF SolutionInv, HashesAreWholeOrNone, IsHidden
<1>2. IsGrounded(old)
    BY DEF SolutionInv, AcceptedIsRevealedAndValid, IsGrounded
<1>3. CASE /\ new.frames = old.frames /\ new.proposedBy = old.proposedBy
           /\ new.accepted = old.accepted
    BY <1>1, <1>2, <1>3 DEF IsRevealed, IsHidden, IsGrounded, HasSolution
<1>4. ASSUME NEW w \in Providers, NEW files \in Proposals,
             CanPropose(w, k, files), DOMAIN new.frames = files,
             \A f \in files : new.frames[f].hash = NoHash, new.accepted = old.accepted
      PROVE  (IsRevealed(new) \/ IsHidden(new)) /\ IsGrounded(new)
    <2>1. IsHidden(new)
        BY <1>4 DEF IsHidden
    <2>2. ~old.accepted
        BY <1>2, <1>4 DEF CanPropose, IsGrounded
    <2> QED
        BY <1>4, <2>1, <2>2 DEF IsGrounded
<1>5. ASSUME NEW w \in Providers, NEW entries \in Reveals,
             CanReveal(w, k, entries), new = Reveal(old, FromCliToFrames(entries)),
             new.accepted = old.accepted
      PROVE  (IsRevealed(new) \/ IsHidden(new)) /\ IsGrounded(new)
    <2>1. IsRevealed(new) /\ ~old.accepted
        BY <1>5 DEF CanReveal
    <2> QED
        BY <1>5, <2>1 DEF IsGrounded
<1>6. CASE ReadyToEvaluate(old) /\ new = Evaluated(k)
    <2>1. IsRevealed(old)
        BY <1>1, <1>6, EvaluatedIsRevealed
    <2>2. /\ DOMAIN new.frames = DOMAIN old.frames
          /\ \A f \in DOMAIN old.frames : new.frames[f].hash = old.frames[f].hash
          /\ new.proposedBy = old.proposedBy
          /\ new.frames = EvaluateVerifications(old).frames
          /\ new.accepted = AcceptedNow(k)
        BY <1>6, EvaluationKeeps DEF SolutionInv
    <2>3. IsRevealed(new)
        BY <2>1, <2>2 DEF IsRevealed
    <2>4. HasSolution(new)
        BY <1>6, <2>2 DEF ReadyToEvaluate, HasSolution
    <2>5. ASSUME AcceptedNow(k)
          PROVE  \E f \in DOMAIN new.frames : new.frames[f].valid > 0
        <3> DEFINE evaluated == EvaluateVerifications(old)
        <3>1. PICK files \in SUBSET Files : Evaluated(k) \in Thread(files)
            BY EvaluatedType DEF SolutionInv, IsThread
        <3>2. evaluated.frames \in [files -> Frame]
            BY <1>6, <2>2, <3>1 DEF Thread
        <3>3. IsFiniteSet(DOMAIN evaluated.frames)
            BY <3>2, FilesAssumption, FS_Subset
        <3>4. \A f \in DOMAIN evaluated.frames : evaluated.frames[f].valid \in Nat
            BY <3>2 DEF Frame
        <3>5. IsSolutionAccepted(evaluated)
            BY <2>5 DEF AcceptedNow
        <3> HIDE DEF evaluated
        <3>6. \E f \in DOMAIN evaluated.frames : evaluated.frames[f].valid > 0
            BY <3>3, <3>4, <3>5, AcceptedHasValidFrame
        <3> QED
            BY <2>2, <3>6 DEF evaluated
    <2> QED
        BY <2>2, <2>3, <2>4, <2>5 DEF IsGrounded
<1> QED
    BY <1>3, <1>4, <1>5, <1>6, SolutionsChange DEF SolutionInv

\* Solutions are whole and grounded in every store the handlers and BeginBlock reach.
LEMMA SolutionInvariant == Spec => []SolutionInv
<1>1. Init => SolutionInv
    BY InitTypeInv DEF Init, SolutionInv, HashesAreWholeOrNone, AcceptedIsRevealedAndValid
<1>2. SolutionInv /\ [Next]_vars => SolutionInv'
    <2> SUFFICES ASSUME SolutionInv, [Next]_vars
                 PROVE  SolutionInv'
        OBVIOUS
    <2>1. TypeInv'
        BY NextTypeInv DEF SolutionInv
    <2>2. ASSUME NEW k \in DOMAIN threads'
          PROVE  /\ IsRevealed(threads'[k]) \/ IsHidden(threads'[k])
                 /\ IsGrounded(threads'[k])
        <3>1. CASE k \in DOMAIN threads
            BY <3>1, NextThreadStep, KeepsSolutionInv DEF SolutionInv
        <3>2. CASE k \notin DOMAIN threads
            <4>1. threads'[k].frames = << >> /\ ~threads'[k].accepted
                BY <3>2, NewThreads DEF NewThread, SolutionInv
            <4> QED
                BY <4>1 DEF IsRevealed, IsGrounded
        <3> QED
            BY <3>1, <3>2
    <2>3. HashesAreWholeOrNone'
        BY <2>2 DEF HashesAreWholeOrNone, IsHidden
    <2>4. AcceptedIsRevealedAndValid'
        BY <2>2 DEF AcceptedIsRevealedAndValid, IsGrounded
    <2> QED
        BY <2>1, <2>3, <2>4 DEF SolutionInv
<1> QED
    BY <1>1, <1>2, PTL DEF Spec

\* Whatever entries a reveal has, dropped, repeated or of other files, and however
\* often a proposer reveals: a solution is revealed whole or hidden whole.
THEOREM RevealsAreWhole == Spec => []HashesAreWholeOrNone
<1>1. SolutionInv => HashesAreWholeOrNone
    BY DEF SolutionInv
<1> QED
    BY <1>1, SolutionInvariant, PTL

\* The acceptance walk of BeginBlock, which looks at the first frame only, accepts no
\* solution that is not revealed whole or that nobody agreed with on any frame.
THEOREM AcceptanceIsGrounded == Spec => []AcceptedIsRevealedAndValid
<1>1. SolutionInv => AcceptedIsRevealedAndValid
    BY DEF SolutionInv
<1> QED
    BY <1>1, SolutionInvariant, PTL

\* No message and no later block changes what has been accepted.
THEOREM AcceptanceIsFinal == Spec => AcceptedSolutionIsFinal
<1>1. SolutionInv /\ [Next]_vars =>
        [\A k \in DOMAIN threads : threads[k].accepted =>
            /\ threads'[k].accepted
            /\ threads'[k].frames = threads[k].frames]_vars
    <2> SUFFICES ASSUME SolutionInv, [Next]_vars, NEW k \in DOMAIN threads, threads[k].accepted
                 PROVE  threads'[k].accepted /\ threads'[k].frames = threads[k].frames
        OBVIOUS
    <2>1. ThreadStep(k) /\ HasSolution(threads[k])
        BY NextThreadStep DEF SolutionInv, AcceptedIsRevealedAndValid
    <2> QED
        BY <2>1, SolutionsChange DEF SolutionInv, CanPropose, CanReveal, ReadyToEvaluate
<1> QED
    BY <1>1, SolutionInvariant, PTL DEF Spec, AcceptedSolutionIsFinal

-----------------------------------------------------------------------------
(* Validations and the workers listed in the thread. *)

\* A worker's direction does not change when another subscribes after it.
LEMMA DirectionStays ==
    ASSUME NEW old, NEW new, NEW w \in Providers, NEW v,
           old.workers \in Seq(Providers),
           new.workers = Append(old.workers, w),
           v \in Range(old.workers)
    PROVE  IsReverse(new, v) = IsReverse(old, v)
<1> DEFINE before == old.workers
           after  == new.workers
           n      == Len(before)
<1>1. /\ n \in Nat /\ DOMAIN before = 1 .. n
      /\ DOMAIN after = 1 .. n + 1
      /\ \A i \in 1 .. n : after[i] = before[i]
    BY AppendProperties, LenProperties
<1>2. PICK p \in 1 .. n : before[p] = v
    BY <1>1 DEF Range
<1>3. IsReverse(new, v) => IsReverse(old, v)
    <2> SUFFICES ASSUME IsReverse(new, v)
                 PROVE  IsReverse(old, v)
        OBVIOUS
    <2>1. PICK i \in 1 .. n + 1 : /\ after[i] = v /\ i % 2 = 0
                                  /\ \A j \in 1 .. i - 1 : after[j] # v
        BY <1>1 DEF IsReverse
    <2>2. i # n + 1
        BY <1>1, <1>2, <2>1
    <2>3. i \in 1 .. n /\ \A j \in 1 .. i - 1 : j \in 1 .. n
        BY <1>1, <2>1, <2>2
    <2>4. before[i] = v /\ \A j \in 1 .. i - 1 : before[j] # v
        BY <1>1, <2>1, <2>3
    <2> QED
        BY <1>1, <2>1, <2>3, <2>4 DEF IsReverse
<1>4. IsReverse(old, v) => IsReverse(new, v)
    <2> SUFFICES ASSUME IsReverse(old, v)
                 PROVE  IsReverse(new, v)
        OBVIOUS
    <2>1. PICK i \in 1 .. n : /\ before[i] = v /\ i % 2 = 0
                              /\ \A j \in 1 .. i - 1 : before[j] # v
        BY <1>1 DEF IsReverse
    <2>2. i \in 1 .. n + 1 /\ \A j \in 1 .. i - 1 : j \in 1 .. n
        BY <1>1, <2>1
    <2>3. after[i] = v /\ \A j \in 1 .. i - 1 : after[j] # v
        BY <1>1, <2>1, <2>2
    <2> QED
        BY <1>1, <2>1, <2>2, <2>3 DEF IsReverse
<1>5. IsReverse(new, v) \in BOOLEAN /\ IsReverse(old, v) \in BOOLEAN
    BY DEF IsReverse
<1> QED
    BY <1>3, <1>4, <1>5

\* The validations of the thread are by workers it lists.
Matching(thread) ==
    \A i \in DOMAIN thread.validations :
        LET v == thread.validations[i]
        IN  /\ v.validator \in Range(thread.workers)
            /\ v.isReverse = IsReverse(thread, v.validator)

\* IsReverse looks at nothing but the list of workers.
LEMMA DirectionIsByList ==
    ASSUME NEW old, NEW new, NEW v, new.workers = old.workers
    PROVE  IsReverse(new, v) = IsReverse(old, v)
BY DEF IsReverse

\* A change of one thread keeps its validations matched with its list of workers.
LEMMA KeepsMatching ==
    ASSUME TypeInv, NEW k \in DOMAIN threads, ThreadStep(k), Matching(threads[k])
    PROVE  Matching(threads'[k])
<1> DEFINE old == threads[k]
           new == threads'[k]
<1>1. old.workers \in Seq(Providers) /\ old.validations \in Seq(Validation)
    BY DEF TypeInv, TypeOK, IsThread, Thread
<1>2. CASE new.workers = old.workers /\ new.validations = old.validations
    BY <1>2, DirectionIsByList DEF Matching
<1>3. ASSUME NEW w \in Providers,
             new.workers = Append(old.workers, w), new.validations = old.validations
      PROVE  Matching(new)
    <2>1. Range(new.workers) = Range(old.workers) \cup {w}
        BY <1>1, <1>3, RangeOfAppend
    <2>2. \A v \in Range(old.workers) : IsReverse(new, v) = IsReverse(old, v)
        BY <1>1, <1>3, DirectionStays
    <2> QED
        BY <1>3, <2>1, <2>2 DEF Matching
<1>4. ASSUME NEW w \in Providers, NEW hashes \in Verifications,
             SubmitValidation(w, k, hashes), new.workers = old.workers,
             new.validations = Append(old.validations,
                [validator |-> w, isReverse |-> IsReverse(old, w), hashes |-> hashes])
      PROVE  Matching(new)
    <2> DEFINE validation ==
                   [validator |-> w, isReverse |-> IsReverse(old, w), hashes |-> hashes]
               n == Len(old.validations)
    <2>1. validation \in Validation
        <3>1. IsReverse(old, w) \in BOOLEAN
            BY DEF IsReverse
        <3> QED
            BY <3>1, MessagesAssumption DEF Validation
    <2>2. /\ DOMAIN new.validations = DOMAIN old.validations \cup {n + 1}
          /\ \A i \in DOMAIN old.validations : new.validations[i] = old.validations[i]
          /\ new.validations[n + 1] = validation
        BY <1>1, <1>4, <2>1, AppendProperties, LenProperties
    <2>3. w \in Range(old.workers)
        BY <1>4 DEF SubmitValidation, CanValidate, WorksOn
    <2>4. \A v : IsReverse(new, v) = IsReverse(old, v)
        BY <1>4, DirectionIsByList
    <2> QED
        BY <1>4, <2>2, <2>3, <2>4 DEF Matching
<1> QED
    BY <1>2, <1>3, <1>4, ListsChange

\* The validations of every stored thread match its list of workers.
LEMMA MatchingInvariant == Spec => [](TypeInv /\ ValidationsMatchWorkers)
<1> DEFINE Inv == TypeInv /\ ValidationsMatchWorkers
<1>1. Init => Inv
    BY InitTypeInv DEF Init, ValidationsMatchWorkers
<1>2. Inv /\ [Next]_vars => Inv'
    <2> SUFFICES ASSUME Inv, [Next]_vars
                 PROVE  Inv'
        OBVIOUS
    <2>1. TypeInv'
        BY NextTypeInv
    <2>2. ASSUME NEW k \in DOMAIN threads'
          PROVE  Matching(threads'[k])
        <3>1. CASE k \in DOMAIN threads
            BY <3>1, NextThreadStep, KeepsMatching DEF ValidationsMatchWorkers, Matching
        <3>2. CASE k \notin DOMAIN threads
            BY <3>2, NewThreads DEF NewThread, Matching
        <3> QED
            BY <3>1, <3>2
    <2> QED
        BY <2>1, <2>2 DEF ValidationsMatchWorkers, Matching
<1> QED
    BY <1>1, <1>2, PTL DEF Spec

\* Whoever subscribes later, a validation stays by a listed worker, and records the
\* direction this worker renders in.
THEOREM ValidationsStayMatched == Spec => []ValidationsMatchWorkers
BY MatchingInvariant, PTL

-----------------------------------------------------------------------------
(* Who validates once.                                                     *)
(*                                                                         *)
(* SubmitValidation never looks for an earlier validation.  A worker other *)
(* than the proposer leaves the thread as it validates; it is listed, so   *)
(* it cannot subscribe to the thread again; and no validation is accepted  *)
(* from a worker that is not on the thread.                                *)

ValidatorsOf(thread) ==
    { thread.validations[i].validator : i \in DOMAIN thread.validations }

\* Who has validated a solution of another worker is no longer on its thread.
ValidatorsHaveLeft ==
    \A k \in DOMAIN threads : \A v \in ValidatorsOf(threads[k]) :
        v # threads[k].proposedBy => v \in DOMAIN workers /\ CurrentThread(v) # k

OnceInv ==
    /\ TypeInv
    /\ ValidationsMatchWorkers
    /\ ValidatedThreadHasSolution
    /\ ValidatorsHaveLeft
    /\ OthersValidateOnce

\* How a step moves a worker: it stays, becomes idle, or subscribes.
LEMMA NextMovesWorkers ==
    ASSUME TypeInv, [Next]_vars, NEW v \in DOMAIN workers
    PROVE  /\ v \in DOMAIN workers'
           /\ \/ Stays(v)
              \/ workers'[v].currentTaskId = NoTask
              \/ \E k \in DOMAIN threads : CanSubscribe(v, k) /\ CurrentThread(v)' = k
<1> DEFINE Goal == /\ v \in DOMAIN workers'
                   /\ \/ Stays(v)
                      \/ workers'[v].currentTaskId = NoTask
                      \/ \E k \in DOMAIN threads : CanSubscribe(v, k) /\ CurrentThread(v)' = k
<1>1. CASE workers' = workers
    BY <1>1 DEF Stays
<1>2. ASSUME NEW w \in Providers, NEW stake \in Stakes, AddWorker(w, stake)
      PROVE  Goal
    BY <1>2 DEF AddWorker, Put, Stays
<1>3. ASSUME NEW w \in Providers, NEW k \in DOMAIN threads, SubscribeWorkerToTask(w, k)
      PROVE  Goal
    <2>1. k = << k[1], k[2] >> /\ workers[w] \in Worker /\ w \in DOMAIN workers
        BY <1>3 DEF SubscribeWorkerToTask, CanSubscribe, TypeInv, TypeOK, ThreadKeys
    <2>2. CASE v = w
        <3>1. CurrentThread(v)' = k
            BY <1>3, <2>1, <2>2 DEF SubscribeWorkerToTask, Assigned, CurrentThread, Worker
        <3> QED
            BY <1>3, <2>2, <3>1 DEF SubscribeWorkerToTask
    <2>3. CASE v # w
        BY <1>3, <2>3 DEF SubscribeWorkerToTask, Stays
    <2> QED
        BY <2>2, <2>3
<1>4. ASSUME NEW w \in Providers, NEW k \in DOMAIN threads, NEW hashes \in Verifications,
             SubmitValidation(w, k, hashes)
      PROVE  Goal
    BY <1>4 DEF SubmitValidation, Released, Stays, TypeInv, TypeOK, Worker
<1>5. ASSUME NEW w \in Providers, NEW k \in DOMAIN threads, NEW d \in Dirs,
             SubmitSolution(w, k, d)
      PROVE  Goal
    <2> DEFINE payment == GetWinnerReward(tasks[k[1]].reward.amount, tasks[k[1]].threadAmount)
    <2>1. workers' = [u \in DOMAIN workers |-> AfterSubmission(u, w, k, payment)]
        BY <1>5 DEF SubmitSolution
    <2> HIDE DEF payment
    <2>2. workers[v] \in Worker
        BY DEF TypeInv, TypeOK
    <2>3. /\ Released(workers[v]).currentTaskId = NoTask
          /\ DeclareWinner(workers[v], payment).currentTaskId = NoTask
        BY <2>2 DEF Released, DeclareWinner, Worker
    <2> QED
        BY <2>1, <2>3 DEF AfterSubmission, Stays
<1>6. \/ workers' = workers
      \/ \E w \in Providers, stake \in Stakes : AddWorker(w, stake)
      \/ \E w \in Providers, k \in DOMAIN threads : SubscribeWorkerToTask(w, k)
      \/ \E w \in Providers, k \in DOMAIN threads, hashes \in Verifications :
            SubmitValidation(w, k, hashes)
      \/ \E w \in Providers, k \in DOMAIN threads, d \in Dirs : SubmitSolution(w, k, d)
    BY DEF Next, vars, BeginBlock, EndBlock, CreateVideoUpscalerTask, ProposeSolution,
        RevealSolution
<1> QED
    BY <1>1, <1>2, <1>3, <1>4, <1>5, <1>6

\* A worker that is listed in a thread and not on it does not come back to it.
LEMMA StaysAway ==
    ASSUME TypeInv, TypeInv', [Next]_vars,
           NEW k \in DOMAIN threads, NEW v \in DOMAIN workers,
           v \in Range(threads[k].workers), CurrentThread(v) # k
    PROVE  v \in DOMAIN workers' /\ CurrentThread(v)' # k
<1>1. k[1] # NoTask
    BY DEF TypeInv, TypeOK, ThreadKeys, NoTask
<1>2. CASE Stays(v)
    BY <1>2, NextMovesWorkers DEF Stays, CurrentThread
<1>3. CASE workers'[v].currentTaskId = NoTask
    BY <1>1, <1>3, NextMovesWorkers DEF CurrentThread
<1>4. ASSUME NEW j \in DOMAIN threads, CanSubscribe(v, j), CurrentThread(v)' = j
      PROVE  CurrentThread(v)' # k
    BY <1>4 DEF CanSubscribe
<1> QED
    BY <1>2, <1>3, <1>4, NextMovesWorkers

\* A validation of a worker other than the proposer is its first, and its last act on
\* the thread.
LEMMA ValidateOnceStep ==
    ASSUME OnceInv, NEW w \in Providers, NEW k \in DOMAIN threads,
           NEW hashes \in Verifications, SubmitValidation(w, k, hashes)
    PROVE  w # threads[k].proposedBy =>
            /\ \A i \in DOMAIN threads[k].validations :
                    threads[k].validations[i].validator # w
            /\ w \in DOMAIN workers'
            /\ workers'[w].currentTaskId = NoTask
<1>1. w \in DOMAIN workers /\ CurrentThread(w) = k
    BY DEF SubmitValidation, CanValidate, WorksOn
<1>2. workers[w] \in Worker
    BY <1>1 DEF OnceInv, TypeInv, TypeOK
<1> QED
    BY <1>1, <1>2 DEF OnceInv, ValidatorsHaveLeft, ValidatorsOf, SubmitValidation, Released,
        Worker

\* A step of a thread keeps what is known of its validators: those that are not the
\* proposer have left it and have validated once.
LEMMA KeepsOnce ==
    ASSUME OnceInv, TypeInv', [Next]_vars, NEW k \in DOMAIN threads
    PROVE  /\ \A v \in ValidatorsOf(threads'[k]) :
                v # threads'[k].proposedBy => v \in DOMAIN workers' /\ CurrentThread(v)' # k
           /\ \A i, j \in DOMAIN threads'[k].validations :
                LET vs == threads'[k].validations
                IN  vs[i].validator = vs[j].validator /\ i # j =>
                        vs[i].validator = threads'[k].proposedBy
<1> DEFINE old == threads[k].validations
           new == threads'[k].validations
<1>1. k[1] # NoTask
    BY DEF OnceInv, TypeInv, TypeOK, ThreadKeys, NoTask
<1>2. new # << >> \/ old # << >> => threads'[k].proposedBy = threads[k].proposedBy
    BY NextKeepsSolutions DEF KeepsSolution, OnceInv, ValidatedThreadHasSolution
<1>3. ASSUME NEW v \in ValidatorsOf(threads[k]), v # threads[k].proposedBy
      PROVE  v \in DOMAIN workers' /\ CurrentThread(v)' # k
    <2>1. /\ v \in DOMAIN workers /\ CurrentThread(v) # k
          /\ v \in Range(threads[k].workers)
        BY <1>3 DEF OnceInv, ValidatorsHaveLeft, ValidationsMatchWorkers, ValidatorsOf
    <2> QED
        BY <2>1, StaysAway DEF OnceInv
<1>4. CASE new = old
    <2>1. CASE old = << >>
        BY <1>4, <2>1 DEF ValidatorsOf
    <2>2. CASE old # << >>
        BY <1>2, <1>3, <1>4, <2>2 DEF OnceInv, OthersValidateOnce, ValidatorsOf
    <2> QED
        BY <2>1, <2>2
<1>5. ASSUME NEW w \in Providers, NEW hashes \in Verifications, SubmitValidation(w, k, hashes),
             new = Append(old, [validator |-> w, isReverse |-> IsReverse(threads[k], w),
                                hashes |-> hashes])
      PROVE  /\ \A v \in ValidatorsOf(threads'[k]) :
                v # threads'[k].proposedBy => v \in DOMAIN workers' /\ CurrentThread(v)' # k
             /\ \A i, j \in DOMAIN new : new[i].validator = new[j].validator /\ i # j =>
                    new[i].validator = threads'[k].proposedBy
    <2> DEFINE validation == [validator |-> w, isReverse |-> IsReverse(threads[k], w),
                              hashes |-> hashes]
               n == Len(old)
    <2>1. validation \in Validation /\ validation.validator = w
        <3>1. IsReverse(threads[k], w) \in BOOLEAN
            BY DEF IsReverse
        <3> QED
            BY <3>1, MessagesAssumption DEF Validation
    <2>2. old \in Seq(Validation)
        BY DEF OnceInv, TypeInv, TypeOK, IsThread, Thread
    <2>3. /\ DOMAIN new = DOMAIN old \cup {n + 1}
          /\ \A i \in DOMAIN old : new[i] = old[i]
          /\ new[n + 1].validator = w
          /\ new # << >>
        <3> HIDE DEF validation
        <3>1. new = Append(old, validation)
            BY <1>5 DEF validation
        <3> QED
            BY <2>1, <2>2, <3>1, AppendProperties, LenProperties
    <2>4. threads'[k].proposedBy = threads[k].proposedBy
        BY <1>2, <2>3
    <2>5. w # threads[k].proposedBy =>
            /\ \A i \in DOMAIN old : old[i].validator # w
            /\ w \in DOMAIN workers'
            /\ CurrentThread(w)' # k
        BY <1>1, <1>5, ValidateOnceStep DEF CurrentThread
    <2>6. ASSUME NEW v \in ValidatorsOf(threads'[k]), v # threads'[k].proposedBy
          PROVE  v \in DOMAIN workers' /\ CurrentThread(v)' # k
        <3>1. v \in ValidatorsOf(threads[k]) \/ v = w
            BY <2>3 DEF ValidatorsOf
        <3> QED
            BY <1>3, <2>4, <2>5, <2>6, <3>1
    <2> HIDE DEF old, new
    <2>7. ASSUME NEW i \in DOMAIN new, NEW j \in DOMAIN new,
                 new[i].validator = new[j].validator, i # j
          PROVE  new[i].validator = threads'[k].proposedBy
        <3>1. CASE i \in DOMAIN old /\ j \in DOMAIN old
            <4>1. old[i].validator = threads[k].proposedBy
                BY <2>3, <2>7, <3>1 DEF OnceInv, OthersValidateOnce, old
            <4> QED
                BY <2>3, <2>4, <3>1, <4>1
        <3>2. CASE i = n + 1 \/ j = n + 1
            BY <2>3, <2>4, <2>5, <2>7, <3>2
        <3> QED
            BY <2>3, <3>1, <3>2
    <2> QED
        BY <2>6, <2>7 DEF new
<1>6. TypeInv /\ ThreadStep(k)
    BY NextThreadStep DEF OnceInv
<1> QED
    BY <1>4, <1>5, <1>6, ListsChange

\* However often a validation is sent and its sender moved, only the proposer can have
\* two validations of one thread.
THEOREM OnlyProposersValidateTwice == Spec => []OthersValidateOnce
<1>1. Init => OnceInv
    BY InitTypeInv DEF Init, OnceInv, ValidationsMatchWorkers, ValidatedThreadHasSolution,
        ValidatorsHaveLeft, OthersValidateOnce
<1>2. OnceInv /\ [Next]_vars /\ (TypeInv /\ ValidationsMatchWorkers)'
        /\ ValidatedThreadHasSolution' => OnceInv'
    <2> SUFFICES ASSUME OnceInv, [Next]_vars, (TypeInv /\ ValidationsMatchWorkers)',
                        ValidatedThreadHasSolution'
                 PROVE  OnceInv'
        OBVIOUS
    <2>1. ASSUME NEW k \in DOMAIN threads', k \notin DOMAIN threads
          PROVE  threads'[k].validations = << >>
        BY <2>1, OnlyNewThreadsAppear
    <2>2. ValidatorsHaveLeft'
        <3> SUFFICES ASSUME NEW k \in DOMAIN threads', NEW v \in ValidatorsOf(threads'[k]),
                            v # threads'[k].proposedBy
                     PROVE  v \in DOMAIN workers' /\ CurrentThread(v)' # k
            BY DEF ValidatorsHaveLeft
        <3>1. k \in DOMAIN threads
            BY <2>1 DEF ValidatorsOf
        <3> QED
            BY <3>1, KeepsOnce
    <2>3. OthersValidateOnce'
        <3> SUFFICES ASSUME NEW k \in DOMAIN threads',
                            NEW i \in DOMAIN threads'[k].validations,
                            NEW j \in DOMAIN threads'[k].validations, i # j,
                            threads'[k].validations[i].validator
                                = threads'[k].validations[j].validator
                     PROVE  threads'[k].validations[i].validator = threads'[k].proposedBy
            BY DEF OthersValidateOnce
        <3>1. k \in DOMAIN threads
            BY <2>1
        <3> QED
            BY <3>1, KeepsOnce
    <2> QED
        BY <2>2, <2>3 DEF OnceInv
<1>3. OnceInv => OthersValidateOnce
    BY DEF OnceInv
<1> QED
    BY <1>1, <1>2, <1>3, MatchingInvariant, ValidatedHasSolution, PTL DEF Spec

=============================================================================
