--------------------------- MODULE LifecycleProofs ---------------------------
(***************************************************************************)
(* The module implements the life of a thread, ThreadLifecycle: every      *)
(* message and every block is a step of the abstract specification or      *)
(* leaves the stages of all threads alone.                                 *)
(***************************************************************************)
EXTENDS SolutionProofs

\* The stages of all threads, as FollowsLifecycle defines them.
stages == [k \in DOMAIN threads |-> StageOf(threads[k])]

\* What the simulation rests on: the stages of a thread follow from its fields.
LifeInv ==
    /\ SolutionInv
    /\ Assignments
    /\ \A k \in DOMAIN threads : threads[k].completed => HasSolution(threads[k])

\* The stages a thread shows are consistent in every reachable store.
LEMMA LifeInvariant == Spec => []LifeInv
<1> DEFINE Won == \A k \in DOMAIN threads : threads[k].completed => HasSolution(threads[k])
           Inv == TypeInv /\ Won
<1>1. Init => Inv
    BY InitTypeInv DEF Init
<1>2. Inv /\ [Next]_vars => Inv'
    <2> SUFFICES ASSUME Inv, [Next]_vars
                 PROVE  Inv'
        OBVIOUS
    <2>1. TypeInv'
        BY NextTypeInv
    <2>2. ASSUME NEW k \in DOMAIN threads', threads'[k].completed
          PROVE  HasSolution(threads'[k])
        <3>1. CASE k \notin DOMAIN threads
            BY <2>2, <3>1, NewThreads DEF NewThread
        <3>2. CASE k \in DOMAIN threads
            <4> PICK before \in SUBSET Files : threads[k] \in Thread(before)
                BY <3>2 DEF TypeInv, TypeOK, IsThread
            <4>1. ThreadStep(k) /\ KeepsSolution(k)
                BY <3>2, NextThreadStep, NextKeepsSolutions
            <4>2. threads[k].completed \/ HasSolution(threads[k])
                <5>1. \/ threads'[k].completed = threads[k].completed
                      \/ \E w \in Providers : CanSubmit(w, k)
                    BY <3>2, <4>1, EvaluationKeeps DEF ThreadStep, Subscribed, Proposed, Reveal,
                        Validated, Submitted, Thread
                <5> QED
                    BY <2>2, <5>1, AccountsAssumption DEF CanSubmit, HasSolution, Accounts
            <4> QED
                BY <3>2, <4>1, <4>2 DEF KeepsSolution, HasSolution
        <3> QED
            BY <3>1, <3>2
    <2> QED
        BY <2>1, <2>2
<1>3. SolutionInv /\ (TypeInv /\ Assignments) /\ Inv => LifeInv
    BY DEF LifeInv
<1> QED
    BY <1>1, <1>2, <1>3, SolutionInvariant, AssignmentsInvariant, PTL DEF Spec

-----------------------------------------------------------------------------
(* The steps. *)

\* Stages as records, and what changing one of their fields gives.
LEMMA StageShape ==
    ASSUME NEW thread
    PROVE  StageOf(thread) =
            Lifecycle!Stage(StageOf(thread).name, thread.proposedBy, thread.accepted)
BY DEF StageOf, Lifecycle!Stage

\* Two stages that differ in their name differ by an EXCEPT on it.
LEMMA NameUpdate ==
    ASSUME NEW old, NEW new, NEW name, NEW winner, NEW accepted, NEW x,
           old = Lifecycle!Stage(name, winner, accepted),
           new = Lifecycle!Stage(x, winner, accepted)
    PROVE  new = [old EXCEPT !.name = x]
BY DEF Lifecycle!Stage

\* A stage is determined by the parts of a thread that StageOf reads.
LEMMA SameStage ==
    ASSUME NEW old, NEW new,
           new.completed = old.completed, new.proposedBy = old.proposedBy,
           new.accepted = old.accepted, DOMAIN new.frames = DOMAIN old.frames,
           IsRevealed(new) <=> IsRevealed(old)
    PROVE  StageOf(new) = StageOf(old)
BY DEF StageOf, HasSolution

\* A step that keeps the threads keeps their stages.
LEMMA SameStages ==
    ASSUME DOMAIN threads' = DOMAIN threads,
           \A k \in DOMAIN threads : StageOf(threads'[k]) = StageOf(threads[k])
    PROVE  stages' = stages
BY DEF stages

\* A step that does not write to the threads keeps their stages.
LEMMA SameThreads ==
    ASSUME threads' = threads
    PROVE  stages' = stages
BY SameStages

\* CreateVideoUpscalerTask is the creation of the stages of its threads.
LEMMA CreateSimulates ==
    ASSUME LifeInv, NEW a \in Requesters, NEW input \in FrameInputs, NEW reward \in Rewards,
           CreateVideoUpscalerTask(a, input, reward)
    PROVE  \E new \in SUBSET ((1 .. MaxTasks) \X Threads) : Lifecycle!Create(new)
<1> DEFINE new == { << nextId, i >> : i \in 0 .. input.threads - 1 }
<1>1. /\ input.threads \in Nat \ {0} /\ nextId \in Nat \ {0} /\ nextId <= MaxTasks
      /\ MaxTasks \in Nat
    BY MessagesAssumption, ParamsAssumption
        DEF CreateVideoUpscalerTask, LifeInv, SolutionInv, TypeInv, TypeOK
<1>2. new \in SUBSET ((1 .. MaxTasks) \X Threads)
    <2>1. \A i \in 0 .. input.threads - 1 : i \in Threads
        BY DEF Threads
    <2>2. nextId \in 1 .. MaxTasks
        BY <1>1
    <2> QED
        BY <2>1, <2>2
<1>3. new # {} /\ new \cap DOMAIN threads = {}
    <2>1. << nextId, 0 >> \in new
        BY <1>1
    <2>2. \A k \in DOMAIN threads : k[1] # nextId
        BY <1>1 DEF LifeInv, SolutionInv, TypeInv, TypeOK, StoreShape, ThreadKeys
    <2>3. \A k \in new : k[1] = nextId
        OBVIOUS
    <2>4. new # {}
        BY <2>1
    <2> HIDE DEF new
    <2> QED
        BY <2>2, <2>3, <2>4
<1>4. /\ DOMAIN threads' = DOMAIN threads \cup new
      /\ \A k \in new : \E size : threads'[k] = NewThread(size)
      /\ \A k \in DOMAIN threads : threads'[k] = threads[k]
    <2>1. \A k \in DOMAIN threads : k[1] # nextId
        BY <1>1 DEF LifeInv, SolutionInv, TypeInv, TypeOK, StoreShape, ThreadKeys
    <2> QED
        BY <2>1 DEF CreateVideoUpscalerTask
<1>5. \A size : StageOf(NewThread(size)) = Lifecycle!Stage("open", Nobody, FALSE)
    BY DEF StageOf, NewThread, HasSolution, Lifecycle!Stage
<1>6. stages' = [k \in DOMAIN stages \cup new |->
                    IF k \in new THEN Lifecycle!Stage("open", Nobody, FALSE) ELSE stages[k]]
    BY <1>3, <1>4, <1>5 DEF stages
<1>7. DOMAIN stages = DOMAIN threads
    BY DEF stages
<1>8. Lifecycle!Create(new)
    BY <1>3, <1>6, <1>7 DEF Lifecycle!Create, stages
<1> QED
    BY <1>2, <1>8

\* ProposeSolution proposes, or changes no stage.
LEMMA ProposeSimulates ==
    ASSUME LifeInv, NEW w \in Providers, NEW k \in DOMAIN threads, NEW files \in Proposals,
           ProposeSolution(w, k, files)
    PROVE  Lifecycle!Propose(k, w)
<1> DEFINE old == threads[k]
           new == threads'[k]
<1> PICK before \in SUBSET Files : old \in Thread(before)
    BY DEF LifeInv, SolutionInv, TypeInv, TypeOK, IsThread
<1>1. ~HasSolution(old) /\ ~old.completed /\ ~old.accepted /\ w # Nobody
    BY AccountsAssumption DEF ProposeSolution, CanPropose, LifeInv, SolutionInv,
        AcceptedIsRevealedAndValid, Accounts
<1>2. /\ new.proposedBy = w /\ DOMAIN new.frames = files
      /\ \A f \in files : new.frames[f].hash = NoHash
      /\ new.completed = old.completed /\ new.accepted = old.accepted
    BY DEF ProposeSolution, Thread
<1>3. old.accepted = FALSE /\ old.completed = FALSE
    BY <1>1 DEF Thread
<1>4. StageOf(old).name = "open"
    BY <1>1 DEF StageOf
<1>5. StageOf(new) = Lifecycle!Stage("proposed", w, FALSE)
    <2>1. DOMAIN new.frames # {} => ~IsRevealed(new)
        BY <1>2 DEF IsRevealed
    <2> QED
        BY <1>1, <1>2, <1>3, <2>1 DEF StageOf, HasSolution, Lifecycle!Stage
<1>6. /\ DOMAIN threads' = DOMAIN threads
      /\ \A j \in DOMAIN threads : j # k => threads'[j] = threads[j]
    BY DEF ProposeSolution
<1>7. stages' = [stages EXCEPT ![k] = Lifecycle!Stage("proposed", w, FALSE)]
    BY <1>5, <1>6 DEF stages
<1> QED
    BY <1>4, <1>7 DEF Lifecycle!Propose, stages

\* RevealSolution reveals, or changes no stage.
LEMMA RevealSimulates ==
    ASSUME LifeInv, NEW w \in Providers, NEW k \in DOMAIN threads, NEW entries \in Reveals,
           RevealSolution(w, k, entries)
    PROVE  Lifecycle!Reveal(k) \/ stages' = stages
<1> DEFINE old == threads[k]
           new == threads'[k]
<1> PICK before \in SUBSET Files : old \in Thread(before)
    BY DEF LifeInv, SolutionInv, TypeInv, TypeOK, IsThread
<1>1. HasSolution(old) /\ ~old.completed /\ IsRevealed(new) /\ w # Nobody
    <2>1. old.proposedBy = w /\ w \in DOMAIN workers /\ CurrentThread(w) = k
        BY DEF RevealSolution, CanReveal, WorksOn
    <2>2. IsRevealed(new)
        BY DEF RevealSolution, CanReveal
    <2> QED
        BY <2>1, <2>2, AccountsAssumption DEF HasSolution, Accounts, LifeInv, Assignments,
            CompletedThreadReleasesWorkers
<1>2. /\ new.proposedBy = old.proposedBy /\ DOMAIN new.frames = DOMAIN old.frames
      /\ new.completed = old.completed /\ new.accepted = old.accepted
    BY DEF RevealSolution, Reveal, Thread
<1>3. /\ DOMAIN threads' = DOMAIN threads
      /\ \A j \in DOMAIN threads : j # k => threads'[j] = threads[j]
    BY DEF RevealSolution
<1>4. CASE DOMAIN old.frames = {} \/ IsRevealed(old)
    <2>1. StageOf(new) = StageOf(old)
        BY <1>1, <1>2, <1>4 DEF StageOf, HasSolution
    <2> QED
        BY <1>3, <2>1, SameStages
<1>5. CASE DOMAIN old.frames # {} /\ ~IsRevealed(old)
    <2>1. StageOf(old).name = "proposed"
        BY <1>1, <1>5 DEF StageOf
    <2>2. StageOf(new) = [StageOf(old) EXCEPT !.name = "revealed"]
        BY <1>1, <1>2, <1>5 DEF StageOf, HasSolution
    <2>3. stages' = [stages EXCEPT ![k].name = "revealed"]
        BY <1>3, <2>2 DEF stages
    <2> QED
        BY <2>1, <2>3 DEF Lifecycle!Reveal, stages
<1> QED
    BY <1>4, <1>5

\* SubmitSolution completes a thread that is revealed, or changes no stage.
LEMMA SubmitSimulates ==
    ASSUME LifeInv, NEW w \in Providers, NEW k \in DOMAIN threads, NEW d \in Dirs,
           SubmitSolution(w, k, d)
    PROVE  Lifecycle!Complete(k) \/ stages' = stages
<1> DEFINE old == threads[k]
           new == threads'[k]
<1> PICK before \in SUBSET Files : old \in Thread(before)
    BY DEF LifeInv, SolutionInv, TypeInv, TypeOK, IsThread
<1>1. HasSolution(old)
    BY AccountsAssumption DEF SubmitSolution, CanSubmit, HasSolution, Accounts
<1>2. /\ new.proposedBy = old.proposedBy /\ new.frames = old.frames
      /\ new.completed = TRUE /\ new.accepted = old.accepted
    BY DEF SubmitSolution, Thread
<1>3. /\ DOMAIN threads' = DOMAIN threads
      /\ \A j \in DOMAIN threads : j # k => threads'[j] = threads[j]
    BY DEF SubmitSolution
<1>4. CASE old.completed
    <2>1. StageOf(new) = StageOf(old)
        BY <1>2, <1>4 DEF StageOf
    <2> QED
        BY <1>3, <2>1, SameStages
<1>5. CASE ~old.completed
    <2>1. StageOf(old).name \in {"proposed", "revealed"}
        BY <1>1, <1>5 DEF StageOf
    <2>2. StageOf(new) = [StageOf(old) EXCEPT !.name = "completed"]
        <3>1. StageOf(new).name = "completed"
            BY <1>2 DEF StageOf
        <3>2. StageOf(new) = Lifecycle!Stage("completed", old.proposedBy, old.accepted)
            BY <1>2, <3>1, StageShape
        <3> QED
            BY <3>2, StageShape, NameUpdate
    <2>3. stages' = [stages EXCEPT ![k].name = "completed"]
        BY <1>3, <2>2 DEF stages
    <2> QED
        BY <2>1, <2>3 DEF Lifecycle!Complete, stages
<1> QED
    BY <1>4, <1>5

\* BeginBlock accepts the solutions of the threads it finds accepted, all in one step.
LEMMA BeginBlockSimulates ==
    ASSUME LifeInv, BeginBlock
    PROVE  \E agreed \in SUBSET DOMAIN stages : Lifecycle!Accept(agreed)
<1> DEFINE agreed == { k \in DOMAIN threads : Stored(k) /\ AcceptedNow(k) }
<1>1. DOMAIN stages = DOMAIN threads
    BY DEF stages
<1>2. /\ DOMAIN threads' = DOMAIN threads
      /\ \A k \in DOMAIN threads :
            threads'[k] = IF Stored(k) THEN Evaluated(k) ELSE threads[k]
    BY DEF BeginBlock
<1>3. ASSUME NEW k \in DOMAIN threads, ReadyToEvaluate(threads[k])
      PROVE  /\ StageOf(threads[k]).name = "revealed"
             /\ threads[k].accepted = FALSE
             /\ StageOf(Evaluated(k)) = IF AcceptedNow(k)
                                        THEN Lifecycle!Stage("revealed",
                                                StageOf(threads[k]).winner, TRUE)
                                        ELSE StageOf(threads[k])
    <2>1. IsRevealed(threads[k])
        BY <1>3, EvaluatedIsRevealed DEF LifeInv, SolutionInv, HashesAreWholeOrNone, IsHidden
    <2>2. StageOf(threads[k]).name = "revealed"
        BY <1>3, <2>1 DEF StageOf, ReadyToEvaluate
    <2>3. threads[k].accepted = FALSE
        BY <1>3 DEF ReadyToEvaluate, LifeInv, SolutionInv, TypeInv, TypeOK, IsThread, Thread
    <2>4. /\ Evaluated(k).proposedBy = threads[k].proposedBy
          /\ Evaluated(k).completed = threads[k].completed
          /\ DOMAIN Evaluated(k).frames = DOMAIN threads[k].frames
          /\ \A f \in DOMAIN threads[k].frames :
                Evaluated(k).frames[f].hash = threads[k].frames[f].hash
          /\ Evaluated(k).accepted = AcceptedNow(k)
        BY <1>3, EvaluationKeeps DEF LifeInv, SolutionInv
    <2>5. IsRevealed(Evaluated(k))
        BY <2>1, <2>4 DEF IsRevealed
    <2>6. StageOf(Evaluated(k)).name = "revealed"
        BY <1>3, <2>4, <2>5 DEF StageOf, HasSolution, ReadyToEvaluate
    <2>7. StageOf(threads[k]) = Lifecycle!Stage("revealed", threads[k].proposedBy, FALSE)
        BY <2>2, <2>3, StageShape
    <2>8. CASE AcceptedNow(k)
        <3>1. Evaluated(k).accepted = TRUE
            BY <2>4, <2>8
        <3>2. StageOf(Evaluated(k)) = Lifecycle!Stage("revealed", threads[k].proposedBy, TRUE)
            BY <2>4, <2>6, <3>1, StageShape
        <3>3. StageOf(threads[k]).winner = threads[k].proposedBy
            BY DEF StageOf
        <3> QED
            BY <2>2, <2>3, <2>8, <3>2, <3>3
    <2>9. CASE ~AcceptedNow(k)
        <3>1. Evaluated(k).accepted = FALSE
            BY <2>4, <2>9
        <3>2. StageOf(Evaluated(k)) = Lifecycle!Stage("revealed", threads[k].proposedBy, FALSE)
            BY <2>4, <2>6, <3>1, StageShape
        <3> QED
            BY <2>2, <2>3, <2>7, <2>9, <3>2
    <2> QED
        BY <2>8, <2>9
<1>4. ASSUME NEW k \in DOMAIN threads
      PROVE  StageOf(threads'[k]) = IF k \in agreed
                                    THEN Lifecycle!Stage("revealed",
                                            StageOf(threads[k]).winner, TRUE)
                                    ELSE StageOf(threads[k])
    <2>1. CASE ~Stored(k) \/ ~ReadyToEvaluate(threads[k])
        BY <1>2, <2>1 DEF Evaluated, AcceptedNow
    <2>2. CASE Stored(k) /\ ReadyToEvaluate(threads[k])
        <3>1. threads'[k] = Evaluated(k)
            BY <1>2, <2>2
        <3> QED
            BY <1>3, <2>2, <3>1
    <2> QED
        BY <2>1, <2>2
<1>5. \A k \in agreed : StageOf(threads[k]).name = "revealed" /\ ~StageOf(threads[k]).accepted
    BY <1>3 DEF AcceptedNow, StageOf
<1> HIDE DEF agreed
<1>6. agreed \in SUBSET DOMAIN stages
    BY <1>1 DEF agreed
<1>7. stages' = [k \in DOMAIN stages |->
                    IF k \in agreed THEN Lifecycle!Stage("revealed", stages[k].winner, TRUE)
                    ELSE stages[k]]
    BY <1>1, <1>2, <1>4 DEF stages
<1>8. \A k \in agreed : stages[k].name = "revealed" /\ ~stages[k].accepted
    BY <1>1, <1>5, <1>6 DEF stages
<1>9. Lifecycle!Accept(agreed)
    BY <1>7, <1>8 DEF Lifecycle!Accept, stages
<1> QED
    BY <1>6, <1>9

\* Every step of the module is a step of the life of a thread, or none.
LEMMA NextSimulates == LifeInv /\ [Next]_vars => [Lifecycle!Next]_stages
<1> SUFFICES ASSUME LifeInv, [Next]_vars
             PROVE  Lifecycle!Next \/ stages' = stages
    OBVIOUS
<1>0. DOMAIN stages = DOMAIN threads
    BY DEF stages
<1>1. CASE BeginBlock
    BY <1>1, BeginBlockSimulates DEF Lifecycle!Next, stages
<1>2. CASE EndBlock
    BY <1>2, SameThreads DEF EndBlock
<1>3. ASSUME NEW a \in Requesters, NEW input \in FrameInputs, NEW reward \in Rewards,
             CreateVideoUpscalerTask(a, input, reward)
      PROVE  Lifecycle!Next
    BY <1>3, CreateSimulates DEF Lifecycle!Next
<1>4. ASSUME NEW w \in Providers, NEW stake \in Stakes, AddWorker(w, stake)
      PROVE  stages' = stages
    BY <1>4, SameThreads DEF AddWorker
<1>5. ASSUME NEW w \in Providers, NEW k \in DOMAIN threads, SubscribeWorkerToTask(w, k)
      PROVE  stages' = stages
    <2> PICK before \in SUBSET Files : threads[k] \in Thread(before)
        BY DEF LifeInv, SolutionInv, TypeInv, TypeOK, IsThread
    <2>1. /\ DOMAIN threads' = DOMAIN threads
          /\ \A j \in DOMAIN threads : j # k => threads'[j] = threads[j]
          /\ threads'[k].completed = threads[k].completed
          /\ threads'[k].proposedBy = threads[k].proposedBy
          /\ threads'[k].accepted = threads[k].accepted
          /\ threads'[k].frames = threads[k].frames
        BY <1>5 DEF SubscribeWorkerToTask, Thread
    <2>2. StageOf(threads'[k]) = StageOf(threads[k])
        BY <2>1, SameStage DEF IsRevealed
    <2> QED
        BY <2>1, <2>2, SameStages
<1>6. ASSUME NEW w \in Providers, NEW k \in DOMAIN threads, NEW files \in Proposals,
             ProposeSolution(w, k, files)
      PROVE  Lifecycle!Next
    BY <1>0, <1>6, ProposeSimulates DEF Lifecycle!Next, stages
<1>7. ASSUME NEW w \in Providers, NEW k \in DOMAIN threads, NEW entries \in Reveals,
             RevealSolution(w, k, entries)
      PROVE  Lifecycle!Next \/ stages' = stages
    BY <1>0, <1>7, RevealSimulates DEF Lifecycle!Next, stages
<1>8. ASSUME NEW w \in Providers, NEW k \in DOMAIN threads, NEW hashes \in Verifications,
             SubmitValidation(w, k, hashes)
      PROVE  stages' = stages
    <2> PICK before \in SUBSET Files : threads[k] \in Thread(before)
        BY DEF LifeInv, SolutionInv, TypeInv, TypeOK, IsThread
    <2>1. /\ DOMAIN threads' = DOMAIN threads
          /\ \A j \in DOMAIN threads : j # k => threads'[j] = threads[j]
          /\ threads'[k].completed = threads[k].completed
          /\ threads'[k].proposedBy = threads[k].proposedBy
          /\ threads'[k].accepted = threads[k].accepted
          /\ threads'[k].frames = threads[k].frames
        BY <1>8 DEF SubmitValidation, Thread
    <2>2. StageOf(threads'[k]) = StageOf(threads[k])
        BY <2>1, SameStage DEF IsRevealed
    <2> QED
        BY <2>1, <2>2, SameStages
<1>9. ASSUME NEW w \in Providers, NEW k \in DOMAIN threads, NEW d \in Dirs,
             SubmitSolution(w, k, d)
      PROVE  Lifecycle!Next \/ stages' = stages
    BY <1>0, <1>9, SubmitSimulates DEF Lifecycle!Next, stages
<1>10. CASE UNCHANGED vars
    BY <1>10, SameThreads DEF vars
<1> QED
    BY <1>1, <1>2, <1>3, <1>4, <1>5, <1>6, <1>7, <1>8, <1>9, <1>10 DEF Next

\* No order of messages and blocks takes a thread back, skips its proposal, changes its
\* winner or touches it when it is completed: the module implements ThreadLifecycle.
THEOREM ImplementsLifecycle == Spec => FollowsLifecycle
<1>1. Init => Lifecycle!Init
    BY DEF Init, Lifecycle!Init
<1>2. LifeInv /\ [Next]_vars => [Lifecycle!Next]_[k \in DOMAIN threads |-> StageOf(threads[k])]
    BY NextSimulates DEF stages
<1> QED
    BY <1>1, <1>2, LifeInvariant, PTL DEF Spec, FollowsLifecycle, Lifecycle!Spec

=============================================================================
